----------------------------- MODULE HashTable -----------------------------
(***************************************************************************)
(* A client of the hash table of include/m_hash.h that follows the comment *)
(* of m_hash_insert (look the key up, resize, insert) and removes nodes    *)
(* while it traverses the table with m_hash_foreach_safe or                *)
(* m_hash_foreach_prev.                                                    *)
(***************************************************************************)
EXTENDS MHash, FiniteSets

CONSTANTS
  Node,      \* nodes the client owns
  KeyOf,     \* the key of each node
  Null

ASSUME TableAssumption ==
  /\ KeyOf \in [Node -> Nat]
  /\ Null \notin Node

VARIABLES
  hash,
  loop,      \* the traversal that is running, "none" if none
  pos,       \* its list index, from 1
  node,      \* foreach_safe: the current node ...
  next,      \* ... and the one saved before the loop body
  pnode,     \* foreach_prev: the index in the list of the field pnode points to
  expected,  \* nodes in the table when the traversal started
  visited    \* the nodes the loop body has seen, in order

loopVars == <<loop, pos, node, next, pnode, expected, visited>>
vars == <<hash, loopVars>>

Key(n) == KeyOf[n]
Lookup(k) == m_hash_lookup(hash, KeyOf, k)
NodeAt(place) == hash.lists[place.pos][place.i]

\* m_hash_lookup, m_hash_resize when the client calls it (it must while the
\* table has no list), then m_hash_insert_with_kv.  When the resize gets no
\* memory the client gives up and nothing has changed.
insert(n, resize) ==
  /\ loop = "none" /\ Lookup(Key(n)) = {}
  /\ ~resize => nlist(hash) # 0
  /\ LET h == IF resize THEN m_hash_resize(hash, KeyOf) ELSE hash
     IN  hash' = m_hash_insert_with_kv(h, n, Key(n))
  /\ UNCHANGED loopVars

\* m_hash_remove, or m_hash_lookup_with_prev and m_hash_remove_from_prev.
remove(k) ==
  /\ loop = "none"
  /\ \E place \in Lookup(k) : hash' = m_hash_remove_from_prev(hash, place)
  /\ UNCHANGED loopVars

\* m_hash_deinit frees every node and the buffer; the client starts again
\* with m_hash_init.
m_hash_deinit ==
  /\ loop = "none" /\ nlist(hash) # 0
  /\ hash' = m_hash_init
  /\ UNCHANGED loopVars
-----------------------------------------------------------------------------
(***************************************************************************)
(* for (pos = 0; pos < nlist; pos ++) around a list traversal.             *)
(***************************************************************************)
First(p) == IF hash.lists[p] = <<>> THEN Null ELSE hash.lists[p][1]

\* nnext = node ? node->next : NULL, for a node of list l.
SavedNext(l, n) ==
  LET i == SelectInSeq(l, LAMBDA m : m = n)
  IN  IF n = Null \/ i = Len(l) THEN Null ELSE l[i + 1]

foreach_begin(kind) ==
  /\ loop = "none" /\ nlist(hash) # 0
  /\ loop' = kind /\ pos' = 1
  /\ node' = First(1) /\ next' = SavedNext(hash.lists[1], First(1)) /\ pnode' = 1
  /\ expected' = Nodes(hash) /\ visited' = <<>>
  /\ UNCHANGED hash

\* The end of a list: on to the next one, or out of the loop.
foreach_list_end ==
  /\ \/ loop = "safe" /\ node = Null
     \/ loop = "prev" /\ pnode > Len(hash.lists[pos])
  /\ IF pos < nlist(hash)
       THEN /\ pos' = pos + 1 /\ pnode' = 1
            /\ node' = First(pos') /\ next' = SavedNext(hash.lists[pos'], node')
            /\ UNCHANGED loop
       ELSE loop' = "done" /\ UNCHANGED <<pos, node, next, pnode>>
  /\ UNCHANGED <<hash, expected, visited>>

\* The body, which may remove the current node, and the step to the node that
\* was saved before.
m_hash_foreach_safe(removes) ==
  /\ loop = "safe" /\ node # Null
  /\ visited' = Append(visited, node)
  /\ IF removes THEN \E place \in Lookup(Key(node)) : hash' = m_hash_remove_from_prev(hash, place)
                ELSE UNCHANGED hash
  /\ node' = next
  /\ next' = SavedNext(hash'.lists[pos], next)
  /\ UNCHANGED <<loop, pos, pnode, expected>>

\* Mutant: the pointer advances past the node that took the place of the
\* removed one.
PnodeAfterAlways(cur, h) == pnode + 1

\* pnode = (*pnode == node) ? &node->next : pnode.
PnodeAfter(cur, h) ==
  IF pnode <= Len(h.lists[pos]) /\ h.lists[pos][pnode] = cur THEN pnode + 1 ELSE pnode

m_hash_foreach_prev(removes) ==
  /\ loop = "prev" /\ pnode <= Len(hash.lists[pos])
  /\ LET cur == hash.lists[pos][pnode]
     IN  /\ visited' = Append(visited, cur)
         /\ hash' = IF removes THEN m_hash_remove_from_prev(hash, [pos |-> pos, i |-> pnode])
                               ELSE hash
         /\ pnode' = PnodeAfter(cur, hash')
  /\ UNCHANGED <<loop, pos, node, next, expected>>

\* The traversal's variables go out of scope.
foreach_end ==
  /\ loop = "done"
  /\ loop' = "none" /\ pos' = 0 /\ node' = Null /\ next' = Null /\ pnode' = 0
  /\ expected' = {} /\ visited' = <<>>
  /\ UNCHANGED hash
-----------------------------------------------------------------------------
Init ==
  /\ hash = m_hash_init
  /\ loop = "none" /\ pos = 0 /\ node = Null /\ next = Null /\ pnode = 0
  /\ expected = {} /\ visited = <<>>

Next ==
  \/ \E n \in Node \ Nodes(hash), resize \in BOOLEAN : insert(n, resize)
  \/ \E k \in {KeyOf[n] : n \in Node} : remove(k)
  \/ m_hash_deinit
  \/ \E kind \in {"safe", "prev"} : foreach_begin(kind)
  \/ foreach_list_end \/ foreach_end
  \/ \E removes \in BOOLEAN : m_hash_foreach_safe(removes) \/ m_hash_foreach_prev(removes)

Spec == Init /\ [][Next]_vars
-----------------------------------------------------------------------------
\* The count is the number of nodes, and no node is in two places.
SizeExact ==
  /\ hash.size = Len(FlattenSeq(hash.lists))
  /\ hash.size = Cardinality(Nodes(hash))

\* A node in the table is found by its key, and by no other: inserts, removes
\* and the rehash of a growing table agree on the list of a key.
FoundByKey ==
  \A n \in Node :
    IF n \in Nodes(hash)
      THEN {NodeAt(place) : place \in Lookup(Key(n))} = {n}
      ELSE \A place \in Lookup(Key(n)) : NodeAt(place) # n /\ Key(NodeAt(place)) = Key(n)

\* A traversal shows the loop body every node that was in the table when it
\* began, each once, although the body removes nodes on the way.
TraversalComplete ==
  loop = "done" => ToSet(visited) = expected /\ Len(visited) = Cardinality(expected)

\* The table is a set of nodes with unique keys: an insert adds its node and a
\* remove takes one away, whatever the resize in between did.
Content == INSTANCE KeyedSet WITH content <- Nodes(hash)
ImplementsKeyedSet == Content!Spec
=============================================================================
