------------------------------- MODULE MHash -------------------------------
(***************************************************************************)
(* The hash table of include/m_hash.h.  A table is a record                *)
(*                                                                         *)
(*     h = [lists |-> <<list of pos 0, list of pos 1, ...>>, size |-> n]   *)
(*                                                                         *)
(* whose lists hold nodes; nlist is the length of h.lists.  A key is a     *)
(* natural number and its key value the number itself (m_int_hash_kv_func, *)
(* m_ptr_hash_kv_func); get_key, the one callback the clients differ in,   *)
(* is the parameter key.  A pointer to the field that refers to a node (the*)
(* pprev of m_hash_lookup_with_prev) is the place of the node, [pos, i].   *)
(***************************************************************************)
EXTENDS Naturals, SequencesExt

CONSTANTS
  MinLists   \* lists of the first buffer, 9 in the code

ASSUME HashAssumption == MinLists \in Nat \ {0}

m_hash_init == [lists |-> <<>>, size |-> 0]

nlist(h) == Len(h.lists)
Pos(h, k) == (k % nlist(h)) + 1
Nodes(h) == ToSet(FlattenSeq(h.lists))

\* m_hash_lookup_with_kv, m_hash_lookup_with_prev: the first node of the
\* key's list with that key, as its place; the empty set when there is none.
m_hash_lookup(h, key, k) ==
  IF h.size = 0 THEN {}
  ELSE LET pos == Pos(h, k)
           i   == SelectInSeq(h.lists[pos], LAMBDA n : key[n] = k)
       IN  IF i = 0 THEN {} ELSE {[pos |-> pos, i |-> i]}

\* Mutant: the node goes to the end of the table's first list.
m_hash_insert_first_list(h, n, k) ==
  [h EXCEPT !.lists[1] = Append(@, n), !.size = @ + 1]

m_hash_insert_with_kv(h, n, k) ==
  [h EXCEPT !.lists[Pos(h, k)] = Cons(n, @), !.size = @ + 1]

\* Mutant: the node is unlinked, the count is kept.
m_hash_remove_from_prev_uncounted(h, place) ==
  [h EXCEPT !.lists[place.pos] = RemoveAt(@, place.i)]

\* m_hash_remove_from_prev, and m_hash_remove once it has found its node.
m_hash_remove_from_prev(h, place) ==
  [h EXCEPT !.lists[place.pos] = RemoveAt(@, place.i), !.size = @ - 1]

\* Mutant: a table that grows is not rehashed, its lists are copied.
m_hash_resize_copy(h, key) ==
  IF nlist(h) * 3 > h.size THEN h
  ELSE [h EXCEPT !.lists = [pos \in 1 .. (IF h.size > MinLists THEN h.size ELSE MinLists) |->
                              IF pos <= nlist(h) THEN h.lists[pos] ELSE <<>>]]

\* The lists of a new buffer when every node of a sequence has been pushed on
\* the list its key selects.
Rehashed(nodes, key, nsize) ==
  LET lists[i \in 0 .. Len(nodes)] ==
        IF i = 0 THEN [pos \in 1 .. nsize |-> <<>>]
        ELSE [lists[i - 1] EXCEPT ![(key[nodes[i]] % nsize) + 1] = Cons(nodes[i], @)]
  IN  lists[Len(nodes)]

\* Mutant: a list is left after its first node, whose next has been written.
m_hash_resize_first_only(h, key) ==
  IF nlist(h) * 3 > h.size THEN h
  ELSE LET nsize == IF h.size > MinLists THEN h.size ELSE MinLists
           firsts == [i \in DOMAIN h.lists |-> SubSeq(h.lists[i], 1, 1)]
       IN  [h EXCEPT !.lists = Rehashed(FlattenSeq(firsts), key, nsize)]

\* m_hash_resize: the nodes move to the new buffer list after list.
m_hash_resize(h, key) ==
  IF nlist(h) * 3 > h.size THEN h
  ELSE LET nsize == IF h.size > MinLists THEN h.size ELSE MinLists
       IN  [h EXCEPT !.lists = Rehashed(FlattenSeq(h.lists), key, nsize)]
=============================================================================
