------------------------------- MODULE MList -------------------------------
(***************************************************************************)
(* The intrusive lists of include/m_list.h.  A node of the double linked   *)
(* list embeds two pointers; a list is a ring closed by a head node that   *)
(* carries no value.  The links of all nodes are one record of two         *)
(* functions,                                                              *)
(*                                                                         *)
(*     l = [prev |-> [Node -> Node], next |-> [Node -> Node]]              *)
(*                                                                         *)
(* and each operation returns the links it leaves behind.                  *)
(***************************************************************************)

\* m_list_init: an empty list is a head that points to itself.  The links of
\* every other node are not initialised; they are given the value u.
m_list_init(Node, head, u) ==
  LET links == [n \in Node |-> IF n = head THEN head ELSE u]
  IN  [prev |-> links, next |-> links]

\* Mutant: head->prev is written before it is used to reach the old tail.
m_list_append_early_head(l, head, node) ==
  [prev |-> [l.prev EXCEPT ![node] = l.prev[head], ![head] = node],
   next |-> [l.next EXCEPT ![node] = head]]

\* m_list_append: head->prev->next is written before head->prev, so that the
\* old tail (the head itself when the list is empty) is the one relinked.
m_list_append(l, head, node) ==
  LET tail == l.prev[head]
  IN  [prev |-> [l.prev EXCEPT ![node] = tail, ![head] = node],
       next |-> [l.next EXCEPT ![node] = head, ![tail] = node]]

\* Mutant: head->next is written before it is used to reach the old first node.
m_list_prepend_early_head(l, head, node) ==
  [prev |-> [l.prev EXCEPT ![node] = head],
   next |-> [l.next EXCEPT ![node] = l.next[head], ![head] = node]]

\* m_list_prepend: the mirror image, through the old first node.
m_list_prepend(l, head, node) ==
  LET first == l.next[head]
  IN  [prev |-> [l.prev EXCEPT ![node] = head, ![first] = node],
       next |-> [l.next EXCEPT ![node] = first, ![head] = node]]

m_list_empty(l, head) == l.next[head] = head

\* m_list_remove: the neighbours are joined; the removed node keeps its own
\* pointers, which is what a traversal standing on it will follow.
m_list_remove(l, node) ==
  [prev |-> [l.prev EXCEPT ![l.next[node]] = l.prev[node]],
   next |-> [l.next EXCEPT ![l.prev[node]] = l.next[node]]]

(***************************************************************************)
(* The single linked list: one function s from a node (or head) to the     *)
(* next node, null at the end.                                             *)
(***************************************************************************)
m_slist_empty(s, head, null) == s[head] = null

\* m_slist_push: the node in front of the one the head referred to.
m_slist_push(s, head, node) == [s EXCEPT ![node] = s[head], ![head] = node]

\* m_slist_pop: the links it leaves; the node popped is s[head].  An empty
\* list is left alone.
m_slist_pop(s, head, null) ==
  IF s[head] = null THEN s ELSE [s EXCEPT ![head] = s[s[head]]]

(***************************************************************************)
(* The nodes of S and the head form rings: following next and prev stays   *)
(* inside and the two directions are inverse to each other.                *)
(***************************************************************************)
Linked(l, S) ==
  \A n \in S :
    /\ l.next[n] \in S /\ l.prev[n] \in S
    /\ l.prev[l.next[n]] = n
    /\ l.next[l.prev[n]] = n
=============================================================================
