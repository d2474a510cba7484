------------------------------- MODULE Lists -------------------------------
(***************************************************************************)
(* A client of include/m_list.h: one double linked list, one single linked *)
(* list, and the loops that free nodes while they traverse them.  The body *)
(* of a m_list_foreach_safe loop may remove and free its node; a           *)
(* m_slist_foreach_safe loop is used as gc_sweep uses it: the head is      *)
(* copied and emptied, and the body frees each node or pushes it back.     *)
(*                                                                         *)
(* The links of a node that was never linked, or was freed, are Junk.      *)
(***************************************************************************)
EXTENDS Naturals, FiniteSets, SequencesExt, MList

CONSTANTS
  ListNode,
  DHead,      \* head of the double linked list
  SHead,      \* head of the single linked list
  Copy,       \* gc_sweep's local copy of SHead
  NULL,
  Junk        \* what freed memory holds

ASSUME ListsAssumption ==
  /\ IsFiniteSet(ListNode)
  /\ DHead \notin {SHead, Copy, NULL, Junk} /\ SHead \notin {Copy, NULL, Junk}
  /\ Copy \notin {NULL, Junk} /\ NULL # Junk
  /\ ListNode \cap {DHead, SHead, Copy, NULL, Junk} = {}

VARIABLES
  list, slist,      \* the links of the two kinds of list
  l_loop,           \* "none", "safe", "safe_r" or "slist": the loop that runs
  l_node, l_saved,  \* its node and nnext (nprev)
  l_expected,       \* the order in which the loop must see the nodes
  l_visited,        \* the order in which it does
  dref, sref        \* the sequences the two lists stand for

listLoopVars == <<l_loop, l_node, l_saved, l_expected, l_visited>>
listVars == <<list, slist, listLoopVars, dref, sref>>

Used == ToSet(dref) \cup ToSet(sref) \cup ToSet(l_expected)
-----------------------------------------------------------------------------
\* m_list_foreach, m_list_foreach_r and m_slist_foreach: the nodes met from the
\* head on, following link until stop; at most one more than there are nodes.
foreach(link, head, stop) ==
  LET at[i \in 1 .. Cardinality(ListNode) + 1] ==
        IF i = 1 THEN link[head]
        ELSE IF at[i - 1] = stop THEN stop ELSE link[at[i - 1]]
      last == SelectInSeq(at, LAMBDA n : n = stop)
  IN  IF last = 0 THEN at ELSE SubSeq(at, 1, last - 1)

\* free(): the memory is somebody else's.
FreeNode(l, n) == [prev |-> [l.prev EXCEPT ![n] = Junk], next |-> [l.next EXCEPT ![n] = Junk]]

append(n) ==
  /\ l_loop = "none"
  /\ list' = m_list_append(list, DHead, n)
  /\ dref' = Append(dref, n)
  /\ UNCHANGED <<slist, sref, listLoopVars>>

prepend(n) ==
  /\ l_loop = "none"
  /\ list' = m_list_prepend(list, DHead, n)
  /\ dref' = Cons(n, dref)
  /\ UNCHANGED <<slist, sref, listLoopVars>>

list_remove(n) ==
  /\ l_loop = "none" /\ n \in ToSet(dref)
  /\ list' = FreeNode(m_list_remove(list, n), n)
  /\ dref' = RemoveFirst(dref, n)
  /\ UNCHANGED <<slist, sref, listLoopVars>>

push(n) ==
  /\ l_loop = "none"
  /\ slist' = m_slist_push(slist, SHead, n)
  /\ sref' = Cons(n, sref)
  /\ UNCHANGED <<list, dref, listLoopVars>>

\* m_slist_pop returns the head's node, NULL when there is none; the client
\* frees it.
pop ==
  /\ l_loop = "none"
  /\ LET popped == slist[SHead]
         links  == m_slist_pop(slist, SHead, NULL)
     IN  slist' = IF popped = NULL THEN links ELSE [links EXCEPT ![popped] = Junk]
  /\ sref' = IF sref = <<>> THEN sref ELSE Tail(sref)
  /\ UNCHANGED <<list, dref, listLoopVars>>
-----------------------------------------------------------------------------
\* Both directions of the double linked list, for the loops.
Link(l, kind) == IF kind = "safe" THEN l.next ELSE l.prev

foreach_safe_begin(kind) ==
  /\ l_loop = "none" /\ ~m_list_empty(list, DHead)
  /\ l_loop' = kind
  /\ l_node' = Link(list, kind)[DHead] /\ l_saved' = Link(list, kind)[l_node']
  /\ l_expected' = IF kind = "safe" THEN dref ELSE Reverse(dref)
  /\ l_visited' = <<>>
  /\ UNCHANGED <<list, slist, dref, sref>>

\* Mutant: the next pointer is read from the node after the loop body.
AfterBodyReread(links) == links[l_node]

\* node = nnext: the pointer saved before the loop body.
AfterBody(links) == l_saved

\* One iteration of m_list_foreach_safe or m_list_foreach_safe_r.
m_list_foreach_safe(frees) ==
  /\ l_loop \in {"safe", "safe_r"} /\ l_node # DHead
  /\ l_visited' = Append(l_visited, l_node)
  /\ list' = IF frees THEN FreeNode(m_list_remove(list, l_node), l_node) ELSE list
  /\ dref' = IF frees THEN RemoveFirst(dref, l_node) ELSE dref
  /\ l_node' = AfterBody(Link(list', l_loop))
  /\ l_saved' = Link(list', l_loop)[l_node']
  /\ UNCHANGED <<slist, sref, l_loop, l_expected>>

\* gc_sweep: the list is moved to a local head before the loop.
slist_foreach_begin ==
  /\ l_loop = "none" /\ ~m_slist_empty(slist, SHead, NULL)
  /\ l_loop' = "slist"
  /\ slist' = [slist EXCEPT ![Copy] = slist[SHead], ![SHead] = NULL]
  /\ l_node' = slist'[Copy] /\ l_saved' = slist'[l_node']
  /\ l_expected' = sref /\ l_visited' = <<>> /\ sref' = <<>>
  /\ UNCHANGED <<list, dref>>

\* One iteration of m_slist_foreach_safe; the node goes back on the list, which
\* overwrites its link, or is freed.
m_slist_foreach_safe(frees) ==
  /\ l_loop = "slist" /\ l_node # NULL
  /\ l_visited' = Append(l_visited, l_node)
  /\ slist' = IF frees THEN [slist EXCEPT ![l_node] = Junk] ELSE m_slist_push(slist, SHead, l_node)
  /\ sref' = IF frees THEN sref ELSE Cons(l_node, sref)
  /\ l_node' = AfterBody(slist')
  /\ l_saved' = IF l_node' = NULL THEN NULL ELSE slist'[l_node']
  /\ UNCHANGED <<list, dref, l_loop, l_expected>>

AtEnd == l_node = IF l_loop = "slist" THEN NULL ELSE DHead

list_foreach_end ==
  /\ l_loop # "none" /\ AtEnd
  /\ l_loop' = "none" /\ l_node' = NULL /\ l_saved' = NULL /\ l_expected' = <<>> /\ l_visited' = <<>>
  /\ slist' = [slist EXCEPT ![Copy] = NULL]
  /\ UNCHANGED <<list, dref, sref>>
-----------------------------------------------------------------------------
\* m_list_init and m_slist_init.
ListInit ==
  /\ list = m_list_init(ListNode \cup {DHead, Junk}, DHead, Junk)
  /\ slist = [n \in ListNode \cup {SHead, Copy, Junk} |-> IF n \in {SHead, Copy} THEN NULL ELSE Junk]
  /\ l_loop = "none" /\ l_node = NULL /\ l_saved = NULL /\ l_expected = <<>> /\ l_visited = <<>>
  /\ dref = <<>> /\ sref = <<>>

ListNext ==
  \/ \E n \in ListNode \ Used : append(n) \/ prepend(n) \/ push(n)
  \/ \E n \in ListNode : list_remove(n)
  \/ pop
  \/ \E kind \in {"safe", "safe_r"} : foreach_safe_begin(kind)
  \/ slist_foreach_begin
  \/ \E frees \in BOOLEAN : m_list_foreach_safe(frees) \/ m_slist_foreach_safe(frees)
  \/ list_foreach_end

ListSpec == ListInit /\ [][ListNext]_listVars
-----------------------------------------------------------------------------
\* The double linked list is the same sequence read from either end, and the
\* single linked list its sequence, after any mixture of appends, prepends,
\* pushes, pops and removals from inside a loop.
ListIsSequence ==
  /\ foreach(list.next, DHead, DHead) = dref
  /\ foreach(list.prev, DHead, DHead) = Reverse(dref)
  /\ foreach(slist, SHead, NULL) = sref

\* A safe loop sees every node there was, once and in order, and never a freed
\* one, although its body frees nodes or moves them to another list.
ListTraversalOrdered ==
  l_loop # "none" =>
    /\ IsPrefix(l_visited, l_expected)
    /\ AtEnd => l_visited = l_expected
=============================================================================
