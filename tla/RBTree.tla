------------------------------- MODULE RBTree -------------------------------
(***************************************************************************)
(* The red black tree of include/m_rbtree.h.  The links and colours of all *)
(* nodes are one record, which the rotations transform; the two rebalance  *)
(* loops (m_rbt_insert, m_rbt_remove_rebalance) take one step for each     *)
(* iteration, between which the tree is in disorder.  The client inserts   *)
(* what m_rbt_lookup_insert does not find, removes nodes, and removes the  *)
(* current node of a m_rbt_foreach_safe or m_rbt_foreach_safe_r loop.      *)
(***************************************************************************)
EXTENDS Integers, Sequences, FiniteSets

CONSTANTS
  TreeNode,  \* nodes, each its own key: cmp is the order of integers
  Nil,
  Loops      \* directions the client traverses the tree in: "next", "prev"

ASSUME TreeAssumption ==
  /\ TreeNode \subseteq Int /\ IsFiniteSet(TreeNode)
  /\ Nil \notin TreeNode
  /\ Loops \subseteq {"next", "prev"}

VARIABLES
  tree,      \* [root, left, right, parent, red]: red is the set of red nodes
  op,        \* the call that is running: "idle", "insert", "rebalance", "unlink"
  cur,       \* node of the rebalance loops
  rm,        \* locals of m_rbt_remove
  t_loop,    \* direction of the running traversal, "none" if none
  t_pos,     \* its current node
  t_expected, t_visited

treeLoopVars == <<t_loop, t_pos, t_expected, t_visited>>
treeVars == <<tree, op, cur, rm, treeLoopVars>>

NoLinks == [n \in TreeNode |-> Nil]
m_rbt_init == [root |-> Nil, left |-> NoLinks, right |-> NoLinks, parent |-> NoLinks, red |-> {}]
-----------------------------------------------------------------------------
(***************************************************************************)
(* Walks over the tree.  No path of a tree is longer than Steps.           *)
(***************************************************************************)
Steps == Cardinality(TreeNode)

\* The last node of a loop that follows link as long as it is not Nil.
Follow(link) == [m \in TreeNode |-> IF link[m] = Nil THEN m ELSE link[m]]
EndOf(link, n) ==
  LET at[i \in 0 .. Steps] == IF i = 0 THEN n ELSE Follow(link)[at[i - 1]]
  IN  at[Steps]

\* The loops of m_rbt_first_node and m_rbt_last_node.
Leftmost(t, n) == IF n = Nil THEN Nil ELSE EndOf(t.left, n)
Rightmost(t, n) == IF n = Nil THEN Nil ELSE EndOf(t.right, n)

\* The loops that climb: to the first ancestor reached from its left (right)
\* child, of which side is the left (right) links.
Climb(t, side) ==
  [c \in TreeNode |->
     IF t.parent[c] = Nil \/ side[t.parent[c]] = c THEN Nil ELSE t.parent[c]]
UpFromLeft(t, n) == t.parent[EndOf(Climb(t, t.left), n)]
UpFromRight(t, n) == t.parent[EndOf(Climb(t, t.right), n)]

m_rbt_next_node(t, n) ==
  IF n = Nil THEN Nil
  ELSE IF t.right[n] # Nil THEN Leftmost(t, t.right[n]) ELSE UpFromLeft(t, n)
m_rbt_prev_node(t, n) ==
  IF n = Nil THEN Nil
  ELSE IF t.left[n] # Nil THEN Rightmost(t, t.left[n]) ELSE UpFromRight(t, n)

\* m_rbt_lookup and m_rbt_lookup_insert: the node with key k, or the node
\* below which it is missing.
Towards(t, k) ==
  [n \in TreeNode |-> IF k = n THEN Nil ELSE IF k < n THEN t.left[n] ELSE t.right[n]]
m_rbt_lookup_insert(t, k) ==
  LET last == IF t.root = Nil THEN Nil ELSE EndOf(Towards(t, k), t.root)
  IN  [node |-> IF last = k THEN k ELSE Nil, parent |-> last]

\* The nodes below n and n itself.
Subtree(t, n) ==
  LET below[i \in 0 .. Steps] ==
        IF i = 0 THEN {n} \ {Nil}
        ELSE UNION {{m, t.left[m], t.right[m]} \ {Nil} : m \in below[i - 1]}
  IN  below[Steps]
TreeNodes(t) == Subtree(t, t.root)
-----------------------------------------------------------------------------
m_rbt_sibling(t, n) ==
  LET p == t.parent[n] IN IF t.left[p] = n THEN t.right[p] ELSE t.left[p]

Black(t, S) == [t EXCEPT !.red = @ \ S]
Red(t, S) == [t EXCEPT !.red = @ \cup S]

SetParent(t, n, p) == IF n = Nil THEN t ELSE [t EXCEPT !.parent[n] = p]

\* y takes the place of x below p, or as the root.
SetChild(t, p, x, y) ==
  IF p = Nil THEN [t EXCEPT !.root = y]
  ELSE IF t.left[p] = x THEN [t EXCEPT !.left[p] = y] ELSE [t EXCEPT !.right[p] = y]

m_rbt_rotate_left(t, x) ==
  LET y == t.right[x]  child == t.left[y]  p == t.parent[x]
      t1 == SetChild([t EXCEPT !.right[x] = child, !.left[y] = x], p, x, y)
  IN  SetParent(SetParent(SetParent(t1, child, x), x, y), y, p)

m_rbt_rotate_right(t, x) ==
  LET y == t.left[x]  child == t.right[y]  p == t.parent[x]
      t1 == SetChild([t EXCEPT !.left[x] = child, !.right[y] = x], p, x, y)
  IN  SetParent(SetParent(SetParent(t1, child, x), x, y), y, p)
-----------------------------------------------------------------------------
(***************************************************************************)
(* m_rbt_insert.                                                           *)
(***************************************************************************)

\* The new node is linked, red, where the lookup ended.
m_rbt_insert(n) ==
  /\ op = "idle" /\ t_loop = "none"
  /\ LET place == m_rbt_lookup_insert(tree, n)
         p == place.parent
         t == [tree EXCEPT !.left[n] = Nil, !.right[n] = Nil]
     IN  /\ place.node = Nil
         /\ tree' = Red(SetParent(IF p = Nil THEN [t EXCEPT !.root = n]
                                  ELSE IF n < p THEN [t EXCEPT !.left[p] = n]
                                  ELSE [t EXCEPT !.right[p] = n], n, p), {n})
  /\ op' = "insert" /\ cur' = n
  /\ UNCHANGED <<rm, treeLoopVars>>

\* The last case of the loop: rotate an inner node outwards, then its new
\* parent over the grandparent.
InsertRotate(t, n) ==
  LET p == t.parent[n]  g == t.parent[p]  u == m_rbt_sibling(t, p)
      inL == u = t.right[g] /\ n = t.right[p]
      inR == ~inL /\ u = t.left[g] /\ n = t.left[p]
      t1 == IF inL THEN m_rbt_rotate_left(t, p)
            ELSE IF inR THEN m_rbt_rotate_right(t, p) ELSE t
      t2 == Red(Black(t1, {IF inL \/ inR THEN n ELSE p}), {g})
  IN  IF u = t2.right[g] THEN m_rbt_rotate_right(t2, g) ELSE m_rbt_rotate_left(t2, g)

\* One iteration of the loop.
insert_rebalance ==
  /\ op = "insert"
  /\ LET p == tree.parent[cur]
         g == tree.parent[p]
         u == m_rbt_sibling(tree, p)
     IN \/ /\ p = Nil
           /\ tree' = Black(tree, {cur}) /\ op' = "idle" /\ cur' = Nil
        \/ /\ p # Nil /\ p \notin tree.red
           /\ op' = "idle" /\ cur' = Nil /\ UNCHANGED tree
        \/ /\ p \in tree.red /\ u \in tree.red
           /\ tree' = Red(Black(tree, {p, u}), {g})
           /\ cur' = g /\ UNCHANGED op
        \/ /\ p \in tree.red /\ u \notin tree.red
           /\ tree' = InsertRotate(tree, cur) /\ op' = "idle" /\ cur' = Nil
  /\ UNCHANGED <<rm, treeLoopVars>>
-----------------------------------------------------------------------------
(***************************************************************************)
(* m_rbt_remove.                                                           *)
(***************************************************************************)

\* The node that leaves its place: n itself or, if n has two children, its
\* predecessor (succ in the code), whose only child can be the left one.
\* parent and is_left say which field will lose it, and are not read again
\* after the rebalance.
RemoveLocals(t, n) ==
  IF t.left[n] # Nil /\ t.right[n] # Nil
    THEN LET s == Rightmost(t, t.left[n])
             p == IF s = t.left[n] THEN s ELSE t.parent[s]
         IN  [node |-> n, succ |-> s, parent |-> p,
              is_left |-> p = s \/ t.left[p] = s,
              child |-> IF t.left[s] # Nil THEN t.left[s] ELSE t.right[s]]
    ELSE LET p == t.parent[n]
         IN  [node |-> n, succ |-> n, parent |-> p,
              is_left |-> p # Nil /\ t.left[p] = n,
              child |-> IF t.left[n] # Nil THEN t.left[n] ELSE t.right[n]]

remove_begin(n) ==
  /\ rm' = RemoveLocals(tree, n)
  /\ cur' = rm'.succ
  /\ op' = IF rm'.child = Nil THEN "rebalance" ELSE "unlink"

m_rbt_remove(n) ==
  /\ op = "idle" /\ t_loop = "none" /\ n \in TreeNodes(tree)
  /\ remove_begin(n)
  /\ UNCHANGED <<tree, treeLoopVars>>

RotateTowards(t, n, p) ==
  IF n = t.left[p] THEN m_rbt_rotate_left(t, p) ELSE m_rbt_rotate_right(t, p)

\* The last case of the loop: a red nephew on the far side is made, then the
\* parent rotates towards the node and takes over the missing black.
RemoveRotate(t, n) ==
  LET p == t.parent[n]  s == m_rbt_sibling(t, n)
      near == IF n = t.left[p] THEN t.left[s] ELSE t.right[s]
      isL  == n = t.left[p]
      t1 == IF near \notin t.red THEN t
            ELSE LET c == Red(Black(t, {near}), {s})
                 IN  IF isL THEN m_rbt_rotate_right(c, s) ELSE m_rbt_rotate_left(c, s)
      sib == IF near \in t.red THEN near ELSE s
      far == IF near \in t.red THEN s ELSE IF isL THEN t.right[s] ELSE t.left[s]
      t2 == Black(t1, {p, far})
      t3 == IF p \in t.red THEN Red(t2, {sib}) ELSE Black(t2, {sib})
  IN  RotateTowards(t3, n, p)

\* Mutant: the loop stays where it is.
NextUnbalancedSame(t, n) == n

\* Where the rebalance goes on when a subtree has lost one black.
NextUnbalanced(t, n) == t.parent[n]

\* One iteration of m_rbt_remove_rebalance.
m_rbt_remove_rebalance ==
  /\ op = "rebalance"
  /\ LET p == tree.parent[cur]
         s == m_rbt_sibling(tree, cur)
         nephews == IF s = Nil THEN {} ELSE {tree.left[s], tree.right[s]}
     IN \/ /\ cur \in tree.red \/ p = Nil
           /\ tree' = Black(tree, {cur} \cap tree.red) /\ op' = "unlink" /\ UNCHANGED cur
        \/ /\ cur \notin tree.red /\ p # Nil /\ s \in tree.red
           /\ tree' = RotateTowards(Black(Red(tree, {p}), {s}), cur, p)
           /\ UNCHANGED <<op, cur>>
        \/ /\ cur \notin tree.red /\ p # Nil /\ s \notin tree.red
           /\ nephews \cap tree.red = {}
           /\ tree' = Red(tree, {s} \ {Nil}) /\ UNCHANGED op
           /\ cur' = NextUnbalanced(tree, cur)
        \/ /\ cur \notin tree.red /\ p # Nil /\ s \notin tree.red
           /\ nephews \cap tree.red # {}
           /\ tree' = RemoveRotate(tree, cur) /\ op' = "unlink" /\ UNCHANGED cur
  /\ UNCHANGED <<rm, treeLoopVars>>

\* Mutant: the left child of the node is not told about its new parent.
SwapInOrphan(t, n, s) ==
  LET l == IF s = t.left[n] THEN Nil ELSE t.left[n]
      t1 == [t EXCEPT !.left[s] = l, !.right[s] = t.right[n], !.parent[s] = t.parent[n],
                      !.red = IF n \in t.red THEN @ \cup {s} ELSE @ \ {s}]
  IN  SetChild(SetParent(t1, t.right[n], s), t.parent[n], n, s)

\* Mutant: the left subtree of the node is not taken over.
SwapInDropLeft(t, n, s) ==
  LET t1 == [t EXCEPT !.left[s] = Nil, !.right[s] = t.right[n], !.parent[s] = t.parent[n],
                      !.red = IF n \in t.red THEN @ \cup {s} ELSE @ \ {s}]
  IN  SetChild(SetParent(t1, t.right[n], s), t.parent[n], n, s)

\* "Swap successor and the real node": succ takes the node's links and colour.
SwapIn(t, n, s) ==
  LET l == IF s = t.left[n] THEN Nil ELSE t.left[n]
      t1 == [t EXCEPT !.left[s] = l, !.right[s] = t.right[n], !.parent[s] = t.parent[n],
                      !.red = IF n \in t.red THEN @ \cup {s} ELSE @ \ {s}]
  IN  SetChild(SetParent(SetParent(t1, l, s), t.right[n], s), t.parent[n], n, s)

\* Mutant: the child keeps its colour.
UnlinkChildRed(t) == t

\* A child that moves up is black.
UnlinkChild(t) == IF rm.child = Nil THEN t ELSE Black(t, {rm.child})

\* The end of m_rbt_remove.  The removed node is freed by its owner.
remove_unlink ==
  /\ op = "unlink"
  /\ LET t  == IF rm.succ # rm.node THEN SwapIn(tree, rm.node, rm.succ) ELSE tree
         t1 == IF rm.parent = Nil THEN [t EXCEPT !.root = rm.child]
               ELSE IF rm.is_left THEN [t EXCEPT !.left[rm.parent] = rm.child]
               ELSE [t EXCEPT !.right[rm.parent] = rm.child]
         t2 == UnlinkChild(SetParent(t1, rm.child, rm.parent))
     IN  tree' = [t2 EXCEPT !.left[rm.node] = Nil, !.right[rm.node] = Nil,
                            !.parent[rm.node] = Nil, !.red = @ \ {rm.node}]
  /\ op' = "idle" /\ cur' = Nil /\ rm' = <<>>
  /\ UNCHANGED treeLoopVars
-----------------------------------------------------------------------------
(***************************************************************************)
(* m_rbt_foreach_safe and m_rbt_foreach_safe_r.                            *)
(***************************************************************************)
rbt_foreach_begin(dir) ==
  /\ op = "idle" /\ t_loop = "none" /\ tree.root # Nil
  /\ t_loop' = dir
  /\ t_pos' = IF dir = "next" THEN Leftmost(tree, tree.root) ELSE Rightmost(tree, tree.root)
  /\ t_expected' = TreeNodes(tree) /\ t_visited' = <<>>
  /\ UNCHANGED <<tree, op, cur, rm>>

\* Mutant: the neighbour is looked for below the node only.
StepOfBelow(t, n) ==
  IF t_loop = "next" THEN Leftmost(t, t.right[n]) ELSE Rightmost(t, t.left[n])

StepOf(t, n) == IF t_loop = "next" THEN m_rbt_next_node(t, n) ELSE m_rbt_prev_node(t, n)

\* The neighbour is saved, the body may remove the current node (all the steps
\* of m_rbt_remove follow before the next iteration), then the loop goes on.
rbt_foreach_step(removes) ==
  /\ op = "idle" /\ t_loop # "none" /\ t_pos # Nil
  /\ t_visited' = Append(t_visited, t_pos)
  /\ t_pos' = StepOf(tree, t_pos)
  /\ IF removes THEN remove_begin(t_pos) ELSE UNCHANGED <<op, cur, rm>>
  /\ UNCHANGED <<tree, t_loop, t_expected>>

rbt_foreach_end ==
  /\ op = "idle" /\ t_loop # "none" /\ t_pos = Nil
  /\ t_loop' = "none" /\ t_expected' = {} /\ t_visited' = <<>>
  /\ UNCHANGED <<tree, op, cur, rm, t_pos>>

\* m_rbt_deinit: m_rbt_free_node frees the whole tree, and the client starts
\* again with m_rbt_init.
m_rbt_deinit ==
  /\ op = "idle" /\ t_loop = "none" /\ tree.root # Nil
  /\ tree' = m_rbt_init
  /\ UNCHANGED <<op, cur, rm, treeLoopVars>>
-----------------------------------------------------------------------------
TreeInit ==
  /\ tree = m_rbt_init
  /\ op = "idle" /\ cur = Nil /\ rm = <<>>
  /\ t_loop = "none" /\ t_pos = Nil /\ t_expected = {} /\ t_visited = <<>>

Running == insert_rebalance \/ m_rbt_remove_rebalance \/ remove_unlink

TreeNext ==
  \/ \E n \in TreeNode : m_rbt_insert(n) \/ m_rbt_remove(n)
  \/ m_rbt_deinit
  \/ \E dir \in Loops : rbt_foreach_begin(dir)
  \/ \E removes \in BOOLEAN : rbt_foreach_step(removes)
  \/ rbt_foreach_end
  \/ Running

TreeSpec == TreeInit /\ [][TreeNext]_treeVars

\* A call that has been made runs on.
TreeFairSpec == TreeSpec /\ WF_treeVars(Running)
-----------------------------------------------------------------------------
\* The numbers of black nodes on the paths from the root down to a missing child:
\* a place is reached with the number of black nodes above it.
Places(t, p) ==
  IF p[1] = Nil THEN {p}
  ELSE LET b == p[2] + (IF p[1] \in t.red THEN 0 ELSE 1)
       IN  {<<t.left[p[1]], b>>, <<t.right[p[1]], b>>}
BlackHeights(t) ==
  LET reached[i \in 0 .. Steps] ==
        IF i = 0 THEN {<<t.root, 0>>} ELSE UNION {Places(t, p) : p \in reached[i - 1]}
  IN  {p[2] : p \in {q \in reached[Steps] : q[1] = Nil}}

\* m_rbtree.h: every node is found where the order of keys says, at every step
\* of the rebalance loops and not only between calls; parent pointers are the
\* inverse of the child pointers.
SearchTree ==
  /\ \A n \in TreeNodes(tree) :
       /\ \A k \in Subtree(tree, tree.left[n]) : k < n
       /\ \A k \in Subtree(tree, tree.right[n]) : k > n
       /\ \A c \in {tree.left[n], tree.right[n]} \ {Nil} : tree.parent[c] = n
  /\ tree.root # Nil => tree.parent[tree.root] = Nil

\* m_rbtree.h: between calls the tree is red black: the root is black, a red node has no
\* red child, and all paths down have the same number of black nodes.
RedBlack ==
  op = "idle" =>
    /\ tree.root \notin tree.red
    /\ \A n \in tree.red : tree.parent[n] \notin tree.red
    /\ \A x, y \in BlackHeights(tree) : x = y

\* A traversal visits every node there was, in the order of its direction,
\* although removals rotate the tree under it.
TraversalOrdered ==
  /\ t_loop = "next" => \A i \in 1 .. Len(t_visited) - 1 : t_visited[i] < t_visited[i + 1]
  /\ t_loop = "prev" => \A i \in 1 .. Len(t_visited) - 1 : t_visited[i] > t_visited[i + 1]
  /\ (t_loop # "none" /\ t_pos = Nil) => {t_visited[i] : i \in DOMAIN t_visited} = t_expected

\* The rebalance loops end.
CallsReturn == op # "idle" ~> op = "idle"

\* The tree is a set of nodes with unique keys; the rebalance steps do not
\* change it.
TreeContent == INSTANCE KeyedSet WITH
  content <- TreeNodes(tree), Node <- TreeNode, KeyOf <- [n \in TreeNode |-> n]
TreeImplementsKeyedSet == TreeContent!Spec
=============================================================================
