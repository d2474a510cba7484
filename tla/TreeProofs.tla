----------------------------- MODULE TreeProofs -----------------------------
(***************************************************************************)
(* The calls of m_rbtree.h, one step of their loops at a time, and the     *)
(* theorems about them: the tree is a search tree at every step of a call  *)
(* and red black between calls, it implements a set of nodes with unique   *)
(* keys, and its traversals meet all nodes in order, whatever their body   *)
(* removes. State is what the call that is running has made of the tree,   *)
(* TreeInv the inductive invariant.                                        *)
(***************************************************************************)
EXTENDS TreeLemmas
-----------------------------------------------------------------------------
(***************************************************************************)
(* The loop of m_rbt_insert.                                               *)
(***************************************************************************)

\* A red node below a red node becomes its parent.
LEMMA InnerLeft ==
  ASSUME NEW t, NEW N, NEW f, Shape(t, N, f), NEW x \in N, x \in t.red, t.right[x] \in t.red,
         RedBlackBut(t, N, {t.right[x]}, Nil, Nil)
  PROVE  LET u == m_rbt_rotate_left(t, x)
             y == t.right[x]
             g == t.parent[x]
         IN  /\ \E h : Shape(u, N, h)
             /\ RedBlackBut(u, N, {x}, Nil, Nil)
             /\ u.red = t.red /\ g \in N /\ g \notin t.red
             /\ x = t.left[g] => u.left[g] = y /\ u.left[y] = x /\ u.right[g] = t.right[g]
  <1> DEFINE u == m_rbt_rotate_left(t, x)
             y == t.right[x]
             g == t.parent[x]
             b == t.left[y]
  <1>1. /\ t \in Trees /\ N \subseteq TreeNode /\ Nil \notin TreeNode /\ x \in TreeNode /\ x # Nil
        /\ t.red \subseteq N /\ t.root \notin t.red /\ Apart(t, {y}) /\ Balanced(t, N, Nil, Nil)
    BY TreeAssumption DEF Shape, RedBlackBut
  <1>2. y \in N /\ y # Nil /\ y \in TreeNode /\ y # x /\ t.parent[y] = x
    BY <1>1, RightChild
  <1>3. /\ \E h : Shape(u, N, h)
        /\ u.red = t.red
        /\ u.root = IF g = Nil THEN y ELSE t.root
        /\ \A v \in TreeNode :
             /\ u.left[v] = IF v = y THEN x ELSE IF v = g /\ t.left[g] = x THEN y ELSE t.left[v]
             /\ u.right[v] = IF v = x THEN b ELSE IF v = g /\ t.right[g] = x THEN y ELSE t.right[v]
             /\ u.parent[v] = IF v = y THEN g ELSE IF v = x THEN y ELSE IF v = b THEN x ELSE t.parent[v]
    BY <1>2, RotateLeftShape
  <1>4. g \in N /\ g \notin t.red /\ g # x /\ g # y
    <2>1. g # Nil
      BY <1>1, Links
    <2>2. g \in N /\ g \notin f[x] /\ g # x
      BY <2>1, SiblingIs
    <2>3. y \in f[x]
      BY <1>2, RightChild
    <2>4. g \notin t.red
      BY <1>1, <1>2 DEF Apart
    <2>5. QED
      BY <2>2, <2>3, <2>4
  <1>5. b \notin t.red
    <2>1. b # Nil => t.parent[b] = y /\ b # y
      BY <1>1, <1>2, LeftChild
    <2>2. b \in t.red => b # Nil
      BY <1>1
    <2>3. QED
      BY <1>1, <2>1, <2>2 DEF Apart
  <1>6. Balanced(u, N, Nil, Nil)
    <2>1. SameLinks(t, t)
      BY DEF SameLinks
    <2>2. QED
      BY <1>1, <1>2, <2>1, RotateLeftBalanced
  <1>7. Apart(u, {x})
    <2>1. ASSUME NEW v \in t.red \ {x} PROVE u.parent[v] \notin t.red
      <3>1. v \in TreeNode /\ v # b
        BY <1>1, <1>5
      <3>2. CASE v = y
        BY <1>3, <1>4, <3>1, <3>2
      <3>3. CASE v # y
        BY <1>1, <1>3, <2>1, <3>1, <3>3 DEF Apart
      <3>4. QED
        BY <3>2, <3>3
    <2>2. QED
      BY <1>3, <2>1 DEF Apart
  <1>8. RedBlackBut(u, N, {x}, Nil, Nil)
    BY <1>1, <1>3, <1>4, <1>6, <1>7 DEF RedBlackBut
  <1>9. x = t.left[g] => u.left[g] = y /\ u.left[y] = x /\ u.right[g] = t.right[g]
    <2>1. x = t.left[g] => x # t.right[g]
      BY <1>1, <1>4, LeftChild
    <2>2. QED
      BY <1>1, <1>2, <1>3, <1>4, <2>1
  <1>10. QED
    BY <1>3, <1>4, <1>8, <1>9

\* The same on the other side.
LEMMA InnerRight ==
  ASSUME NEW t, NEW N, NEW f, Shape(t, N, f), NEW x \in N, x \in t.red, t.left[x] \in t.red,
         RedBlackBut(t, N, {t.left[x]}, Nil, Nil)
  PROVE  LET u == m_rbt_rotate_right(t, x)
             y == t.left[x]
             g == t.parent[x]
         IN  /\ \E h : Shape(u, N, h)
             /\ RedBlackBut(u, N, {x}, Nil, Nil)
             /\ u.red = t.red /\ g \in N /\ g \notin t.red
             /\ x = t.right[g] => u.right[g] = y /\ u.right[y] = x /\ u.left[g] = t.left[g]
  <1> DEFINE u == m_rbt_rotate_right(t, x)
             y == t.left[x]
             g == t.parent[x]
             b == t.right[y]
  <1>1. /\ t \in Trees /\ N \subseteq TreeNode /\ Nil \notin TreeNode /\ x \in TreeNode /\ x # Nil
        /\ t.red \subseteq N /\ t.root \notin t.red /\ Apart(t, {y}) /\ Balanced(t, N, Nil, Nil)
    BY TreeAssumption DEF Shape, RedBlackBut
  <1>2. y \in N /\ y # Nil /\ y \in TreeNode /\ y # x /\ t.parent[y] = x
    BY <1>1, LeftChild
  <1>3. /\ \E h : Shape(u, N, h)
        /\ u.red = t.red
        /\ u.root = IF g = Nil THEN y ELSE t.root
        /\ \A v \in TreeNode :
             /\ u.right[v] = IF v = y THEN x ELSE IF v = g /\ t.right[g] = x THEN y ELSE t.right[v]
             /\ u.left[v] = IF v = x THEN b ELSE IF v = g /\ t.left[g] = x THEN y ELSE t.left[v]
             /\ u.parent[v] = IF v = y THEN g ELSE IF v = x THEN y ELSE IF v = b THEN x ELSE t.parent[v]
    BY <1>2, RotateRightShape
  <1>4. g \in N /\ g \notin t.red /\ g # x /\ g # y
    <2>1. g # Nil
      BY <1>1, Links
    <2>2. g \in N /\ g \notin f[x] /\ g # x
      BY <2>1, SiblingIs
    <2>3. y \in f[x]
      BY <1>2, LeftChild
    <2>4. g \notin t.red
      BY <1>1, <1>2 DEF Apart
    <2>5. QED
      BY <2>2, <2>3, <2>4
  <1>5. b \notin t.red
    <2>1. b # Nil => t.parent[b] = y /\ b # y
      BY <1>1, <1>2, RightChild
    <2>2. b \in t.red => b # Nil
      BY <1>1
    <2>3. QED
      BY <1>1, <2>1, <2>2 DEF Apart
  <1>6. Balanced(u, N, Nil, Nil)
    <2>1. SameLinks(t, t)
      BY DEF SameLinks
    <2>2. QED
      BY <1>1, <1>2, <2>1, RotateRightBalanced
  <1>7. Apart(u, {x})
    <2>1. ASSUME NEW v \in t.red \ {x} PROVE u.parent[v] \notin t.red
      <3>1. v \in TreeNode /\ v # b
        BY <1>1, <1>5
      <3>2. CASE v = y
        BY <1>3, <1>4, <3>1, <3>2
      <3>3. CASE v # y
        BY <1>1, <1>3, <2>1, <3>1, <3>3 DEF Apart
      <3>4. QED
        BY <3>2, <3>3
    <2>2. QED
      BY <1>3, <2>1 DEF Apart
  <1>8. RedBlackBut(u, N, {x}, Nil, Nil)
    BY <1>1, <1>3, <1>4, <1>6, <1>7 DEF RedBlackBut
  <1>9. x = t.right[g] => u.right[g] = y /\ u.right[y] = x /\ u.left[g] = t.left[g]
    <2>1. x = t.right[g] => x # t.left[g]
      BY <1>1, <1>4, RightChild
    <2>2. QED
      BY <1>1, <1>2, <1>3, <1>4, <2>1
  <1>10. QED
    BY <1>3, <1>4, <1>8, <1>9

\* A red node with a red child on the same side: m_rbt_insert rotates their grandparent
\* the other way, and is done.
LEMMA OuterLeft ==
  ASSUME NEW t, NEW N, NEW f, Shape(t, N, f), NEW g \in N, g \notin t.red, t.left[g] \notin t.red,
         t.right[g] \in t.red, t.right[t.right[g]] \in t.red,
         RedBlackBut(t, N, {t.right[t.right[g]]}, Nil, Nil)
  PROVE  LET u == m_rbt_rotate_left(Red(Black(t, {t.right[g]}), {g}), g)
         IN  (\E h : Shape(u, N, h)) /\ RedBlackBut(u, N, {}, Nil, Nil)
  <1> DEFINE y == t.right[g]
             q == Red(Black(t, {y}), {g})
             u == m_rbt_rotate_left(q, g)
             k == t.right[y]
             b == t.left[y]
             p == t.parent[g]
  <1>1. /\ t \in Trees /\ N \subseteq TreeNode /\ Nil \notin TreeNode /\ g \in TreeNode /\ g # Nil
        /\ t.red \subseteq N /\ t.root \notin t.red /\ Apart(t, {k}) /\ Balanced(t, N, Nil, Nil)
    BY TreeAssumption DEF Shape, RedBlackBut
  <1>2. /\ y \in N /\ y # Nil /\ y \in TreeNode /\ y # g /\ t.parent[y] = g
        /\ k \in N /\ k # Nil /\ t.parent[k] = y /\ k # b /\ k # y
        /\ b # Nil => t.parent[b] = y
    <2>1. y \in N /\ y # Nil /\ y \in TreeNode /\ y # g /\ t.parent[y] = g
      BY <1>1, RightChild
    <2>2. QED
      BY <1>1, <2>1, RightChild, LeftChild
  <1>3. q \in Trees /\ SameLinks(t, q) /\ q.red = (t.red \ {y}) \cup {g}
    <2> DEFINE o == Black(t, {y})
    <2>1. o \in Trees /\ SameLinks(t, o) /\ o.red = t.red \ {y}
      BY <1>1, <1>2, Recoloured
    <2> HIDE DEF o
    <2>2. Red(o, {g}) \in Trees /\ SameLinks(o, Red(o, {g})) /\ Red(o, {g}).red = o.red \cup {g}
      BY <1>1, <2>1, Recoloured
    <2>3. q = Red(o, {g})
      BY DEF o
    <2> HIDE DEF q
    <2>4. QED
      BY <2>1, <2>2, <2>3 DEF SameLinks
  <1> HIDE DEF q
  <1>4. Shape(q, N, f) /\ q.right[g] = y /\ q.parent[g] = p /\ q.left[y] = b
    BY <1>3, RecolouredShape DEF SameLinks
  <1>5. /\ \E h : Shape(u, N, h)
        /\ u.red = q.red
        /\ u.root = IF p = Nil THEN y ELSE t.root
        /\ \A v \in TreeNode :
             /\ u.parent[v] = IF v = y THEN p ELSE IF v = g THEN y ELSE IF v = b THEN g ELSE t.parent[v]
    <2>1. q.parent = t.parent /\ q.root = t.root
      BY <1>3 DEF SameLinks
    <2> HIDE DEF y, p, b, u
    <2>2. q.right[g] # Nil
      BY <1>2, <1>4
    <2>3. /\ \E h : Shape(u, N, h)
          /\ u.red = q.red
          /\ u.root = IF q.parent[g] = Nil THEN q.right[g] ELSE q.root
          /\ \A v \in TreeNode :
             u.parent[v] = IF v = q.right[g] THEN q.parent[g] ELSE IF v = g THEN q.right[g]
                           ELSE IF v = q.left[q.right[g]] THEN g ELSE q.parent[v]
      BY <1>4, <2>2, RotateLeftShape DEF u
    <2>4. QED
      BY <1>4, <2>1, <2>3
  <1>6. Balanced(u, N, Nil, Nil)
    <2>1. \A v \in N : v # g /\ v # y => (v \in q.red <=> v \in t.red)
      BY <1>3
    <2>2. y \in t.red /\ g \in q.red /\ (y \in q.red <=> g \in t.red)
      BY <1>2, <1>3
    <2>3. QED
      BY <1>1, <1>2, <1>3, <2>1, <2>2, RotateLeftBalanced
  <1>7. p # y /\ b # g
    <2>1. g = t.root => p = Nil
      BY Links
    <2>2. g # t.root => p \notin f[g]
      BY <1>1, SiblingIs, Links
    <2>3. y \in f[g]
      BY <1>1, <1>2, RightChild
    <2>4. QED
      BY <1>1, <1>2, <2>1, <2>2, <2>3
  <1>8. b \notin t.red
    BY <1>1, <1>2 DEF Apart
  <1> HIDE DEF u
  <1>9. u.root \notin u.red
    <2>1. p = Nil <=> g = t.root
      BY Links
    <2>2. QED
      BY <1>1, <1>2, <1>3, <1>5, <2>1
  <1>10. ASSUME NEW v \in u.red PROVE u.parent[v] \notin u.red
    <2>1. v \in TreeNode /\ v # b /\ v # y /\ (v = g \/ v \in t.red)
      BY <1>1, <1>2, <1>3, <1>5, <1>7, <1>8, <1>10
    <2>2. CASE v = g
      BY <1>2, <1>3, <1>5, <2>1, <2>2
    <2>3. CASE v # g
      <3>1. u.parent[v] = t.parent[v]
        BY <1>5, <2>1, <2>3
      <3>2. t.parent[v] # g
        <4>1. t.parent[v] = g => v = t.left[g] \/ v = t.right[g]
          BY <1>1, <2>1, Links
        <4>2. v # t.left[g]
          BY <2>1, <2>3
        <4>3. QED
          BY <2>1, <4>1, <4>2
      <3>3. v = k => t.parent[v] = y
        BY <1>2
      <3>4. v # k => t.parent[v] \notin t.red
        BY <1>1, <2>1, <2>3 DEF Apart
      <3>5. QED
        BY <1>2, <1>3, <1>5, <3>1, <3>2, <3>3, <3>4
    <2>4. QED
      BY <2>2, <2>3
  <1>11. u.red \subseteq N
    BY <1>1, <1>3, <1>5
  <1>12. QED
    <2>1. Apart(u, {})
      BY <1>10 DEF Apart
    <2>2. RedBlackBut(u, N, {}, Nil, Nil)
      BY <1>6, <1>9, <1>11, <2>1 DEF RedBlackBut
    <2>3. QED
      BY <1>5, <2>2 DEF u, q

\* The same on the other side.
LEMMA OuterRight ==
  ASSUME NEW t, NEW N, NEW f, Shape(t, N, f), NEW g \in N, g \notin t.red, t.right[g] \notin t.red,
         t.left[g] \in t.red, t.left[t.left[g]] \in t.red,
         RedBlackBut(t, N, {t.left[t.left[g]]}, Nil, Nil)
  PROVE  LET u == m_rbt_rotate_right(Red(Black(t, {t.left[g]}), {g}), g)
         IN  (\E h : Shape(u, N, h)) /\ RedBlackBut(u, N, {}, Nil, Nil)
  <1> DEFINE y == t.left[g]
             q == Red(Black(t, {y}), {g})
             u == m_rbt_rotate_right(q, g)
             k == t.left[y]
             b == t.right[y]
             p == t.parent[g]
  <1>1. /\ t \in Trees /\ N \subseteq TreeNode /\ Nil \notin TreeNode /\ g \in TreeNode /\ g # Nil
        /\ t.red \subseteq N /\ t.root \notin t.red /\ Apart(t, {k}) /\ Balanced(t, N, Nil, Nil)
    BY TreeAssumption DEF Shape, RedBlackBut
  <1>2. /\ y \in N /\ y # Nil /\ y \in TreeNode /\ y # g /\ t.parent[y] = g
        /\ k \in N /\ k # Nil /\ t.parent[k] = y /\ k # b /\ k # y
        /\ b # Nil => t.parent[b] = y
    <2>1. y \in N /\ y # Nil /\ y \in TreeNode /\ y # g /\ t.parent[y] = g
      BY <1>1, LeftChild
    <2>2. QED
      BY <1>1, <2>1, LeftChild, RightChild
  <1>3. q \in Trees /\ SameLinks(t, q) /\ q.red = (t.red \ {y}) \cup {g}
    <2> DEFINE o == Black(t, {y})
    <2>1. o \in Trees /\ SameLinks(t, o) /\ o.red = t.red \ {y}
      BY <1>1, <1>2, Recoloured
    <2> HIDE DEF o
    <2>2. Red(o, {g}) \in Trees /\ SameLinks(o, Red(o, {g})) /\ Red(o, {g}).red = o.red \cup {g}
      BY <1>1, <2>1, Recoloured
    <2>3. q = Red(o, {g})
      BY DEF o
    <2> HIDE DEF q
    <2>4. QED
      BY <2>1, <2>2, <2>3 DEF SameLinks
  <1> HIDE DEF q
  <1>4. Shape(q, N, f) /\ q.left[g] = y /\ q.parent[g] = p /\ q.right[y] = b
    BY <1>3, RecolouredShape DEF SameLinks
  <1>5. /\ \E h : Shape(u, N, h)
        /\ u.red = q.red
        /\ u.root = IF p = Nil THEN y ELSE t.root
        /\ \A v \in TreeNode :
             /\ u.parent[v] = IF v = y THEN p ELSE IF v = g THEN y ELSE IF v = b THEN g ELSE t.parent[v]
    <2>1. q.parent = t.parent /\ q.root = t.root
      BY <1>3 DEF SameLinks
    <2> HIDE DEF y, p, b, u
    <2>2. q.left[g] # Nil
      BY <1>2, <1>4
    <2>3. /\ \E h : Shape(u, N, h)
          /\ u.red = q.red
          /\ u.root = IF q.parent[g] = Nil THEN q.left[g] ELSE q.root
          /\ \A v \in TreeNode :
             u.parent[v] = IF v = q.left[g] THEN q.parent[g] ELSE IF v = g THEN q.left[g]
                           ELSE IF v = q.right[q.left[g]] THEN g ELSE q.parent[v]
      BY <1>4, <2>2, RotateRightShape DEF u
    <2>4. QED
      BY <1>4, <2>1, <2>3
  <1>6. Balanced(u, N, Nil, Nil)
    <2>1. \A v \in N : v # g /\ v # y => (v \in q.red <=> v \in t.red)
      BY <1>3
    <2>2. y \in t.red /\ g \in q.red /\ (y \in q.red <=> g \in t.red)
      BY <1>2, <1>3
    <2>3. QED
      BY <1>1, <1>2, <1>3, <2>1, <2>2, RotateRightBalanced
  <1>7. p # y /\ b # g
    <2>1. g = t.root => p = Nil
      BY Links
    <2>2. g # t.root => p \notin f[g]
      BY <1>1, SiblingIs, Links
    <2>3. y \in f[g]
      BY <1>1, <1>2, LeftChild
    <2>4. QED
      BY <1>1, <1>2, <2>1, <2>2, <2>3
  <1>8. b \notin t.red
    BY <1>1, <1>2 DEF Apart
  <1> HIDE DEF u
  <1>9. u.root \notin u.red
    <2>1. p = Nil <=> g = t.root
      BY Links
    <2>2. QED
      BY <1>1, <1>2, <1>3, <1>5, <2>1
  <1>10. ASSUME NEW v \in u.red PROVE u.parent[v] \notin u.red
    <2>1. v \in TreeNode /\ v # b /\ v # y /\ (v = g \/ v \in t.red)
      BY <1>1, <1>2, <1>3, <1>5, <1>7, <1>8, <1>10
    <2>2. CASE v = g
      BY <1>2, <1>3, <1>5, <2>1, <2>2
    <2>3. CASE v # g
      <3>1. u.parent[v] = t.parent[v]
        BY <1>5, <2>1, <2>3
      <3>2. t.parent[v] # g
        <4>1. t.parent[v] = g => v = t.right[g] \/ v = t.left[g]
          BY <1>1, <2>1, Links
        <4>2. v # t.right[g]
          BY <2>1, <2>3
        <4>3. QED
          BY <2>1, <4>1, <4>2
      <3>3. v = k => t.parent[v] = y
        BY <1>2
      <3>4. v # k => t.parent[v] \notin t.red
        BY <1>1, <2>1, <2>3 DEF Apart
      <3>5. QED
        BY <1>2, <1>3, <1>5, <3>1, <3>2, <3>3, <3>4
    <2>4. QED
      BY <2>2, <2>3
  <1>11. u.red \subseteq N
    BY <1>1, <1>3, <1>5
  <1>12. QED
    <2>1. Apart(u, {})
      BY <1>10 DEF Apart
    <2>2. RedBlackBut(u, N, {}, Nil, Nil)
      BY <1>6, <1>9, <1>11, <2>1 DEF RedBlackBut
    <2>3. QED
      BY <1>5, <2>2 DEF u, q

\* The last case of the loop of m_rbt_insert ends it: the tree is red black.
LEMMA InsertRotateOk ==
  ASSUME NEW t, NEW N, NEW f, Shape(t, N, f), NEW n \in N, n \in t.red, t.parent[n] \in t.red,
         m_rbt_sibling(t, t.parent[n]) \notin t.red, RedBlackBut(t, N, {n}, Nil, Nil)
  PROVE  LET v == InsertRotate(t, n)
         IN  (\E h : Shape(v, N, h)) /\ RedBlackBut(v, N, {}, Nil, Nil)
  <1> DEFINE p == t.parent[n]
             g == t.parent[p]
             u == m_rbt_sibling(t, p)
             v == InsertRotate(t, n)
  <1>1. /\ t \in Trees /\ Nil \notin N /\ t.red \subseteq N /\ t.root \notin t.red /\ Apart(t, {n})
    BY TreeAssumption DEF Shape, RedBlackBut
  <1>2. p \in N /\ p # n /\ g \in N /\ g \notin t.red /\ g # p
    <2>1. p \in N /\ p # Nil /\ p # n
      BY <1>1, SiblingIs
    <2>2. g # Nil
      BY <1>1, <2>1, Links
    <2>3. g \in N /\ g # p
      BY <2>1, <2>2, SiblingIs
    <2>4. g \notin t.red
      BY <1>1, <2>1 DEF Apart
    <2>5. QED
      BY <2>1, <2>3, <2>4
  <1>3. \/ n = t.left[p] /\ n # t.right[p]
        \/ n = t.right[p] /\ n # t.left[p]
    BY <1>1, <1>2, SiblingIs
  <1>4. \/ p = t.left[g] /\ p # t.right[g] /\ u = t.right[g]
        \/ p = t.right[g] /\ p # t.left[g] /\ u = t.left[g]
    BY <1>1, <1>2, SiblingIs
  <1>5. ASSUME NEW o, NEW a PROVE Red(Black(o, {a}), {g}).right = o.right
    BY DEF Black, Red
  <1>7. p \in t.red /\ u \notin t.red /\ g = t.parent[p]
    OBVIOUS
  <1> HIDE DEF p, g, u
  <1>8. CASE p = t.left[g]
    <2>1. CASE n = t.right[p]
      <3> DEFINE o == m_rbt_rotate_left(t, p)
      <3>2. /\ \E h : Shape(o, N, h)
            /\ RedBlackBut(o, N, {p}, Nil, Nil)
            /\ o.red = t.red /\ o.left[g] = n /\ o.left[n] = p /\ o.right[g] = t.right[g]
        <4>1. t.right[p] = n /\ t.right[p] \in t.red /\ RedBlackBut(t, N, {t.right[p]}, Nil, Nil)
          BY <2>1
        <4>2. /\ \E h : Shape(o, N, h)
              /\ RedBlackBut(o, N, {p}, Nil, Nil)
              /\ o.red = t.red
              /\ p = t.left[t.parent[p]] => /\ o.left[t.parent[p]] = t.right[p] /\ o.left[t.right[p]] = p
                                            /\ o.right[t.parent[p]] = t.right[t.parent[p]]
          BY <1>2, <1>7, <4>1, InnerLeft
        <4>3. QED
          BY <1>7, <1>8, <4>1, <4>2
      <3>1. v = m_rbt_rotate_right(Red(Black(o, {n}), {g}), g)
        <4>1. u = t.right[g] /\ n = t.right[p]
          BY <1>2, <1>4, <1>7, <1>8, <2>1
        <4>2. o.right[g] = t.right[g]
          BY <3>2
        <4> HIDE DEF o
        <4>3. Red(Black(o, {n}), {g}).right[g] = u
          BY <1>5, <4>1, <4>2
        <4>4. QED
          BY <4>1, <4>3 DEF InsertRotate, o, p, g, u
      <3>3. o.right[g] \notin o.red
        BY <1>4, <1>7, <1>8, <3>2
      <3> HIDE DEF o, v
      <3>4. QED
        BY <1>2, <1>7, <3>1, <3>2, <3>3, OuterRight DEF v
    <2>2. CASE n # t.right[p]
      <3>1. v = m_rbt_rotate_right(Red(Black(t, {p}), {g}), g)
        <4>1. u = t.right[g] /\ n # t.right[p] /\ u # t.left[g]
          BY <1>2, <1>4, <1>7, <1>8, <2>2
        <4>2. Red(Black(t, {p}), {g}).right[g] = u
          BY <1>5, <4>1
        <4>3. QED
          BY <4>1, <4>2 DEF InsertRotate, p, g, u
      <3>2. t.left[g] = p /\ t.left[p] = n /\ t.right[g] \notin t.red
        BY <1>3, <1>4, <1>7, <1>8, <2>2
      <3> HIDE DEF v
      <3>3. QED
        BY <1>2, <1>7, <3>1, <3>2, OuterRight DEF v
    <2>3. QED
      BY <2>1, <2>2
  <1>9. CASE p # t.left[g]
    <2>0. p = t.right[g] /\ u = t.left[g]
      BY <1>4, <1>9
    <2>1. CASE n = t.left[p]
      <3> DEFINE o == m_rbt_rotate_right(t, p)
      <3>2. /\ \E h : Shape(o, N, h)
            /\ RedBlackBut(o, N, {p}, Nil, Nil)
            /\ o.red = t.red /\ o.right[g] = n /\ o.right[n] = p /\ o.left[g] = t.left[g]
        <4>1. t.left[p] = n /\ t.left[p] \in t.red /\ RedBlackBut(t, N, {t.left[p]}, Nil, Nil)
          BY <2>1
        <4>2. /\ \E h : Shape(o, N, h)
              /\ RedBlackBut(o, N, {p}, Nil, Nil)
              /\ o.red = t.red
              /\ p = t.right[t.parent[p]] => /\ o.right[t.parent[p]] = t.left[p] /\ o.right[t.left[p]] = p
                                            /\ o.left[t.parent[p]] = t.left[t.parent[p]]
          BY <1>2, <1>7, <4>1, InnerRight
        <4>3. QED
          BY <1>7, <2>0, <4>1, <4>2
      <3>1. v = m_rbt_rotate_left(Red(Black(o, {n}), {g}), g)
        <4>1. u # t.right[g] /\ u = t.left[g] /\ n = t.left[p]
          BY <1>7, <2>0, <2>1
        <4> HIDE DEF o
        <4>3. Red(Black(o, {n}), {g}).right[g] # u
          <5>1. o.right[g] = n /\ n # u
            BY <1>7, <3>2
          <5>2. QED
            BY <1>5, <5>1
        <4>4. QED
          BY <4>1, <4>3 DEF InsertRotate, o, p, g, u
      <3>3. o.left[g] \notin o.red
        BY <1>7, <2>0, <3>2
      <3> HIDE DEF o, v
      <3>4. QED
        BY <1>2, <1>7, <3>1, <3>2, <3>3, OuterLeft DEF v
    <2>2. CASE n # t.left[p]
      <3>1. v = m_rbt_rotate_left(Red(Black(t, {p}), {g}), g)
        <4>1. u # t.right[g] /\ n # t.left[p]
          BY <1>7, <2>0, <2>2
        <4>2. Red(Black(t, {p}), {g}).right[g] # u
          BY <1>5, <4>1
        <4>3. QED
          BY <4>1, <4>2 DEF InsertRotate, p, g, u
      <3>2. t.right[g] = p /\ t.right[p] = n /\ t.left[g] \notin t.red
        BY <1>3, <1>7, <2>0, <2>2
      <3> HIDE DEF v
      <3>3. QED
        BY <1>2, <1>7, <3>1, <3>2, OuterLeft DEF v
    <2>3. QED
      BY <2>1, <2>2
  <1>10. QED
    BY <1>8, <1>9

\* The new node n is red, maybe the root or below a red node.
Inserting(t, N, n) ==
  /\ n \in t.red /\ t.red \subseteq N /\ (t.root \in t.red => n = t.root)
  /\ Apart(t, {n}) /\ Balanced(t, N, Nil, Nil)

Linked(t, n, p) ==
  LET t0 == [t EXCEPT !.left[n] = Nil, !.right[n] = Nil]
  IN  Red(SetParent(IF p = Nil THEN [t0 EXCEPT !.root = n]
                    ELSE IF n < p THEN [t0 EXCEPT !.left[p] = n]
                    ELSE [t0 EXCEPT !.right[p] = n], n, p), {n})

\* What m_rbt_insert_internal assigns.
LEMMA LinkedIs ==
  ASSUME NEW t \in Trees, NEW N \in SUBSET TreeNode, NEW n \in TreeNode, n \notin N,
         NEW p, p \in N \cup {Nil}
  PROVE  Inserted(t, N, n, p, Linked(t, n, p)) /\ Linked(t, n, p).red = t.red \cup {n}
  <1> DEFINE t0 == [t EXCEPT !.left[n] = Nil, !.right[n] = Nil]
             t1 == IF p = Nil THEN [t0 EXCEPT !.root = n]
                   ELSE IF n < p THEN [t0 EXCEPT !.left[p] = n]
                   ELSE [t0 EXCEPT !.right[p] = n]
             t2 == SetParent(t1, n, p)
             u == Red(t2, {n})
  <1>1. Nil \notin TreeNode /\ p # n /\ p \in Place /\ n \in Place
    BY TreeAssumption DEF Place
  <1>2. /\ t0 \in Trees /\ t0.root = t.root /\ t0.parent = t.parent /\ t0.red = t.red
        /\ t0.left = [t.left EXCEPT ![n] = Nil] /\ t0.right = [t.right EXCEPT ![n] = Nil]
    BY DEF Trees, Place
  <1> HIDE DEF t0
  <1>3. /\ t1 \in Trees /\ t1.root = IF p = Nil THEN n ELSE t.root
        /\ t1.parent = t.parent /\ t1.red = t.red
        /\ t1.left = IF p # Nil /\ n < p THEN [t0.left EXCEPT ![p] = n] ELSE t0.left
        /\ t1.right = IF p # Nil /\ ~ (n < p) THEN [t0.right EXCEPT ![p] = n] ELSE t0.right
    <2>1. CASE p = Nil
      BY <1>2, <2>1 DEF Trees, Place
    <2>2. CASE p # Nil /\ n < p
      BY <1>2, <2>2 DEF Trees, Place
    <2>3. CASE p # Nil /\ ~ (n < p)
      BY <1>2, <2>3 DEF Trees, Place
    <2>4. QED
      BY <2>1, <2>2, <2>3
  <1>4. /\ t1.left[n] = Nil /\ t1.right[n] = Nil
        /\ \A v \in N :
             /\ t1.left[v] = IF v = p /\ n < p THEN n ELSE t.left[v]
             /\ t1.right[v] = IF v = p /\ ~ (n < p) THEN n ELSE t.right[v]
    <2>1. t.left \in [TreeNode -> Place] /\ t.right \in [TreeNode -> Place]
      BY DEF Trees
    <2>2. /\ t0.left \in [TreeNode -> Place] /\ t0.right \in [TreeNode -> Place]
          /\ t0.left[n] = Nil /\ t0.right[n] = Nil
          /\ \A v \in N : t0.left[v] = t.left[v] /\ t0.right[v] = t.right[v]
      BY <1>1, <1>2, <2>1 DEF Place
    <2>3. QED
      BY <1>1, <1>3, <2>2
  <1> HIDE DEF t1
  <1>5. /\ t2 \in Trees /\ t2.root = t1.root /\ t2.left = t1.left /\ t2.right = t1.right
        /\ t2.red = t1.red /\ \A v \in TreeNode : t2.parent[v] = IF v = n THEN p ELSE t1.parent[v]
    BY <1>1, <1>3, SetParentFields
  <1> HIDE DEF t2
  <1>6. u \in Trees /\ SameLinks(t2, u) /\ u.red = t2.red \cup {n}
    BY <1>5, Recoloured
  <1> HIDE DEF u
  <1>7. Inserted(t, N, n, p, u) /\ u.red = t.red \cup {n}
    BY <1>3, <1>4, <1>5, <1>6 DEF Inserted, SameLinks
  <1>8. QED
    BY <1>7 DEF Linked, u, t2, t1, t0

\* The linked node is red, and nothing but its colour can be wrong.
LEMMA InsertOk ==
  ASSUME NEW t, NEW N, NEW f, Shape(t, N, f), RedBlackBut(t, N, {}, Nil, Nil),
         NEW n \in TreeNode, m_rbt_lookup_insert(t, n).node = Nil
  PROVE  LET u == Linked(t, n, m_rbt_lookup_insert(t, n).parent)
         IN  n \notin N /\ (\E h : Shape(u, N \cup {n}, h)) /\ Inserting(u, N \cup {n}, n)
  <1> DEFINE p == m_rbt_lookup_insert(t, n).parent
             u == Linked(t, n, p)
             w == Weights(t, Nil, Nil)
             z == Weights(u, Nil, Nil)
  <1>1. /\ n \notin N
        /\ p = Nil <=> t.root = Nil
        /\ p # Nil => /\ p \in N /\ n # p /\ Leads(t, N, f, n, p)
                      /\ n < p => t.left[p] = Nil
                      /\ ~ (n < p) => t.right[p] = Nil
    BY LookupIs
  <1>2. /\ N \subseteq TreeNode /\ t \in Trees /\ Nil \notin TreeNode /\ p \in N \cup {Nil}
        /\ t.red \subseteq N /\ t.root \notin t.red /\ Apart(t, {}) /\ Balanced(t, N, Nil, Nil)
    BY <1>1, TreeAssumption DEF Shape, RedBlackBut
  <1> HIDE DEF p
  <1>3. Inserted(t, N, n, p, u) /\ u.red = t.red \cup {n}
    BY <1>1, <1>2, LinkedIs
  <1>4. Shape(u, N \cup {n}, Grown(f, N, n, p))
    <2> HIDE DEF u
    <2>1. QED
      BY <1>1, <1>3, InsertedShape
  <1> HIDE DEF u
  <1>5. /\ u.root = IF p = Nil THEN n ELSE t.root
        /\ u.left[n] = Nil /\ u.right[n] = Nil /\ u.parent[n] = p
        /\ \A v \in N :
             /\ u.left[v] = IF v = p /\ n < p THEN n ELSE t.left[v]
             /\ u.right[v] = IF v = p /\ ~ (n < p) THEN n ELSE t.right[v]
             /\ u.parent[v] = t.parent[v]
    BY <1>3 DEF Inserted
  <1>6. /\ \A v \in N : t.left[v] # Nil => t.left[v] \in N
        /\ \A v \in N : t.right[v] # Nil => t.right[v] \in N
    BY LeftChild, RightChild
  <1>7. Apart(u, {n})
    <2>1. ASSUME NEW v \in u.red \ {n} PROVE u.parent[v] \notin u.red
      <3>1. v \in N /\ u.parent[v] = t.parent[v] /\ t.parent[v] \notin t.red
        BY <1>2, <1>3, <1>5 DEF Apart
      <3>2. t.parent[v] # n
        <4>1. v = t.root => t.parent[v] = Nil
          BY <3>1, Links
        <4>2. v # t.root => t.parent[v] \in N
          BY <3>1, Links
        <4>3. QED
          BY <1>1, <1>2, <4>1, <4>2
      <3>3. QED
        BY <1>3, <3>1, <3>2
    <2>2. QED
      BY <2>1 DEF Apart
  <1>8. Balanced(u, N \cup {n}, Nil, Nil)
    <2>1. PICK e \in [TreeNode -> Nat] : Levels(t, N, e, w)
      BY <1>2 DEF Balanced
    <2> DEFINE d == [e EXCEPT ![n] = 0]
    <2>2. d \in [TreeNode -> Nat] /\ d[n] = 0 /\ \A v \in N : d[v] = e[v]
      BY <1>1, <1>2
    <2>3. z[n] = 0 /\ \A v \in N : z[v] = w[v]
      BY <1>1, <1>2, <1>3 DEF Weights
    <2> HIDE DEF d, w, z
    <2>4. ASSUME NEW v \in N PROVE Level(u, d, z, v)
      <3>1. Level(t, e, w, v) /\ d[v] = e[v] /\ z[v] = w[v]
        BY <2>1, <2>2, <2>3 DEF Levels
      <3>2. Height(d, u.left[v]) = Height(e, t.left[v])
        <4>1. CASE v = p /\ n < p
          BY <1>1, <1>2, <1>5, <2>2, <4>1 DEF Height
        <4>2. CASE ~ (v = p /\ n < p)
          BY <1>5, <1>6, <2>2, <4>2 DEF Height
        <4>3. QED
          BY <4>1, <4>2
      <3>3. Height(d, u.right[v]) = Height(e, t.right[v])
        <4>1. CASE v = p /\ ~ (n < p)
          BY <1>1, <1>2, <1>5, <2>2, <4>1 DEF Height
        <4>2. CASE ~ (v = p /\ ~ (n < p))
          BY <1>5, <1>6, <2>2, <4>2 DEF Height
        <4>3. QED
          BY <4>1, <4>2
      <3>4. QED
        BY <3>1, <3>2, <3>3 DEF Level
    <2>5. Level(u, d, z, n)
      BY <1>5, <2>2, <2>3 DEF Level, Height
    <2>6. Levels(u, N \cup {n}, d, z)
      BY <2>4, <2>5 DEF Levels
    <2>7. QED
      BY <2>2, <2>6 DEF Balanced, z
  <1>9. n \in u.red /\ u.red \subseteq N \cup {n} /\ (u.root \in u.red => n = u.root)
    BY <1>1, <1>2, <1>3, <1>5
  <1>10. Inserting(u, N \cup {n}, n)
    BY <1>7, <1>8, <1>9 DEF Inserting
  <1>11. QED
    BY <1>1, <1>4, <1>10 DEF u, p

\* The cases of an iteration of the loop of m_rbt_insert: at the root,
LEMMA InsertAtRoot ==
  ASSUME NEW t, NEW N, NEW f, Shape(t, N, f), NEW n \in N, Inserting(t, N, n), t.parent[n] = Nil
  PROVE  LET u == Black(t, {n}) IN Shape(u, N, f) /\ RedBlackBut(u, N, {}, Nil, Nil)
  <1> DEFINE u == Black(t, {n})
             w == Weights(t, Nil, Nil)
             z == Weights(u, Nil, Nil)
  <1>1. /\ N \subseteq TreeNode /\ t \in Trees /\ Nil \notin TreeNode /\ n \in t.red /\ t.red \subseteq N
        /\ Apart(t, {n}) /\ Balanced(t, N, Nil, Nil) /\ n = t.root
    <2>1. n = t.root
      BY Links
    <2>2. QED
      BY <2>1, TreeAssumption DEF Shape, Inserting
  <1>2. u \in Trees /\ SameLinks(t, u) /\ u.red = t.red \ {n}
    BY <1>1, Recoloured
  <1> HIDE DEF u
  <1>3. Shape(u, N, f)
    BY <1>2, RecolouredShape
  <1>4. \A v \in N : t.left[v] # n /\ t.right[v] # n
    <2>1. \A v \in N : t.left[v] # Nil => t.left[v] # n
      BY <1>1, LeftChild
    <2>2. \A v \in N : t.right[v] # Nil => t.right[v] # n
      BY <1>1, RightChild
    <2>3. QED
      BY <1>1, <2>1, <2>2
  <1>5. PICK e \in [TreeNode -> Nat] : Levels(t, N, e, w)
    BY <1>1 DEF Balanced
  <1> DEFINE d == [e EXCEPT ![n] = e[n] + 1]
  <1>6. d \in [TreeNode -> Nat] /\ d[n] = e[n] + 1 /\ \A v \in TreeNode : v # n => d[v] = e[v]
    BY <1>1
  <1>7. z[n] = 1 /\ w[n] = 0 /\ \A v \in N : v # n => z[v] = w[v]
    BY <1>1, <1>2 DEF Weights
  <1> HIDE DEF d, w, z
  <1>8. ASSUME NEW v \in N PROVE Level(u, d, z, v)
    <2>1. Level(t, e, w, v) /\ u.left = t.left /\ u.right = t.right
      BY <1>2, <1>5 DEF Levels, SameLinks
    <2>2. t.left[v] \in Place /\ t.right[v] \in Place /\ v \in TreeNode
      BY Links
    <2>3. Height(d, u.left[v]) = Height(e, t.left[v]) /\ Height(d, u.right[v]) = Height(e, t.right[v])
      BY <1>4, <1>6, <2>1, <2>2 DEF Height, Place
    <2>4. Height(e, t.left[v]) \in Nat
      BY <1>5, <2>2 DEF Height, Place
    <2>5. QED
      BY <1>6, <1>7, <2>1, <2>2, <2>3, <2>4 DEF Level
  <1>9. Balanced(u, N, Nil, Nil)
    BY <1>6, <1>8 DEF Balanced, Levels, z
  <1>10. Apart(u, {})
    BY <1>1, <1>2 DEF Apart, SameLinks
  <1>11. RedBlackBut(u, N, {}, Nil, Nil)
    BY <1>1, <1>2, <1>9, <1>10 DEF RedBlackBut, SameLinks
  <1>12. QED
    BY <1>3, <1>11 DEF u

\* below a red node, which is not the root,
LEMMA InsertBelowRed ==
  ASSUME NEW t, NEW N, NEW f, Shape(t, N, f), NEW n \in N, Inserting(t, N, n), t.parent[n] \in t.red
  PROVE  RedBlackBut(t, N, {n}, Nil, Nil)
  <1>1. t.red \subseteq N /\ Nil \notin N /\ (t.root \in t.red => n = t.root)
    BY TreeAssumption DEF Shape, Inserting
  <1>2. n # t.root
    BY <1>1, Links
  <1>3. QED
    BY <1>1, <1>2 DEF RedBlackBut, Inserting

\* below a black node,
LEMMA InsertBelowBlack ==
  ASSUME NEW t, NEW N, NEW f, Shape(t, N, f), NEW n \in N, Inserting(t, N, n),
         t.parent[n] # Nil, t.parent[n] \notin t.red
  PROVE  RedBlackBut(t, N, {}, Nil, Nil)
  <1>1. n # t.root
    BY Links
  <1>2. Apart(t, {})
    BY DEF Apart, Inserting
  <1>3. QED
    BY <1>1, <1>2 DEF RedBlackBut, Inserting

\* below a red node with a red sibling, where the disorder moves up.
LEMMA InsertRecolour ==
  ASSUME NEW t, NEW N, NEW f, Shape(t, N, f), NEW n \in N, Inserting(t, N, n), t.parent[n] \in t.red,
         m_rbt_sibling(t, t.parent[n]) \in t.red
  PROVE  LET p == t.parent[n]
             g == t.parent[p]
             u == Red(Black(t, {p, m_rbt_sibling(t, p)}), {g})
         IN  g \in N /\ Shape(u, N, f) /\ Inserting(u, N, g)
  <1> DEFINE p == t.parent[n]
             g == t.parent[p]
             b == m_rbt_sibling(t, p)
             u == Red(Black(t, {p, b}), {g})
             w == Weights(t, Nil, Nil)
             z == Weights(u, Nil, Nil)
  <1>1. /\ N \subseteq TreeNode /\ t \in Trees /\ Nil \notin TreeNode /\ t.red \subseteq N
        /\ t.root \notin t.red /\ Apart(t, {n}) /\ Balanced(t, N, Nil, Nil)
    BY TreeAssumption, InsertBelowRed DEF Shape, RedBlackBut
  <1>2. /\ p \in N /\ p \in t.red /\ p # n /\ g \in N /\ g # p /\ g \notin t.red
        /\ b \in N /\ b \in t.red /\ b # p
        /\ (p = t.left[g] /\ b = t.right[g]) \/ (p = t.right[g] /\ b = t.left[g])
    <2>1. p \in N /\ p # n /\ p # Nil /\ p \in t.red
      BY <1>1, SiblingIs
    <2>2. g # Nil
      BY <1>1, <2>1, Links
    <2>3. /\ g \in N /\ g # p
          /\ \/ p = t.left[g] /\ p # t.right[g] /\ b = t.right[g]
             \/ p = t.right[g] /\ p # t.left[g] /\ b = t.left[g]
      BY <2>1, <2>2, SiblingIs
    <2>4. g \notin t.red
      BY <1>1, <2>1 DEF Apart
    <2>5. b \in t.red
      OBVIOUS
    <2>6. QED
      BY <1>1, <2>1, <2>3, <2>4, <2>5
  <1> HIDE DEF p, b
  <1>3. u \in Trees /\ SameLinks(t, u) /\ u.red = (t.red \ {p, b}) \cup {g}
    <2> DEFINE o == Black(t, {p, b})
    <2>1. o \in Trees /\ SameLinks(t, o) /\ o.red = t.red \ {p, b}
      BY <1>1, <1>2, Recoloured
    <2> HIDE DEF o
    <2>2. Red(o, {g}) \in Trees /\ SameLinks(o, Red(o, {g})) /\ Red(o, {g}).red = o.red \cup {g}
      BY <1>1, <1>2, <2>1, Recoloured
    <2>3. u = Red(o, {g})
      BY DEF o
    <2> HIDE DEF u
    <2>4. QED
      BY <2>1, <2>2, <2>3 DEF SameLinks
  <1> HIDE DEF u, g
  <1>4. Shape(u, N, f)
    BY <1>3, RecolouredShape
  <1>5. PICK e \in [TreeNode -> Nat] : Levels(t, N, e, w)
    BY <1>1 DEF Balanced
  <1> DEFINE d == [e EXCEPT ![p] = e[p] + 1, ![b] = e[b] + 1]
  <1>6. /\ d \in [TreeNode -> Nat] /\ d[p] = e[p] + 1 /\ d[b] = e[b] + 1
        /\ \A v \in TreeNode : v # p /\ v # b => d[v] = e[v]
    BY <1>1, <1>2
  <1>7. /\ z[p] = 1 /\ w[p] = 0 /\ z[b] = 1 /\ w[b] = 0 /\ z[g] = 0 /\ w[g] = 1
        /\ \A v \in N : v # p /\ v # b /\ v # g => z[v] = w[v]
    <2>1. \A v \in TreeNode : w[v] = (IF v \in t.red THEN 0 ELSE 1) /\ z[v] = (IF v \in u.red THEN 0 ELSE 1)
      BY <1>1 DEF Weights
    <2>2. QED
      BY <1>1, <1>2, <1>3, <2>1
  <1>8. /\ \A v \in N : t.left[v] # Nil => t.parent[t.left[v]] = v
        /\ \A v \in N : t.right[v] # Nil => t.parent[t.right[v]] = v
    BY LeftChild, RightChild
  <1>9. t.parent[p] = g /\ t.parent[b] = g
    BY <1>1, <1>2, <1>8 DEF g
  <1> HIDE DEF d, w, z
  <1>10. ASSUME NEW v \in N PROVE Level(u, d, z, v)
    <2>1. Level(t, e, w, v) /\ u.left = t.left /\ u.right = t.right /\ v \in TreeNode
      BY <1>1, <1>3, <1>5 DEF Levels, SameLinks
    <2>2. t.left[v] \in Place /\ t.right[v] \in Place
      BY Links
    <2>3. Height(e, t.left[v]) \in Nat
      BY <1>5, <2>2 DEF Height, Place
    <2>4. CASE v = g
      <3>1. Height(d, t.left[v]) = Height(e, t.left[v]) + 1 /\ Height(d, t.right[v]) = Height(e, t.right[v]) + 1
        BY <1>1, <1>2, <1>6, <2>4 DEF Height
      <3>2. d[v] = e[v] /\ z[v] = 0 /\ w[v] = 1
        BY <1>2, <1>6, <1>7, <2>1, <2>4
      <3>3. QED
        BY <2>1, <2>3, <3>1, <3>2 DEF Level
    <2>5. CASE v # g
      <3>1. t.left[v] # p /\ t.left[v] # b /\ t.right[v] # p /\ t.right[v] # b
        BY <1>1, <1>2, <1>8, <1>9, <2>5
      <3>2. Height(d, t.left[v]) = Height(e, t.left[v]) /\ Height(d, t.right[v]) = Height(e, t.right[v])
        BY <1>6, <2>2, <3>1 DEF Height, Place
      <3>3. QED
        BY <1>6, <1>7, <2>1, <2>3, <2>5, <3>2 DEF Level
    <2>6. QED
      BY <2>4, <2>5
  <1>11. Balanced(u, N, Nil, Nil)
    BY <1>6, <1>10 DEF Balanced, Levels, z
  <1>12. Apart(u, {g})
    <2>1. ASSUME NEW v \in u.red \ {g} PROVE t.parent[v] \notin u.red
      <3>1. v \in t.red /\ v \in N /\ v # p /\ v # b
        BY <1>1, <1>3
      <3>2. t.parent[v] # g
        <4>1. t.parent[v] = g => g # Nil
          BY <1>1, <1>2
        <4>2. t.parent[v] = g => v = t.left[g] \/ v = t.right[g]
          BY <3>1, <4>1, Links
        <4>3. QED
          BY <1>2, <3>1, <4>2
      <3>3. v = n => t.parent[v] = p
        BY DEF p
      <3>4. v # n => t.parent[v] \notin t.red
        BY <1>1, <3>1 DEF Apart
      <3>5. QED
        BY <1>2, <1>3, <3>2, <3>3, <3>4
    <2>2. QED
      BY <1>3, <2>1 DEF Apart, SameLinks
  <1>13. Inserting(u, N, g)
    BY <1>1, <1>2, <1>3, <1>11, <1>12 DEF Inserting, SameLinks
  <1>14. QED
    BY <1>2, <1>4, <1>13 DEF u, p, g, b
-----------------------------------------------------------------------------
(***************************************************************************)
(* The loop of m_rbt_remove_rebalance.                                     *)
(***************************************************************************)

Children(t, n) == {v \in TreeNode : t.parent[v] = n}

\* m_rbt_remove_rebalance below a black node with a red child on the other side.
LEMMA TurnLeft ==
  ASSUME NEW t, NEW N, NEW f, Shape(t, N, f), NEW p \in N, t.left[p] # Nil,
         t.left[p] \notin t.red, t.right[p] \in t.red, NEW s \in f[t.left[p]],
         RedBlackBut(t, N, Children(t, t.left[p]), s, t.left[p])
  PROVE  LET n == t.left[p]
             u == m_rbt_rotate_left(Black(Red(t, {p}), {t.right[p]}), p)
         IN  /\ \E h : Shape(u, N, h) /\ Kept(t, f, u, h, N, s) /\ h[n] = f[n]
             /\ RedBlackBut(u, N, Children(u, n), s, n)
  <1> DEFINE n == t.left[p]
             y == t.right[p]
             q == Black(Red(t, {p}), {y})
             u == m_rbt_rotate_left(q, p)
             b == t.left[y]
             o == t.parent[p]
             h == Rotated(f, p, y, n, b)
  <1>1. /\ t \in Trees /\ N \subseteq TreeNode /\ Nil \notin TreeNode /\ p \in TreeNode /\ p # Nil
        /\ t.red \subseteq N /\ t.root \notin t.red /\ Apart(t, Children(t, n)) /\ Balanced(t, N, s, n)
    BY TreeAssumption DEF Shape, RedBlackBut
  <1>2. /\ n \in N /\ n # y /\ n # p /\ p \notin f[n] /\ f[n] \subseteq N
        /\ \A k \in f[n] : k < p
    BY <1>1, LeftChild, Links
  <1>3. /\ y \in N /\ y # Nil /\ y # p /\ t.parent[y] = p /\ p \notin f[y] /\ y \in f[y] /\ y \in f[p]
        /\ \A k \in f[y] : p < k
    BY <1>1, RightChild
  <1>4. s \in N /\ s \notin f[y] /\ p \notin f[s] /\ s # p /\ s # y
    <2>1. s \in N /\ f[s] \subseteq f[n]
      BY <1>2, BelowBelow
    <2>2. s \in Int /\ p \in Int
      BY <2>1, Links
    <2>3. s \notin f[y]
      BY <1>2, <1>3, <2>2
    <2>4. QED
      BY <1>2, <1>3, <2>1, <2>3
  <1>5. p \notin t.red
    <2>1. y \notin Children(t, n)
      BY <1>2, <1>3 DEF Children
    <2>2. QED
      BY <1>1, <1>3, <2>1 DEF Apart
  <1>6. q \in Trees /\ SameLinks(t, q) /\ q.red = (t.red \cup {p}) \ {y}
    <2> DEFINE r == Red(t, {p})
    <2>1. r \in Trees /\ SameLinks(t, r) /\ r.red = t.red \cup {p}
      BY <1>1, Recoloured
    <2> HIDE DEF r
    <2>2. Black(r, {y}) \in Trees /\ SameLinks(r, Black(r, {y})) /\ Black(r, {y}).red = r.red \ {y}
      BY <1>1, <1>3, <2>1, Recoloured
    <2>3. q = Black(r, {y})
      BY DEF r
    <2> HIDE DEF q
    <2>4. QED
      BY <2>1, <2>2, <2>3 DEF SameLinks
  <1> HIDE DEF q
  <1>7. Shape(q, N, f) /\ q.left = t.left /\ q.right = t.right /\ q.parent = t.parent /\ q.root = t.root
    BY <1>6, RecolouredShape DEF SameLinks
  <1>8. /\ Shape(u, N, h)
        /\ u.red = q.red
        /\ u.root = IF o = Nil THEN y ELSE t.root
        /\ \A v \in TreeNode :
             u.parent[v] = IF v = y THEN o ELSE IF v = p THEN y ELSE IF v = b THEN p ELSE t.parent[v]
    <2> HIDE DEF y, u, b, o, n, h
    <2>0. /\ y = q.right[p] /\ b = q.left[q.right[p]] /\ o = q.parent[p] /\ h = Rotated(f, p, q.right[p], q.left[p], q.left[q.right[p]])
          /\ q.right[p] # Nil
      BY <1>3, <1>7 DEF y, b, o, h, n
    <2>1. /\ Shape(u, N, Rotated(f, p, q.right[p], q.left[p], q.left[q.right[p]]))
          /\ u.red = q.red
          /\ u.root = IF q.parent[p] = Nil THEN q.right[p] ELSE q.root
          /\ \A v \in TreeNode :
             u.parent[v] = IF v = q.right[p] THEN q.parent[p] ELSE IF v = p THEN q.right[p]
                           ELSE IF v = q.left[q.right[p]] THEN p ELSE q.parent[v]
      BY <1>7, <2>0, RotateLeftShape DEF u
    <2>2. QED
      BY <1>7, <2>0, <2>1
  <1>9. Kept(t, f, u, h, N, s)
    <2>1. Kept(t, f, q, f, N, s)
      BY <1>6, RecolouredKept
    <2> HIDE DEF y, u, b, n, h
    <2>2. /\ h = Rotated(f, p, q.right[p], q.left[p], q.left[q.right[p]]) /\ q.right[p] # Nil
          /\ s \notin f[q.right[p]]
      BY <1>3, <1>4, <1>7 DEF y, b, h, n
    <2>3. Kept(q, f, u, h, N, s)
      BY <1>4, <1>7, <2>2, RotateLeftKept DEF u
    <2>4. QED
      BY <2>1, <2>3, KeptTwice
  <1>10. h[n] = f[n]
    <2>1. f \in [TreeNode -> SUBSET TreeNode]
      BY DEF Shape
    <2>2. QED
      BY <1>1, <1>2, <2>1 DEF Rotated
  <1>11. Balanced(u, N, s, n)
    <2>1. \A v \in N : v # p /\ v # y => (v \in q.red <=> v \in t.red)
      BY <1>6
    <2>2. y \in t.red /\ p \in q.red /\ (y \in q.red <=> p \in t.red)
      BY <1>3, <1>5, <1>6
    <2>3. QED
      BY <1>1, <1>2, <1>3, <1>4, <1>6, <2>1, <2>2, RotateLeftBalanced
  <1>12. (o = Nil <=> p = t.root) /\ b # n /\ (b # Nil => t.parent[b] = y) /\ o # y
    <2>1. o = Nil <=> p = t.root
      BY Links
    <2>2. b # Nil => t.parent[b] = y
      BY <1>3, LeftChild
    <2>3. t.parent[n] = p
      BY LeftChild
    <2>4. o # Nil => o \notin f[p]
      BY SiblingIs
    <2>5. QED
      BY <1>1, <1>2, <1>3, <2>1, <2>2, <2>3, <2>4
  <1>13. n \notin t.red /\ y \in t.red
    OBVIOUS
  <1> HIDE DEF u, h, b, o
  <1>14. u.root \notin u.red
    BY <1>1, <1>6, <1>8, <1>12
  <1>15. Apart(u, Children(u, n))
    <2>1. ASSUME NEW v \in u.red, v \notin Children(u, n) PROVE u.parent[v] \notin u.red
      <3>1. v \in TreeNode /\ v \in N /\ (v = p \/ v \in t.red) /\ v # y
        BY <1>1, <1>3, <1>6, <1>8, <2>1
      <3>2. CASE v = p
        BY <1>3, <1>6, <1>8, <3>1, <3>2
      <3>3. CASE v # p
        <4>1. v # b
          <5>1. SUFFICES ASSUME v = b PROVE FALSE
            OBVIOUS
          <5>2. t.parent[v] = y
            BY <1>1, <1>12, <3>1, <5>1
          <5>3. v \notin Children(t, n)
            BY <1>2, <5>2 DEF Children
          <5>4. QED
            BY <1>1, <1>13, <3>1, <3>3, <5>2, <5>3 DEF Apart
        <4>2. u.parent[v] = t.parent[v]
          BY <1>8, <3>1, <3>3, <4>1
        <4>3. v \notin Children(t, n)
          BY <2>1, <4>2 DEF Children
        <4>4. t.parent[v] \notin t.red
          BY <1>1, <3>1, <3>3, <4>3 DEF Apart
        <4>5. t.parent[v] # p
          <5>1. t.parent[v] = p => v = t.left[p] \/ v = t.right[p]
            BY <1>1, <3>1, Links
          <5>2. v # n /\ v # y
            BY <1>13, <3>1, <3>3
          <5>3. QED
            BY <5>1, <5>2
        <4>6. QED
          BY <1>6, <1>8, <4>2, <4>4, <4>5
      <3>4. QED
        BY <3>2, <3>3
    <2>2. QED
      BY <2>1 DEF Apart
  <1>16. u.red \subseteq N
    BY <1>1, <1>6, <1>8
  <1>17. RedBlackBut(u, N, Children(u, n), s, n)
    BY <1>11, <1>14, <1>15, <1>16 DEF RedBlackBut
  <1>18. QED
    BY <1>8, <1>9, <1>10, <1>17 DEF u, q

\* The same on the other side.
LEMMA TurnRight ==
  ASSUME NEW t, NEW N, NEW f, Shape(t, N, f), NEW p \in N, t.right[p] # Nil,
         t.right[p] \notin t.red, t.left[p] \in t.red, NEW s \in f[t.right[p]],
         RedBlackBut(t, N, Children(t, t.right[p]), s, t.right[p])
  PROVE  LET n == t.right[p]
             u == m_rbt_rotate_right(Black(Red(t, {p}), {t.left[p]}), p)
         IN  /\ \E h : Shape(u, N, h) /\ Kept(t, f, u, h, N, s) /\ h[n] = f[n]
             /\ RedBlackBut(u, N, Children(u, n), s, n)
  <1> DEFINE n == t.right[p]
             y == t.left[p]
             q == Black(Red(t, {p}), {y})
             u == m_rbt_rotate_right(q, p)
             b == t.right[y]
             o == t.parent[p]
             h == Rotated(f, p, y, n, b)
  <1>1. /\ t \in Trees /\ N \subseteq TreeNode /\ Nil \notin TreeNode /\ p \in TreeNode /\ p # Nil
        /\ t.red \subseteq N /\ t.root \notin t.red /\ Apart(t, Children(t, n)) /\ Balanced(t, N, s, n)
    BY TreeAssumption DEF Shape, RedBlackBut
  <1>2. /\ n \in N /\ n # y /\ n # p /\ p \notin f[n] /\ f[n] \subseteq N
        /\ \A k \in f[n] : p < k
    BY <1>1, RightChild, Links
  <1>3. /\ y \in N /\ y # Nil /\ y # p /\ t.parent[y] = p /\ p \notin f[y] /\ y \in f[y] /\ y \in f[p]
        /\ \A k \in f[y] : k < p
    BY <1>1, LeftChild
  <1>4. s \in N /\ s \notin f[y] /\ p \notin f[s] /\ s # p /\ s # y
    <2>1. s \in N /\ f[s] \subseteq f[n]
      BY <1>2, BelowBelow
    <2>2. s \in Int /\ p \in Int
      BY <2>1, Links
    <2>3. s \notin f[y]
      BY <1>2, <1>3, <2>2
    <2>4. QED
      BY <1>2, <1>3, <2>1, <2>3
  <1>5. p \notin t.red
    <2>1. y \notin Children(t, n)
      BY <1>2, <1>3 DEF Children
    <2>2. QED
      BY <1>1, <1>3, <2>1 DEF Apart
  <1>6. q \in Trees /\ SameLinks(t, q) /\ q.red = (t.red \cup {p}) \ {y}
    <2> DEFINE r == Red(t, {p})
    <2>1. r \in Trees /\ SameLinks(t, r) /\ r.red = t.red \cup {p}
      BY <1>1, Recoloured
    <2> HIDE DEF r
    <2>2. Black(r, {y}) \in Trees /\ SameLinks(r, Black(r, {y})) /\ Black(r, {y}).red = r.red \ {y}
      BY <1>1, <1>3, <2>1, Recoloured
    <2>3. q = Black(r, {y})
      BY DEF r
    <2> HIDE DEF q
    <2>4. QED
      BY <2>1, <2>2, <2>3 DEF SameLinks
  <1> HIDE DEF q
  <1>7. Shape(q, N, f) /\ q.right = t.right /\ q.left = t.left /\ q.parent = t.parent /\ q.root = t.root
    BY <1>6, RecolouredShape DEF SameLinks
  <1>8. /\ Shape(u, N, h)
        /\ u.red = q.red
        /\ u.root = IF o = Nil THEN y ELSE t.root
        /\ \A v \in TreeNode :
             u.parent[v] = IF v = y THEN o ELSE IF v = p THEN y ELSE IF v = b THEN p ELSE t.parent[v]
    <2> HIDE DEF y, u, b, o, n, h
    <2>0. /\ y = q.left[p] /\ b = q.right[q.left[p]] /\ o = q.parent[p] /\ h = Rotated(f, p, q.left[p], q.right[p], q.right[q.left[p]])
          /\ q.left[p] # Nil
      BY <1>3, <1>7 DEF y, b, o, h, n
    <2>1. /\ Shape(u, N, Rotated(f, p, q.left[p], q.right[p], q.right[q.left[p]]))
          /\ u.red = q.red
          /\ u.root = IF q.parent[p] = Nil THEN q.left[p] ELSE q.root
          /\ \A v \in TreeNode :
             u.parent[v] = IF v = q.left[p] THEN q.parent[p] ELSE IF v = p THEN q.left[p]
                           ELSE IF v = q.right[q.left[p]] THEN p ELSE q.parent[v]
      BY <1>7, <2>0, RotateRightShape DEF u
    <2>2. QED
      BY <1>7, <2>0, <2>1
  <1>9. Kept(t, f, u, h, N, s)
    <2>1. Kept(t, f, q, f, N, s)
      BY <1>6, RecolouredKept
    <2> HIDE DEF y, u, b, n, h
    <2>2. /\ h = Rotated(f, p, q.left[p], q.right[p], q.right[q.left[p]]) /\ q.left[p] # Nil
          /\ s \notin f[q.left[p]]
      BY <1>3, <1>4, <1>7 DEF y, b, h, n
    <2>3. Kept(q, f, u, h, N, s)
      BY <1>4, <1>7, <2>2, RotateRightKept DEF u
    <2>4. QED
      BY <2>1, <2>3, KeptTwice
  <1>10. h[n] = f[n]
    <2>1. f \in [TreeNode -> SUBSET TreeNode]
      BY DEF Shape
    <2>2. QED
      BY <1>1, <1>2, <2>1 DEF Rotated
  <1>11. Balanced(u, N, s, n)
    <2>1. \A v \in N : v # p /\ v # y => (v \in q.red <=> v \in t.red)
      BY <1>6
    <2>2. y \in t.red /\ p \in q.red /\ (y \in q.red <=> p \in t.red)
      BY <1>3, <1>5, <1>6
    <2>3. QED
      BY <1>1, <1>2, <1>3, <1>4, <1>6, <2>1, <2>2, RotateRightBalanced
  <1>12. (o = Nil <=> p = t.root) /\ b # n /\ (b # Nil => t.parent[b] = y) /\ o # y
    <2>1. o = Nil <=> p = t.root
      BY Links
    <2>2. b # Nil => t.parent[b] = y
      BY <1>3, RightChild
    <2>3. t.parent[n] = p
      BY RightChild
    <2>4. o # Nil => o \notin f[p]
      BY SiblingIs
    <2>5. QED
      BY <1>1, <1>2, <1>3, <2>1, <2>2, <2>3, <2>4
  <1>13. n \notin t.red /\ y \in t.red
    OBVIOUS
  <1> HIDE DEF u, h, b, o
  <1>14. u.root \notin u.red
    BY <1>1, <1>6, <1>8, <1>12
  <1>15. Apart(u, Children(u, n))
    <2>1. ASSUME NEW v \in u.red, v \notin Children(u, n) PROVE u.parent[v] \notin u.red
      <3>1. v \in TreeNode /\ v \in N /\ (v = p \/ v \in t.red) /\ v # y
        BY <1>1, <1>3, <1>6, <1>8, <2>1
      <3>2. CASE v = p
        BY <1>3, <1>6, <1>8, <3>1, <3>2
      <3>3. CASE v # p
        <4>1. v # b
          <5>1. SUFFICES ASSUME v = b PROVE FALSE
            OBVIOUS
          <5>2. t.parent[v] = y
            BY <1>1, <1>12, <3>1, <5>1
          <5>3. v \notin Children(t, n)
            BY <1>2, <5>2 DEF Children
          <5>4. QED
            BY <1>1, <1>13, <3>1, <3>3, <5>2, <5>3 DEF Apart
        <4>2. u.parent[v] = t.parent[v]
          BY <1>8, <3>1, <3>3, <4>1
        <4>3. v \notin Children(t, n)
          BY <2>1, <4>2 DEF Children
        <4>4. t.parent[v] \notin t.red
          BY <1>1, <3>1, <3>3, <4>3 DEF Apart
        <4>5. t.parent[v] # p
          <5>1. t.parent[v] = p => v = t.right[p] \/ v = t.left[p]
            BY <1>1, <3>1, Links
          <5>2. v # n /\ v # y
            BY <1>13, <3>1, <3>3
          <5>3. QED
            BY <5>1, <5>2
        <4>6. QED
          BY <1>6, <1>8, <4>2, <4>4, <4>5
      <3>4. QED
        BY <3>2, <3>3
    <2>2. QED
      BY <2>1 DEF Apart
  <1>16. u.red \subseteq N
    BY <1>1, <1>6, <1>8
  <1>17. RedBlackBut(u, N, Children(u, n), s, n)
    BY <1>11, <1>14, <1>15, <1>16 DEF RedBlackBut
  <1>18. QED
    BY <1>8, <1>9, <1>10, <1>17 DEF u, q

\* u is t with b, the red nephew of n on the near side, in the place of its parent y.
NearTurned(t, N, f, p, n, y, b, s, u) ==
  /\ \E h : Shape(u, N, h) /\ Kept(t, f, u, h, N, s) /\ h[n] = f[n]
  /\ RedBlackBut(u, N, Children(u, n) \cup Children(u, y), s, n)
  /\ b \notin u.red /\ y \in u.red /\ n \notin u.red /\ (p \in u.red <=> p \in t.red)
  /\ b \in N /\ y \in N /\ b # p /\ y # p /\ s # b /\ s # y

\* The red nephew on the near side becomes the sibling.
LEMMA NearLeft ==
  ASSUME NEW t, NEW N, NEW f, Shape(t, N, f), NEW p \in N, t.left[p] # Nil, t.left[p] \notin t.red,
         t.right[p] # Nil, t.right[p] \notin t.red, t.left[t.right[p]] \in t.red, NEW s \in f[t.left[p]],
         RedBlackBut(t, N, Children(t, t.left[p]), s, t.left[p])
  PROVE  LET n == t.left[p]
             y == t.right[p]
             b == t.left[y]
             u == m_rbt_rotate_right(Red(Black(t, {b}), {y}), y)
         IN  /\ NearTurned(t, N, f, p, n, y, b, s, u)
             /\ u.left[p] = n /\ u.right[p] = b /\ u.right[b] = y
  <1> DEFINE n == t.left[p]
             y == t.right[p]
             b == t.left[y]
             q == Red(Black(t, {b}), {y})
             u == m_rbt_rotate_right(q, y)
             k == t.right[b]
             a == t.right[y]
             h == Rotated(f, y, b, a, k)
  <1>1. /\ t \in Trees /\ N \subseteq TreeNode /\ Nil \notin TreeNode /\ p \in TreeNode /\ p # Nil
        /\ t.red \subseteq N /\ t.root \notin t.red /\ Apart(t, Children(t, n)) /\ Balanced(t, N, s, n)
        /\ y \notin t.red /\ b \in t.red /\ n \notin t.red
    BY TreeAssumption DEF Shape, RedBlackBut
  <1>2. /\ n \in N /\ n # y /\ n # p /\ p \notin f[n] /\ f[n] \subseteq N /\ n \in f[n]
        /\ \A v \in f[n] : v < p
    BY <1>1, LeftChild, Links
  <1>3. /\ y \in N /\ y # Nil /\ y # p /\ t.parent[y] = p /\ p \notin f[y] /\ y \in f[y] /\ y \in f[p]
        /\ \A v \in f[y] : p < v
    BY <1>1, RightChild
  <1>4. /\ b \in N /\ b # Nil /\ b # y /\ t.parent[b] = y /\ y \notin f[b] /\ f[b] \subseteq f[y] /\ b \in f[y]
    BY <1>1, <1>3, LeftChild
  <1>5. /\ s \in N /\ s \notin f[y] /\ s \notin f[b] /\ y \notin f[s] /\ s # y /\ s # b
        /\ n \notin f[y]
    <2>1. s \in N /\ f[s] \subseteq f[n]
      BY <1>2, BelowBelow
    <2>2. \A v \in f[n] : v \in Int
      BY <1>2, Links
    <2>3. p \in Int
      BY Links
    <2>4. \A v \in f[n] : v \notin f[y]
      BY <1>2, <1>3, <2>2, <2>3
    <2>5. QED
      BY <1>2, <1>3, <1>4, <2>1, <2>4
  <1>6. q \in Trees /\ SameLinks(t, q) /\ q.red = (t.red \ {b}) \cup {y}
    <2> DEFINE r == Black(t, {b})
    <2>1. r \in Trees /\ SameLinks(t, r) /\ r.red = t.red \ {b}
      BY <1>1, <1>4, Recoloured
    <2> HIDE DEF r
    <2>2. Red(r, {y}) \in Trees /\ SameLinks(r, Red(r, {y})) /\ Red(r, {y}).red = r.red \cup {y}
      BY <1>1, <1>3, <2>1, Recoloured
    <2>3. q = Red(r, {y})
      BY DEF r
    <2> HIDE DEF q
    <2>4. QED
      BY <2>1, <2>2, <2>3 DEF SameLinks
  <1> HIDE DEF q
  <1>7. Shape(q, N, f) /\ q.left = t.left /\ q.right = t.right /\ q.parent = t.parent /\ q.root = t.root
    BY <1>6, RecolouredShape DEF SameLinks
  <1>8. /\ Shape(u, N, h)
        /\ u.red = q.red
        /\ u.root = t.root
        /\ \A v \in TreeNode :
             /\ u.left[v] = IF v = y THEN k ELSE IF v = p /\ t.left[p] = y THEN b ELSE t.left[v]
             /\ u.right[v] = IF v = b THEN y ELSE IF v = p /\ t.right[p] = y THEN b ELSE t.right[v]
             /\ u.parent[v] = IF v = b THEN p ELSE IF v = y THEN b ELSE IF v = k THEN y ELSE t.parent[v]
    <2>1. /\ Shape(u, N, Rotated(f, y, q.left[y], q.right[y], q.right[q.left[y]]))
          /\ u.red = q.red
          /\ u.root = IF q.parent[y] = Nil THEN q.left[y] ELSE q.root
          /\ \A v \in TreeNode :
               /\ u.left[v] = IF v = y THEN q.right[q.left[y]]
                              ELSE IF v = q.parent[y] /\ q.left[q.parent[y]] = y THEN q.left[y] ELSE q.left[v]
               /\ u.right[v] = IF v = q.left[y] THEN y
                              ELSE IF v = q.parent[y] /\ q.right[q.parent[y]] = y THEN q.left[y] ELSE q.right[v]
               /\ u.parent[v] = IF v = q.left[y] THEN q.parent[y] ELSE IF v = y THEN q.left[y]
                           ELSE IF v = q.right[q.left[y]] THEN y ELSE q.parent[v]
      <3> HIDE DEF y
      <3>1. q.left[y] # Nil /\ y \in N /\ Shape(q, N, f)
        BY <1>3, <1>4, <1>7
      <3>2. QED
        BY ONLY <3>1, RotateRightShape
    <2> HIDE DEF y, u
    <2>2. q.left[y] = b /\ q.parent[y] = p /\ q.right[y] = a /\ q.right[b] = k
      BY <1>3, <1>7
    <2> HIDE DEF b, k, a
    <2>3. QED
      BY <1>1, <1>7, <2>1, <2>2
  <1>9. Kept(t, f, u, h, N, s)
    <2>1. Kept(t, f, q, f, N, s)
      BY <1>6, RecolouredKept
    <2> HIDE DEF y, u, h
    <2>2. h = Rotated(f, y, q.left[y], q.right[y], q.right[q.left[y]]) /\ q.left[y] # Nil /\ s \notin f[q.left[y]]
      BY <1>4, <1>5, <1>7 DEF h
    <2>3. Kept(q, f, u, h, N, s)
      BY <1>3, <1>5, <1>7, <2>2, RotateRightKept DEF u
    <2>4. QED
      BY <2>1, <2>3, KeptTwice
  <1>10. h[n] = f[n]
    <2>1. f \in [TreeNode -> SUBSET TreeNode]
      BY DEF Shape
    <2>2. n # b
      BY <1>4, <1>5
    <2>3. QED
      BY <1>1, <1>2, <1>3, <1>4, <2>1, <2>2 DEF Rotated
  <1>11. Balanced(u, N, s, n)
    <2>1. \A v \in N : v # y /\ v # b => (v \in q.red <=> v \in t.red)
      BY <1>6
    <2>2. b \in t.red /\ y \in q.red /\ (b \in q.red <=> y \in t.red) /\ n # b
      BY <1>1, <1>4, <1>5, <1>6
    <2> HIDE DEF y, n
    <2>3. t.left[y] # Nil
      BY <1>4
    <2>4. QED
      BY <1>1, <1>2, <1>3, <1>4, <1>5, <1>6, <2>1, <2>2, <2>3, RotateRightBalanced
  <1>12. (k # Nil => t.parent[k] = b) /\ p # b
    BY <1>1, <1>3, <1>4, RightChild
  <1> HIDE DEF u, h, k, a, b
  <1>13. /\ u.left[p] = n /\ u.right[p] = b /\ u.right[b] = y
         /\ b \notin u.red /\ y \in u.red /\ n \notin u.red /\ (p \in u.red <=> p \in t.red)
    <2>1. n # y /\ y = t.right[p] /\ n = t.left[p] /\ n # b
      BY <1>2, <1>4, <1>5
    <2> HIDE DEF n, y
    <2>2. b \notin u.red /\ y \in u.red /\ n \notin u.red /\ (p \in u.red <=> p \in t.red)
      BY <1>1, <1>3, <1>4, <1>6, <1>8, <1>12, <2>1
    <2>3. u.left[p] = n /\ u.right[p] = b /\ u.right[b] = y
      BY <1>1, <1>3, <1>4, <1>8, <1>12, <2>1
    <2>4. QED
      BY <2>2, <2>3
  <1> HIDE DEF y
  <1>14. Apart(u, Children(u, n) \cup Children(u, y))
    <2>1. ASSUME NEW v \in u.red, v \notin Children(u, n), v \notin Children(u, y) PROVE u.parent[v] \notin u.red
      <3>1. v \in TreeNode /\ v \in N /\ (v = y \/ v \in t.red) /\ v # b
        BY <1>1, <1>3, <1>4, <1>6, <1>8, <2>1
      <3>2. CASE v = y
        <4>1. u.parent[v] = b
          BY <1>4, <1>8, <3>1, <3>2
        <4>2. QED
          BY <1>13, <4>1
      <3>3. CASE v # y
        <4>1. v # k
          <5>1. v = k => u.parent[v] = y
            BY <1>8, <3>1, <3>3
          <5>2. QED
            BY <2>1, <3>1, <5>1 DEF Children
        <4>2. u.parent[v] = t.parent[v]
          BY <1>8, <3>1, <3>3, <4>1
        <4>3. v \notin Children(t, n)
          BY <2>1, <4>2 DEF Children
        <4>4. t.parent[v] \notin t.red
          BY <1>1, <3>1, <3>3, <4>3 DEF Apart
        <4>5. t.parent[v] # y
          BY <2>1, <3>1, <4>2 DEF Children
        <4>6. QED
          BY <1>6, <1>8, <4>2, <4>4, <4>5
      <3>4. QED
        BY <3>2, <3>3
    <2>2. QED
      BY <2>1 DEF Apart
  <1>15. u.red \subseteq N /\ u.root \notin u.red
    <2>1. t.root # y
      <3>1. t.root = y => t.parent[y] = Nil
        BY <1>3 DEF Shape
      <3>2. QED
        BY <1>1, <1>3, <3>1
    <2>2. QED
      BY <1>1, <1>3, <1>6, <1>8, <2>1
  <1>16. RedBlackBut(u, N, Children(u, n) \cup Children(u, y), s, n)
    BY <1>11, <1>14, <1>15 DEF RedBlackBut
  <1>17. \E g : Shape(u, N, g) /\ Kept(t, f, u, g, N, s) /\ g[n] = f[n]
    BY <1>8, <1>9, <1>10
  <1>18. QED
    BY <1>3, <1>4, <1>5, <1>12, <1>13, <1>16, <1>17 DEF u, q, y, b, NearTurned

\* The same on the other side.
LEMMA NearRight ==
  ASSUME NEW t, NEW N, NEW f, Shape(t, N, f), NEW p \in N, t.right[p] # Nil, t.right[p] \notin t.red,
         t.left[p] # Nil, t.left[p] \notin t.red, t.right[t.left[p]] \in t.red, NEW s \in f[t.right[p]],
         RedBlackBut(t, N, Children(t, t.right[p]), s, t.right[p])
  PROVE  LET n == t.right[p]
             y == t.left[p]
             b == t.right[y]
             u == m_rbt_rotate_left(Red(Black(t, {b}), {y}), y)
         IN  /\ NearTurned(t, N, f, p, n, y, b, s, u)
             /\ u.right[p] = n /\ u.left[p] = b /\ u.left[b] = y
  <1> DEFINE n == t.right[p]
             y == t.left[p]
             b == t.right[y]
             q == Red(Black(t, {b}), {y})
             u == m_rbt_rotate_left(q, y)
             k == t.left[b]
             a == t.left[y]
             h == Rotated(f, y, b, a, k)
  <1>1. /\ t \in Trees /\ N \subseteq TreeNode /\ Nil \notin TreeNode /\ p \in TreeNode /\ p # Nil
        /\ t.red \subseteq N /\ t.root \notin t.red /\ Apart(t, Children(t, n)) /\ Balanced(t, N, s, n)
        /\ y \notin t.red /\ b \in t.red /\ n \notin t.red
    BY TreeAssumption DEF Shape, RedBlackBut
  <1>2. /\ n \in N /\ n # y /\ n # p /\ p \notin f[n] /\ f[n] \subseteq N /\ n \in f[n]
        /\ \A v \in f[n] : p < v
    BY <1>1, RightChild, Links
  <1>3. /\ y \in N /\ y # Nil /\ y # p /\ t.parent[y] = p /\ p \notin f[y] /\ y \in f[y] /\ y \in f[p]
        /\ \A v \in f[y] : v < p
    BY <1>1, LeftChild
  <1>4. /\ b \in N /\ b # Nil /\ b # y /\ t.parent[b] = y /\ y \notin f[b] /\ f[b] \subseteq f[y] /\ b \in f[y]
    BY <1>1, <1>3, RightChild
  <1>5. /\ s \in N /\ s \notin f[y] /\ s \notin f[b] /\ y \notin f[s] /\ s # y /\ s # b
        /\ n \notin f[y]
    <2>1. s \in N /\ f[s] \subseteq f[n]
      BY <1>2, BelowBelow
    <2>2. \A v \in f[n] : v \in Int
      BY <1>2, Links
    <2>3. p \in Int
      BY Links
    <2>4. \A v \in f[n] : v \notin f[y]
      BY <1>2, <1>3, <2>2, <2>3
    <2>5. QED
      BY <1>2, <1>3, <1>4, <2>1, <2>4
  <1>6. q \in Trees /\ SameLinks(t, q) /\ q.red = (t.red \ {b}) \cup {y}
    <2> DEFINE r == Black(t, {b})
    <2>1. r \in Trees /\ SameLinks(t, r) /\ r.red = t.red \ {b}
      BY <1>1, <1>4, Recoloured
    <2> HIDE DEF r
    <2>2. Red(r, {y}) \in Trees /\ SameLinks(r, Red(r, {y})) /\ Red(r, {y}).red = r.red \cup {y}
      BY <1>1, <1>3, <2>1, Recoloured
    <2>3. q = Red(r, {y})
      BY DEF r
    <2> HIDE DEF q
    <2>4. QED
      BY <2>1, <2>2, <2>3 DEF SameLinks
  <1> HIDE DEF q
  <1>7. Shape(q, N, f) /\ q.right = t.right /\ q.left = t.left /\ q.parent = t.parent /\ q.root = t.root
    BY <1>6, RecolouredShape DEF SameLinks
  <1>8. /\ Shape(u, N, h)
        /\ u.red = q.red
        /\ u.root = t.root
        /\ \A v \in TreeNode :
             /\ u.right[v] = IF v = y THEN k ELSE IF v = p /\ t.right[p] = y THEN b ELSE t.right[v]
             /\ u.left[v] = IF v = b THEN y ELSE IF v = p /\ t.left[p] = y THEN b ELSE t.left[v]
             /\ u.parent[v] = IF v = b THEN p ELSE IF v = y THEN b ELSE IF v = k THEN y ELSE t.parent[v]
    <2>1. /\ Shape(u, N, Rotated(f, y, q.right[y], q.left[y], q.left[q.right[y]]))
          /\ u.red = q.red
          /\ u.root = IF q.parent[y] = Nil THEN q.right[y] ELSE q.root
          /\ \A v \in TreeNode :
               /\ u.right[v] = IF v = y THEN q.left[q.right[y]]
                              ELSE IF v = q.parent[y] /\ q.right[q.parent[y]] = y THEN q.right[y] ELSE q.right[v]
               /\ u.left[v] = IF v = q.right[y] THEN y
                              ELSE IF v = q.parent[y] /\ q.left[q.parent[y]] = y THEN q.right[y] ELSE q.left[v]
               /\ u.parent[v] = IF v = q.right[y] THEN q.parent[y] ELSE IF v = y THEN q.right[y]
                           ELSE IF v = q.left[q.right[y]] THEN y ELSE q.parent[v]
      <3> HIDE DEF y
      <3>1. q.right[y] # Nil /\ y \in N /\ Shape(q, N, f)
        BY <1>3, <1>4, <1>7
      <3>2. QED
        BY ONLY <3>1, RotateLeftShape
    <2> HIDE DEF y, u
    <2>2. q.right[y] = b /\ q.parent[y] = p /\ q.left[y] = a /\ q.left[b] = k
      BY <1>3, <1>7
    <2> HIDE DEF b, k, a
    <2>3. QED
      BY <1>1, <1>7, <2>1, <2>2
  <1>9. Kept(t, f, u, h, N, s)
    <2>1. Kept(t, f, q, f, N, s)
      BY <1>6, RecolouredKept
    <2> HIDE DEF y, u, h
    <2>2. h = Rotated(f, y, q.right[y], q.left[y], q.left[q.right[y]]) /\ q.right[y] # Nil /\ s \notin f[q.right[y]]
      BY <1>4, <1>5, <1>7 DEF h
    <2>3. Kept(q, f, u, h, N, s)
      BY <1>3, <1>5, <1>7, <2>2, RotateLeftKept DEF u
    <2>4. QED
      BY <2>1, <2>3, KeptTwice
  <1>10. h[n] = f[n]
    <2>1. f \in [TreeNode -> SUBSET TreeNode]
      BY DEF Shape
    <2>2. n # b
      BY <1>4, <1>5
    <2>3. QED
      BY <1>1, <1>2, <1>3, <1>4, <2>1, <2>2 DEF Rotated
  <1>11. Balanced(u, N, s, n)
    <2>1. \A v \in N : v # y /\ v # b => (v \in q.red <=> v \in t.red)
      BY <1>6
    <2>2. b \in t.red /\ y \in q.red /\ (b \in q.red <=> y \in t.red) /\ n # b
      BY <1>1, <1>4, <1>5, <1>6
    <2> HIDE DEF y, n
    <2>3. t.right[y] # Nil
      BY <1>4
    <2>4. QED
      BY <1>1, <1>2, <1>3, <1>4, <1>5, <1>6, <2>1, <2>2, <2>3, RotateLeftBalanced
  <1>12. (k # Nil => t.parent[k] = b) /\ p # b
    BY <1>1, <1>3, <1>4, LeftChild
  <1> HIDE DEF u, h, k, a, b
  <1>13. /\ u.right[p] = n /\ u.left[p] = b /\ u.left[b] = y
         /\ b \notin u.red /\ y \in u.red /\ n \notin u.red /\ (p \in u.red <=> p \in t.red)
    <2>1. n # y /\ y = t.left[p] /\ n = t.right[p] /\ n # b
      BY <1>2, <1>4, <1>5
    <2> HIDE DEF n, y
    <2>2. b \notin u.red /\ y \in u.red /\ n \notin u.red /\ (p \in u.red <=> p \in t.red)
      BY <1>1, <1>3, <1>4, <1>6, <1>8, <1>12, <2>1
    <2>3. u.right[p] = n /\ u.left[p] = b /\ u.left[b] = y
      BY <1>1, <1>3, <1>4, <1>8, <1>12, <2>1
    <2>4. QED
      BY <2>2, <2>3
  <1> HIDE DEF y
  <1>14. Apart(u, Children(u, n) \cup Children(u, y))
    <2>1. ASSUME NEW v \in u.red, v \notin Children(u, n), v \notin Children(u, y) PROVE u.parent[v] \notin u.red
      <3>1. v \in TreeNode /\ v \in N /\ (v = y \/ v \in t.red) /\ v # b
        BY <1>1, <1>3, <1>4, <1>6, <1>8, <2>1
      <3>2. CASE v = y
        <4>1. u.parent[v] = b
          BY <1>4, <1>8, <3>1, <3>2
        <4>2. QED
          BY <1>13, <4>1
      <3>3. CASE v # y
        <4>1. v # k
          <5>1. v = k => u.parent[v] = y
            BY <1>8, <3>1, <3>3
          <5>2. QED
            BY <2>1, <3>1, <5>1 DEF Children
        <4>2. u.parent[v] = t.parent[v]
          BY <1>8, <3>1, <3>3, <4>1
        <4>3. v \notin Children(t, n)
          BY <2>1, <4>2 DEF Children
        <4>4. t.parent[v] \notin t.red
          BY <1>1, <3>1, <3>3, <4>3 DEF Apart
        <4>5. t.parent[v] # y
          BY <2>1, <3>1, <4>2 DEF Children
        <4>6. QED
          BY <1>6, <1>8, <4>2, <4>4, <4>5
      <3>4. QED
        BY <3>2, <3>3
    <2>2. QED
      BY <2>1 DEF Apart
  <1>15. u.red \subseteq N /\ u.root \notin u.red
    <2>1. t.root # y
      <3>1. t.root = y => t.parent[y] = Nil
        BY <1>3 DEF Shape
      <3>2. QED
        BY <1>1, <1>3, <3>1
    <2>2. QED
      BY <1>1, <1>3, <1>6, <1>8, <2>1
  <1>16. RedBlackBut(u, N, Children(u, n) \cup Children(u, y), s, n)
    BY <1>11, <1>14, <1>15 DEF RedBlackBut
  <1>17. \E g : Shape(u, N, g) /\ Kept(t, f, u, g, N, s) /\ g[n] = f[n]
    BY <1>8, <1>9, <1>10
  <1>18. QED
    BY <1>3, <1>4, <1>5, <1>12, <1>13, <1>16, <1>17 DEF u, q, y, b, NearTurned

\* The rotation that ends the loop, with a red nephew on the far side.
LEMMA FarLeft ==
  ASSUME NEW t, NEW N, NEW f, Shape(t, N, f), NEW p \in N, t.left[p] # Nil, t.left[p] \notin t.red,
         t.right[p] # Nil, t.right[p] \notin t.red, t.right[t.right[p]] \in t.red, NEW s \in f[t.left[p]],
         RedBlackBut(t, N, Children(t, t.left[p]) \cup Children(t, t.right[t.right[p]]), s, t.left[p]),
         NEW q \in Trees, SameLinks(t, q),
         q.red = (t.red \ {p, t.right[t.right[p]], t.right[p]}) \cup (IF p \in t.red THEN {t.right[p]} ELSE {})
  PROVE  LET u == m_rbt_rotate_left(q, p)
         IN  /\ \E h : Shape(u, N, h) /\ Kept(t, f, u, h, N, s)
             /\ RedBlackBut(u, N, {}, s, Nil)
  <1> DEFINE n == t.left[p]
             y == t.right[p]
             k == t.right[y]
             u == m_rbt_rotate_left(q, p)
             b == t.left[y]
             o == t.parent[p]
             h == Rotated(f, p, y, n, b)
  <1>1. /\ t \in Trees /\ N \subseteq TreeNode /\ Nil \notin TreeNode /\ p \in TreeNode /\ p # Nil
        /\ t.red \subseteq N /\ t.root \notin t.red /\ Apart(t, Children(t, n) \cup Children(t, k))
        /\ Balanced(t, N, s, n) /\ n \notin t.red /\ y \notin t.red /\ k \in t.red /\ k \in N /\ n # Nil
        /\ q.red = (t.red \ {p, k, y}) \cup (IF p \in t.red THEN {y} ELSE {})
    BY TreeAssumption DEF Shape, RedBlackBut
  <1>2. /\ n \in N /\ n # y /\ n # p /\ p \notin f[n] /\ f[n] \subseteq N /\ t.parent[n] = p
        /\ \A v \in f[n] : v < p
    BY <1>1, LeftChild, Links
  <1>3. /\ y \in N /\ y # Nil /\ y # p /\ t.parent[y] = p /\ p \notin f[y] /\ y \in f[y] /\ y \in f[p]
        /\ \A v \in f[y] : p < v
    BY <1>1, RightChild
  <1>4. /\ k # Nil /\ k # y /\ k # b /\ t.parent[k] = y /\ k \in f[y] /\ k # p
        /\ b # Nil => t.parent[b] = y
    <2>1. /\ k # Nil /\ k # y /\ k # b /\ t.parent[k] = y /\ k \in f[y]
          /\ b # Nil => t.parent[b] = y
      BY <1>1, <1>3, LeftChild, RightChild
    <2>2. QED
      BY <1>3, <2>1
  <1>5. s \in N /\ s \notin f[y] /\ p \notin f[s] /\ s # p /\ s # y /\ s # k
    <2>1. s \in N /\ f[s] \subseteq f[n]
      BY <1>2, BelowBelow
    <2>2. s \in Int /\ p \in Int
      BY <2>1, Links
    <2>3. s \notin f[y]
      BY <1>2, <1>3, <2>2
    <2>4. QED
      BY <1>2, <1>3, <1>4, <2>1, <2>3
  <1>6. Shape(q, N, f) /\ q.left = t.left /\ q.right = t.right /\ q.parent = t.parent /\ q.root = t.root
    BY RecolouredShape DEF SameLinks
  <1>7. /\ Shape(u, N, h)
        /\ u.red = q.red
        /\ u.root = IF o = Nil THEN y ELSE t.root
        /\ \A v \in TreeNode :
             u.parent[v] = IF v = y THEN o ELSE IF v = p THEN y ELSE IF v = b THEN p ELSE t.parent[v]
    <2>1. q.right[p] # Nil /\ p \in N /\ Shape(q, N, f)
      BY <1>3, <1>6
    <2>2. /\ Shape(u, N, Rotated(f, p, q.right[p], q.left[p], q.left[q.right[p]]))
          /\ u.red = q.red
          /\ u.root = IF q.parent[p] = Nil THEN q.right[p] ELSE q.root
          /\ \A v \in TreeNode :
             u.parent[v] = IF v = q.right[p] THEN q.parent[p] ELSE IF v = p THEN q.right[p]
                           ELSE IF v = q.left[q.right[p]] THEN p ELSE q.parent[v]
      BY ONLY <2>1, RotateLeftShape
    <2> HIDE DEF u
    <2>3. QED
      BY <1>6, <2>2
  <1>8. Kept(t, f, u, h, N, s)
    <2>1. Kept(t, f, q, f, N, s)
      BY RecolouredKept
    <2> HIDE DEF y, u, b, n, h
    <2>2. /\ h = Rotated(f, p, q.right[p], q.left[p], q.left[q.right[p]]) /\ q.right[p] # Nil
          /\ s \notin f[q.right[p]]
      BY <1>3, <1>5, <1>6 DEF y, b, h, n
    <2>3. Kept(q, f, u, h, N, s)
      BY <1>5, <1>6, <2>2, RotateLeftKept DEF u
    <2>4. QED
      BY <2>1, <2>3, KeptTwice
  <1>9. Balanced(u, N, s, Nil)
    <2>1. /\ \A v \in N : v # p /\ v # y /\ v # k => (v \in q.red <=> v \in t.red)
          /\ p \notin q.red /\ k \notin q.red /\ (y \in q.red <=> p \in t.red)
      BY <1>1, <1>3, <1>4
    <2>2. QED
      BY <1>1, <1>3, <1>5, <2>1, RotateLeftFar
  <1>10. (o = Nil <=> p = t.root) /\ b # n /\ o # y /\ o # p /\ o # n /\ o # k
    <2>1. o = Nil <=> p = t.root
      BY Links
    <2>2. o # Nil => o \notin f[p]
      BY SiblingIs
    <2>3. n \in f[p] /\ k \in f[p] /\ p \in f[p]
      BY <1>1, <1>3, <1>4, LeftChild, RightChild, Links
    <2>4. QED
      BY <1>1, <1>2, <1>3, <1>4, <2>1, <2>2, <2>3
  <1> HIDE DEF u, h, b, o, y, n, k
  <1>11. u.root \notin u.red
    <2>1. t.root # y
      <3>1. t.root = y => t.parent[y] = Nil
        BY <1>3 DEF Shape
      <3>2. QED
        BY <1>1, <1>3, <3>1
    <2>2. QED
      BY <1>1, <1>7, <1>10, <2>1
  <1>12. Apart(u, {})
    <2>1. ASSUME NEW v \in u.red PROVE u.parent[v] \notin u.red
      <3>1. v \in TreeNode /\ v # p /\ v # k
        BY <1>1, <1>3, <1>4, <1>7, <2>1
      <3>2. CASE v = y
        <4>1. u.parent[v] = o /\ p \in t.red
          BY <1>1, <1>7, <2>1, <3>1, <3>2
        <4>2. p \notin Children(t, n) /\ p \notin Children(t, k)
          BY <1>10 DEF Children, o
        <4>3. o \notin t.red
          BY <1>1, <4>1, <4>2 DEF Apart, o
        <4>4. QED
          BY <1>1, <1>7, <1>10, <4>1, <4>3
      <3>3. CASE v # y /\ v = b
        BY <1>1, <1>3, <1>7, <3>1, <3>3
      <3>4. CASE v # y /\ v # b
        <4>1. u.parent[v] = t.parent[v] /\ v \in t.red
          BY <1>1, <1>7, <2>1, <3>1, <3>4
        <4>2. t.parent[v] # y
          <5>1. v \in N
            BY <1>1, <4>1
          <5>2. t.parent[v] = y => v = t.left[y] \/ v = t.right[y]
            BY <1>3, <5>1, Links
          <5>3. QED
            BY <3>1, <3>4, <5>2 DEF b, k
        <4>3. CASE v \in Children(t, n) \cup Children(t, k)
          <5>1. t.parent[v] = n \/ t.parent[v] = k
            BY <4>3 DEF Children
          <5>2. QED
            BY <1>1, <1>2, <1>7, <4>1, <4>2, <5>1
        <4>4. CASE v \notin Children(t, n) \cup Children(t, k)
          <5>1. t.parent[v] \notin t.red
            BY <1>1, <4>1, <4>4 DEF Apart
          <5>2. QED
            BY <1>1, <1>7, <4>1, <4>2, <5>1
        <4>5. QED
          BY <4>3, <4>4
      <3>5. QED
        BY <3>2, <3>3, <3>4
    <2>2. QED
      BY <2>1 DEF Apart
  <1>13. u.red \subseteq N
    BY <1>1, <1>3, <1>7
  <1>14. RedBlackBut(u, N, {}, s, Nil)
    BY <1>9, <1>11, <1>12, <1>13 DEF RedBlackBut
  <1>15. QED
    BY <1>7, <1>8, <1>14 DEF u

\* The same on the other side.
LEMMA FarRight ==
  ASSUME NEW t, NEW N, NEW f, Shape(t, N, f), NEW p \in N, t.right[p] # Nil, t.right[p] \notin t.red,
         t.left[p] # Nil, t.left[p] \notin t.red, t.left[t.left[p]] \in t.red, NEW s \in f[t.right[p]],
         RedBlackBut(t, N, Children(t, t.right[p]) \cup Children(t, t.left[t.left[p]]), s, t.right[p]),
         NEW q \in Trees, SameLinks(t, q),
         q.red = (t.red \ {p, t.left[t.left[p]], t.left[p]}) \cup (IF p \in t.red THEN {t.left[p]} ELSE {})
  PROVE  LET u == m_rbt_rotate_right(q, p)
         IN  /\ \E h : Shape(u, N, h) /\ Kept(t, f, u, h, N, s)
             /\ RedBlackBut(u, N, {}, s, Nil)
  <1> DEFINE n == t.right[p]
             y == t.left[p]
             k == t.left[y]
             u == m_rbt_rotate_right(q, p)
             b == t.right[y]
             o == t.parent[p]
             h == Rotated(f, p, y, n, b)
  <1>1. /\ t \in Trees /\ N \subseteq TreeNode /\ Nil \notin TreeNode /\ p \in TreeNode /\ p # Nil
        /\ t.red \subseteq N /\ t.root \notin t.red /\ Apart(t, Children(t, n) \cup Children(t, k))
        /\ Balanced(t, N, s, n) /\ n \notin t.red /\ y \notin t.red /\ k \in t.red /\ k \in N /\ n # Nil
        /\ q.red = (t.red \ {p, k, y}) \cup (IF p \in t.red THEN {y} ELSE {})
    BY TreeAssumption DEF Shape, RedBlackBut
  <1>2. /\ n \in N /\ n # y /\ n # p /\ p \notin f[n] /\ f[n] \subseteq N /\ t.parent[n] = p
        /\ \A v \in f[n] : p < v
    BY <1>1, RightChild, Links
  <1>3. /\ y \in N /\ y # Nil /\ y # p /\ t.parent[y] = p /\ p \notin f[y] /\ y \in f[y] /\ y \in f[p]
        /\ \A v \in f[y] : v < p
    BY <1>1, LeftChild
  <1>4. /\ k # Nil /\ k # y /\ k # b /\ t.parent[k] = y /\ k \in f[y] /\ k # p
        /\ b # Nil => t.parent[b] = y
    <2>1. /\ k # Nil /\ k # y /\ k # b /\ t.parent[k] = y /\ k \in f[y]
          /\ b # Nil => t.parent[b] = y
      BY <1>1, <1>3, RightChild, LeftChild
    <2>2. QED
      BY <1>3, <2>1
  <1>5. s \in N /\ s \notin f[y] /\ p \notin f[s] /\ s # p /\ s # y /\ s # k
    <2>1. s \in N /\ f[s] \subseteq f[n]
      BY <1>2, BelowBelow
    <2>2. s \in Int /\ p \in Int
      BY <2>1, Links
    <2>3. s \notin f[y]
      BY <1>2, <1>3, <2>2
    <2>4. QED
      BY <1>2, <1>3, <1>4, <2>1, <2>3
  <1>6. Shape(q, N, f) /\ q.right = t.right /\ q.left = t.left /\ q.parent = t.parent /\ q.root = t.root
    BY RecolouredShape DEF SameLinks
  <1>7. /\ Shape(u, N, h)
        /\ u.red = q.red
        /\ u.root = IF o = Nil THEN y ELSE t.root
        /\ \A v \in TreeNode :
             u.parent[v] = IF v = y THEN o ELSE IF v = p THEN y ELSE IF v = b THEN p ELSE t.parent[v]
    <2>1. q.left[p] # Nil /\ p \in N /\ Shape(q, N, f)
      BY <1>3, <1>6
    <2>2. /\ Shape(u, N, Rotated(f, p, q.left[p], q.right[p], q.right[q.left[p]]))
          /\ u.red = q.red
          /\ u.root = IF q.parent[p] = Nil THEN q.left[p] ELSE q.root
          /\ \A v \in TreeNode :
             u.parent[v] = IF v = q.left[p] THEN q.parent[p] ELSE IF v = p THEN q.left[p]
                           ELSE IF v = q.right[q.left[p]] THEN p ELSE q.parent[v]
      BY ONLY <2>1, RotateRightShape
    <2> HIDE DEF u
    <2>3. QED
      BY <1>6, <2>2
  <1>8. Kept(t, f, u, h, N, s)
    <2>1. Kept(t, f, q, f, N, s)
      BY RecolouredKept
    <2> HIDE DEF y, u, b, n, h
    <2>2. /\ h = Rotated(f, p, q.left[p], q.right[p], q.right[q.left[p]]) /\ q.left[p] # Nil
          /\ s \notin f[q.left[p]]
      BY <1>3, <1>5, <1>6 DEF y, b, h, n
    <2>3. Kept(q, f, u, h, N, s)
      BY <1>5, <1>6, <2>2, RotateRightKept DEF u
    <2>4. QED
      BY <2>1, <2>3, KeptTwice
  <1>9. Balanced(u, N, s, Nil)
    <2>1. /\ \A v \in N : v # p /\ v # y /\ v # k => (v \in q.red <=> v \in t.red)
          /\ p \notin q.red /\ k \notin q.red /\ (y \in q.red <=> p \in t.red)
      BY <1>1, <1>3, <1>4
    <2>2. QED
      BY <1>1, <1>3, <1>5, <2>1, RotateRightFar
  <1>10. (o = Nil <=> p = t.root) /\ b # n /\ o # y /\ o # p /\ o # n /\ o # k
    <2>1. o = Nil <=> p = t.root
      BY Links
    <2>2. o # Nil => o \notin f[p]
      BY SiblingIs
    <2>3. n \in f[p] /\ k \in f[p] /\ p \in f[p]
      BY <1>1, <1>3, <1>4, RightChild, LeftChild, Links
    <2>4. QED
      BY <1>1, <1>2, <1>3, <1>4, <2>1, <2>2, <2>3
  <1> HIDE DEF u, h, b, o, y, n, k
  <1>11. u.root \notin u.red
    <2>1. t.root # y
      <3>1. t.root = y => t.parent[y] = Nil
        BY <1>3 DEF Shape
      <3>2. QED
        BY <1>1, <1>3, <3>1
    <2>2. QED
      BY <1>1, <1>7, <1>10, <2>1
  <1>12. Apart(u, {})
    <2>1. ASSUME NEW v \in u.red PROVE u.parent[v] \notin u.red
      <3>1. v \in TreeNode /\ v # p /\ v # k
        BY <1>1, <1>3, <1>4, <1>7, <2>1
      <3>2. CASE v = y
        <4>1. u.parent[v] = o /\ p \in t.red
          BY <1>1, <1>7, <2>1, <3>1, <3>2
        <4>2. p \notin Children(t, n) /\ p \notin Children(t, k)
          BY <1>10 DEF Children, o
        <4>3. o \notin t.red
          BY <1>1, <4>1, <4>2 DEF Apart, o
        <4>4. QED
          BY <1>1, <1>7, <1>10, <4>1, <4>3
      <3>3. CASE v # y /\ v = b
        BY <1>1, <1>3, <1>7, <3>1, <3>3
      <3>4. CASE v # y /\ v # b
        <4>1. u.parent[v] = t.parent[v] /\ v \in t.red
          BY <1>1, <1>7, <2>1, <3>1, <3>4
        <4>2. t.parent[v] # y
          <5>1. v \in N
            BY <1>1, <4>1
          <5>2. t.parent[v] = y => v = t.right[y] \/ v = t.left[y]
            BY <1>3, <5>1, Links
          <5>3. QED
            BY <3>1, <3>4, <5>2 DEF b, k
        <4>3. CASE v \in Children(t, n) \cup Children(t, k)
          <5>1. t.parent[v] = n \/ t.parent[v] = k
            BY <4>3 DEF Children
          <5>2. QED
            BY <1>1, <1>2, <1>7, <4>1, <4>2, <5>1
        <4>4. CASE v \notin Children(t, n) \cup Children(t, k)
          <5>1. t.parent[v] \notin t.red
            BY <1>1, <4>1, <4>4 DEF Apart
          <5>2. QED
            BY <1>1, <1>7, <4>1, <4>2, <5>1
        <4>5. QED
          BY <4>3, <4>4
      <3>5. QED
        BY <3>2, <3>3, <3>4
    <2>2. QED
      BY <2>1 DEF Apart
  <1>13. u.red \subseteq N
    BY <1>1, <1>3, <1>7
  <1>14. RedBlackBut(u, N, {}, s, Nil)
    BY <1>9, <1>11, <1>12, <1>13 DEF RedBlackBut
  <1>15. QED
    BY <1>7, <1>8, <1>14 DEF u

\* The colours of the last rotation: the sibling y takes over that of the parent p.
Taken(t, p, k, y, red) ==
  LET t2 == Black(t, {p, k}) IN IF p \in red THEN Red(t2, {y}) ELSE Black(t2, {y})

\* These colours, field by field.
LEMMA TakenIs ==
  ASSUME NEW t \in Trees, NEW p, NEW k, NEW y \in TreeNode, NEW red
  PROVE  LET q == Taken(t, p, k, y, red)
         IN  /\ q \in Trees /\ SameLinks(t, q)
             /\ q.red = (t.red \ {p, k, y}) \cup (IF p \in red THEN {y} ELSE {})
  <1>1. CASE p \in red
    BY <1>1 DEF Taken, Red, Black, Trees, SameLinks
  <1>2. CASE p \notin red
    BY <1>2 DEF Taken, Red, Black, Trees, SameLinks
  <1>3. QED
    BY <1>1, <1>2

\* The last case of m_rbt_remove_rebalance, for a left child
LEMMA RemoveRotateLeft ==
  ASSUME NEW t, NEW N, NEW f, Shape(t, N, f), NEW n \in N, n \notin t.red, NEW p \in N,
         n = t.left[p], t.parent[n] = p, NEW y \in N, y = t.right[p], m_rbt_sibling(t, n) = y, y \notin t.red,
         t.left[y] \in t.red \/ t.right[y] \in t.red, NEW s \in f[n],
         RedBlackBut(t, N, Children(t, n), s, n)
  PROVE  LET v == RemoveRotate(t, n)
         IN  /\ \E h : Shape(v, N, h) /\ Kept(t, f, v, h, N, s)
             /\ RedBlackBut(v, N, {}, s, Nil)
  <1> DEFINE v == RemoveRotate(t, n)
             b == t.left[y]
             k == t.right[y]
  <1>1. /\ Nil \notin N /\ N \subseteq TreeNode /\ t \in Trees /\ n # t.right[p] /\ t.left[p] # Nil
        /\ t.right[p] # Nil /\ p # y
    <2>1. Nil \notin N /\ N \subseteq TreeNode /\ t \in Trees
      BY TreeAssumption DEF Shape
    <2>2. n # t.right[p] /\ p # y
      BY <2>1, LeftChild, RightChild
    <2>3. QED
      BY <2>1, <2>2
  <1>2. CASE b \in t.red
    <2> DEFINE c == Red(Black(t, {b}), {y})
               o == m_rbt_rotate_right(c, y)
               q == Taken(o, p, y, b, t.red)
    <2>0. t.left[t.right[p]] \in t.red /\ t.right[p] \notin t.red /\ t.left[p] \notin t.red
          /\ RedBlackBut(t, N, Children(t, t.left[p]), s, t.left[p]) /\ s \in f[t.left[p]]
      BY <1>2
    <2>1. /\ \E h : Shape(o, N, h) /\ Kept(t, f, o, h, N, s) /\ h[n] = f[n]
          /\ RedBlackBut(o, N, Children(o, n) \cup Children(o, y), s, n)
          /\ o.left[p] = n /\ o.right[p] = b /\ o.right[b] = y
          /\ b \notin o.red /\ y \in o.red /\ n \notin o.red /\ (p \in o.red <=> p \in t.red)
          /\ b \in N /\ b # p /\ s # b /\ s # y
      <3> DEFINE u == m_rbt_rotate_right(Red(Black(t, {t.left[t.right[p]]}), {t.right[p]}), t.right[p])
      <3>1. Shape(t, N, f) /\ p \in N /\ t.left[p] # Nil /\ t.right[p] # Nil
        BY <1>1
      <3>2. /\ NearTurned(t, N, f, p, t.left[p], t.right[p], t.left[t.right[p]], s, u)
            /\ u.left[p] = t.left[p] /\ u.right[p] = t.left[t.right[p]]
            /\ u.right[t.left[t.right[p]]] = t.right[p]
        BY ONLY <2>0, <3>1, NearLeft
      <3>3. n = t.left[p] /\ y = t.right[p] /\ b = t.left[y] /\ u = o
        OBVIOUS
      <3> HIDE DEF o, u, b
      <3>4. NearTurned(t, N, f, p, n, y, b, s, o) /\ o.left[p] = n /\ o.right[p] = b /\ o.right[b] = y
        BY <3>2, <3>3
      <3>5. QED
        BY <3>4 DEF NearTurned
    <2>2. v = m_rbt_rotate_left(q, p)
      <3> HIDE DEF o
      <3>1. q.left = o.left
        BY DEF Taken, Red, Black
      <3>2. n = q.left[p]
        BY <2>1, <3>1
      <3>3. v = RotateTowards(q, n, p)
        BY <1>1, <1>2 DEF RemoveRotate, Taken, o
      <3> HIDE DEF q, v
      <3>4. QED
        BY <3>2, <3>3 DEF RotateTowards
    <2>3. PICK h : Shape(o, N, h) /\ Kept(t, f, o, h, N, s) /\ h[n] = f[n]
      BY <2>1
    <2> HIDE DEF o, b
    <2>4. /\ q \in Trees /\ SameLinks(o, q)
          /\ q.red = (o.red \ {p, y, b}) \cup (IF p \in t.red THEN {b} ELSE {})
      BY <1>1, <2>1, <2>3, TakenIs DEF Shape
    <2> HIDE DEF q, v
    <2>5. /\ o.left[p] # Nil /\ o.left[p] \notin o.red /\ o.right[p] # Nil /\ o.right[p] \notin o.red
          /\ o.right[o.right[p]] \in o.red /\ s \in h[o.left[p]]
          /\ RedBlackBut(o, N, Children(o, o.left[p]) \cup Children(o, o.right[o.right[p]]), s, o.left[p])
          /\ q.red = (o.red \ {p, o.right[o.right[p]], o.right[p]})
                     \cup (IF p \in o.red THEN {o.right[p]} ELSE {})
      BY <1>1, <2>1, <2>3, <2>4
    <2>6. /\ \E g : Shape(v, N, g) /\ Kept(o, h, v, g, N, s)
          /\ RedBlackBut(v, N, {}, s, Nil)
      BY <2>2, <2>3, <2>4, <2>5, FarLeft
    <2>7. PICK g : Shape(v, N, g) /\ Kept(o, h, v, g, N, s)
      BY <2>6
    <2>8. Kept(t, f, v, g, N, s)
      BY <2>3, <2>7, KeptTwice
    <2>9. QED
      BY <2>6, <2>7, <2>8 DEF v
  <1>3. CASE b \notin t.red
    <2> DEFINE q == Taken(t, p, k, y, t.red)
    <2>2. v = m_rbt_rotate_left(q, p)
      <3>1. q.left = t.left
        BY DEF Taken, Red, Black
      <3>2. n = q.left[p]
        BY <3>1
      <3>3. v = RotateTowards(q, n, p)
        BY <1>1, <1>3 DEF RemoveRotate, Taken
      <3> HIDE DEF q, v
      <3>4. QED
        BY <3>2, <3>3 DEF RotateTowards
    <2>3. k \in t.red
      BY <1>3
    <2>4. /\ q \in Trees /\ SameLinks(t, q)
          /\ q.red = (t.red \ {p, k, y}) \cup (IF p \in t.red THEN {y} ELSE {})
      BY <1>1, TakenIs
    <2> HIDE DEF q, v
    <2>5. /\ t.left[p] \notin t.red /\ t.right[p] \notin t.red
          /\ t.right[t.right[p]] \in t.red /\ s \in f[t.left[p]]
          /\ RedBlackBut(t, N, Children(t, t.left[p]) \cup Children(t, t.right[t.right[p]]), s, t.left[p])
          /\ q.red = (t.red \ {p, t.right[t.right[p]], t.right[p]})
                     \cup (IF p \in t.red THEN {t.right[p]} ELSE {})
      <3>1. RedBlackBut(t, N, Children(t, n) \cup Children(t, k), s, n)
        BY DEF RedBlackBut, Apart
      <3>2. QED
        BY <2>3, <2>4, <3>1
    <2>6. QED
      BY <1>1, <2>2, <2>4, <2>5, FarLeft DEF v
  <1>4. QED
    BY <1>2, <1>3

\* and for a right child.
LEMMA RemoveRotateRight ==
  ASSUME NEW t, NEW N, NEW f, Shape(t, N, f), NEW n \in N, n \notin t.red, NEW p \in N,
         n = t.right[p], t.parent[n] = p, NEW y \in N, y = t.left[p], m_rbt_sibling(t, n) = y, y \notin t.red,
         t.right[y] \in t.red \/ t.left[y] \in t.red, NEW s \in f[n],
         RedBlackBut(t, N, Children(t, n), s, n)
  PROVE  LET v == RemoveRotate(t, n)
         IN  /\ \E h : Shape(v, N, h) /\ Kept(t, f, v, h, N, s)
             /\ RedBlackBut(v, N, {}, s, Nil)
  <1> DEFINE v == RemoveRotate(t, n)
             b == t.right[y]
             k == t.left[y]
  <1>1. /\ Nil \notin N /\ N \subseteq TreeNode /\ t \in Trees /\ n # t.left[p] /\ t.right[p] # Nil
        /\ t.left[p] # Nil /\ p # y
    <2>1. Nil \notin N /\ N \subseteq TreeNode /\ t \in Trees
      BY TreeAssumption DEF Shape
    <2>2. n # t.left[p] /\ p # y
      BY <2>1, RightChild, LeftChild
    <2>3. QED
      BY <2>1, <2>2
  <1>2. CASE b \in t.red
    <2> DEFINE c == Red(Black(t, {b}), {y})
               o == m_rbt_rotate_left(c, y)
               q == Taken(o, p, y, b, t.red)
    <2>0. t.right[t.left[p]] \in t.red /\ t.left[p] \notin t.red /\ t.right[p] \notin t.red
          /\ RedBlackBut(t, N, Children(t, t.right[p]), s, t.right[p]) /\ s \in f[t.right[p]]
      BY <1>2
    <2>1. /\ \E h : Shape(o, N, h) /\ Kept(t, f, o, h, N, s) /\ h[n] = f[n]
          /\ RedBlackBut(o, N, Children(o, n) \cup Children(o, y), s, n)
          /\ o.right[p] = n /\ o.left[p] = b /\ o.left[b] = y
          /\ b \notin o.red /\ y \in o.red /\ n \notin o.red /\ (p \in o.red <=> p \in t.red)
          /\ b \in N /\ b # p /\ s # b /\ s # y
      <3> DEFINE u == m_rbt_rotate_left(Red(Black(t, {t.right[t.left[p]]}), {t.left[p]}), t.left[p])
      <3>1. Shape(t, N, f) /\ p \in N /\ t.right[p] # Nil /\ t.left[p] # Nil
        BY <1>1
      <3>2. /\ NearTurned(t, N, f, p, t.right[p], t.left[p], t.right[t.left[p]], s, u)
            /\ u.right[p] = t.right[p] /\ u.left[p] = t.right[t.left[p]]
            /\ u.left[t.right[t.left[p]]] = t.left[p]
        BY ONLY <2>0, <3>1, NearRight
      <3>3. n = t.right[p] /\ y = t.left[p] /\ b = t.right[y] /\ u = o
        OBVIOUS
      <3> HIDE DEF o, u, b
      <3>4. NearTurned(t, N, f, p, n, y, b, s, o) /\ o.right[p] = n /\ o.left[p] = b /\ o.left[b] = y
        BY <3>2, <3>3
      <3>5. QED
        BY <3>4 DEF NearTurned
    <2>2. v = m_rbt_rotate_right(q, p)
      <3> HIDE DEF o
      <3>1. q.left = o.left
        BY DEF Taken, Red, Black
      <3>2. n # q.left[p]
        <4>1. n # b
          BY <1>2, <1>1
        <4>2. QED
          BY <2>1, <3>1, <4>1
      <3>3. v = RotateTowards(q, n, p)
        BY <1>1, <1>2 DEF RemoveRotate, Taken, o
      <3> HIDE DEF q, v
      <3>4. QED
        BY <3>2, <3>3 DEF RotateTowards
    <2>3. PICK h : Shape(o, N, h) /\ Kept(t, f, o, h, N, s) /\ h[n] = f[n]
      BY <2>1
    <2> HIDE DEF o, b
    <2>4. /\ q \in Trees /\ SameLinks(o, q)
          /\ q.red = (o.red \ {p, y, b}) \cup (IF p \in t.red THEN {b} ELSE {})
      BY <1>1, <2>1, <2>3, TakenIs DEF Shape
    <2> HIDE DEF q, v
    <2>5. /\ o.right[p] # Nil /\ o.right[p] \notin o.red /\ o.left[p] # Nil /\ o.left[p] \notin o.red
          /\ o.left[o.left[p]] \in o.red /\ s \in h[o.right[p]]
          /\ RedBlackBut(o, N, Children(o, o.right[p]) \cup Children(o, o.left[o.left[p]]), s, o.right[p])
          /\ q.red = (o.red \ {p, o.left[o.left[p]], o.left[p]})
                     \cup (IF p \in o.red THEN {o.left[p]} ELSE {})
      BY <1>1, <2>1, <2>3, <2>4
    <2>6. /\ \E g : Shape(v, N, g) /\ Kept(o, h, v, g, N, s)
          /\ RedBlackBut(v, N, {}, s, Nil)
      BY <2>2, <2>3, <2>4, <2>5, FarRight
    <2>7. PICK g : Shape(v, N, g) /\ Kept(o, h, v, g, N, s)
      BY <2>6
    <2>8. Kept(t, f, v, g, N, s)
      BY <2>3, <2>7, KeptTwice
    <2>9. QED
      BY <2>6, <2>7, <2>8 DEF v
  <1>3. CASE b \notin t.red
    <2> DEFINE q == Taken(t, p, k, y, t.red)
    <2>2. v = m_rbt_rotate_right(q, p)
      <3>1. q.left = t.left
        BY DEF Taken, Red, Black
      <3>2. n # q.left[p]
        BY <1>1, <3>1
      <3>3. v = RotateTowards(q, n, p)
        BY <1>1, <1>3 DEF RemoveRotate, Taken
      <3> HIDE DEF q, v
      <3>4. QED
        BY <3>2, <3>3 DEF RotateTowards
    <2>3. k \in t.red
      BY <1>3
    <2>4. /\ q \in Trees /\ SameLinks(t, q)
          /\ q.red = (t.red \ {p, k, y}) \cup (IF p \in t.red THEN {y} ELSE {})
      BY <1>1, TakenIs
    <2> HIDE DEF q, v
    <2>5. /\ t.right[p] \notin t.red /\ t.left[p] \notin t.red
          /\ t.left[t.left[p]] \in t.red /\ s \in f[t.right[p]]
          /\ RedBlackBut(t, N, Children(t, t.right[p]) \cup Children(t, t.left[t.left[p]]), s, t.right[p])
          /\ q.red = (t.red \ {p, t.left[t.left[p]], t.left[p]})
                     \cup (IF p \in t.red THEN {t.left[p]} ELSE {})
      <3>1. RedBlackBut(t, N, Children(t, n) \cup Children(t, k), s, n)
        BY DEF RedBlackBut, Apart
      <3>2. QED
        BY <2>3, <2>4, <3>1
    <2>6. QED
      BY <1>1, <2>2, <2>4, <2>5, FarRight DEF v
  <1>4. QED
    BY <1>2, <1>3
-----------------------------------------------------------------------------
(***************************************************************************)
(* The end of m_rbt_remove.                                                *)
(***************************************************************************)

\* The locals of m_rbt_remove say where the node succ hangs: it is the node to remove,
\* or its predecessor with at most a left child.
Removing(t, N, f, r) ==
  /\ r \in [node : TreeNode, succ : TreeNode, parent : Place, is_left : BOOLEAN, child : Place]
  /\ r.node \in N /\ r.succ \in N
  /\ OnlyChild(t, r.succ, r.child)
  /\ \/ /\ r.succ = r.node
        /\ r.parent = t.parent[r.succ]
        /\ r.is_left <=> r.parent # Nil /\ t.left[r.parent] = r.succ
     \/ /\ r.succ # r.node /\ t.right[r.succ] = Nil
        /\ r.succ \in Sub(f, t.left[r.node])
        /\ \A k \in N : ~ (r.succ < k /\ k < r.node)
        /\ \/ r.parent = r.succ /\ r.is_left /\ t.left[r.node] = r.succ
           \/ /\ r.parent = t.parent[r.succ] /\ ~ r.is_left
              /\ r.parent \in N /\ r.parent # r.node /\ t.right[r.parent] = r.succ

\* They stay true while the tree is rotated around succ.
LEMMA RemovingKept ==
  ASSUME NEW t, NEW N, NEW f, Shape(t, N, f), NEW r, Removing(t, N, f, r),
         NEW u, NEW g, Kept(t, f, u, g, N, r.succ)
  PROVE  Removing(u, N, g, r)
  <1> DEFINE s == r.succ
             p == r.parent
  <1>1. /\ u.left[s] = t.left[s] /\ u.right[s] = t.right[s] /\ u.parent[s] = t.parent[s]
        /\ \A n \in N :
             /\ s \in Sub(f, t.left[n]) => s \in Sub(g, u.left[n])
             /\ s = t.left[n] <=> s = u.left[n]
             /\ s = t.right[n] <=> s = u.right[n]
    BY DEF Kept
  <1>2. s \in N /\ r.node \in N /\ Nil \notin N
    BY TreeAssumption DEF Removing, Shape
  <1>3. OnlyChild(u, s, r.child)
    BY <1>1 DEF Removing, OnlyChild
  <1>4. CASE r.succ = r.node
    <2>1. p = t.parent[s] /\ (r.is_left <=> p # Nil /\ t.left[p] = s)
      BY <1>4 DEF Removing
    <2>2. p # Nil => p \in N
      BY <1>2, <2>1, Links
    <2>3. p = u.parent[s] /\ (r.is_left <=> p # Nil /\ u.left[p] = s)
      BY <1>1, <2>1, <2>2
    <2>4. QED
      BY <1>3, <1>4, <2>3 DEF Removing
  <1>5. CASE r.succ # r.node
    <2>1. /\ t.right[s] = Nil
          /\ s \in Sub(f, t.left[r.node])
          /\ \A k \in N : ~ (s < k /\ k < r.node)
          /\ \/ p = s /\ r.is_left /\ t.left[r.node] = s
             \/ /\ p = t.parent[s] /\ ~ r.is_left
                /\ p \in N /\ p # r.node /\ t.right[p] = s
      BY <1>5 DEF Removing
    <2>2. /\ u.right[s] = Nil
          /\ s \in Sub(g, u.left[r.node])
          /\ \/ p = s /\ r.is_left /\ u.left[r.node] = s
             \/ /\ p = u.parent[s] /\ ~ r.is_left
                /\ p \in N /\ p # r.node /\ u.right[p] = s
      BY <1>1, <1>2, <2>1
    <2>3. QED
      BY <1>3, <1>5, <2>1, <2>2 DEF Removing
  <1>6. QED
    BY <1>4, <1>5

\* m_rbt_remove sets them so.
LEMMA RemoveBegins ==
  ASSUME NEW t, NEW N, NEW f, Shape(t, N, f), NEW n \in N
  PROVE  Removing(t, N, f, RemoveLocals(t, n)) /\ RemoveLocals(t, n).node = n
  <1> DEFINE r == RemoveLocals(t, n)
  <1>1. /\ n \in TreeNode /\ Nil \notin N /\ Nil \notin TreeNode /\ N \subseteq TreeNode /\ n # Nil
        /\ \A v \in N : t.left[v] \in Place /\ t.right[v] \in Place /\ t.parent[v] \in Place
    <2>1. N \subseteq TreeNode /\ Nil \notin TreeNode
      BY TreeAssumption DEF Shape
    <2>2. \A v \in N : t.left[v] \in Place /\ t.right[v] \in Place /\ t.parent[v] \in Place
      BY Links
    <2>3. QED
      BY <2>1, <2>2
  <1>2. CASE t.left[n] # Nil /\ t.right[n] # Nil
    <2> DEFINE l == t.left[n]
               s == Rightmost(t, l)
               p == IF s = l THEN s ELSE t.parent[s]
               isl == p = s \/ t.left[p] = s
               c == IF t.left[s] # Nil THEN t.left[s] ELSE t.right[s]
    <2>1. r = [node |-> n, succ |-> s, parent |-> p, is_left |-> isl, child |-> c]
      BY <1>2 DEF RemoveLocals
    <2>2. /\ l \in N /\ l \in f[l] /\ f[l] \subseteq f[n] /\ n \notin f[l] /\ t.parent[l] = n
          /\ (\A k \in f[l] : k < n) /\ l # Nil /\ f[l] \subseteq N
      BY <1>2, LeftChild, Links
    <2>3. s \in f[l] /\ t.right[s] = Nil /\ \A k \in f[l] : k # s => k < s
      BY <2>2, RightmostIs
    <2> HIDE DEF s, r
    <2>4. s \in N /\ s # n /\ s \in TreeNode /\ s \in Int /\ n \in Int /\ s < n
      BY <1>1, <2>2, <2>3, Links
    <2>5. OnlyChild(t, s, c)
      BY <2>3 DEF OnlyChild
    <2>6. s \in Sub(f, t.left[n])
      BY <2>2, <2>3 DEF Sub
    <2>7. ASSUME NEW k \in N, s < k, k < n PROVE FALSE
      <3>1. k \in Int /\ \A m \in f[l] : m \in Int
        BY <2>2, Links
      <3>2. k \notin f[l]
        BY <2>3, <2>4, <2>7, <3>1
      <3>3. k \notin f[n]
        <4>1. f[n] = {n} \cup Sub(f, t.left[n]) \cup Sub(f, t.right[n])
          BY Links
        <4>2. \A m \in Sub(f, t.right[n]) : n < m
          BY <1>2, RightChild DEF Sub
        <4>3. k # n /\ ~ (n < k)
          BY <2>4, <2>7, <3>1
        <4>4. QED
          BY <2>2, <3>2, <4>1, <4>2, <4>3 DEF Sub
      <3>4. (\A m \in f[n] : k < m) \/ (\A m \in f[n] : m < k)
        BY <3>3, Convex
      <3>5. s \in f[n] /\ n \in f[n]
        BY <2>2, <2>3, Links
      <3>6. QED
        BY <2>4, <2>7, <3>1, <3>4, <3>5
    <2>8. CASE s = l
      <3>1. p = s /\ isl
        BY <2>8
      <3>2. r.parent = r.succ /\ r.is_left /\ t.left[r.node] = r.succ
        BY <2>1, <2>8, <3>1
      <3> HIDE DEF l, p, isl, c
      <3>3. r \in [node : TreeNode, succ : TreeNode, parent : Place, is_left : BOOLEAN, child : Place]
        <4>1. c \in Place /\ s \in Place /\ isl \in BOOLEAN
          BY <1>1, <2>4 DEF c, Place, isl
        <4>2. QED
          BY <1>1, <2>1, <2>4, <3>1, <4>1
      <3>4. QED
        BY <2>1, <2>3, <2>4, <2>5, <2>6, <2>7, <3>2, <3>3 DEF Removing, r
    <2>9. CASE s # l
      <3>1. t.parent[s] \in f[l] /\ s # t.root /\ t.parent[s] \in N /\ t.parent[s] # Nil
        BY <2>2, <2>3, <2>9, ParentBelow
      <3>2. p = t.parent[s]
        BY <2>9
      <3>3. s = t.left[p] \/ s = t.right[p]
        BY <2>4, <3>1, <3>2, Links
      <3>4. s # t.left[p]
        <4>1. SUFFICES ASSUME s = t.left[p] PROVE FALSE
          OBVIOUS
        <4>2. s < p
          <5>1. t.left[p] # Nil /\ p \in N
            BY <1>1, <2>4, <3>1, <3>2, <4>1
          <5>2. t.left[p] < p
            BY <5>1, LeftChild
          <5>3. QED
            BY <4>1, <5>2
        <4>3. p \in Int /\ p \in f[l]
          BY <3>1, <3>2, Links
        <4>4. QED
          BY <2>3, <2>4, <4>2, <4>3
      <3>5. p # s
        <4>1. p = s => t.parent[s] = s
          BY <3>2
        <4>2. t.parent[s] # s
          BY <2>4, <3>1, SiblingIs
        <4>3. QED
          BY <4>1, <4>2
      <3>6. p # n /\ p \in N
        BY <2>2, <3>1, <3>2
      <3> HIDE DEF l, p
      <3>7. ~ isl
        BY <3>4, <3>5
      <3>8. r.parent = t.parent[r.succ] /\ ~ r.is_left /\ r.parent \in N /\ r.parent # r.node /\ t.right[r.parent] = r.succ
        BY <2>1, <3>2, <3>3, <3>4, <3>6, <3>7
      <3>9. r \in [node : TreeNode, succ : TreeNode, parent : Place, is_left : BOOLEAN, child : Place]
        <4>1. c \in Place /\ p \in Place /\ isl \in BOOLEAN
          BY <1>1, <2>4, <3>6 DEF Place
        <4> HIDE DEF isl, c
        <4>2. QED
          BY <1>1, <2>1, <2>4, <4>1
      <3> HIDE DEF isl, c
      <3>10. QED
        BY <2>1, <2>3, <2>4, <2>5, <2>6, <2>7, <3>8, <3>9 DEF Removing, r
    <2>10. QED
      BY <2>8, <2>9
  <1>3. CASE ~ (t.left[n] # Nil /\ t.right[n] # Nil)
    <2> DEFINE p == t.parent[n]
               isl == p # Nil /\ t.left[p] = n
               c == IF t.left[n] # Nil THEN t.left[n] ELSE t.right[n]
    <2>1. r = [node |-> n, succ |-> n, parent |-> p, is_left |-> isl, child |-> c]
      BY <1>3 DEF RemoveLocals
    <2>2. OnlyChild(t, n, c)
      BY <1>3 DEF OnlyChild
    <2>3. c \in Place /\ p \in Place /\ isl \in BOOLEAN
      BY <1>1
    <2> HIDE DEF r, c
    <2>4. r.parent = t.parent[r.succ] /\ (r.is_left <=> r.parent # Nil /\ t.left[r.parent] = r.succ)
      BY <2>1
    <2> HIDE DEF isl, p
    <2>5. r \in [node : TreeNode, succ : TreeNode, parent : Place, is_left : BOOLEAN, child : Place]
      BY <1>1, <2>1, <2>3
    <2>6. QED
      BY <2>1, <2>2, <2>4, <2>5 DEF Removing, r
  <1>4. QED
    BY <1>2, <1>3

Gone(r) == IF r.child = Nil THEN r.succ ELSE Nil

\* The tree at the end of m_rbt_remove.
Unlinked(t, r) ==
  MovedUp(IF r.succ # r.node THEN SwapIn(t, r.node, r.succ) ELSE t,
          r.node, r.parent, r.is_left, r.child)

\* The tree without s: a tree that m_rbt_remove passes by.
SplicedTree(t, s, c) ==
  LET p == t.parent[s]
  IN  [root   |-> IF p = Nil THEN c ELSE t.root,
       left   |-> [v \in TreeNode |-> IF v = p /\ t.left[p] = s THEN c ELSE t.left[v]],
       right  |-> [v \in TreeNode |-> IF v = p /\ t.right[p] = s THEN c ELSE t.right[v]],
       parent |-> [v \in TreeNode |-> IF v = c THEN p ELSE t.parent[v]],
       red    |-> t.red \ {s, c}]

\* That tree is the node spliced out.
LEMMA SplicedTreeIs ==
  ASSUME NEW t \in Trees, NEW N \in SUBSET TreeNode, NEW s \in TreeNode, NEW c \in Place
  PROVE  /\ Spliced(t, N, s, c, SplicedTree(t, s, c))
         /\ SplicedTree(t, s, c).red = t.red \ {s, c}
  <1>1. t.parent[s] \in Place
    BY DEF Trees
  <1>2. SplicedTree(t, s, c) \in Trees
    BY <1>1 DEF SplicedTree, Trees
  <1>3. QED
    BY <1>2 DEF SplicedTree, Spliced

\* A node with at most one child is spliced out.
LEMMA UnlinkSplice ==
  ASSUME NEW t, NEW N, NEW f, Shape(t, N, f), NEW r, Removing(t, N, f, r), r.succ = r.node,
         RedBlackBut(t, N, {}, Gone(r), Nil)
  PROVE  LET u == Unlinked(t, r)
         IN  (\E h : Shape(u, N \ {r.node}, h)) /\ RedBlackBut(u, N \ {r.node}, {}, Nil, Nil)
  <1> DEFINE n == r.node
             p == r.parent
             c == r.child
             u == Unlinked(t, r)
  <1>1. /\ t \in Trees /\ n \in N /\ n \in TreeNode /\ p \in Place /\ c \in Place /\ r.is_left \in BOOLEAN
        /\ p = t.parent[n] /\ (r.is_left <=> p # Nil /\ t.left[p] = n) /\ OnlyChild(t, n, c)
        /\ N \subseteq TreeNode /\ Nil \notin TreeNode
    BY TreeAssumption DEF Removing, Shape
  <1>2. u = MovedUp(t, n, p, r.is_left, c)
    BY DEF Unlinked
  <1> HIDE DEF u, n, p, c
  <1>3. /\ u \in Trees
        /\ u.root = IF p = Nil THEN c ELSE t.root
        /\ u.red = t.red \ {n, c}
        /\ \A v \in TreeNode : v # n =>
             /\ u.left[v] = IF v = p /\ r.is_left THEN c ELSE t.left[v]
             /\ u.right[v] = IF v = p /\ ~ r.is_left THEN c ELSE t.right[v]
             /\ u.parent[v] = IF v = c THEN p ELSE t.parent[v]
    BY <1>1, <1>2, MovedUpFields
  <1>4. p # Nil => p \in N /\ (n = t.left[p] \/ n = t.right[p]) /\ ~ (n = t.left[p] /\ n = t.right[p])
    BY <1>1, SiblingIs
  <1>5. Spliced(t, N, n, c, u)
    <2>1. \A v \in N \ {n} :
             /\ u.left[v] = IF v = p /\ t.left[p] = n THEN c ELSE t.left[v]
             /\ u.right[v] = IF v = p /\ t.right[p] = n THEN c ELSE t.right[v]
             /\ u.parent[v] = IF v = c THEN p ELSE t.parent[v]
      BY <1>1, <1>3, <1>4
    <2>2. QED
      BY <1>1, <1>3, <2>1 DEF Spliced
  <1>6. \E h : Shape(u, N \ {n}, h)
    BY <1>1, <1>5, SplicedShape
  <1>7. RedBlackBut(t, N, {}, IF c = Nil THEN n ELSE Nil, Nil)
    BY DEF Gone, n, c
  <1>8. RedBlackBut(u, N \ {n}, {}, Nil, Nil)
    BY <1>1, <1>3, <1>5, <1>7, SplicedBalanced
  <1>9. QED
    BY <1>6, <1>8 DEF n, u

\* A node with two children gives its place to its predecessor, which is spliced out of its own.
LEMMA UnlinkSwap ==
  ASSUME NEW t, NEW N, NEW f, Shape(t, N, f), NEW r, Removing(t, N, f, r), r.succ # r.node,
         RedBlackBut(t, N, {}, Gone(r), Nil)
  PROVE  LET u == Unlinked(t, r)
         IN  (\E h : Shape(u, N \ {r.node}, h)) /\ RedBlackBut(u, N \ {r.node}, {}, Nil, Nil)
  <1> DEFINE n == r.node
             s == r.succ
             p == r.parent
             c == r.child
             q == t.parent[n]
             o == t.parent[s]
             M == N \ {s}
             w == SplicedTree(t, s, c)
             x == SwapIn(t, n, s)
             u == Unlinked(t, r)
  <1>1. /\ t \in Trees /\ n \in N /\ n \in TreeNode /\ s \in N /\ s \in TreeNode /\ s # n
        /\ p \in Place /\ c \in Place /\ r.is_left \in BOOLEAN
        /\ OnlyChild(t, s, c) /\ t.right[s] = Nil /\ s \in Sub(f, t.left[n])
        /\ \A k \in N : ~ (s < k /\ k < n)
        /\ \/ p = s /\ r.is_left /\ t.left[n] = s
           \/ p = o /\ ~ r.is_left /\ p \in N /\ p # n /\ t.right[p] = s
        /\ N \subseteq TreeNode /\ Nil \notin TreeNode /\ t.red \subseteq N
    BY TreeAssumption DEF Removing, Shape, RedBlackBut
  <1>2. u = MovedUp(x, n, p, r.is_left, c)
    BY DEF Unlinked
  <1> HIDE DEF u, n, s, p, c
  <1>3. /\ t.left[n] # Nil /\ t.left[n] \in N /\ s \in f[t.left[n]] /\ f[t.left[n]] \subseteq f[n]
        /\ n \notin f[t.left[n]] /\ s < n /\ t.parent[t.left[n]] = n /\ t.left[n] # t.right[n]
        /\ t.left[n] # n
    <2>1. t.left[n] # Nil /\ s \in f[t.left[n]]
      BY <1>1 DEF Sub
    <2>2. QED
      BY <1>1, <2>1, LeftChild
  <1>4. /\ s # t.right[n] /\ s # t.root /\ o # Nil /\ o \in N /\ o # s
        /\ q # s /\ q # n /\ (q = Nil <=> n = t.root) /\ q \in Place
        /\ q # Nil => q \in N /\ (n = t.left[q] \/ n = t.right[q]) /\ ~ (n = t.left[q] /\ n = t.right[q])
    <2>1. s \in f[n] /\ s # t.right[n]
      <3>1. t.right[n] # Nil => n < t.right[n] /\ t.right[n] \in N /\ t.right[n] \in Int
        BY <1>1, RightChild
      <3>2. s \in Int /\ n \in Int /\ s # Nil
        BY <1>1, Links
      <3>3. QED
        BY <1>3, <3>1, <3>2
    <2>2. s # t.root /\ o # Nil /\ o \in N
      BY <1>1, <2>1, ParentBelow
    <2>3. o # s
      BY <1>1, <2>2, SiblingIs
    <2>4. (q = Nil <=> n = t.root) /\ q \in Place
      BY <1>1, Links
    <2>5. q # Nil => /\ q \in N /\ q # n /\ q \notin f[n]
                     /\ (n = t.left[q] \/ n = t.right[q]) /\ ~ (n = t.left[q] /\ n = t.right[q])
      BY <1>1, SiblingIs
    <2>6. QED
      BY <1>1, <2>1, <2>2, <2>3, <2>4, <2>5
  <1>5. c # Nil => c \in M /\ t.parent[c] = s /\ c # n /\ c # t.right[n] /\ c # s /\ c # q
    <2>1. c # Nil => c = t.left[s] /\ t.left[s] # Nil
      BY <1>1 DEF OnlyChild
    <2>2. c # Nil => /\ c \in N /\ t.parent[c] = s /\ c # s /\ c \in f[s] /\ s \notin f[c]
      BY <1>1, <2>1, LeftChild
    <2>3. f[s] \subseteq f[t.left[n]] /\ f[s] \subseteq f[n]
      BY <1>3, BelowBelow
    <2>4. c # Nil => c # n
      BY <1>3, <2>2, <2>3
    <2>5. t.right[n] # Nil => t.parent[t.right[n]] = n
      BY <1>1, RightChild
    <2>6. q # Nil => q \notin f[n]
      BY <1>1, SiblingIs
    <2>7. c # Nil => c # q
      BY <1>3, <2>2, <2>3, <2>6
    <2>8. QED
      BY <1>1, <2>2, <2>4, <2>5, <2>7
  \* The tree without s.
  <1> HIDE DEF w, x
  <1>6. Spliced(t, N, s, c, w) /\ w.red = t.red \ {s, c}
    <2>1. t \in Trees /\ N \in SUBSET TreeNode /\ s \in TreeNode /\ c \in Place
      BY <1>1
    <2>2. QED
      BY ONLY <2>1, SplicedTreeIs DEF w
  <1>7. Shape(w, M, Without(f, s))
    BY <1>1, <1>6, SplicedShape
  <1>8. RedBlackBut(w, M, {}, Nil, Nil)
    <2>1. RedBlackBut(t, N, {}, IF c = Nil THEN s ELSE Nil, Nil)
      BY DEF Gone, s, c
    <2>2. QED
      BY <1>1, <1>6, <2>1, SplicedBalanced
  <1>9. /\ w \in Trees /\ w.root = t.root
        /\ \A v \in M :
             /\ w.left[v] = IF v = o /\ t.left[o] = s THEN c ELSE t.left[v]
             /\ w.right[v] = IF v = o /\ t.right[o] = s THEN c ELSE t.right[v]
             /\ w.parent[v] = IF v = c THEN o ELSE t.parent[v]
    BY <1>4, <1>6 DEF Spliced
  \* The tree that the code makes.
  <1>10. /\ x \in Trees
         /\ x.root = IF q = Nil THEN s ELSE t.root
         /\ x.red = IF n \in t.red THEN t.red \cup {s} ELSE t.red \ {s}
         /\ \A v \in TreeNode :
              /\ x.left[v] = IF v = s THEN (IF s = t.left[n] THEN Nil ELSE t.left[n])
                             ELSE IF v = q /\ t.left[q] = n THEN s ELSE t.left[v]
              /\ x.right[v] = IF v = s THEN t.right[n]
                              ELSE IF v = q /\ t.left[q] # n THEN s ELSE t.right[v]
              /\ x.parent[v] = IF v = s THEN q
                               ELSE IF v = (IF s = t.left[n] THEN Nil ELSE t.left[n]) \/ v = t.right[n]
                                    THEN s ELSE t.parent[v]
    <2>1. t \in Trees /\ n \in TreeNode /\ s \in TreeNode /\ s # n /\ t.right[n] # s /\ t.parent[n] # s
      BY <1>1, <1>4
    <2>2. QED
      <3>1. SwappedIn(t, n, s, x)
        BY ONLY <2>1, SwapInFields DEF x
      <3>2. QED
        BY <3>1 DEF SwappedIn
  <1>11. /\ u \in Trees
         /\ u.root = IF p = Nil THEN c ELSE x.root
         /\ u.red = x.red \ {n, c}
         /\ \A v \in TreeNode : v # n =>
              /\ u.left[v] = IF v = p /\ r.is_left THEN c ELSE x.left[v]
              /\ u.right[v] = IF v = p /\ ~ r.is_left THEN c ELSE x.right[v]
              /\ u.parent[v] = IF v = c THEN p ELSE x.parent[v]
    <2>1. x \in Trees /\ n \in TreeNode /\ p \in Place /\ r.is_left \in BOOLEAN /\ c \in Place
      BY <1>1, <1>10
    <2> DEFINE b == r.is_left
    <2> HIDE DEF b
    <2>2. b \in BOOLEAN /\ u = MovedUp(x, n, p, b, c)
      BY <1>2, <2>1 DEF b
    <2>3. /\ u \in Trees
          /\ u.root = IF p = Nil THEN c ELSE x.root
          /\ u.red = x.red \ {n, c}
          /\ \A v \in TreeNode : v # n =>
               /\ u.left[v] = IF v = p /\ b THEN c ELSE x.left[v]
               /\ u.right[v] = IF v = p /\ ~ b THEN c ELSE x.right[v]
               /\ u.parent[v] = IF v = c THEN p ELSE x.parent[v]
      BY ONLY <2>1, <2>2, MovedUpFields
    <2>4. QED
      BY <2>3 DEF b
  <1>12. w.parent[n] = q /\ n \in M /\ w.right[n] = t.right[n]
    <2>1. n \in M
      BY <1>1
    <2>2. w.parent[n] = q
      BY <1>1, <1>5, <1>9, <2>1 DEF q
    <2>3. n = o => t.right[o] # s
      BY <1>4
    <2>4. QED
      BY <1>9, <2>1, <2>2, <2>3
  <1>13. p # Nil /\ (p = s => t.left[n] = s /\ r.is_left /\ o = n) /\ (p # s => p = o /\ ~ r.is_left /\ t.right[o] = s /\ t.left[o] # s /\ o # n /\ t.left[n] # s)
    <2>1. s # Nil
      BY <1>1
    <2>2. t.left[n] = s => o = n
      BY <1>3 DEF o
    <2>3. t.right[o] = s => t.left[o] # s
      BY <1>4, <2>1, RightChild
    <2>4. QED
      BY <1>1, <1>4, <2>1, <2>2, <2>3
  <1>14. u.root = IF q = Nil THEN s ELSE w.root
    BY <1>9, <1>10, <1>11, <1>13
  <1>15. u.left[s] = w.left[n] /\ u.right[s] = w.right[n] /\ u.parent[s] = q
    <2>1. CASE p = s
      <3>1. w.left[n] = c
        BY <1>9, <1>12, <1>13, <2>1
      <3>2. u.left[s] = c /\ u.right[s] = t.right[n]
        BY <1>1, <1>10, <1>11, <1>13, <2>1
      <3>3. u.parent[s] = q
        BY <1>1, <1>5, <1>10, <1>11
      <3>4. QED
        BY <1>12, <3>1, <3>2, <3>3
    <2>2. CASE p # s
      <3>1. w.left[n] = t.left[n]
        BY <1>9, <1>12, <1>13, <2>2
      <3>2. u.left[s] = t.left[n] /\ u.right[s] = t.right[n]
        BY <1>1, <1>10, <1>11, <1>13, <2>2
      <3>3. u.parent[s] = q
        BY <1>1, <1>5, <1>10, <1>11
      <3>4. QED
        BY <1>12, <3>1, <3>2, <3>3
    <2>3. QED
      BY <2>1, <2>2
  <1>16. q # Nil => q \in M /\ w.left[q] = (IF q = o /\ t.left[o] = s THEN c ELSE t.left[q])
                 /\ w.right[q] = (IF q = o /\ t.right[o] = s THEN c ELSE t.right[q])
    BY <1>4, <1>9
  <1>17. q # Nil => /\ (w.left[q] = n <=> t.left[q] = n) /\ (w.right[q] = n <=> t.left[q] # n)
    <2>1. c # n
      BY <1>1, <1>5
    <2>2. q # Nil => (w.left[q] = n <=> t.left[q] = n)
      BY <1>1, <1>16, <2>1
    <2>3. q # Nil => (w.right[q] = n <=> t.right[q] = n)
      BY <1>1, <1>16, <2>1
    <2>4. QED
      BY <1>4, <2>2, <2>3
  <1>18. ASSUME NEW v \in M \ {n}
         PROVE  /\ u.left[v] = IF v = q /\ w.left[q] = n THEN s ELSE w.left[v]
                /\ u.right[v] = IF v = q /\ w.right[q] = n THEN s ELSE w.right[v]
                /\ u.parent[v] = IF v = w.left[n] \/ v = w.right[n] THEN s ELSE w.parent[v]
    <2>1. v \in TreeNode /\ v # s /\ v # n /\ v \in M
      BY <1>1
    <2>2. v = q => q # Nil
      BY <1>1, <2>1
    <2>3. /\ w.left[v] = IF v = o /\ t.left[o] = s THEN c ELSE t.left[v]
          /\ w.right[v] = IF v = o /\ t.right[o] = s THEN c ELSE t.right[v]
          /\ w.parent[v] = IF v = c THEN o ELSE t.parent[v]
      BY <1>9, <2>1
    <2>4. u.left[v] = IF v = q /\ w.left[q] = n THEN s ELSE w.left[v]
      <3>1. u.left[v] = x.left[v]
        BY <1>11, <1>13, <2>1
      <3>2. x.left[v] = IF v = q /\ w.left[q] = n THEN s ELSE t.left[v]
        BY <1>10, <1>17, <2>1, <2>2
      <3>3. t.left[v] = w.left[v]
        BY <1>13, <2>1, <2>3
      <3>4. QED
        BY <3>1, <3>2, <3>3
    <2>5. u.right[v] = IF v = q /\ w.right[q] = n THEN s ELSE w.right[v]
      <3>1. x.right[v] = IF v = q /\ w.right[q] = n THEN s ELSE t.right[v]
        BY <1>10, <1>17, <2>1, <2>2
      <3>2. CASE v = o /\ t.right[o] = s
        <4>1. p = o /\ ~ r.is_left
          BY <1>13, <2>1, <3>2
        <4>2. u.right[v] = c
          BY <1>11, <2>1, <3>2, <4>1
        <4>3. w.right[v] = c
          BY <2>3, <3>2
        <4>4. ~ (v = q /\ w.right[q] = n)
          BY <1>5, <1>1, <3>2, <4>3
        <4>5. QED
          BY <4>2, <4>3, <4>4
      <3>3. CASE ~ (v = o /\ t.right[o] = s)
        <4>1. u.right[v] = x.right[v]
          BY <1>11, <1>13, <2>1, <3>3
        <4>2. QED
          BY <2>3, <3>1, <3>3, <4>1
      <3>4. QED
        BY <3>2, <3>3
    <2>6. u.parent[v] = IF v = w.left[n] \/ v = w.right[n] THEN s ELSE w.parent[v]
      <3>1. CASE p = s
        <4>1. w.left[n] = c
          BY <1>9, <1>12, <1>13, <3>1
        <4>2. CASE v = c
          BY <1>11, <2>1, <3>1, <4>1, <4>2
        <4>3. CASE v # c
          <5>1. u.parent[v] = x.parent[v]
            BY <1>11, <2>1, <4>3
          <5>2. x.parent[v] = IF v = t.right[n] THEN s ELSE t.parent[v]
            BY <1>1, <1>10, <1>13, <2>1, <3>1
          <5>3. QED
            BY <1>12, <2>3, <4>1, <4>3, <5>1, <5>2
        <4>4. QED
          BY <4>2, <4>3
      <3>2. CASE p # s
        <4>1. w.left[n] = t.left[n]
          BY <1>9, <1>12, <1>13, <3>2
        <4>2. CASE v = c
          <5>1. t.parent[v] = s /\ v # t.right[n]
            BY <1>1, <1>5, <2>1, <4>2
          <5>2. v # t.left[n]
            BY <1>1, <1>3, <5>1
          <5>3. u.parent[v] = p /\ w.parent[v] = o
            BY <1>11, <2>1, <2>3, <4>2
          <5>4. QED
            BY <1>12, <1>13, <3>2, <4>1, <5>1, <5>2, <5>3
        <4>3. CASE v # c
          <5>1. u.parent[v] = x.parent[v]
            BY <1>11, <2>1, <4>3
          <5>2. x.parent[v] = IF v = t.left[n] \/ v = t.right[n] THEN s ELSE t.parent[v]
            BY <1>10, <1>13, <2>1, <3>2
          <5>3. QED
            BY <1>12, <2>3, <4>1, <4>3, <5>1, <5>2
        <4>4. QED
          BY <4>2, <4>3
      <3>3. QED
        BY <3>1, <3>2
    <2>7. QED
      BY <2>4, <2>5, <2>6
  <1>19. Replaced(w, M, n, s, u)
    <2>1. w.parent[n] = q
      BY <1>12
    <2>2. QED
      BY <1>11, <1>14, <1>15, <1>18, <2>1 DEF Replaced
  <1>20. \A k \in M \ {n} : (k < n => k < s) /\ (n < k => s < k)
    <2>1. \A k \in N : k \in Int
      BY <1>1, Links
    <2>2. QED
      BY <1>1, <1>3, <2>1
  <1>21. (M \ {n}) \cup {s} = N \ {n} /\ s \notin M
    BY <1>1
  <1>22. \E h : Shape(u, N \ {n}, h)
    BY <1>1, <1>7, <1>12, <1>19, <1>20, <1>21, ReplacedShape
  <1>23. u.red = IF n \in w.red THEN (w.red \ {n}) \cup {s} ELSE w.red
    <2>1. c # n /\ c # s
      BY <1>1, <1>5
    <2>2. QED
      BY <1>1, <1>6, <1>10, <1>11, <2>1
  <1>24. RedBlackBut(u, N \ {n}, {}, Nil, Nil)
    <2>1. RedBlackBut(u, (M \ {n}) \cup {s}, {}, Nil, Nil)
      <3>1. n \in M /\ s \in TreeNode /\ s \notin M
        BY <1>1, <1>12
      <3> HIDE DEF M
      <3>2. QED
        BY ONLY <1>7, <1>8, <1>19, <1>23, <3>1, ReplacedBalanced
    <2>2. QED
      BY <1>21, <2>1
  <1>25. QED
    BY <1>22, <1>24 DEF u, n
-----------------------------------------------------------------------------
(***************************************************************************)
(* The states of m_rbt_remove.                                             *)
(***************************************************************************)

\* One black is missing below n: n counts one more to make up for it, unless it is the
\* node that leaves the tree and is red.
Missing(t, n, s) == IF n = s /\ n \in t.red THEN Nil ELSE n

\* The loop of m_rbt_remove_rebalance is at n, above the node that leaves its place.
Rebalancing(t, N, f, r, n) ==
  /\ Removing(t, N, f, r) /\ r.child = Nil
  /\ n \in N /\ r.succ \in f[n]
  /\ RedBlackBut(t, N, Children(t, n), r.succ, Missing(t, n, r.succ))

\* The node can leave its place: it does not count, or its red child will turn black.
Unlinking(t, N, f, r) == Removing(t, N, f, r) /\ RedBlackBut(t, N, {}, Gone(r), Nil)

\* A call of m_rbt_remove begins.
LEMMA RemoveBegun ==
  ASSUME NEW t, NEW N, NEW f, Shape(t, N, f), RedBlackBut(t, N, {}, Nil, Nil), NEW n \in N
  PROVE  LET r == RemoveLocals(t, n)
         IN  /\ r.node = n
             /\ r.child = Nil => Rebalancing(t, N, f, r, r.succ)
             /\ r.child # Nil => Unlinking(t, N, f, r)
  <1> DEFINE r == RemoveLocals(t, n)
             s == r.succ
  <1>1. Removing(t, N, f, r) /\ r.node = n
    BY RemoveBegins
  <1> HIDE DEF r
  <1>2. s \in N /\ s \in TreeNode /\ s # Nil /\ s \in f[s]
    BY <1>1, Links DEF Removing
  <1>3. r.child # Nil => Unlinking(t, N, f, r)
    BY <1>1 DEF Unlinking, Gone
  <1> HIDE DEF s
  <1>4. Weights(t, s, Missing(t, s, s)) = Weights(t, Nil, Nil)
    <2>1. \A v \in TreeNode : v # Nil
      BY TreeAssumption
    <2>2. \A v \in TreeNode :
            (IF v \in t.red \/ v = s THEN 0 ELSE 1) + (IF v = Missing(t, s, s) THEN 1 ELSE 0)
            = (IF v \in t.red \/ v = Nil THEN 0 ELSE 1) + (IF v = Nil THEN 1 ELSE 0)
      BY <1>2, <2>1 DEF Missing
    <2>3. QED
      BY <2>2 DEF Weights
  <1>5. RedBlackBut(t, N, Children(t, s), s, Missing(t, s, s))
    BY <1>4 DEF RedBlackBut, Balanced, Apart
  <1>6. r.child = Nil => Rebalancing(t, N, f, r, s)
    BY <1>1, <1>2, <1>5 DEF Rebalancing, s
  <1>7. QED
    BY <1>1, <1>3, <1>6 DEF r, s

\* The loop ends at a red node
LEMMA RemoveAtRed ==
  ASSUME NEW t, NEW N, NEW f, Shape(t, N, f), NEW r, NEW n, Rebalancing(t, N, f, r, n), n \in t.red
  PROVE  LET u == Black(t, {n}) IN Shape(u, N, f) /\ Unlinking(u, N, f, r)
  <1> DEFINE u == Black(t, {n})
             s == r.succ
  <1>1. /\ t \in Trees /\ n \in TreeNode /\ n # Nil /\ Removing(t, N, f, r) /\ Gone(r) = s
        /\ RedBlackBut(t, N, Children(t, n), s, Missing(t, n, s))
    BY Links DEF Rebalancing, Shape, Gone
  <1>2. u \in Trees /\ SameLinks(t, u) /\ u.red = t.red \ {n}
    BY <1>1, Recoloured
  <1> HIDE DEF u
  <1>3. Shape(u, N, f)
    BY <1>2, RecolouredShape
  <1>4. Removing(u, N, f, r)
    BY <1>1, <1>2, RecolouredKept, RemovingKept
  <1> HIDE DEF s
  <1>5. Weights(u, s, Nil) = Weights(t, s, Missing(t, n, s))
    <2>1. \A v \in TreeNode : v # Nil
      BY TreeAssumption
    <2>2. \A v \in TreeNode :
            (IF v \in t.red \/ v = s THEN 0 ELSE 1) + (IF v = Missing(t, n, s) THEN 1 ELSE 0)
            = (IF v \in u.red \/ v = s THEN 0 ELSE 1) + (IF v = Nil THEN 1 ELSE 0)
      BY <1>1, <1>2, <2>1 DEF Missing
    <2>3. QED
      BY <2>2 DEF Weights
  <1>6. Apart(u, {})
    <2>1. ASSUME NEW v \in u.red PROVE u.parent[v] \notin u.red
      <3>1. v \in t.red /\ v \in TreeNode /\ u.parent[v] = t.parent[v]
        BY <1>1, <1>2 DEF Trees, SameLinks
      <3>2. CASE v \in Children(t, n)
        BY <1>2, <3>1, <3>2 DEF Children
      <3>3. CASE v \notin Children(t, n)
        BY <1>1, <1>2, <3>1, <3>3 DEF RedBlackBut, Apart
      <3>4. QED
        BY <3>2, <3>3
    <2>2. QED
      BY <2>1 DEF Apart
  <1>7. Balanced(u, N, s, Nil)
    BY <1>1, <1>2, <1>5 DEF RedBlackBut, Balanced, Levels, Level, SameLinks
  <1>8. RedBlackBut(u, N, {}, s, Nil)
    BY <1>1, <1>2, <1>6, <1>7 DEF RedBlackBut, SameLinks
  <1>9. QED
    BY <1>1, <1>3, <1>4, <1>8 DEF Unlinking, u

\* or at the root, where the missing black is missing everywhere.
LEMMA RemoveAtRoot ==
  ASSUME NEW t, NEW N, NEW f, Shape(t, N, f), NEW r, NEW n, Rebalancing(t, N, f, r, n), n \notin t.red,
         t.parent[n] = Nil
  PROVE  Unlinking(t, N, f, r)
  <1> DEFINE s == r.succ
  <1>1. /\ n \in N /\ n \in TreeNode /\ n # Nil /\ Removing(t, N, f, r) /\ Gone(r) = s /\ N \subseteq TreeNode
        /\ RedBlackBut(t, N, Children(t, n), s, n) /\ n = t.root
    BY Links DEF Rebalancing, Shape, Gone, Missing
  <1> HIDE DEF s
  <1>2. PICK e \in [TreeNode -> Nat] : Levels(t, N, e, Weights(t, s, n))
    BY <1>1 DEF RedBlackBut, Balanced
  <1> DEFINE d == [e EXCEPT ![n] = @ - 1]
             w == Weights(t, s, n)
             z == Weights(t, s, Nil)
  <1>3. /\ w \in [TreeNode -> Nat] /\ z \in [TreeNode -> Nat]
        /\ z[n] = w[n] - 1 /\ w[n] >= 1 /\ \A v \in N : v # n => z[v] = w[v]
    <2>1. \A v \in TreeNode : v # Nil
      BY TreeAssumption
    <2>2. QED
      BY <1>1, <2>1 DEF Weights
  <1> HIDE DEF w, z
  <1>4. Levels(t, N, e, w)
    BY <1>2 DEF w
  <1>5. \A v \in N : /\ t.left[v] \in Place /\ t.right[v] \in Place
                     /\ t.left[v] # n /\ t.right[v] # n
    <2>1. \A v \in N : t.left[v] \in Place /\ t.right[v] \in Place
      BY Links
    <2>2. \A v \in N : t.left[v] # Nil => t.left[v] # t.root
      BY LeftChild
    <2>3. \A v \in N : t.right[v] # Nil => t.right[v] # t.root
      BY RightChild
    <2>4. QED
      BY <1>1, <2>1, <2>2, <2>3
  <1>6. e[n] >= 1 /\ d \in [TreeNode -> Nat] /\ d[n] = e[n] - 1 /\ \A v \in N : v # n => d[v] = e[v]
    <2>1. e[n] = Height(e, t.left[n]) + w[n] /\ Height(e, t.left[n]) \in Nat /\ w[n] \in Nat
      BY <1>1, <1>3, <1>4, <1>5 DEF Levels, Level, Height, Place
    <2>2. e[n] >= 1
      BY <1>3, <2>1
    <2>3. QED
      BY <1>1, <2>2
  <1> HIDE DEF d
  <1>7. Levels(t, N, d, z)
    <2>1. ASSUME NEW v \in N PROVE Level(t, d, z, v)
      <3>1. /\ Height(d, t.left[v]) = Height(e, t.left[v]) /\ Height(e, t.left[v]) \in Nat
            /\ Height(d, t.right[v]) = Height(e, t.right[v])
        <4>1. \A c \in Place : c # n /\ (c # Nil => c \in N) => Height(d, c) = Height(e, c) /\ Height(e, c) \in Nat
          BY <1>1, <1>6 DEF Height, Place
        <4>2. (t.left[v] # Nil => t.left[v] \in N) /\ (t.right[v] # Nil => t.right[v] \in N)
          BY LeftChild, RightChild
        <4>3. QED
          BY <1>5, <4>1, <4>2
      <3>2. Level(t, e, w, v)
        BY <1>4 DEF Levels
      <3>3. w[v] \in Nat /\ z[v] \in Nat /\ e[v] \in Nat
        BY <1>1, <1>3
      <3>4. QED
        BY <1>3, <1>6, <3>1, <3>2, <3>3 DEF Level
    <2>2. QED
      BY <2>1 DEF Levels
  <1>8. Balanced(t, N, s, Nil)
    BY <1>6, <1>7 DEF Balanced, z
  <1>9. Apart(t, {})
    <2>1. ASSUME NEW v \in t.red PROVE t.parent[v] \notin t.red
      <3>1. v \in TreeNode
        BY <1>1 DEF RedBlackBut
      <3>2. CASE v \in Children(t, n)
        BY <3>1, <3>2 DEF Children
      <3>3. CASE v \notin Children(t, n)
        BY <1>1, <3>1, <3>3 DEF RedBlackBut, Apart
      <3>4. QED
        BY <3>2, <3>3
    <2>2. QED
      BY <2>1 DEF Apart
  <1>10. QED
    BY <1>1, <1>8, <1>9 DEF Unlinking, RedBlackBut

\* Below a black node with a red sibling the tree is turned, and the loop stays at the node.
LEMMA RemoveTurned ==
  ASSUME NEW t, NEW N, NEW f, Shape(t, N, f), NEW r, NEW n, Rebalancing(t, N, f, r, n), n \notin t.red,
         t.parent[n] # Nil, m_rbt_sibling(t, n) \in t.red
  PROVE  LET p == t.parent[n]
             u == RotateTowards(Black(Red(t, {p}), {m_rbt_sibling(t, n)}), n, p)
         IN  \E h : Shape(u, N, h) /\ Rebalancing(u, N, h, r, n)
  <1> DEFINE p == t.parent[n]
             y == m_rbt_sibling(t, n)
             q == Black(Red(t, {p}), {y})
             u == RotateTowards(q, n, p)
             s == r.succ
  <1>1. /\ t \in Trees /\ n \in N /\ n # Nil /\ s \in f[n] /\ Removing(t, N, f, r) /\ r.child = Nil
        /\ RedBlackBut(t, N, Children(t, n), s, n) /\ t.red \subseteq N /\ N \subseteq TreeNode
    BY Links DEF Rebalancing, Shape, Missing, RedBlackBut
  <1>2. /\ p \in N /\ p # n
        /\ \/ n = t.left[p] /\ n # t.right[p] /\ y = t.right[p]
           \/ n = t.right[p] /\ n # t.left[p] /\ y = t.left[p]
    BY <1>1, SiblingIs
  <1> HIDE DEF p, y
  <1>3. y \in N /\ y # Nil /\ y \in t.red /\ p \in TreeNode
    BY <1>1, <1>2, Links DEF y
  <1>4. q \in Trees /\ SameLinks(t, q) /\ q.red = (t.red \cup {p}) \ {y} /\ Shape(q, N, f)
    <2>1. /\ Red(t, {p}) \in Trees /\ SameLinks(t, Red(t, {p})) /\ Red(t, {p}).red = t.red \cup {p}
      BY <1>1, <1>3, Recoloured
    <2>2. /\ q \in Trees /\ SameLinks(Red(t, {p}), q) /\ q.red = Red(t, {p}).red \ {y}
      BY <1>1, <1>3, <2>1, Recoloured
    <2> HIDE DEF q
    <2>3. SameLinks(t, q)
      BY <2>1, <2>2 DEF SameLinks
    <2>4. QED
      BY <2>1, <2>2, <2>3, RecolouredShape
  <1>5. /\ n \notin u.red
        /\ \E h : Shape(u, N, h) /\ Kept(t, f, u, h, N, s) /\ h[n] = f[n]
        /\ RedBlackBut(u, N, Children(u, n), s, n)
    <2>1. CASE n = t.left[p] /\ y = t.right[p]
      <3>1. u = m_rbt_rotate_left(q, p)
        BY <1>4, <2>1 DEF RotateTowards, SameLinks
      <3>2. u.red = q.red
        <4>1. q.right[p] # Nil
          BY <1>3, <1>4, <2>1 DEF SameLinks
        <4> HIDE DEF q
        <4>2. QED
          BY <1>2, <1>4, <3>1, <4>1, RotateLeftShape
      <3>3. n \notin u.red
        BY <1>2, <1>4, <3>2
      <3> HIDE DEF u, s
      <3>4. u = m_rbt_rotate_left(Black(Red(t, {p}), {t.right[p]}), p)
        BY <2>1, <3>1
      <3>5. /\ t.left[p] # Nil /\ t.left[p] \notin t.red /\ t.right[p] \in t.red /\ s \in f[t.left[p]]
            /\ RedBlackBut(t, N, Children(t, t.left[p]), s, t.left[p])
        BY <1>1, <1>3, <2>1
      <3>6. /\ \E h : Shape(u, N, h) /\ Kept(t, f, u, h, N, s) /\ h[t.left[p]] = f[t.left[p]]
            /\ RedBlackBut(u, N, Children(u, t.left[p]), s, t.left[p])
        BY <1>2, <3>4, <3>5, TurnLeft
      <3>7. QED
        BY <2>1, <3>3, <3>6
    <2>2. CASE n = t.right[p] /\ y = t.left[p] /\ n # t.left[p]
      <3>1. u = m_rbt_rotate_right(q, p)
        BY <1>4, <2>2 DEF RotateTowards, SameLinks
      <3>2. u.red = q.red
        <4>1. q.left[p] # Nil
          BY <1>3, <1>4, <2>2 DEF SameLinks
        <4> HIDE DEF q
        <4>2. QED
          BY <1>2, <1>4, <3>1, <4>1, RotateRightShape
      <3>3. n \notin u.red
        BY <1>2, <1>4, <3>2
      <3> HIDE DEF u, s
      <3>4. u = m_rbt_rotate_right(Black(Red(t, {p}), {t.left[p]}), p)
        BY <2>2, <3>1
      <3>5. /\ t.right[p] # Nil /\ t.right[p] \notin t.red /\ t.left[p] \in t.red /\ s \in f[t.right[p]]
            /\ RedBlackBut(t, N, Children(t, t.right[p]), s, t.right[p])
        BY <1>1, <1>3, <2>2
      <3>6. /\ \E h : Shape(u, N, h) /\ Kept(t, f, u, h, N, s) /\ h[t.right[p]] = f[t.right[p]]
            /\ RedBlackBut(u, N, Children(u, t.right[p]), s, t.right[p])
        BY <1>2, <3>4, <3>5, TurnRight
      <3>7. QED
        BY <2>2, <3>3, <3>6
    <2>3. QED
      BY <1>2, <2>1, <2>2
  <1> HIDE DEF u
  <1>6. PICK h : Shape(u, N, h) /\ Kept(t, f, u, h, N, s) /\ h[n] = f[n]
    BY <1>5
  <1>7. Removing(u, N, h, r)
    BY <1>1, <1>6, RemovingKept
  <1>8. Rebalancing(u, N, h, r, n)
    BY <1>1, <1>5, <1>6, <1>7 DEF Rebalancing, Missing
  <1>9. QED
    BY <1>6, <1>8 DEF u, q, p, y

\* With a red nephew a last rotation ends the loop.
LEMMA RemoveRotated ==
  ASSUME NEW t, NEW N, NEW f, Shape(t, N, f), NEW r, NEW n, Rebalancing(t, N, f, r, n), n \notin t.red,
         t.parent[n] # Nil,
         LET y == m_rbt_sibling(t, n)
         IN  y # Nil /\ y \notin t.red /\ (t.left[y] \in t.red \/ t.right[y] \in t.red)
  PROVE  LET u == RemoveRotate(t, n)
         IN  \E h : Shape(u, N, h) /\ Unlinking(u, N, h, r)
  <1> DEFINE p == t.parent[n]
             y == m_rbt_sibling(t, n)
             u == RemoveRotate(t, n)
             s == r.succ
  <1>1. /\ n \in N /\ n # Nil /\ s \in f[n] /\ Removing(t, N, f, r) /\ Gone(r) = s
        /\ RedBlackBut(t, N, Children(t, n), s, n)
    BY Links DEF Rebalancing, Missing, Gone
  <1>2. /\ p \in N /\ p # n
        /\ \/ n = t.left[p] /\ n # t.right[p] /\ y = t.right[p]
           \/ n = t.right[p] /\ n # t.left[p] /\ y = t.left[p]
    BY <1>1, SiblingIs
  <1>3. /\ p = t.parent[n] /\ y = m_rbt_sibling(t, n)
        /\ y # Nil /\ y \notin t.red /\ (t.left[y] \in t.red \/ t.right[y] \in t.red)
    OBVIOUS
  <1> HIDE DEF p, y, u, s
  <1>4. y \in N
    BY <1>2, <1>3, LeftChild, RightChild
  <1>5. /\ \E h : Shape(u, N, h) /\ Kept(t, f, u, h, N, s)
        /\ RedBlackBut(u, N, {}, s, Nil)
    <2>1. CASE n = t.left[p] /\ y = t.right[p]
      BY <1>1, <1>2, <1>3, <1>4, <2>1, RemoveRotateLeft DEF u
    <2>2. CASE n = t.right[p] /\ y = t.left[p]
      BY <1>1, <1>2, <1>3, <1>4, <2>2, RemoveRotateRight DEF u
    <2>3. QED
      BY <1>2, <2>1, <2>2
  <1>6. PICK h : Shape(u, N, h) /\ Kept(t, f, u, h, N, s)
    BY <1>5
  <1>7. Removing(u, N, h, r)
    BY <1>1, <1>6, RemovingKept DEF s
  <1>8. Unlinking(u, N, h, r)
    BY <1>1, <1>5, <1>7 DEF Unlinking
  <1>9. QED
    BY <1>6, <1>8 DEF u

\* Without a red nephew the sibling turns red, and one black is missing below the parent.
LEMMA RemoveRecoloured ==
  ASSUME NEW t, NEW N, NEW f, Shape(t, N, f), NEW r, NEW n, Rebalancing(t, N, f, r, n), n \notin t.red,
         t.parent[n] # Nil,
         LET y == m_rbt_sibling(t, n)
         IN  y \notin t.red /\ (y # Nil => t.left[y] \notin t.red /\ t.right[y] \notin t.red)
  PROVE  LET u == Red(t, {m_rbt_sibling(t, n)} \ {Nil})
         IN  Shape(u, N, f) /\ Rebalancing(u, N, f, r, t.parent[n])
  <1> DEFINE p == t.parent[n]
             y == m_rbt_sibling(t, n)
             u == Red(t, {y} \ {Nil})
             s == r.succ
  <1>1. /\ t \in Trees /\ n \in N /\ n # Nil /\ s \in f[n] /\ Removing(t, N, f, r) /\ r.child = Nil
        /\ RedBlackBut(t, N, Children(t, n), s, n)
        /\ t.red \subseteq N /\ N \subseteq TreeNode /\ f[n] \subseteq N /\ t.root \notin t.red
        /\ Apart(t, Children(t, n)) /\ Nil \notin TreeNode
    <2>1. /\ n \in N /\ s \in f[n] /\ Removing(t, N, f, r) /\ r.child = Nil
          /\ RedBlackBut(t, N, Children(t, n), s, n)
      BY DEF Rebalancing, Missing
    <2>2. n # Nil /\ f[n] \subseteq N
      BY <2>1, Links
    <2>3. QED
      BY TreeAssumption, <2>1, <2>2 DEF Shape, RedBlackBut
  <1>2. /\ p \in N /\ p # n /\ p \notin f[n]
        /\ \/ n = t.left[p] /\ n # t.right[p] /\ y = t.right[p]
           \/ n = t.right[p] /\ n # t.left[p] /\ y = t.left[p]
    BY <1>1, SiblingIs
  <1>3. y \notin t.red /\ (y # Nil => t.left[y] \notin t.red /\ t.right[y] \notin t.red)
    OBVIOUS
  <1> HIDE DEF p, y
  <1>4. PICK e \in [TreeNode -> Nat] : Levels(t, N, e, Weights(t, s, n))
    BY <1>1 DEF RedBlackBut, Balanced
  <1> DEFINE w == Weights(t, s, n)
  <1> HIDE DEF s
  <1>5. w \in [TreeNode -> Nat]
        /\ \A v \in TreeNode : w[v] = (IF v \in t.red \/ v = s THEN 0 ELSE 1) + (IF v = n THEN 1 ELSE 0)
    BY DEF Weights
  <1> HIDE DEF w
  <1>6. \A v \in N : Level(t, e, w, v) /\ e[v] \in Nat /\ w[v] \in Nat
    BY <1>1, <1>4, <1>5 DEF Levels, w
  <1>7. \A v \in N : /\ t.left[v] \in N \cup {Nil} /\ t.right[v] \in N \cup {Nil}
                     /\ t.left[v] # Nil => t.parent[t.left[v]] = v
                     /\ t.right[v] # Nil => t.parent[t.right[v]] = v
    BY LeftChild, RightChild
  <1>8. e[n] >= 1
    <2>1. Height(e, t.left[n]) \in Nat
      BY <1>1, <1>7 DEF Height
    <2>2. w[n] >= 1
      BY <1>1, <1>5
    <2>3. QED
      BY <1>1, <1>6, <2>1, <2>2 DEF Level
  <1>9. y \in N /\ y # Nil /\ y # n /\ y # p /\ t.parent[y] = p /\ e[y] = e[n]
    <2>1. Height(e, y) = Height(e, n)
      BY <1>2, <1>6 DEF Level
    <2>2. Height(e, n) = e[n]
      BY <1>1 DEF Height
    <2>3. y # Nil
      BY <1>8, <2>1, <2>2 DEF Height
    <2>4. y \in N /\ t.parent[y] = p /\ y # n
      BY <1>2, <1>7, <2>3
    <2>5. y # p
      BY <1>2, <2>3, LeftChild, RightChild
    <2>6. QED
      BY <2>1, <2>2, <2>3, <2>4, <2>5 DEF Height
  <1>10. s # p /\ s # y /\ s \in f[p]
    <2>1. f[n] \subseteq f[p] /\ n \in f[p]
      BY <1>1, <1>2, LeftChild, RightChild
    <2>2. y \notin f[n]
      <3>1. y \in f[n] => p \in f[n]
        BY <1>1, <1>9, ParentBelow
      <3>2. QED
        BY <1>2, <3>1
    <2>3. QED
      BY <1>1, <1>2, <2>1, <2>2
  <1>11. u \in Trees /\ SameLinks(t, u) /\ u.red = t.red \cup {y}
    <2>1. {y} \ {Nil} = {y} /\ {y} \in SUBSET TreeNode
      BY <1>1, <1>9
    <2>2. QED
      BY <1>1, <2>1, Recoloured
  <1> HIDE DEF u
  <1>12. Shape(u, N, f)
    BY <1>11, RecolouredShape
  <1>13. Removing(u, N, f, r)
    BY <1>1, <1>11, RecolouredKept, RemovingKept DEF s
  <1>14. Apart(u, Children(u, p))
    <2>1. ASSUME NEW v \in u.red \ Children(u, p) PROVE u.parent[v] \notin u.red
      <3>1. v # y
        BY <1>1, <1>9, <1>11 DEF Children, SameLinks
      <3>2. v \in t.red /\ v \in N /\ v \in TreeNode /\ u.parent[v] = t.parent[v]
        BY <1>1, <1>11, <3>1 DEF SameLinks
      <3>3. t.parent[v] # y
        <4>1. v # t.root
          BY <1>1, <3>2
        <4>2. v = t.left[t.parent[v]] \/ v = t.right[t.parent[v]]
          BY <3>2, <4>1, Links
        <4>3. QED
          BY <1>3, <1>9, <3>2, <4>2
      <3>4. t.parent[v] \notin t.red
        <4>1. CASE v \in Children(t, n)
          BY <4>1 DEF Children
        <4>2. CASE v \notin Children(t, n)
          BY <1>1, <3>2, <4>2 DEF Apart
        <4>3. QED
          BY <4>1, <4>2
      <3>5. QED
        BY <1>11, <3>2, <3>3, <3>4
    <2>2. QED
      BY <2>1 DEF Apart
  <1> DEFINE d == [e EXCEPT ![n] = @ - 1, ![y] = @ - 1]
             z == Weights(u, s, p)
  <1>15. /\ d \in [TreeNode -> Nat] /\ d[n] = e[n] - 1 /\ d[y] = e[y] - 1
         /\ \A v \in N : v # n /\ v # y => d[v] = e[v]
    BY <1>1, <1>8, <1>9
  <1> HIDE DEF d
  <1>16. \A v \in TreeNode : z[v] = (IF v \in u.red \/ v = s THEN 0 ELSE 1) + (IF v = p THEN 1 ELSE 0)
    BY DEF Weights
  <1> HIDE DEF z
  <1>17. /\ z[n] = w[n] - 1 /\ z[y] = w[y] - 1 /\ z[p] = w[p] + 1
         /\ \A v \in N : v # n /\ v # y /\ v # p => z[v] = w[v]
    <2>1. n \in TreeNode /\ y \in TreeNode /\ p \in TreeNode
      BY <1>1, <1>2, <1>9
    <2>2. z[n] = w[n] - 1
      BY <1>2, <1>5, <1>9, <1>11, <1>16, <2>1
    <2>3. z[y] = w[y] - 1
      BY <1>3, <1>5, <1>9, <1>10, <1>11, <1>16, <2>1
    <2>4. z[p] = w[p] + 1
      BY <1>2, <1>5, <1>9, <1>10, <1>11, <1>16, <2>1
    <2>5. \A v \in N : v # n /\ v # y /\ v # p => z[v] = w[v]
      BY <1>1, <1>5, <1>11, <1>16
    <2>6. QED
      BY <2>2, <2>3, <2>4, <2>5
  <1>18. Levels(u, N, d, z)
    <2>1. ASSUME NEW v \in N PROVE Level(u, d, z, v)
      <3>1. u.left[v] = t.left[v] /\ u.right[v] = t.right[v]
        BY <1>11 DEF SameLinks
      <3>2. Level(t, e, w, v) /\ e[v] \in Nat /\ w[v] \in Nat
        BY <1>6
      <3>3. \A c \in N \cup {Nil} : c # n /\ c # y => Height(d, c) = Height(e, c)
        BY <1>15 DEF Height
      <3>4. Height(e, t.left[v]) \in Nat /\ Height(e, t.right[v]) \in Nat
        BY <1>1, <1>7 DEF Height
      <3>5. CASE v = p
        <4>1. Height(d, t.left[v]) = Height(e, t.left[v]) - 1 /\ Height(d, t.right[v]) = Height(e, t.right[v]) - 1
          BY <1>1, <1>2, <1>9, <1>15, <3>5 DEF Height
        <4>2. d[v] = e[v] /\ z[v] = w[v] + 1
          BY <1>2, <1>9, <1>15, <1>17, <3>5
        <4>3. QED
          BY <3>1, <3>2, <3>4, <4>1, <4>2 DEF Level
      <3>6. CASE v # p
        <4>1. t.left[v] # n /\ t.left[v] # y /\ t.right[v] # n /\ t.right[v] # y
          BY <1>1, <1>7, <1>9, <3>6 DEF p
        <4>2. Height(d, t.left[v]) = Height(e, t.left[v]) /\ Height(d, t.right[v]) = Height(e, t.right[v])
          BY <1>7, <3>3, <4>1
        <4>3. d[v] - z[v] = e[v] - w[v] /\ d[v] \in Int /\ z[v] \in Int
          BY <1>1, <1>9, <1>15, <1>17, <3>2, <3>6
        <4>4. QED
          BY <3>1, <3>2, <3>4, <4>2, <4>3 DEF Level
      <3>7. QED
        BY <3>5, <3>6
    <2>2. QED
      BY <2>1 DEF Levels
  <1>19. Balanced(u, N, s, p)
    BY <1>15, <1>18 DEF Balanced, z
  <1>20. u.red \subseteq N /\ u.root \notin u.red
    <2>1. y # t.root
      BY <1>2, <1>9, LeftChild, RightChild
    <2>2. QED
      BY <1>1, <1>9, <1>11, <2>1 DEF SameLinks
  <1>21. RedBlackBut(u, N, Children(u, p), s, p)
    BY <1>14, <1>19, <1>20 DEF RedBlackBut
  <1>22. Rebalancing(u, N, f, r, p)
    BY <1>1, <1>2, <1>10, <1>13, <1>21 DEF Rebalancing, Missing, s
  <1>23. QED
    BY <1>12, <1>22 DEF u, p, y
-----------------------------------------------------------------------------
(***************************************************************************)
(* The inductive invariant, first without the traversal: what the call     *)
(* that is running has made of the tree.                                   *)
(***************************************************************************)
State(t, o, c, r, N, f) ==
  /\ o \in {"idle", "insert", "rebalance", "unlink"}
  /\ Shape(t, N, f)
  /\ o = "idle" => RedBlackBut(t, N, {}, Nil, Nil)
  /\ o = "insert" => c \in N /\ Inserting(t, N, c)
  /\ o = "rebalance" => Rebalancing(t, N, f, r, c)
  /\ o = "unlink" => Unlinking(t, N, f, r)

\* m_rbt_init makes a tree without nodes.
LEMMA EmptyTree ==
  ASSUME NEW c, NEW r
  PROVE  \E h : State(m_rbt_init, "idle", c, r, {}, h)
  <1> DEFINE t == m_rbt_init
             h == [v \in TreeNode |-> {v}]
             e == [v \in TreeNode |-> 0]
  <1>1. t \in Trees /\ t.root = Nil /\ t.red = {}
    BY DEF m_rbt_init, NoLinks, Trees, Place
  <1> HIDE DEF t
  <1>2. Shape(t, {}, h)
    BY <1>1 DEF Shape, Sub
  <1>3. Levels(t, {}, e, Weights(t, Nil, Nil)) /\ e \in [TreeNode -> Nat]
    BY DEF Levels
  <1>4. RedBlackBut(t, {}, {}, Nil, Nil)
    BY <1>1, <1>3 DEF RedBlackBut, Apart, Balanced
  <1> HIDE DEF h
  <1>5. State(t, "idle", c, r, {}, h)
    BY <1>2, <1>4 DEF State
  <1>6. QED
    BY <1>5 DEF t

\* The first part of m_rbt_insert adds its node.
LEMMA InsertStep ==
  ASSUME NEW N, NEW f, State(tree, op, cur, rm, N, f), NEW n \in TreeNode, m_rbt_insert(n)
  PROVE  n \notin N /\ \E h : State(tree', op', cur', rm', N \cup {n}, h)
  <1> DEFINE u == Linked(tree, n, m_rbt_lookup_insert(tree, n).parent)
  <1>1. /\ op = "idle" /\ m_rbt_lookup_insert(tree, n).node = Nil
        /\ tree' = u /\ op' = "insert" /\ cur' = n
    BY DEF m_rbt_insert, Linked
  <1> HIDE DEF u
  <1>2. Shape(tree, N, f) /\ RedBlackBut(tree, N, {}, Nil, Nil)
    BY <1>1 DEF State
  <1>3. n \notin N /\ (\E h : Shape(u, N \cup {n}, h)) /\ Inserting(u, N \cup {n}, n)
    BY <1>1, <1>2, InsertOk DEF u
  <1>4. QED
    BY <1>1, <1>3 DEF State

\* The loop of m_rbt_insert moves nodes, and ends in a red black tree.
LEMMA InsertRebalanceStep ==
  ASSUME NEW N, NEW f, State(tree, op, cur, rm, N, f), insert_rebalance
  PROVE  \E h : State(tree', op', cur', rm', N, h)
  <1> DEFINE p == tree.parent[cur]
             g == tree.parent[p]
             y == m_rbt_sibling(tree, p)
  <1>1. op = "insert" /\ Shape(tree, N, f) /\ cur \in N /\ Inserting(tree, N, cur) /\ cur # Nil
    BY Links DEF insert_rebalance, State
  <1>2. \/ p = Nil /\ tree' = Black(tree, {cur}) /\ op' = "idle" /\ cur' = Nil
        \/ p # Nil /\ p \notin tree.red /\ op' = "idle" /\ cur' = Nil /\ tree' = tree
        \/ p \in tree.red /\ y \in tree.red /\ tree' = Red(Black(tree, {p, y}), {g}) /\ cur' = g /\ op' = op
        \/ p \in tree.red /\ y \notin tree.red /\ tree' = InsertRotate(tree, cur) /\ op' = "idle" /\ cur' = Nil
    BY DEF insert_rebalance
  <1> HIDE DEF p, g, y
  <1>3. CASE p = Nil /\ tree' = Black(tree, {cur}) /\ op' = "idle"
    <2>1. Shape(tree', N, f) /\ RedBlackBut(tree', N, {}, Nil, Nil)
      BY <1>1, <1>3, InsertAtRoot DEF p
    <2>2. QED
      BY <1>3, <2>1 DEF State
  <1>4. CASE p # Nil /\ p \notin tree.red /\ op' = "idle" /\ tree' = tree
    <2>1. RedBlackBut(tree, N, {}, Nil, Nil)
      BY <1>1, <1>4, InsertBelowBlack DEF p
    <2>2. QED
      BY <1>1, <1>4, <2>1 DEF State
  <1>5. CASE p \in tree.red /\ y \in tree.red /\ tree' = Red(Black(tree, {p, y}), {g}) /\ cur' = g /\ op' = op
    <2>1. g \in N /\ Shape(tree', N, f) /\ Inserting(tree', N, g)
      BY <1>1, <1>5, InsertRecolour DEF p, g, y
    <2>2. QED
      BY <1>1, <1>5, <2>1 DEF State
  <1>6. CASE p \in tree.red /\ y \notin tree.red /\ tree' = InsertRotate(tree, cur) /\ op' = "idle"
    <2>1. RedBlackBut(tree, N, {cur}, Nil, Nil)
      BY <1>1, <1>6, InsertBelowRed DEF p
    <2>2. cur \in tree.red
      BY <1>1 DEF Inserting
    <2>3. (\E h : Shape(tree', N, h)) /\ RedBlackBut(tree', N, {}, Nil, Nil)
      BY <1>1, <1>6, <2>1, <2>2, InsertRotateOk DEF p, y
    <2>4. QED
      BY <1>6, <2>3 DEF State
  <1>7. QED
    BY <1>2, <1>3, <1>4, <1>5, <1>6

\* The first part of m_rbt_remove changes no node.
LEMMA RemoveBeginStep ==
  ASSUME NEW N, NEW f, State(tree, op, cur, rm, N, f), op = "idle", NEW n \in N, remove_begin(n), tree' = tree
  PROVE  State(tree', op', cur', rm', N, f) /\ rm'.node = n /\ op' \in {"rebalance", "unlink"}
  <1>1. Shape(tree, N, f) /\ RedBlackBut(tree, N, {}, Nil, Nil)
    BY DEF State
  <1>2. /\ rm' = RemoveLocals(tree, n) /\ cur' = rm'.succ
        /\ op' = IF rm'.child = Nil THEN "rebalance" ELSE "unlink"
    BY DEF remove_begin
  <1>3. /\ rm'.node = n
        /\ rm'.child = Nil => Rebalancing(tree, N, f, rm', rm'.succ)
        /\ rm'.child # Nil => Unlinking(tree, N, f, rm')
    BY <1>1, <1>2, RemoveBegun
  <1>4. QED
    BY <1>1, <1>2, <1>3 DEF State

\* The loop of m_rbt_remove_rebalance moves nodes, and keeps the pointers of m_rbt_remove.
LEMMA RemoveRebalanceStep ==
  ASSUME NEW N, NEW f, State(tree, op, cur, rm, N, f), m_rbt_remove_rebalance
  PROVE  \E h : State(tree', op', cur', rm', N, h)
  <1> DEFINE p == tree.parent[cur]
             y == m_rbt_sibling(tree, cur)
             nephews == IF y = Nil THEN {} ELSE {tree.left[y], tree.right[y]}
  <1>1. op = "rebalance" /\ Shape(tree, N, f) /\ Rebalancing(tree, N, f, rm, cur) /\ rm' = rm
    BY DEF m_rbt_remove_rebalance, State
  <1>2. \/ (cur \in tree.red \/ p = Nil) /\ tree' = Black(tree, {cur} \cap tree.red) /\ op' = "unlink" /\ cur' = cur
        \/ /\ cur \notin tree.red /\ p # Nil /\ y \in tree.red
           /\ tree' = RotateTowards(Black(Red(tree, {p}), {y}), cur, p) /\ op' = op /\ cur' = cur
        \/ /\ cur \notin tree.red /\ p # Nil /\ y \notin tree.red /\ nephews \cap tree.red = {}
           /\ tree' = Red(tree, {y} \ {Nil}) /\ op' = op /\ cur' = p
        \/ /\ cur \notin tree.red /\ p # Nil /\ y \notin tree.red /\ nephews \cap tree.red # {}
           /\ tree' = RemoveRotate(tree, cur) /\ op' = "unlink" /\ cur' = cur
    BY DEF m_rbt_remove_rebalance, NextUnbalanced
  <1> HIDE DEF p, y
  <1>3. CASE cur \in tree.red /\ tree' = Black(tree, {cur} \cap tree.red) /\ op' = "unlink"
    <2>1. {cur} \cap tree.red = {cur}
      BY <1>3
    <2>2. Shape(tree', N, f) /\ Unlinking(tree', N, f, rm)
      BY <1>1, <1>3, <2>1, RemoveAtRed
    <2>3. QED
      BY <1>1, <1>3, <2>2 DEF State
  <1>4. CASE cur \notin tree.red /\ p = Nil /\ tree' = Black(tree, {cur} \cap tree.red) /\ op' = "unlink"
    <2>1. Unlinking(tree, N, f, rm)
      BY <1>1, <1>4, RemoveAtRoot DEF p
    <2>2. tree \in Trees /\ {cur} \cap tree.red = {} /\ {} \in SUBSET TreeNode
      BY <1>1, <1>4 DEF Shape
    <2>3. tree' \in Trees /\ SameLinks(tree, tree') /\ tree'.red = tree.red \ {}
      BY <1>4, <2>2, Recoloured
    <2>4. tree' = tree
      BY <2>2, <2>3 DEF Trees, SameLinks
    <2>5. QED
      BY <1>1, <1>4, <2>1, <2>4 DEF State
  <1>5. CASE /\ cur \notin tree.red /\ p # Nil /\ y \in tree.red
             /\ tree' = RotateTowards(Black(Red(tree, {p}), {y}), cur, p) /\ op' = op /\ cur' = cur
    <2>1. \E h : Shape(tree', N, h) /\ Rebalancing(tree', N, h, rm, cur)
      BY <1>1, <1>5, RemoveTurned DEF p, y
    <2>2. QED
      BY <1>1, <1>5, <2>1 DEF State
  <1>6. CASE /\ cur \notin tree.red /\ p # Nil /\ y \notin tree.red /\ nephews \cap tree.red = {}
             /\ tree' = Red(tree, {y} \ {Nil}) /\ op' = op /\ cur' = p
    <2>1. y # Nil => tree.left[y] \notin tree.red /\ tree.right[y] \notin tree.red
      BY <1>6
    <2>2. Shape(tree', N, f) /\ Rebalancing(tree', N, f, rm, p)
      BY <1>1, <1>6, <2>1, RemoveRecoloured DEF p, y
    <2>3. QED
      BY <1>1, <1>6, <2>2 DEF State
  <1>7. CASE /\ cur \notin tree.red /\ p # Nil /\ y \notin tree.red /\ nephews \cap tree.red # {}
             /\ tree' = RemoveRotate(tree, cur) /\ op' = "unlink"
    <2>1. y # Nil /\ y \notin tree.red /\ (tree.left[y] \in tree.red \/ tree.right[y] \in tree.red)
      BY <1>7
    <2>2. \E h : Shape(tree', N, h) /\ Unlinking(tree', N, h, rm)
      BY <1>1, <1>7, <2>1, RemoveRotated DEF p, y
    <2>3. QED
      BY <1>1, <1>7, <2>2 DEF State
  <1>8. QED
    BY <1>2, <1>3, <1>4, <1>5, <1>6, <1>7

\* The last part of m_rbt_remove takes its node away, and nothing else.
LEMMA UnlinkStep ==
  ASSUME NEW N, NEW f, State(tree, op, cur, rm, N, f), remove_unlink
  PROVE  rm.node \in N /\ \E h : State(tree', op', cur', rm', N \ {rm.node}, h)
  <1>1. /\ op = "unlink" /\ Shape(tree, N, f) /\ Removing(tree, N, f, rm)
        /\ RedBlackBut(tree, N, {}, Gone(rm), Nil) /\ op' = "idle"
    BY DEF remove_unlink, State, Unlinking
  <1>2. tree' = Unlinked(tree, rm)
    BY DEF remove_unlink, UnlinkChild, Unlinked, MovedUp
  <1>3. (\E h : Shape(tree', N \ {rm.node}, h)) /\ RedBlackBut(tree', N \ {rm.node}, {}, Nil, Nil)
    <2>1. CASE rm.succ = rm.node
      BY <1>1, <1>2, <2>1, UnlinkSplice
    <2>2. CASE rm.succ # rm.node
      BY <1>1, <1>2, <2>2, UnlinkSwap
    <2>3. QED
      BY <2>1, <2>2
  <1>4. QED
    BY <1>1, <1>3 DEF State, Removing

\* The order in which a traversal meets the nodes.
Before(dir, a, b) == IF dir = "next" THEN a < b ELSE b < a

(***************************************************************************)
(* The traversal that is running has met the nodes before t_pos, also      *)
(* those that are gone; what it expects besides them is still in the tree. *)
(* It has gone on from the node that its body removes.                     *)
(***************************************************************************)
Walked(N) ==
  t_loop # "none" =>
    /\ t_loop \in {"next", "prev"} /\ op # "insert"
    /\ t_visited \in Seq(TreeNode) /\ t_pos \in N \cup {Nil}
    /\ \A i \in 1 .. Len(t_visited) - 1 : Before(t_loop, t_visited[i], t_visited[i + 1])
    /\ t_pos # Nil => \A i \in 1 .. Len(t_visited) : Before(t_loop, t_visited[i], t_pos)
    /\ t_expected = {t_visited[i] : i \in DOMAIN t_visited}
                    \cup {k \in N : t_pos # Nil /\ ~ Before(t_loop, k, t_pos)}
    /\ op # "idle" /\ t_pos # Nil => Before(t_loop, rm.node, t_pos)

TreeInv == \E N, f : State(tree, op, cur, rm, N, f) /\ Walked(N)

\* A traversal begins at one end of the tree.
LEMMA WalkBegins ==
  ASSUME NEW N, NEW f, State(tree, op, cur, rm, N, f), NEW dir \in Loops, rbt_foreach_begin(dir)
  PROVE  Walked(N)'
  <1>1. /\ op' = "idle" /\ tree.root # Nil /\ t_loop' = dir /\ t_visited' = <<>> /\ t_expected' = TreeNodes(tree)
        /\ t_pos' = IF dir = "next" THEN Leftmost(tree, tree.root) ELSE Rightmost(tree, tree.root)
        /\ dir \in {"next", "prev"} /\ Shape(tree, N, f)
    BY TreeAssumption DEF rbt_foreach_begin, State
  <1>2. tree.root \in N /\ f[tree.root] = N /\ TreeNodes(tree) = N /\ \A k \in N : k \in Int /\ k # Nil
    <2>1. N = Sub(f, tree.root) /\ N \subseteq TreeNode /\ tree \in Trees /\ \A v \in TreeNode : v \in f[v]
      BY <1>1 DEF Shape
    <2>2. tree.root \in TreeNode /\ N = f[tree.root]
      BY <1>1, <2>1 DEF Sub, Trees, Place
    <2>3. QED
      BY <1>1, <2>1, <2>2, TreeNodesIs, TreeAssumption
  <1>3. t_pos' \in N /\ \A k \in N : k # t_pos' => Before(dir, t_pos', k)
    <2>1. CASE dir = "next"
      BY <1>1, <1>2, <2>1, LeftmostIs DEF Before
    <2>2. CASE dir = "prev"
      BY <1>1, <1>2, <2>2, RightmostIs DEF Before
    <2>3. QED
      BY <1>1, <2>1, <2>2
  <1>4. \A k \in N : ~ Before(dir, k, t_pos')
    BY <1>2, <1>3 DEF Before
  <1>5. {t_visited'[i] : i \in DOMAIN t_visited'} = {} /\ Len(t_visited') = 0 /\ t_visited' \in Seq(TreeNode)
    BY <1>1
  <1>6. QED
    BY <1>1, <1>2, <1>3, <1>4, <1>5 DEF Walked

\* The neighbour on the side of the direction.
LEMMA StepIs ==
  ASSUME NEW N, NEW f, Shape(tree, N, f), NEW n \in N, t_loop \in {"next", "prev"}
  PROVE  LET r == StepOf(tree, n)
         IN  \/ r = Nil /\ \A k \in N : ~ Before(t_loop, n, k)
             \/ r \in N /\ Before(t_loop, n, r) /\ \A k \in N : Before(t_loop, n, k) /\ k # r => Before(t_loop, r, k)
  <1>1. CASE t_loop = "next"
    <2>1. StepOf(tree, n) = m_rbt_next_node(tree, n)
      BY <1>1 DEF StepOf
    <2>2. QED
      BY <1>1, <2>1, NextIs DEF Before
  <1>2. CASE t_loop = "prev"
    <2>1. StepOf(tree, n) = m_rbt_prev_node(tree, n)
      BY <1>2 DEF StepOf
    <2>2. QED
      BY <1>2, <2>1, PrevIs DEF Before
  <1>3. QED
    BY <1>1, <1>2

\* A step of a traversal goes on to the neighbour of the node it met.
LEMMA WalkSteps ==
  ASSUME NEW N, NEW f, State(tree, op, cur, rm, N, f), Walked(N), NEW removes \in BOOLEAN,
         rbt_foreach_step(removes)
  PROVE  Walked(N)' /\ State(tree', op', cur', rm', N, f)
  <1> DEFINE n == t_pos
             r == StepOf(tree, n)
             L == Len(t_visited)
  <1>1. /\ op = "idle" /\ t_loop # "none" /\ n # Nil /\ t_visited' = Append(t_visited, n) /\ t_pos' = r
        /\ IF removes THEN remove_begin(n) ELSE UNCHANGED <<op, cur, rm>>
        /\ tree' = tree /\ t_loop' = t_loop /\ t_expected' = t_expected
    BY DEF rbt_foreach_step
  <1>2. /\ t_loop \in {"next", "prev"} /\ t_visited \in Seq(TreeNode) /\ n \in N
        /\ \A i \in 1 .. L - 1 : Before(t_loop, t_visited[i], t_visited[i + 1])
        /\ \A i \in 1 .. L : Before(t_loop, t_visited[i], n)
        /\ t_expected = {t_visited[i] : i \in DOMAIN t_visited} \cup {k \in N : ~ Before(t_loop, k, n)}
    BY <1>1 DEF Walked
  <1>3. Shape(tree, N, f) /\ N \subseteq TreeNode /\ \A k \in TreeNode : k \in Int /\ k # Nil
    BY TreeAssumption DEF State, Shape
  <1>4. \/ r = Nil /\ \A k \in N : ~ Before(t_loop, n, k)
        \/ r \in N /\ Before(t_loop, n, r) /\ \A k \in N : Before(t_loop, n, k) /\ k # r => Before(t_loop, r, k)
    BY <1>2, <1>3, StepIs
  <1> HIDE DEF n, r
  <1>5. /\ t_visited' \in Seq(TreeNode) /\ Len(t_visited') = L + 1 /\ L \in Nat /\ DOMAIN t_visited' = 1 .. L + 1
        /\ t_visited'[L + 1] = n /\ \A i \in 1 .. L : t_visited'[i] = t_visited[i] /\ t_visited[i] \in TreeNode
        /\ DOMAIN t_visited = 1 .. L
    BY <1>1, <1>2, <1>3, AppendProperties
  <1> HIDE DEF L
  <1>6. \A i \in 1 .. L : Before(t_loop, t_visited'[i], t_visited'[i + 1])
    <2>1. ASSUME NEW i \in 1 .. L PROVE Before(t_loop, t_visited'[i], t_visited'[i + 1])
      <3>1. CASE i = L
        BY <1>2, <1>5, <3>1
      <3>2. CASE i # L
        <4>1. i \in 1 .. L - 1 /\ i + 1 \in 1 .. L
          BY <1>5, <3>2
        <4>2. QED
          BY <1>2, <1>5, <4>1
      <3>3. QED
        BY <3>1, <3>2
    <2>2. QED
      BY <2>1
  <1>7. r # Nil => \A i \in 1 .. L + 1 : Before(t_loop, t_visited'[i], r)
    <2>1. ASSUME r # Nil, NEW i \in 1 .. L + 1 PROVE Before(t_loop, t_visited'[i], r)
      <3>1. Before(t_loop, n, r) /\ r \in Int /\ n \in Int
        BY <1>2, <1>3, <1>4, <2>1
      <3>2. CASE i = L + 1
        BY <1>5, <3>1, <3>2
      <3>3. CASE i # L + 1
        <4>1. i \in 1 .. L
          BY <1>5, <3>3
        <4>2. t_visited'[i] \in Int /\ Before(t_loop, t_visited'[i], n)
          BY <1>2, <1>3, <1>5, <4>1
        <4>3. QED
          BY <3>1, <4>2 DEF Before
      <3>4. QED
        BY <3>2, <3>3
    <2>2. QED
      BY <2>1
  <1>8. {t_visited'[i] : i \in DOMAIN t_visited'} = {t_visited[i] : i \in DOMAIN t_visited} \cup {n}
    BY <1>5
  <1>9. {k \in N : ~ Before(t_loop, k, n)} = {n} \cup {k \in N : r # Nil /\ ~ Before(t_loop, k, r)}
    <2>1. ASSUME NEW k \in N PROVE ~ Before(t_loop, k, n) <=> k = n \/ (r # Nil /\ ~ Before(t_loop, k, r))
      <3>1. k \in Int /\ n \in Int /\ (r # Nil => r \in Int)
        BY <1>2, <1>3, <1>4
      <3>2. CASE r = Nil
        <4>1. ~ Before(t_loop, n, k)
          BY <1>3, <1>4, <3>2
        <4>2. ~ Before(t_loop, k, n) <=> k = n
          <5>1. t_loop \in {"next", "prev"} /\ ~ Before(t_loop, n, n)
            BY <1>2, <3>1 DEF Before
          <5>2. QED
            BY <3>1, <4>1, <5>1 DEF Before
        <4>3. QED
          BY <3>2, <4>2
      <3>3. CASE r # Nil
        BY <1>4, <3>1, <3>3 DEF Before
      <3>4. QED
        BY <3>2, <3>3
    <2>2. QED
      BY <1>2, <2>1
  <1>10. t_expected' = {t_visited'[i] : i \in DOMAIN t_visited'} \cup {k \in N : r # Nil /\ ~ Before(t_loop, k, r)}
    BY <1>1, <1>2, <1>8, <1>9
  <1>11. /\ State(tree', op', cur', rm', N, f) /\ op' # "insert"
         /\ op' # "idle" => rm'.node = n
    <2>1. CASE removes
      BY <1>1, <1>2, <2>1, RemoveBeginStep
    <2>2. CASE ~ removes
      BY <1>1, <2>2
    <2>3. QED
      BY <2>1, <2>2
  <1>12. r \in N \cup {Nil} /\ (r # Nil => Before(t_loop, n, r))
    BY <1>4
  <1>13. \A i \in 1 .. Len(t_visited') - 1 : Before(t_loop, t_visited'[i], t_visited'[i + 1])
    BY <1>5, <1>6
  <1>14. r # Nil => \A i \in 1 .. Len(t_visited') : Before(t_loop, t_visited'[i], r)
    BY <1>5, <1>7
  <1>15. Walked(N)'
    BY <1>1, <1>2, <1>5, <1>10, <1>11, <1>12, <1>13, <1>14 DEF Walked
  <1>16. QED
    BY <1>11, <1>15

\* A removal takes a node away that the traversal has met.
LEMMA WalkUnlinks ==
  ASSUME NEW N, NEW f, State(tree, op, cur, rm, N, f), Walked(N), remove_unlink,
         NEW M, M = N \ {rm.node}
  PROVE  Walked(M)'
  <1>1. op = "unlink" /\ op' = "idle" /\ UNCHANGED treeLoopVars
    BY DEF remove_unlink
  <1>2. rm.node \in N /\ N \subseteq Int
    BY UnlinkStep, TreeAssumption DEF State, Shape
  <1>3. CASE t_loop = "none"
    BY <1>1, <1>3 DEF Walked, treeLoopVars
  <1>4. CASE t_loop # "none" /\ t_pos = Nil
    BY <1>1, <1>4 DEF Walked, treeLoopVars
  <1>5. CASE t_loop # "none" /\ t_pos # Nil
    <2>1. Before(t_loop, rm.node, t_pos) /\ t_pos \in N
      BY <1>1, <1>5 DEF Walked
    <2>2. rm.node # t_pos
      BY <1>2, <2>1 DEF Before
    <2>3. {k \in N : ~ Before(t_loop, k, t_pos)} = {k \in M : ~ Before(t_loop, k, t_pos)}
      BY <2>1
    <2>4. /\ t_loop' = t_loop /\ t_pos' = t_pos /\ t_expected' = t_expected /\ t_visited' = t_visited
          /\ t_loop \in {"next", "prev"} /\ t_visited \in Seq(TreeNode) /\ t_pos \in M \cup {Nil}
          /\ \A i \in 1 .. Len(t_visited) - 1 : Before(t_loop, t_visited[i], t_visited[i + 1])
          /\ \A i \in 1 .. Len(t_visited) : Before(t_loop, t_visited[i], t_pos)
      BY <1>1, <1>5, <2>1, <2>2 DEF Walked, treeLoopVars
    <2>5. t_expected = {t_visited[i] : i \in DOMAIN t_visited}
                       \cup {k \in M : t_pos # Nil /\ ~ Before(t_loop, k, t_pos)}
      <3>1. t_expected = {t_visited[i] : i \in DOMAIN t_visited} \cup {k \in N : ~ Before(t_loop, k, t_pos)}
        BY <1>5 DEF Walked
      <3>2. QED
        BY <1>5, <2>3, <3>1
    <2>6. QED
      BY <1>1, <2>4, <2>5 DEF Walked
  <1>6. QED
    BY <1>3, <1>4, <1>5

\* The invariant holds at the start.
LEMMA TreeInitInv == TreeInit => TreeInv
  <1> SUFFICES ASSUME TreeInit PROVE TreeInv
    OBVIOUS
  <1>1. tree = m_rbt_init /\ op = "idle" /\ t_loop = "none"
    BY DEF TreeInit
  <1>2. \E h : State(tree, op, cur, rm, {}, h)
    BY <1>1, EmptyTree
  <1>3. Walked({})
    BY <1>1 DEF Walked
  <1>4. QED
    BY <1>2, <1>3 DEF TreeInv
-----------------------------------------------------------------------------

\* The step of a call or a traversal, and what it does to the nodes of the tree.
LEMMA TreeStep ==
  ASSUME NEW N, NEW f, State(tree, op, cur, rm, N, f), Walked(N), [TreeNext]_treeVars
  PROVE  \E M : /\ \E h : State(tree', op', cur', rm', M, h)
                /\ Walked(M)'
                /\ \/ M = N \/ M = {}
                   \/ \E n \in TreeNode : n \notin N /\ M = N \cup {n}
                   \/ \E n \in N : M = N \ {n}
  <1> DEFINE After(M) == (\E h : State(tree', op', cur', rm', M, h)) /\ Walked(M)'
  <1>1. CASE UNCHANGED treeVars
    <2>1. /\ tree' = tree /\ op' = op /\ cur' = cur /\ rm' = rm /\ t_loop' = t_loop /\ t_pos' = t_pos
          /\ t_expected' = t_expected /\ t_visited' = t_visited
      BY <1>1 DEF treeVars, treeLoopVars
    <2>2. State(tree', op', cur', rm', N, f)
      BY <2>1
    <2>3. Walked(N)'
      BY <2>1 DEF Walked
    <2>4. QED
      BY <2>2, <2>3
  <1>2. ASSUME NEW n \in TreeNode, m_rbt_insert(n) PROVE n \notin N /\ After(N \cup {n})
    <2>1. n \notin N /\ \E h : State(tree', op', cur', rm', N \cup {n}, h)
      BY <1>2, InsertStep
    <2>2. Walked(N \cup {n})'
      BY <1>2 DEF m_rbt_insert, treeLoopVars, Walked
    <2>3. QED
      BY <2>1, <2>2
  <1>3. ASSUME NEW n \in TreeNode, m_rbt_remove(n) PROVE After(N)
    <2>1. op = "idle" /\ t_loop = "none" /\ t_loop' = "none" /\ n \in TreeNodes(tree) /\ remove_begin(n) /\ tree' = tree
      BY <1>3 DEF m_rbt_remove, treeLoopVars
    <2>2. n \in N
      BY <2>1, TreeNodesIs DEF State
    <2>3. State(tree', op', cur', rm', N, f)
      BY <2>1, <2>2, RemoveBeginStep
    <2>4. Walked(N)'
      BY <2>1 DEF Walked
    <2>5. QED
      BY <2>3, <2>4
  <1>4. CASE m_rbt_deinit
    <2>1. tree' = m_rbt_init /\ op' = "idle" /\ t_loop' = "none"
      BY <1>4 DEF m_rbt_deinit, treeLoopVars
    <2>2. \E h : State(tree', op', cur', rm', {}, h)
      BY <2>1, EmptyTree
    <2>3. Walked({})'
      BY <2>1 DEF Walked
    <2>4. QED
      BY <2>2, <2>3
  <1>5. ASSUME NEW dir \in Loops, rbt_foreach_begin(dir) PROVE After(N)
    <2>1. Walked(N)'
      BY <1>5, WalkBegins
    <2>2. State(tree', op', cur', rm', N, f)
      BY <1>5 DEF rbt_foreach_begin
    <2>3. QED
      BY <2>1, <2>2
  <1>6. ASSUME NEW removes \in BOOLEAN, rbt_foreach_step(removes) PROVE After(N)
    BY <1>6, WalkSteps
  <1>7. CASE rbt_foreach_end
    <2>1. State(tree', op', cur', rm', N, f) /\ t_loop' = "none"
      BY <1>7 DEF rbt_foreach_end
    <2>2. Walked(N)'
      BY <2>1 DEF Walked
    <2>3. QED
      BY <2>1, <2>2
  <1>8. CASE insert_rebalance
    <2>1. \E h : State(tree', op', cur', rm', N, h)
      BY <1>8, InsertRebalanceStep
    <2>2. op = "insert" /\ t_loop' = t_loop
      BY <1>8 DEF insert_rebalance, treeLoopVars
    <2>3. t_loop = "none"
      BY <2>2 DEF Walked
    <2>4. Walked(N)'
      BY <2>2, <2>3 DEF Walked
    <2>5. QED
      BY <2>1, <2>4
  <1>9. CASE m_rbt_remove_rebalance
    <2>1. \E h : State(tree', op', cur', rm', N, h)
      BY <1>9, RemoveRebalanceStep
    <2>2. /\ op = "rebalance" /\ op' # "insert" /\ rm' = rm /\ t_loop' = t_loop /\ t_pos' = t_pos
          /\ t_expected' = t_expected /\ t_visited' = t_visited
      BY <1>9 DEF m_rbt_remove_rebalance, treeLoopVars
    <2>3. Walked(N)'
      BY <2>2 DEF Walked
    <2>4. QED
      BY <2>1, <2>3
  <1>10. CASE remove_unlink
    <2> DEFINE n == rm.node
               M == N \ {n}
    <2>1. n \in N /\ \E h : State(tree', op', cur', rm', M, h)
      BY <1>10, UnlinkStep
    <2>2. \A k : k = M => Walked(k)'
      BY <1>10, WalkUnlinks
    <2> HIDE DEF n
    <2>3. QED
      BY <2>1, <2>2
  <1>11. QED
    BY <1>1, <1>2, <1>3, <1>4, <1>5, <1>6, <1>7, <1>8, <1>9, <1>10 DEF TreeNext, Running

\* The invariant holds in every state.
LEMMA TreeInvariant == TreeSpec => []TreeInv
  <1>1. TreeInv /\ [TreeNext]_treeVars => TreeInv'
    <2>1. SUFFICES ASSUME TreeInv, [TreeNext]_treeVars PROVE TreeInv'
      OBVIOUS
    <2>2. PICK N, f : State(tree, op, cur, rm, N, f) /\ Walked(N)
      BY <2>1 DEF TreeInv
    <2>3. PICK M : (\E h : State(tree', op', cur', rm', M, h)) /\ Walked(M)'
      BY <2>1, <2>2, TreeStep
    <2>4. QED
      BY <2>3 DEF TreeInv
  <1>2. QED
    BY <1>1, TreeInitInv, PTL DEF TreeSpec

\* At every step of the rebalance loops, and not only between calls, a node is found
\* where the order of the keys says, and parent pointers are the inverse of child pointers.
THEOREM TreeSearchable == TreeSpec => []SearchTree
  <1>1. TreeInv => SearchTree
    <2>1. SUFFICES ASSUME TreeInv PROVE SearchTree
      OBVIOUS
    <2>2. PICK N, f : Shape(tree, N, f)
      BY <2>1 DEF TreeInv, State
    <2>3. TreeNodes(tree) = N
      BY <2>2, TreeNodesIs
    <2>4. tree.root # Nil => tree.parent[tree.root] = Nil
      BY <2>2 DEF Shape
    <2>5. ASSUME NEW n \in N
          PROVE  /\ \A k \in Subtree(tree, tree.left[n]) : k < n
                 /\ \A k \in Subtree(tree, tree.right[n]) : k > n
                 /\ \A c \in {tree.left[n], tree.right[n]} \ {Nil} : tree.parent[c] = n
      <3>1. tree.left[n] \in N \cup {Nil} /\ tree.right[n] \in N \cup {Nil}
        BY <2>2, LeftChild, RightChild
      <3>2. /\ Subtree(tree, tree.left[n]) = Sub(f, tree.left[n])
            /\ Subtree(tree, tree.right[n]) = Sub(f, tree.right[n])
        BY <2>2, <3>1, SubtreeIs
      <3>3. NodeShape(tree, N, f, n)
        BY <2>2 DEF Shape
      <3>4. \A k \in Sub(f, tree.right[n]) : k \in Int
        BY <2>2, RightChild DEF Sub
      <3>5. n \in Int
        BY <2>2, Links
      <3>6. QED
        BY <3>2, <3>3, <3>4, <3>5 DEF NodeShape
    <2>6. QED
      BY <2>3, <2>4, <2>5 DEF SearchTree
  <1>2. QED
    BY <1>1, TreeInvariant, PTL

\* A traversal meets every node there was, in the order of its direction, whatever its
\* body removes on the way.
THEOREM TreeTraversalsOrdered == TreeSpec => []TraversalOrdered
  <1>1. TreeInv => TraversalOrdered
    <2>1. SUFFICES ASSUME TreeInv PROVE TraversalOrdered
      OBVIOUS
    <2>2. PICK N : Walked(N)
      BY <2>1 DEF TreeInv
    <2>3. t_loop = "next" => \A i \in 1 .. Len(t_visited) - 1 : t_visited[i] < t_visited[i + 1]
      BY <2>2 DEF Walked, Before
    <2>4. t_loop = "prev" => \A i \in 1 .. Len(t_visited) - 1 : t_visited[i] > t_visited[i + 1]
      <3>1. SUFFICES ASSUME t_loop = "prev", NEW i \in 1 .. Len(t_visited) - 1
                     PROVE  t_visited[i] > t_visited[i + 1]
        OBVIOUS
      <3>2. t_visited[i + 1] < t_visited[i] /\ t_visited \in Seq(TreeNode)
        BY <2>2, <3>1 DEF Walked, Before
      <3>3. Len(t_visited) \in Nat /\ i \in 1 .. Len(t_visited) /\ i + 1 \in 1 .. Len(t_visited)
        BY <3>2
      <3>4. t_visited[i] \in Int /\ t_visited[i + 1] \in Int
        <4>1. \A j \in 1 .. Len(t_visited) : t_visited[j] \in TreeNode
          BY <3>2
        <4>2. QED
          BY <3>3, <4>1, TreeAssumption
      <3>5. QED
        BY <3>2, <3>4
    <2>5. (t_loop # "none" /\ t_pos = Nil) => {t_visited[i] : i \in DOMAIN t_visited} = t_expected
      BY <2>2 DEF Walked
    <2>6. QED
      BY <2>3, <2>4, <2>5 DEF TraversalOrdered
  <1>2. QED
    BY <1>1, TreeInvariant, PTL

\* The tree implements a set of nodes with unique keys: a rotation or a colour changes
\* nothing, an insertion adds its node when it is linked, a removal takes its node away
\* when it is unlinked.
THEOREM TreeIsKeyedSet == TreeSpec => TreeImplementsKeyedSet
  <1>1. TreeInit => TreeContent!Init
    <2>1. SUFFICES ASSUME TreeInit PROVE TreeNodes(tree) = {}
      BY DEF TreeContent!Init
    <2>2. PICK h : Shape(m_rbt_init, {}, h)
      BY EmptyTree DEF State
    <2>3. QED
      BY <2>1, <2>2, TreeNodesIs DEF TreeInit
  <1>2. TreeInv /\ [TreeNext]_treeVars => [TreeContent!Next]_(TreeNodes(tree))
    <2>1. SUFFICES ASSUME TreeInv, [TreeNext]_treeVars PROVE [TreeContent!Next]_(TreeNodes(tree))
      OBVIOUS
    <2>2. PICK N, f : State(tree, op, cur, rm, N, f) /\ Walked(N)
      BY <2>1 DEF TreeInv
    <2>3. PICK M : /\ \E h : State(tree', op', cur', rm', M, h)
                   /\ \/ M = N \/ M = {}
                      \/ \E n \in TreeNode : n \notin N /\ M = N \cup {n}
                      \/ \E n \in N : M = N \ {n}
      BY <2>1, <2>2, TreeStep
    <2>4. TreeNodes(tree) = N /\ N \subseteq TreeNode
      BY <2>2, TreeNodesIs DEF State, Shape
    <2>5. TreeNodes(tree') = M
      BY <2>3, TreeNodesIs DEF State
    <2>6. CASE M = N
      BY <2>4, <2>5, <2>6
    <2>7. CASE M = {}
      BY <2>5, <2>7 DEF TreeContent!Next, TreeContent!Clear
    <2>8. ASSUME NEW n \in TreeNode, n \notin N, M = N \cup {n} PROVE TreeContent!Next
      <3>1. TreeContent!Insert(n)
        BY <2>4, <2>5, <2>8 DEF TreeContent!Insert
      <3>2. QED
        BY <3>1 DEF TreeContent!Next
    <2>9. ASSUME NEW n \in N, M = N \ {n} PROVE TreeContent!Next
      <3>1. TreeContent!Remove(n) /\ n \in TreeNode
        BY <2>4, <2>5, <2>9 DEF TreeContent!Remove
      <3>2. QED
        BY <3>1 DEF TreeContent!Next
    <2>10. QED
      BY <2>3, <2>6, <2>7, <2>8, <2>9
  <1>3. QED
    BY <1>1, <1>2, TreeInvariant, PTL DEF TreeSpec, TreeImplementsKeyedSet, TreeContent!Spec

\* All paths down from the root meet as many black nodes as its height says.
LEMMA BlackHeightsAgree ==
  ASSUME NEW t, NEW N, NEW f, Shape(t, N, f), Balanced(t, N, Nil, Nil)
  PROVE  \A x, y \in BlackHeights(t) : x = y
  <1> DEFINE X == SUBSET (Place \X Nat)
             x0 == {<<t.root, 0>>}
             h == [B \in X |-> UNION {Places(t, p) : p \in B}]
             reached == CHOOSE g : g = [i \in 0 .. Steps |->
                          IF i = 0 THEN {<<t.root, 0>>} ELSE UNION {Places(t, p) : p \in g[i - 1]}]
  <1>1. Steps \in Nat /\ N \subseteq TreeNode /\ t \in Trees /\ Nil \notin TreeNode
    BY StepsType, TreeAssumption DEF Shape
  <1>2. \A p \in Place \X Nat : Places(t, p) \in X
    <2>1. ASSUME NEW p \in Place \X Nat PROVE Places(t, p) \subseteq Place \X Nat
      <3>1. CASE p[1] = Nil
        BY <3>1 DEF Places
      <3>2. CASE p[1] # Nil
        <4>1. p[1] \in TreeNode /\ p[2] \in Nat
          BY <3>2 DEF Place
        <4>2. t.left[p[1]] \in Place /\ t.right[p[1]] \in Place
          BY <1>1, <4>1 DEF Trees
        <4>3. QED
          BY <3>2, <4>1, <4>2 DEF Places
      <3>3. QED
        BY <3>1, <3>2
    <2>2. QED
      BY <2>1
  <1>3. h \in [X -> X]
    <2>1. \A B \in X : UNION {Places(t, p) : p \in B} \in X
      BY <1>2
    <2> HIDE DEF X
    <2>2. QED
      BY <2>1
  <1>4. x0 \in X
    BY <1>1 DEF Trees
  <1>5. PICK g : g \in [0 .. Steps -> X] /\ Iterates(g, x0, h, Steps)
    <2> HIDE DEF h, X, x0
    <2>1. QED
      BY <1>1, <1>3, <1>4, IteratesExist
  <1>6. g = [i \in 0 .. Steps |-> IF i = 0 THEN x0 ELSE UNION {Places(t, p) : p \in g[i - 1]}]
    <2>1. \A i \in 1 .. Steps : g[i - 1] \in X
      <3> HIDE DEF h, X, x0
      <3>1. QED
        BY <1>1, <1>5
    <2>2. \A i \in 1 .. Steps : h[g[i - 1]] = UNION {Places(t, p) : p \in g[i - 1]}
      <3> HIDE DEF X, x0
      <3>1. QED
        BY <2>1
    <2> HIDE DEF h, X, x0
    <2>3. g = [i \in 0 .. Steps |-> IF i = 0 THEN x0 ELSE h[g[i - 1]]]
      BY <1>5 DEF Iterates
    <2>4. \A i \in 0 .. Steps : g[i] = IF i = 0 THEN x0 ELSE UNION {Places(t, p) : p \in g[i - 1]}
      <3>1. \A i \in 0 .. Steps : g[i] = IF i = 0 THEN x0 ELSE h[g[i - 1]]
        BY <2>3
      <3>2. ASSUME NEW i \in 0 .. Steps, i # 0 PROVE g[i] = UNION {Places(t, p) : p \in g[i - 1]}
        <4>1. i \in 1 .. Steps
          BY <1>1, <3>2
        <4>2. QED
          BY <2>2, <3>1, <3>2, <4>1
      <3>3. QED
        BY <3>1, <3>2
    <2>5. g = [i \in 0 .. Steps |-> g[i]]
      BY <1>5
    <2>6. QED
      BY <2>4, <2>5
  <1>7. reached = [i \in 0 .. Steps |->
                     IF i = 0 THEN {<<t.root, 0>>} ELSE UNION {Places(t, p) : p \in reached[i - 1]}]
    <2> HIDE DEF h, X
    <2>1. QED
      BY <1>6
  <1>8. BlackHeights(t) = {p[2] : p \in {q \in reached[Steps] : q[1] = Nil}}
    BY DEF BlackHeights
  <1> HIDE DEF reached, h, X, x0
  <1>9. reached[0] = {<<t.root, 0>>}
    <2> DEFINE v(i) == IF i = 0 THEN {<<t.root, 0>>} ELSE UNION {Places(t, p) : p \in reached[i - 1]}
    <2>1. v(0) = {<<t.root, 0>>}
      OBVIOUS
    <2>2. reached = [i \in 0 .. Steps |-> v(i)]
      BY <1>7
    <2> HIDE DEF v
    <2>3. reached[0] = v(0)
      BY <1>1, <2>2
    <2>4. QED
      BY <2>1, <2>3
  <1>10. ASSUME NEW i \in 1 .. Steps PROVE reached[i] = UNION {Places(t, p) : p \in reached[i - 1]}
    <2> DEFINE v(j) == IF j = 0 THEN {<<t.root, 0>>} ELSE UNION {Places(t, p) : p \in reached[j - 1]}
    <2>1. i \in 0 .. Steps /\ i # 0
      BY <1>1
    <2>2. v(i) = UNION {Places(t, p) : p \in reached[i - 1]}
      BY <2>1
    <2>3. reached = [j \in 0 .. Steps |-> v(j)]
      BY <1>7
    <2> HIDE DEF v
    <2>4. reached[i] = v(i)
      BY <2>1, <2>3
    <2>5. QED
      BY <2>2, <2>4
  <1>11. PICK e \in [TreeNode -> Nat] : Levels(t, N, e, Weights(t, Nil, Nil))
    BY DEF Balanced
  <1> DEFINE Good(p) == /\ p[1] \in N \cup {Nil} /\ p[2] \in Nat
                        /\ p[2] + Height(e, p[1]) = Height(e, t.root)
             T == {i \in 0 .. Steps : \A p \in reached[i] : Good(p)}
  <1>12. Good(<<t.root, 0>>)
    <2>1. t.root \in N \cup {Nil}
      <3>1. t.root = Nil \/ t.root \in TreeNode
        BY <1>1 DEF Trees, Place
      <3>2. QED
        BY <3>1 DEF Shape, Sub
    <2>2. Height(e, t.root) \in Nat
      BY <1>1, <2>1 DEF Height
    <2>3. QED
      BY <2>1, <2>2
  <1>13. ASSUME NEW p, Good(p), NEW q \in Places(t, p) PROVE Good(q)
    <2>1. CASE p[1] = Nil
      <3>1. q = p
        BY <2>1 DEF Places
      <3>2. QED
        BY <1>13, <3>1
    <2>2. CASE p[1] # Nil
      <3> DEFINE n == p[1]
                 w == IF n \in t.red THEN 0 ELSE 1
      <3>1. n \in N /\ n \in TreeNode
        BY <1>1, <1>13, <2>2
      <3>2. q = <<t.left[n], p[2] + w>> \/ q = <<t.right[n], p[2] + w>>
        BY <2>2 DEF Places
      <3>3. t.left[n] \in N \cup {Nil} /\ t.right[n] \in N \cup {Nil}
        BY <3>1, LeftChild, RightChild
      <3>4. Weights(t, Nil, Nil)[n] = w
        BY <1>1, <3>1 DEF Weights
      <3>5. Level(t, e, Weights(t, Nil, Nil), n)
        BY <1>11, <3>1 DEF Levels
      <3>6. p[2] \in Nat /\ p[2] + Height(e, n) = Height(e, t.root)
        BY <1>13
      <3>7. Height(e, n) = e[n] /\ e[n] \in Nat /\ w \in Nat
        BY <1>1, <3>1 DEF Height
      <3>8. Height(e, t.left[n]) \in Nat /\ Height(e, t.right[n]) \in Nat
        BY <1>1, <3>3 DEF Height
      <3> HIDE DEF n, w
      <3>9. e[n] = Height(e, t.left[n]) + w /\ e[n] = Height(e, t.right[n]) + w
        BY <3>4, <3>5 DEF Level
      <3>10. p[2] + w \in Nat /\ p[2] + w + Height(e, t.left[n]) = Height(e, t.root)
             /\ p[2] + w + Height(e, t.right[n]) = Height(e, t.root)
        BY <3>6, <3>7, <3>8, <3>9
      <3>11. q[1] \in {t.left[n], t.right[n]} /\ q[2] = p[2] + w
        BY <3>2
      <3>12. QED
        BY <3>3, <3>10, <3>11
    <2>3. QED
      BY <2>1, <2>2
  <1> HIDE DEF Good
  <1>14. 0 \in T
    BY <1>1, <1>9, <1>12
  <1>15. \A i \in 1 .. Steps : i - 1 \in T => i \in T
    BY <1>1, <1>10, <1>13
  <1>16. Steps \in T
    <2> HIDE DEF T
    <2>1. \A i \in 0 .. Steps : i \in T
      BY <1>1, <1>14, <1>15, Induction
    <2>2. QED
      BY <1>1, <2>1
  <1>17. \A p \in reached[Steps] : p[1] = Nil => p[2] = Height(e, t.root)
    <2>1. \A p \in reached[Steps] : p[1] = Nil => p[2] \in Nat /\ p[2] + 0 = Height(e, t.root)
      BY <1>16 DEF Good, Height
    <2>2. QED
      BY <2>1
  <1>18. QED
    BY <1>8, <1>17

\* Between calls the root is black, a red node has no red child, and all paths down have
\* the same number of black nodes.
THEOREM TreeIsRedBlack == TreeSpec => []RedBlack
  <1>1. TreeInv => RedBlack
    <2>1. SUFFICES ASSUME TreeInv, op = "idle"
                   PROVE  /\ tree.root \notin tree.red
                          /\ \A n \in tree.red : tree.parent[n] \notin tree.red
                          /\ \A x, y \in BlackHeights(tree) : x = y
      BY DEF RedBlack
    <2>2. PICK N, f : Shape(tree, N, f) /\ RedBlackBut(tree, N, {}, Nil, Nil)
      BY <2>1 DEF TreeInv, State
    <2>3. \A x, y \in BlackHeights(tree) : x = y
      BY <2>2, BlackHeightsAgree DEF RedBlackBut
    <2>4. QED
      BY <2>2, <2>3 DEF RedBlackBut, Apart
  <1>2. QED
    BY <1>1, TreeInvariant, PTL
=============================================================================
