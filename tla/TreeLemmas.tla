----------------------------- MODULE TreeLemmas -----------------------------
(***************************************************************************)
(* Lemmas about the trees of m_rbtree.h: what a tree is, what a node has   *)
(* below it, where the walks and the lookup lead, what a rotation, a       *)
(* splice and a replacement do to the shape of a tree, and what they do to *)
(* its black heights.                                                      *)
(***************************************************************************)
EXTENDS RBTree, DataLemmas
-----------------------------------------------------------------------------
(***************************************************************************)
(* Iterations.  Steps bounds every walk of RBTree.                         *)
(***************************************************************************)

Place == TreeNode \cup {Nil}

\* g[i] is what comes of x0 when h is applied i times.
Iterates(g, x0, h, n) == g = [i \in 0 .. n |-> IF i = 0 THEN x0 ELSE h[g[i - 1]]]

\* A recursive function of the walks is an iteration, which has a value at every number.
LEMMA IteratesExist ==
  ASSUME NEW X, NEW x0 \in X, NEW h \in [X -> X], NEW n \in Nat
  PROVE  \E g : g \in [0 .. n -> X] /\ Iterates(g, x0, h, n)
  <1> DEFINE Upto(g, j) == g = [i \in 0 .. j |-> IF i = 0 THEN x0 ELSE h[g[i - 1]]]
             T == {j \in 0 .. n : \E g \in [0 .. j -> X] : Upto(g, j)}
  <1>1. 0 \in T
    <2> DEFINE g == [i \in 0 .. 0 |-> x0]
    <2>1. Upto(g, 0) /\ g \in [0 .. 0 -> X]
      OBVIOUS
    <2> HIDE DEF Upto, g
    <2>2. QED
      BY <2>1
  <1>2. ASSUME NEW j \in 1 .. n, j - 1 \in T PROVE j \in T
    <2>1. PICK f \in [0 .. j - 1 -> X] : Upto(f, j - 1)
      BY <1>2
    <2> DEFINE g == [i \in 0 .. j |-> IF i < j THEN f[i] ELSE h[f[j - 1]]]
    <2>2. \A i \in 0 .. j - 1 : f[i] = IF i = 0 THEN x0 ELSE h[f[i - 1]]
      BY <2>1
    <2>3. ASSUME NEW i \in 0 .. j
          PROVE  g[i] = (IF i = 0 THEN x0 ELSE h[g[i - 1]]) /\ g[i] \in X
      <3>1. CASE i < j
        <4>1. g[i] = f[i] /\ (i # 0 => g[i - 1] = f[i - 1])
          BY <3>1
        <4> HIDE DEF g
        <4>2. QED
          BY <2>2, <3>1, <4>1
      <3>2. CASE i = j
        <4>1. g[i - 1] = f[i - 1] /\ g[i] = h[f[i - 1]] /\ i # 0 /\ f[i - 1] \in X
          BY <3>2
        <4> HIDE DEF g
        <4>2. QED
          BY <3>2, <4>1
      <3>3. QED
        BY <3>1, <3>2
    <2>4. Upto(g, j) /\ g \in [0 .. j -> X]
      <3>1. g = [i \in 0 .. j |-> g[i]]
        OBVIOUS
      <3> HIDE DEF g
      <3>2. QED
        BY <2>3, <3>1
    <2> HIDE DEF Upto, g
    <2>5. QED
      BY <2>4
  <1>3. \A i \in 0 .. n : i \in T
    <2> HIDE DEF T
    <2>1. QED
      BY <1>1, <1>2, Induction
  <1>4. QED
    BY <1>3 DEF Iterates

\* The bound of the walks is a number.
LEMMA StepsType == Steps \in Nat
  BY TreeAssumption, FS_CardinalityType DEF Steps

\* A loop along links that go down in a rank ends where there is no link.
LEMMA EndOfIs ==
  ASSUME NEW link \in [TreeNode -> Place], NEW S \in SUBSET TreeNode, NEW n \in S,
         NEW m \in [S -> 1 .. Steps],
         \A x \in S : link[x] # Nil => link[x] \in S /\ m[link[x]] < m[x]
  PROVE  EndOf(link, n) \in S /\ link[EndOf(link, n)] = Nil
  <1> DEFINE h == Follow(link)
             at == CHOOSE g : g = [i \in 0 .. Steps |-> IF i = 0 THEN n ELSE h[g[i - 1]]]
             T == {i \in 0 .. Steps : at[i] \in S /\ (link[at[i]] = Nil \/ m[at[i]] + i <= Steps)}
  <1>1. h \in [TreeNode -> TreeNode]
    BY DEF Follow, Place
  <1>2. n \in TreeNode /\ Steps \in Nat
    BY StepsType
  <1>3. at = [i \in 0 .. Steps |-> IF i = 0 THEN n ELSE h[at[i - 1]]]
    <2> HIDE DEF h
    <2>1. \E g : Iterates(g, n, h, Steps)
      BY <1>1, <1>2, IteratesExist
    <2>2. QED
      BY <2>1 DEF Iterates
  <1>4. EndOf(link, n) = at[Steps]
    BY DEF EndOf
  <1> HIDE DEF at
  <1>5. 0 \in T
    <2>1. at[0] = n
      BY <1>2, <1>3
    <2>2. QED
      BY <1>2, <2>1
  <1>6. ASSUME NEW i \in 1 .. Steps, i - 1 \in T PROVE i \in T
    <2>1. at[i] = h[at[i - 1]] /\ at[i - 1] \in S
      BY <1>2, <1>3, <1>6
    <2>2. at[i] = IF link[at[i - 1]] = Nil THEN at[i - 1] ELSE link[at[i - 1]]
      BY <2>1 DEF Follow
    <2>3. CASE link[at[i - 1]] = Nil
      BY <2>1, <2>2, <2>3
    <2>4. CASE link[at[i - 1]] # Nil
      <3>1. at[i] \in S /\ m[at[i]] < m[at[i - 1]] /\ m[at[i - 1]] + (i - 1) <= Steps
        BY <1>6, <2>1, <2>2, <2>4
      <3>2. m[at[i]] \in Nat /\ m[at[i - 1]] \in Nat
        BY <1>2, <2>1, <3>1
      <3>3. m[at[i]] + i <= Steps
        BY <1>2, <3>1, <3>2
      <3>4. QED
        BY <3>1, <3>3
    <2>5. QED
      BY <2>3, <2>4
  <1>7. Steps \in T
    <2>1. \A i \in 0 .. Steps : i \in T
      <3> HIDE DEF T
      <3>1. QED
        BY <1>2, <1>5, <1>6, Induction
    <2>2. QED
      BY <1>2, <2>1
  <1>8. QED
    BY <1>2, <1>4, <1>7
-----------------------------------------------------------------------------
(***************************************************************************)
(* The shape of a tree: N is the set of its nodes, and the function f says *)
(* what is below each of them.  Induction over a tree goes from the leaves *)
(* up (FromBelow) or from the root down (FromAbove).                       *)
(***************************************************************************)

Trees == [root : Place, left : [TreeNode -> Place], right : [TreeNode -> Place],
          parent : [TreeNode -> Place], red : SUBSET TreeNode]

\* The nodes below a place.
Sub(f, c) == IF c = Nil THEN {} ELSE f[c]

\* What holds at a node: its subtree is made of its children's, on the right
\* sides of it, and parent pointers are the inverse of child pointers.
NodeShape(t, N, f, n) ==
  /\ f[n] = {n} \cup Sub(f, t.left[n]) \cup Sub(f, t.right[n])
  /\ f[n] \subseteq N
  /\ \A k \in Sub(f, t.left[n]) : k < n
  /\ \A k \in Sub(f, t.right[n]) : n < k
  /\ t.left[n] # Nil => t.parent[t.left[n]] = n
  /\ t.right[n] # Nil => t.parent[t.right[n]] = n
  /\ n # t.root => t.parent[n] \in N /\ (n = t.left[t.parent[n]] \/ n = t.right[t.parent[n]])

\* The tree t holds the nodes N, and f[n] of them are below n.
Shape(t, N, f) ==
  /\ t \in Trees /\ N \subseteq TreeNode
  /\ f \in [TreeNode -> SUBSET TreeNode] /\ \A v \in TreeNode : v \in f[v]
  /\ N = Sub(f, t.root)
  /\ t.root # Nil => t.parent[t.root] = Nil
  /\ \A n \in N : NodeShape(t, N, f, n)

\* The links of a node of a tree.
LEMMA Links ==
  ASSUME NEW t, NEW N, NEW f, Shape(t, N, f), NEW n \in N
  PROVE  /\ n \in TreeNode /\ n # Nil /\ n \in Int /\ n \in f[n]
         /\ t.left[n] \in Place /\ t.right[n] \in Place /\ t.parent[n] \in Place
         /\ t.root \in N /\ t.root \in TreeNode /\ t.root # Nil
         /\ f[n] \subseteq N /\ f[n] \subseteq TreeNode
         /\ f[n] = {n} \cup Sub(f, t.left[n]) \cup Sub(f, t.right[n])
         /\ n = t.root <=> t.parent[n] = Nil
         /\ n # t.root => t.parent[n] \in N /\ (n = t.left[t.parent[n]] \/ n = t.right[t.parent[n]])
  <1>1. t \in Trees /\ n \in TreeNode /\ NodeShape(t, N, f, n) /\ N = Sub(f, t.root)
    BY DEF Shape
  <1>2. t.root \in N /\ t.root \in TreeNode /\ t.root # Nil /\ t.parent[t.root] = Nil
    BY <1>1 DEF Shape, Sub, Trees, Place
  <1>3. t.left[n] \in Place /\ t.right[n] \in Place /\ t.parent[n] \in Place
    BY <1>1 DEF Trees
  <1>4. n \in f[n] /\ f[n] \subseteq TreeNode
    BY <1>1 DEF Shape
  <1>5. n # Nil /\ n \in Int /\ Nil \notin N
    BY <1>1, TreeAssumption DEF Shape
  <1>6. QED
    BY <1>1, <1>2, <1>3, <1>4, <1>5 DEF NodeShape

\* The left child of a node.
LEMMA LeftChild ==
  ASSUME NEW t, NEW N, NEW f, Shape(t, N, f), NEW n \in N, t.left[n] # Nil
  PROVE  LET c == t.left[n]
         IN  /\ c \in N /\ c \in TreeNode /\ c \in Int /\ c < n /\ c # t.right[n]
             /\ t.parent[c] = n /\ c # t.root
             /\ f[c] \subseteq f[n] /\ n \notin f[c] /\ c \in f[c] /\ c \in f[n]
             /\ \A k \in f[c] : k < n /\ k \in Int
  <1> DEFINE c == t.left[n]
  <1>1. NodeShape(t, N, f, n) /\ t \in Trees /\ n \in TreeNode
    BY DEF Shape
  <1>2. c \in TreeNode /\ c \in f[c] /\ Sub(f, c) = f[c] /\ f[c] \subseteq TreeNode
    BY <1>1 DEF Trees, Place, Sub, Shape
  <1>3. c \in Int /\ n \in Int /\ TreeNode \subseteq Int
    BY <1>1, <1>2, TreeAssumption
  <1>4. f[c] \subseteq f[n] /\ f[n] \subseteq N /\ (\A k \in f[c] : k < n) /\ t.parent[c] = n
    BY <1>1, <1>2 DEF NodeShape
  <1>5. n \notin f[c]
    BY <1>3, <1>4
  <1>6. c # t.right[n]
    <2>1. SUFFICES ASSUME c = t.right[n] PROVE FALSE
      OBVIOUS
    <2>2. n < c
      BY <1>1, <1>2, <2>1 DEF NodeShape
    <2>3. c < n
      BY <1>2, <1>4
    <2>4. QED
      BY <1>3, <2>2, <2>3
  <1>7. c # t.root
    <2>1. n # Nil
      BY <1>1, TreeAssumption
    <2>2. QED
      BY <1>4, <2>1, Links
  <1>8. QED
    BY <1>2, <1>3, <1>4, <1>5, <1>6, <1>7

\* The right child of a node.
LEMMA RightChild ==
  ASSUME NEW t, NEW N, NEW f, Shape(t, N, f), NEW n \in N, t.right[n] # Nil
  PROVE  LET c == t.right[n]
         IN  /\ c \in N /\ c \in TreeNode /\ c \in Int /\ n < c /\ c # t.left[n]
             /\ t.parent[c] = n /\ c # t.root
             /\ f[c] \subseteq f[n] /\ n \notin f[c] /\ c \in f[c] /\ c \in f[n]
             /\ \A k \in f[c] : n < k /\ k \in Int
  <1> DEFINE c == t.right[n]
  <1>1. NodeShape(t, N, f, n) /\ t \in Trees /\ n \in TreeNode
    BY DEF Shape
  <1>2. c \in TreeNode /\ c \in f[c] /\ Sub(f, c) = f[c] /\ f[c] \subseteq TreeNode
    BY <1>1 DEF Trees, Place, Sub, Shape
  <1>3. c \in Int /\ n \in Int /\ TreeNode \subseteq Int
    BY <1>1, <1>2, TreeAssumption
  <1>4. f[c] \subseteq f[n] /\ f[n] \subseteq N /\ (\A k \in f[c] : n < k) /\ t.parent[c] = n
    BY <1>1, <1>2 DEF NodeShape
  <1>5. n \notin f[c]
    BY <1>3, <1>4
  <1>6. c # t.left[n]
    <2>1. SUFFICES ASSUME c = t.left[n] PROVE FALSE
      OBVIOUS
    <2>2. c < n
      BY <1>1, <1>2, <2>1 DEF NodeShape
    <2>3. n < c
      BY <1>2, <1>4
    <2>4. QED
      BY <1>3, <2>2, <2>3
  <1>7. c # t.root
    <2>1. n # Nil
      BY <1>1, TreeAssumption
    <2>2. QED
      BY <1>4, <2>1, Links
  <1>8. QED
    BY <1>2, <1>3, <1>4, <1>5, <1>6, <1>7

\* What holds at a node when it holds at its children holds at all nodes.
LEMMA FromBelow ==
  ASSUME NEW t, NEW N, NEW f, Shape(t, N, f), NEW T,
         \A n \in N : (t.left[n] # Nil => t.left[n] \in T) /\ (t.right[n] # Nil => t.right[n] \in T)
                      => n \in T
  PROVE  N \subseteq T
  <1> DEFINE B == {f[n] : n \in N \ T}
  <1>1. SUFFICES ASSUME N \ T # {} PROVE FALSE
    OBVIOUS
  <1>2. B # {} /\ B \subseteq SUBSET TreeNode
    BY <1>1 DEF Shape
  <1>3. PICK s \in B : \A u \in SUBSET s : u # s => u \notin B
    <2> HIDE DEF B
    <2>1. QED
      BY <1>2, TreeAssumption, MinimalSubset
  <1>4. PICK n \in N \ T : s = f[n]
    OBVIOUS
  <1>5. ASSUME NEW c \in N, f[c] \subseteq f[n], n \notin f[c] PROVE c \in T
    <2>1. f[c] # f[n]
      BY <1>5, Links
    <2>2. f[c] \notin B
      BY <1>3, <1>4, <1>5, <2>1
    <2>3. QED
      BY <2>2
  <1>6. t.left[n] # Nil => t.left[n] \in T
    BY <1>5, LeftChild
  <1>7. t.right[n] # Nil => t.right[n] \in T
    BY <1>5, RightChild
  <1>8. QED
    BY <1>6, <1>7

\* What holds at the root, and at a node when it holds at its parent, holds at
\* all nodes.
LEMMA FromAbove ==
  ASSUME NEW t, NEW N, NEW f, Shape(t, N, f), NEW T,
         t.root # Nil => t.root \in T,
         \A n \in N : n # t.root /\ t.parent[n] \in T => n \in T
  PROVE  N \subseteq T
  <1> DEFINE B == {N \ f[n] : n \in N \ T}
  <1>1. SUFFICES ASSUME N \ T # {} PROVE FALSE
    OBVIOUS
  <1>2. B # {} /\ B \subseteq SUBSET TreeNode
    <2>1. N \subseteq TreeNode
      BY DEF Shape
    <2>2. QED
      BY <1>1, <2>1
  <1>3. PICK s \in B : \A u \in SUBSET s : u # s => u \notin B
    <2> HIDE DEF B
    <2>1. QED
      BY <1>2, TreeAssumption, MinimalSubset
  <1>4. PICK n \in N \ T : s = N \ f[n]
    OBVIOUS
  <1>5. n # t.root /\ t.parent[n] \in N /\ (n = t.left[t.parent[n]] \/ n = t.right[t.parent[n]])
    BY Links
  <1> DEFINE p == t.parent[n]
  <1>6. f[n] \subseteq f[p] /\ p \notin f[n] /\ p \in f[p] /\ p \in N
    <2>1. n # Nil
      BY Links
    <2>2. QED
      BY <1>5, <2>1, LeftChild, RightChild, Links
  <1>7. N \ f[p] \subseteq s /\ N \ f[p] # s
    BY <1>4, <1>6
  <1>8. p \in T
    <2>1. N \ f[p] \notin B
      BY <1>3, <1>7
    <2>2. QED
      BY <1>6, <2>1
  <1>9. QED
    BY <1>5, <1>8
-----------------------------------------------------------------------------
(***************************************************************************)
(* What is below what, and ranks for the walks.                            *)
(***************************************************************************)

\* What is below a node below n is below n.
LEMMA BelowBelow ==
  ASSUME NEW t, NEW N, NEW f, Shape(t, N, f), NEW n \in N, NEW m \in f[n]
  PROVE  f[m] \subseteq f[n] /\ m \in N
  <1> DEFINE T == {v \in N : \A k \in f[v] : f[k] \subseteq f[v]}
  <1>1. ASSUME NEW v \in N, t.left[v] # Nil => t.left[v] \in T, t.right[v] # Nil => t.right[v] \in T,
               NEW k \in f[v]
        PROVE  f[k] \subseteq f[v]
    <2>1. f[v] = {v} \cup Sub(f, t.left[v]) \cup Sub(f, t.right[v])
      BY Links
    <2>2. CASE k = v
      BY <2>2
    <2>3. CASE k \in Sub(f, t.left[v])
      <3>1. t.left[v] # Nil /\ k \in f[t.left[v]]
        BY <2>3 DEF Sub
      <3>2. QED
        BY <1>1, <3>1, LeftChild
    <2>4. CASE k \in Sub(f, t.right[v])
      <3>1. t.right[v] # Nil /\ k \in f[t.right[v]]
        BY <2>4 DEF Sub
      <3>2. QED
        BY <1>1, <3>1, RightChild
    <2>5. QED
      BY <1>1, <2>1, <2>2, <2>3, <2>4
  <1>2. \A v \in N : (t.left[v] # Nil => t.left[v] \in T) /\ (t.right[v] # Nil => t.right[v] \in T)
                      => v \in T
    BY <1>1
  <1>3. N \subseteq T
    <2> HIDE DEF T
    <2>1. QED
      BY <1>2, FromBelow
  <1>4. f[n] \subseteq N
    BY Links
  <1>5. QED
    BY <1>3, <1>4

\* The parent of a node below n, other than n, is below n.
LEMMA ParentBelow ==
  ASSUME NEW t, NEW N, NEW f, Shape(t, N, f), NEW n \in N, NEW m \in f[n], m # n
  PROVE  t.parent[m] \in f[n] /\ m # t.root /\ t.parent[m] \in N /\ t.parent[m] # Nil
  <1> DEFINE T == {v \in N : \A k \in f[v] : k # v => t.parent[k] \in f[v]}
  <1>1. ASSUME NEW v \in N, t.left[v] # Nil => t.left[v] \in T, t.right[v] # Nil => t.right[v] \in T,
               NEW k \in f[v], k # v
        PROVE  t.parent[k] \in f[v]
    <2>1. f[v] = {v} \cup Sub(f, t.left[v]) \cup Sub(f, t.right[v]) /\ v \in f[v]
      BY Links
    <2>2. CASE k \in Sub(f, t.left[v])
      <3>1. t.left[v] # Nil /\ k \in f[t.left[v]]
        BY <2>2 DEF Sub
      <3>2. f[t.left[v]] \subseteq f[v] /\ t.parent[t.left[v]] = v /\ t.left[v] \in T
        BY <1>1, <3>1, LeftChild
      <3>3. QED
        BY <2>1, <3>1, <3>2
    <2>3. CASE k \in Sub(f, t.right[v])
      <3>1. t.right[v] # Nil /\ k \in f[t.right[v]]
        BY <2>3 DEF Sub
      <3>2. f[t.right[v]] \subseteq f[v] /\ t.parent[t.right[v]] = v /\ t.right[v] \in T
        BY <1>1, <3>1, RightChild
      <3>3. QED
        BY <2>1, <3>1, <3>2
    <2>4. QED
      BY <1>1, <2>1, <2>2, <2>3
  <1>2. \A v \in N : (t.left[v] # Nil => t.left[v] \in T) /\ (t.right[v] # Nil => t.right[v] \in T)
                      => v \in T
    BY <1>1
  <1>3. N \subseteq T
    <2> HIDE DEF T
    <2>1. QED
      BY <1>2, FromBelow
  <1>4. t.parent[m] \in f[n]
    BY <1>3
  <1>5. t.parent[m] \in N /\ t.parent[m] # Nil /\ m \in N
    BY <1>4, Links
  <1>6. QED
    BY <1>4, <1>5, Links

\* A key outside of a subtree is smaller than all of it or greater.
LEMMA Convex ==
  ASSUME NEW t, NEW N, NEW f, Shape(t, N, f), NEW n \in N, NEW k \in N \ f[n]
  PROVE  (\A m \in f[n] : k < m) \/ (\A m \in f[n] : m < k)
  <1> DEFINE Out(v, j) == (\A m \in f[v] : j < m) \/ (\A m \in f[v] : m < j)
             T == {v \in N : \A j \in N \ f[v] : Out(v, j)}
  <1>1. ASSUME t.root # Nil PROVE t.root \in T
    <2>1. N = f[t.root]
      BY <1>1 DEF Shape, Sub
    <2>2. t.root \in N
      BY <1>1, <2>1 DEF Shape, Trees, Place
    <2>3. QED
      BY <2>1, <2>2
  <1>2. ASSUME NEW v \in N, v # t.root, t.parent[v] \in T, NEW j \in N \ f[v] PROVE Out(v, j)
    <2> DEFINE p == t.parent[v]
    <2>1. p \in N /\ (v = t.left[p] \/ v = t.right[p]) /\ v # Nil
      BY <1>2, Links
    <2>2. f[v] \subseteq f[p]
      BY <2>1, LeftChild, RightChild
    <2>3. CASE j \notin f[p]
      <3>1. Out(p, j)
        BY <1>2, <2>3
      <3>2. QED
        BY <2>2, <3>1
    <2>4. CASE j \in f[p]
      <3>1. f[p] = {p} \cup Sub(f, t.left[p]) \cup Sub(f, t.right[p]) /\ p \in Int
        BY <2>1, Links
      <3>2. CASE v = t.left[p]
        <4>1. \A m \in f[v] : m < p /\ m \in Int
          BY <2>1, <3>2, LeftChild
        <4>2. j \in {p} \cup Sub(f, t.right[p])
          BY <1>2, <2>1, <2>4, <3>1, <3>2 DEF Sub
        <4>3. j = p \/ (p < j /\ j \in Int)
          BY <2>1, <4>2, RightChild DEF Sub
        <4>4. \A m \in f[v] : m < j
          BY <3>1, <4>1, <4>3
        <4>5. QED
          BY <4>4
      <3>3. CASE v = t.right[p]
        <4>1. \A m \in f[v] : p < m /\ m \in Int
          BY <2>1, <3>3, RightChild
        <4>2. j \in {p} \cup Sub(f, t.left[p])
          BY <1>2, <2>1, <2>4, <3>1, <3>3 DEF Sub
        <4>3. j = p \/ (j < p /\ j \in Int)
          BY <2>1, <4>2, LeftChild DEF Sub
        <4>4. \A m \in f[v] : j < m
          BY <3>1, <4>1, <4>3
        <4>5. QED
          BY <4>4
      <3>4. QED
        BY <2>1, <3>2, <3>3
    <2>5. QED
      BY <2>3, <2>4
  <1>3. \A v \in N : v # t.root /\ t.parent[v] \in T => v \in T
    BY <1>2
  <1>4. N \subseteq T
    <2> HIDE DEF T
    <2>1. QED
      BY <1>1, <1>3, FromAbove
  <1>5. QED
    BY <1>4

\* A subset is smaller.
LEMMA SmallerIn ==
  ASSUME NEW A, NEW B, A \subseteq B, B \subseteq TreeNode
  PROVE  /\ Cardinality(A) \in Nat /\ Cardinality(B) \in Nat /\ Cardinality(B) <= Steps
         /\ Cardinality(A) <= Cardinality(B)
         /\ A # B => Cardinality(A) < Cardinality(B)
         /\ B # {} => Cardinality(B) >= 1
  <1>1. IsFiniteSet(TreeNode)
    BY TreeAssumption
  <1>2. IsFiniteSet(B) /\ Cardinality(B) <= Steps
    BY <1>1, FS_Subset DEF Steps
  <1>3. IsFiniteSet(A) /\ Cardinality(A) <= Cardinality(B) /\ (Cardinality(A) = Cardinality(B) => A = B)
    BY <1>2, FS_Subset
  <1>4. Cardinality(A) \in Nat /\ Cardinality(B) \in Nat
    BY <1>2, <1>3, FS_CardinalityType
  <1>5. B # {} => Cardinality(B) # 0
    BY <1>2, FS_EmptySet
  <1>6. QED
    BY <1>2, <1>3, <1>4, <1>5

\* The size of the subtree is a rank for walks down.
LEMMA RankDown ==
  ASSUME NEW t, NEW N, NEW f, Shape(t, N, f)
  PROVE  /\ \A n \in N : Cardinality(f[n]) \in 1 .. Steps
         /\ \A n \in N : t.left[n] # Nil => Cardinality(f[t.left[n]]) < Cardinality(f[n])
         /\ \A n \in N : t.right[n] # Nil => Cardinality(f[t.right[n]]) < Cardinality(f[n])
  <1>1. \A n \in N : f[n] \subseteq TreeNode /\ n \in f[n]
    BY Links
  <1>2. \A n \in N : Cardinality(f[n]) \in 1 .. Steps
    <2>1. ASSUME NEW n \in N PROVE Cardinality(f[n]) \in 1 .. Steps
      <3>1. f[n] \subseteq f[n] /\ f[n] \subseteq TreeNode /\ f[n] # {}
        BY <1>1
      <3>2. QED
        BY <3>1, SmallerIn, StepsType
    <2>2. QED
      BY <2>1
  <1>3. ASSUME NEW n \in N, NEW c \in N, f[c] \subseteq f[n], n \notin f[c]
        PROVE  Cardinality(f[c]) < Cardinality(f[n])
    <2>1. f[c] # f[n] /\ f[n] \subseteq TreeNode
      BY <1>1, <1>3
    <2>2. QED
      BY <1>3, <2>1, SmallerIn
  <1>4. QED
    BY <1>2, <1>3, LeftChild, RightChild

\* The number of nodes outside of the subtree is a rank for walks up.
LEMMA RankUp ==
  ASSUME NEW t, NEW N, NEW f, Shape(t, N, f)
  PROVE  /\ \A n \in N : Cardinality(N \ f[n]) \in Nat /\ Cardinality(N \ f[n]) + 1 \in 1 .. Steps
         /\ \A n \in N : n # t.root => Cardinality(N \ f[t.parent[n]]) < Cardinality(N \ f[n])
  <1>1. N \subseteq TreeNode
    BY DEF Shape
  <1>2. ASSUME NEW n \in N
        PROVE  Cardinality(N \ f[n]) \in Nat /\ Cardinality(N \ f[n]) + 1 \in 1 .. Steps
    <2> DEFINE A == N \ f[n]
    <2>1. A \subseteq N /\ A # N
      BY Links
    <2> HIDE DEF A
    <2>2. /\ Cardinality(A) \in Nat /\ Cardinality(N) \in Nat /\ Cardinality(N) <= Steps
          /\ Cardinality(A) < Cardinality(N)
      BY <1>1, <2>1, SmallerIn
    <2>3. Cardinality(A) + 1 \in 1 .. Steps
      BY <2>2, StepsType
    <2>4. QED
      BY <2>2, <2>3 DEF A
  <1>3. ASSUME NEW n \in N, n # t.root
        PROVE  Cardinality(N \ f[t.parent[n]]) < Cardinality(N \ f[n])
    <2> DEFINE p == t.parent[n]
    <2>1. p \in N /\ (n = t.left[p] \/ n = t.right[p]) /\ n # Nil /\ p \in f[p]
      BY <1>3, Links
    <2>2. f[n] \subseteq f[p] /\ p \notin f[n]
      BY <2>1, LeftChild, RightChild
    <2>3. N \ f[p] \subseteq N \ f[n] /\ N \ f[p] # N \ f[n] /\ N \ f[n] \subseteq TreeNode
      BY <1>1, <2>1, <2>2
    <2>4. QED
      BY <2>3, SmallerIn
  <1>4. QED
    BY <1>2, <1>3
-----------------------------------------------------------------------------
(***************************************************************************)
(* Subtree and TreeNodes.                                                  *)
(***************************************************************************)

\* Subtree computes what is below a place.
LEMMA SubtreeIs ==
  ASSUME NEW t, NEW N, NEW f, Shape(t, N, f), NEW n, n \in N \cup {Nil}
  PROVE  Subtree(t, n) = Sub(f, n)
  <1> DEFINE Around(m) == {m, t.left[m], t.right[m]} \ {Nil}
             h == [B \in SUBSET TreeNode |-> UNION {Around(m) : m \in B}]
             below == CHOOSE g : g = [i \in 0 .. Steps |->
                        IF i = 0 THEN {n} \ {Nil} ELSE UNION {Around(m) : m \in g[i - 1]}]
  <1>1. Steps \in Nat /\ N \subseteq TreeNode /\ t \in Trees
    BY StepsType DEF Shape
  <1>2. \A m \in TreeNode : Around(m) \subseteq TreeNode
    BY <1>1 DEF Trees, Place
  <1>3. h \in [SUBSET TreeNode -> SUBSET TreeNode]
    <2> HIDE DEF Around
    <2>1. \A B \in SUBSET TreeNode : UNION {Around(m) : m \in B} \in SUBSET TreeNode
      BY <1>2
    <2>2. QED
      BY <2>1
  <1>4. {n} \ {Nil} \in SUBSET TreeNode
    BY <1>1
  <1>5. PICK g : g \in [0 .. Steps -> SUBSET TreeNode] /\ Iterates(g, {n} \ {Nil}, h, Steps)
    <2> HIDE DEF h
    <2>1. QED
      BY <1>1, <1>3, <1>4, IteratesExist
  <1>6. g = [i \in 0 .. Steps |->
               IF i = 0 THEN {n} \ {Nil} ELSE UNION {Around(m) : m \in g[i - 1]}]
    <2> HIDE DEF Around
    <2>1. \A i \in 1 .. Steps : h[g[i - 1]] = UNION {Around(m) : m \in g[i - 1]}
      <3>1. \A i \in 1 .. Steps : g[i - 1] \in SUBSET TreeNode
        BY <1>1, <1>5
      <3>2. QED
        BY <3>1
    <2> HIDE DEF h
    <2>2. g = [i \in 0 .. Steps |-> IF i = 0 THEN {n} \ {Nil} ELSE h[g[i - 1]]]
      BY <1>5 DEF Iterates
    <2>3. \A i \in 0 .. Steps :
            g[i] = IF i = 0 THEN {n} \ {Nil} ELSE UNION {Around(m) : m \in g[i - 1]}
      <3>1. \A i \in 0 .. Steps : g[i] = IF i = 0 THEN {n} \ {Nil} ELSE h[g[i - 1]]
        BY <2>2
      <3>2. ASSUME NEW i \in 0 .. Steps, i # 0 PROVE g[i] = UNION {Around(m) : m \in g[i - 1]}
        <4>1. i \in 1 .. Steps
          BY <1>1, <3>2
        <4>2. QED
          BY <2>1, <3>1, <3>2, <4>1
      <3>3. QED
        BY <3>1, <3>2
    <2>4. g = [i \in 0 .. Steps |-> g[i]]
      BY <1>5
    <2>5. QED
      BY <2>3, <2>4
  <1>7. below = [i \in 0 .. Steps |->
               IF i = 0 THEN {n} \ {Nil} ELSE UNION {Around(m) : m \in below[i - 1]}]
    <2> HIDE DEF Around
    <2>1. QED
      BY <1>6
  <1>8. Subtree(t, n) = below[Steps]
    BY DEF Subtree
  <1> HIDE DEF below, h
  <1>9. below[0] = {n} \ {Nil}
    BY <1>1, <1>7
  <1>10. \A i \in 1 .. Steps : below[i] = UNION {Around(m) : m \in below[i - 1]}
    <2> HIDE DEF Around
    <2>1. QED
      BY <1>1, <1>7
  <1>11. CASE n = Nil
    <2> DEFINE E == {i \in 0 .. Steps : below[i] = {}}
    <2>1. 0 \in E
      BY <1>1, <1>9, <1>11
    <2>2. \A i \in 1 .. Steps : i - 1 \in E => i \in E
      BY <1>10
    <2>3. \A i \in 0 .. Steps : i \in E
      <3> HIDE DEF E
      <3>1. QED
        BY <1>1, <2>1, <2>2, Induction
    <2>4. QED
      BY <1>1, <1>8, <1>11, <2>3 DEF Sub
  <1>12. CASE n # Nil
    <2>1. n \in N /\ Sub(f, n) = f[n] /\ n \in f[n]
      BY <1>12, Links DEF Sub
    <2> DEFINE U == {i \in 0 .. Steps : below[i] \subseteq f[n] /\ n \in below[i]}
               R == [v \in f[n] |-> Cardinality(f[n] \ f[v])]
               L == {i \in 0 .. Steps : \A v \in f[n] : R[v] <= i => v \in below[i]}
    <2>2. \A i \in 0 .. Steps : i \in U
      <3>1. 0 \in U
        BY <1>1, <1>9, <1>12, <2>1
      <3>2. ASSUME NEW i \in 1 .. Steps, i - 1 \in U PROVE i \in U
        <4>1. ASSUME NEW m \in below[i - 1] PROVE Around(m) \subseteq f[n]
          <5>1. m \in f[n] /\ m \in N /\ f[m] \subseteq f[n]
            BY <2>1, <3>2, <4>1, BelowBelow
          <5>2. QED
            BY <5>1, LeftChild, RightChild
        <4>2. n \in below[i]
          <5>1. n \in below[i - 1] /\ n \in Around(n)
            BY <1>12, <3>2
          <5>2. QED
            BY <1>10, <5>1
        <4>3. QED
          BY <1>10, <4>1, <4>2
      <3>3. QED
        <4> HIDE DEF U
        <4>1. QED
          BY <1>1, <3>1, <3>2, Induction
    <2>3. ASSUME NEW v \in f[n], v # n
          PROVE  /\ t.parent[v] \in f[n] /\ v \in Around(t.parent[v])
                 /\ R[t.parent[v]] < R[v] /\ R[v] \in Nat /\ R[t.parent[v]] \in Nat
      <3> DEFINE p == t.parent[v]
      <3>1. p \in f[n] /\ v # t.root /\ p \in N /\ v \in N
        BY <2>1, <2>3, ParentBelow, BelowBelow
      <3>2. (v = t.left[p] \/ v = t.right[p]) /\ v # Nil /\ p \in f[p] /\ f[n] \subseteq TreeNode
        BY <2>1, <3>1, Links
      <3>3. f[v] \subseteq f[p] /\ p \notin f[v]
        BY <3>1, <3>2, LeftChild, RightChild
      <3>4. f[n] \ f[p] \subseteq f[n] \ f[v] /\ f[n] \ f[p] # f[n] \ f[v] /\ f[n] \ f[v] \subseteq TreeNode
        BY <3>1, <3>2, <3>3
      <3>5. /\ Cardinality(f[n] \ f[p]) < Cardinality(f[n] \ f[v])
            /\ Cardinality(f[n] \ f[v]) \in Nat /\ Cardinality(f[n] \ f[p]) \in Nat
        BY <3>4, SmallerIn
      <3>6. QED
        BY <3>1, <3>2, <3>5
    <2>4. \A v \in f[n] : R[v] <= Steps
      <3>1. f[n] \subseteq TreeNode
        BY <2>1, Links
      <3>2. ASSUME NEW v \in f[n] PROVE R[v] <= Steps
        <4>1. f[n] \ f[v] \subseteq f[n] \ f[v] /\ f[n] \ f[v] \subseteq TreeNode
          BY <3>1
        <4>2. Cardinality(f[n] \ f[v]) <= Steps
          BY <4>1, SmallerIn
        <4>3. QED
          BY <4>2
      <3>3. QED
        BY <3>2
    <2> HIDE DEF R
    <2>5. \A i \in 0 .. Steps : i \in L
      <3>1. 0 \in L
        <4>1. ASSUME NEW v \in f[n], R[v] <= 0 PROVE v \in below[0]
          <5>1. v = n
            BY <2>3, <4>1
          <5>2. QED
            BY <1>9, <1>12, <5>1
        <4>2. QED
          BY <1>1, <4>1
      <3>2. ASSUME NEW i \in 1 .. Steps, i - 1 \in L PROVE i \in L
        <4>1. ASSUME NEW v \in f[n], R[v] <= i PROVE v \in below[i]
          <5>1. CASE v = n
            BY <2>2, <5>1
          <5>2. CASE v # n
            <6>1. t.parent[v] \in f[n] /\ v \in Around(t.parent[v])
              BY <2>3, <5>2
            <6>2. R[t.parent[v]] <= i - 1
              BY <2>3, <4>1, <5>2
            <6>3. t.parent[v] \in below[i - 1]
              BY <3>2, <6>1, <6>2
            <6>4. QED
              BY <1>10, <6>1, <6>3
          <5>3. QED
            BY <5>1, <5>2
        <4>2. QED
          BY <4>1
      <3>3. QED
        <4> HIDE DEF L
        <4>1. QED
          BY <1>1, <3>1, <3>2, Induction
    <2>6. f[n] \subseteq below[Steps]
      BY <1>1, <2>4, <2>5
    <2>7. below[Steps] \subseteq f[n]
      BY <1>1, <2>2
    <2>8. QED
      BY <1>8, <2>1, <2>6, <2>7
  <1>13. QED
    BY <1>11, <1>12

\* The nodes of a tree, as the properties name them, are the nodes of its shape.
LEMMA TreeNodesIs ==
  ASSUME NEW t, NEW N, NEW f, Shape(t, N, f)
  PROVE  TreeNodes(t) = N
  <1>1. N = Sub(f, t.root)
    BY DEF Shape
  <1>2. t.root \in N \cup {Nil}
    BY <1>1 DEF Shape, Sub, Trees, Place
  <1>3. QED
    BY <1>1, <1>2, SubtreeIs DEF TreeNodes
-----------------------------------------------------------------------------
(***************************************************************************)
(* The walks to the first, last, next and previous node.                   *)
(***************************************************************************)

\* m_rbt_first_node finds the smallest node of a subtree.
LEMMA LeftmostIs ==
  ASSUME NEW t, NEW N, NEW f, Shape(t, N, f), NEW n \in N
  PROVE  LET r == Leftmost(t, n)
         IN  r \in f[n] /\ t.left[r] = Nil /\ \A k \in f[n] : k # r => r < k
  <1> DEFINE Least(c) == \A k \in f[n] : k \in f[c] \/ c < k
             S == {c \in f[n] : Least(c)}
             m == [v \in S |-> Cardinality(f[v])]
  <1>1. /\ n \in f[n] /\ f[n] \subseteq N /\ n # Nil /\ f[n] \subseteq TreeNode
        /\ \A k \in f[n] : k \in Int
    <2>1. n \in f[n] /\ f[n] \subseteq N /\ n # Nil /\ f[n] \subseteq TreeNode
      BY Links
    <2>2. QED
      BY <2>1, TreeAssumption
  <1>2. t.left \in [TreeNode -> Place]
    BY DEF Shape, Trees
  <1>3. n \in S /\ S \in SUBSET TreeNode /\ S \subseteq N
    BY <1>1
  <1>4. ASSUME NEW c \in S, t.left[c] # Nil PROVE t.left[c] \in S
    <2> DEFINE l == t.left[c]
    <2>1. c \in N /\ f[c] \subseteq f[n] /\ Least(c)
      BY <1>3, <1>4, BelowBelow
    <2>2. l \in f[c] /\ l \in f[n] /\ l \in Int /\ c \in Int /\ l < c /\ Sub(f, l) = f[l]
      BY <1>1, <1>4, <2>1, LeftChild DEF Sub
    <2>3. ASSUME NEW k \in f[n], k \notin f[l] PROVE l < k
      <3>1. CASE k \in f[c]
        <4>1. k = c \/ k \in Sub(f, t.right[c])
          BY <2>1, <2>2, <2>3, <3>1, Links
        <4>2. k = c \/ (c < k /\ k \in Int)
          BY <2>1, <4>1, RightChild DEF Sub
        <4>3. QED
          BY <2>2, <4>2
      <3>2. CASE c < k
        BY <1>1, <2>2, <3>2
      <3>3. QED
        BY <2>1, <3>1, <3>2
    <2>4. QED
      BY <2>2, <2>3
  <1>5. m \in [S -> 1 .. Steps]
    BY <1>3, RankDown
  <1>6. \A c \in S : t.left[c] # Nil => t.left[c] \in S /\ m[t.left[c]] < m[c]
    <2> HIDE DEF Least
    <2>1. QED
      BY <1>3, <1>4, RankDown
  <1> DEFINE r == EndOf(t.left, n)
  <1>7. r \in S /\ t.left[r] = Nil
    <2> HIDE DEF S, m
    <2>1. QED
      BY <1>2, <1>3, <1>5, <1>6, EndOfIs
  <1>8. ASSUME NEW k \in f[n], k # r PROVE r < k
    <2>1. r \in N /\ Least(r)
      BY <1>3, <1>7
    <2>2. k \in f[r] => k \in Sub(f, t.right[r])
      BY <1>7, <1>8, <2>1, Links DEF Sub
    <2>3. k \in f[r] => r < k
      BY <2>1, <2>2, RightChild DEF Sub
    <2>4. QED
      BY <2>1, <2>3
  <1>9. Leftmost(t, n) = r
    BY <1>1 DEF Leftmost
  <1>10. QED
    BY <1>7, <1>8, <1>9

\* m_rbt_next_node finds the next greater node.
LEMMA NextIs ==
  ASSUME NEW t, NEW N, NEW f, Shape(t, N, f), NEW n \in N
  PROVE  LET r == m_rbt_next_node(t, n)
         IN  \/ r = Nil /\ \A k \in N : ~ (n < k)
             \/ r \in N /\ n < r /\ \A k \in N : n < k /\ k # r => r < k
  <1>1. n \in f[n] /\ f[n] \subseteq N /\ n # Nil /\ N \subseteq TreeNode /\ \A k \in N : k \in Int
    <2>1. n \in f[n] /\ f[n] \subseteq N /\ n # Nil
      BY Links
    <2>2. N \subseteq TreeNode
      BY DEF Shape
    <2>3. QED
      BY <2>1, <2>2, TreeAssumption
  <1>2. CASE t.right[n] # Nil
    <2> DEFINE c == t.right[n]
               r == Leftmost(t, c)
    <2>1. c \in N /\ f[c] \subseteq f[n] /\ \A k \in f[c] : n < k
      BY <1>2, RightChild
    <2>2. r \in f[c] /\ \A k \in f[c] : k # r => r < k
      BY <2>1, LeftmostIs
    <2>3. r \in N /\ n < r /\ r \in f[n]
      BY <1>1, <2>1, <2>2
    <2>4. ASSUME NEW k \in N, n < k, k # r PROVE r < k
      <3>1. CASE k \in f[n]
        <4>1. k # n
          BY <1>1, <2>4
        <4>2. ~ (k \in Sub(f, t.left[n]))
          <5>1. ASSUME k \in Sub(f, t.left[n]) PROVE FALSE
            <6>1. k < n
              BY <5>1, LeftChild DEF Sub
            <6>2. QED
              BY <1>1, <2>4, <6>1
          <5>2. QED
            BY <5>1
        <4>3. k \in f[c]
          BY <1>2, <3>1, <4>1, <4>2, Links DEF Sub
        <4>4. QED
          BY <2>2, <2>4, <4>3
      <3>2. CASE k \notin f[n]
        <4>1. (\A j \in f[n] : k < j) \/ (\A j \in f[n] : j < k)
          BY <3>2, Convex
        <4>2. ~ (k < n)
          BY <1>1, <2>4
        <4>3. QED
          BY <1>1, <2>3, <4>1, <4>2
      <3>3. QED
        BY <3>1, <3>2
    <2>5. m_rbt_next_node(t, n) = r
      BY <1>1, <1>2 DEF m_rbt_next_node
    <2> HIDE DEF r
    <2>6. QED
      BY <2>3, <2>4, <2>5
  <1>3. CASE t.right[n] = Nil
    <2> DEFINE link == Climb(t, t.left)
               S == {c \in N : n \in f[c] /\ \A k \in f[c] : k # n => k < n}
               m == [v \in S |-> Cardinality(N \ f[v]) + 1]
               e == EndOf(link, n)
    <2>1. n \in S /\ S \in SUBSET TreeNode
      <3>1. \A k \in f[n] : k # n => k < n
        BY <1>3, Links, LeftChild DEF Sub
      <3>2. QED
        BY <1>1, <3>1
    <2>2. link \in [TreeNode -> Place]
      <3>1. t.parent \in [TreeNode -> Place]
        BY DEF Shape, Trees
      <3>2. QED
        BY <3>1 DEF Climb, Place
    <2>3. \A c \in N : link[c] = IF t.parent[c] = Nil \/ t.left[t.parent[c]] = c
                                 THEN Nil ELSE t.parent[c]
      BY <1>1 DEF Climb
    <2>4. ASSUME NEW c \in S, link[c] # Nil
          PROVE  link[c] \in S /\ m[link[c]] < m[c]
      <3> DEFINE p == t.parent[c]
      <3>1. link[c] = p /\ p # Nil /\ t.left[p] # c /\ c \in N
        BY <2>3, <2>4
      <3>2. c # t.root /\ p \in N /\ c = t.right[p] /\ c # Nil /\ p \in Int
        BY <3>1, Links
      <3>3. f[c] \subseteq f[p] /\ \A k \in f[c] : p < k
        BY <3>2, RightChild
      <3>4. ASSUME NEW k \in f[p], k # n PROVE k < n
        <4>1. k \in f[c] \/ k = p \/ k \in Sub(f, t.left[p])
          BY <3>2, Links DEF Sub
        <4>2. k \in f[c] => k < n
          BY <3>4
        <4>3. p < n /\ n \in Int
          BY <1>1, <3>3
        <4>4. k \in Sub(f, t.left[p]) => k < p /\ k \in Int
          BY <3>2, LeftChild DEF Sub
        <4>5. QED
          BY <3>2, <4>1, <4>2, <4>3, <4>4
      <3>5. p \in S
        BY <3>2, <3>3, <3>4
      <3>6. /\ Cardinality(N \ f[p]) < Cardinality(N \ f[c])
            /\ Cardinality(N \ f[p]) \in Nat /\ Cardinality(N \ f[c]) \in Nat
        BY <3>1, <3>2, RankUp
      <3>7. m[p] < m[c]
        <4>1. m[p] = Cardinality(N \ f[p]) + 1 /\ m[c] = Cardinality(N \ f[c]) + 1
          BY <2>4, <3>5
        <4> HIDE DEF m
        <4>2. QED
          BY <3>6, <4>1
      <3> HIDE DEF m, S, link
      <3>8. QED
        BY <3>1, <3>5, <3>7
    <2>5. m \in [S -> 1 .. Steps]
      BY RankUp
    <2>6. e \in S /\ link[e] = Nil
      <3> HIDE DEF S, m, link
      <3>1. QED
        BY <2>1, <2>2, <2>4, <2>5, EndOfIs
    <2>7. m_rbt_next_node(t, n) = t.parent[e]
      BY <1>1, <1>3 DEF m_rbt_next_node, UpFromLeft
    <2> HIDE DEF e, link
    <2>8. e \in N /\ n \in f[e] /\ (t.parent[e] = Nil \/ t.left[t.parent[e]] = e)
      BY <2>3, <2>6
    <2>9. CASE t.parent[e] = Nil
      <3>1. e = t.root /\ N = f[e]
        BY <2>8, <2>9, Links DEF Shape, Sub
      <3>2. ASSUME NEW k \in N, n < k PROVE FALSE
        <4>1. k # n => k < n
          BY <2>6, <3>1
        <4>2. n \in Int /\ k \in Int
          BY <1>1
        <4>3. QED
          BY <3>2, <4>1, <4>2
      <3>3. QED
        BY <2>7, <2>9, <3>2
    <2>10. CASE t.parent[e] # Nil
      <3> DEFINE p == t.parent[e]
      <3>1. p \in N /\ t.left[p] = e /\ e # Nil /\ p \in Int /\ p \in f[p]
        BY <2>8, <2>10, Links
      <3>2. n < p
        BY <2>8, <3>1, LeftChild
      <3>3. ASSUME NEW k \in N, n < k, k # p PROVE p < k
        <4>1. k \notin f[e]
          <5>1. n \in Int /\ k \in Int
            BY <1>1
          <5>2. QED
            BY <2>6, <3>3, <5>1
        <4>2. CASE k \in f[p]
          <5>1. k \in Sub(f, t.right[p])
            BY <3>1, <3>3, <4>1, <4>2, Links DEF Sub
          <5>2. QED
            BY <3>1, <5>1, RightChild DEF Sub
        <4>3. CASE k \notin f[p]
          <5>1. (\A j \in f[p] : k < j) \/ (\A j \in f[p] : j < k)
            BY <3>1, <4>3, Convex
          <5>2. n \in f[p]
            BY <2>8, <3>1, LeftChild
          <5>3. ~ (k < n)
            BY <1>1, <3>3
          <5>4. QED
            BY <3>1, <5>1, <5>2, <5>3
        <4>4. QED
          BY <4>2, <4>3
      <3>4. QED
        BY <2>7, <3>1, <3>2, <3>3
    <2>11. QED
      BY <2>9, <2>10
  <1>4. QED
    BY <1>2, <1>3

\* m_rbt_last_node finds the greatest node of a subtree.
LEMMA RightmostIs ==
  ASSUME NEW t, NEW N, NEW f, Shape(t, N, f), NEW n \in N
  PROVE  LET r == Rightmost(t, n)
         IN  r \in f[n] /\ t.right[r] = Nil /\ \A k \in f[n] : k # r => k < r
  <1> DEFINE Greatest(c) == \A k \in f[n] : k \in f[c] \/ k < c
             S == {c \in f[n] : Greatest(c)}
             m == [v \in S |-> Cardinality(f[v])]
  <1>1. /\ n \in f[n] /\ f[n] \subseteq N /\ n # Nil /\ f[n] \subseteq TreeNode
        /\ \A k \in f[n] : k \in Int
    <2>1. n \in f[n] /\ f[n] \subseteq N /\ n # Nil /\ f[n] \subseteq TreeNode
      BY Links
    <2>2. QED
      BY <2>1, TreeAssumption
  <1>2. t.right \in [TreeNode -> Place]
    BY DEF Shape, Trees
  <1>3. n \in S /\ S \in SUBSET TreeNode /\ S \subseteq N
    BY <1>1
  <1>4. ASSUME NEW c \in S, t.right[c] # Nil PROVE t.right[c] \in S
    <2> DEFINE l == t.right[c]
    <2>1. c \in N /\ f[c] \subseteq f[n] /\ Greatest(c)
      BY <1>3, <1>4, BelowBelow
    <2>2. l \in f[c] /\ l \in f[n] /\ l \in Int /\ c \in Int /\ c < l /\ Sub(f, l) = f[l]
      BY <1>1, <1>4, <2>1, RightChild DEF Sub
    <2>3. ASSUME NEW k \in f[n], k \notin f[l] PROVE k < l
      <3>1. CASE k \in f[c]
        <4>1. k = c \/ k \in Sub(f, t.left[c])
          BY <2>1, <2>2, <2>3, <3>1, Links
        <4>2. k = c \/ (k < c /\ k \in Int)
          BY <2>1, <4>1, LeftChild DEF Sub
        <4>3. QED
          BY <2>2, <4>2
      <3>2. CASE k < c
        BY <1>1, <2>2, <3>2
      <3>3. QED
        BY <2>1, <3>1, <3>2
    <2>4. QED
      BY <2>2, <2>3
  <1>5. m \in [S -> 1 .. Steps]
    BY <1>3, RankDown
  <1>6. \A c \in S : t.right[c] # Nil => t.right[c] \in S /\ m[t.right[c]] < m[c]
    <2> HIDE DEF Greatest
    <2>1. QED
      BY <1>3, <1>4, RankDown
  <1> DEFINE r == EndOf(t.right, n)
  <1>7. r \in S /\ t.right[r] = Nil
    <2> HIDE DEF S, m
    <2>1. QED
      BY <1>2, <1>3, <1>5, <1>6, EndOfIs
  <1>8. ASSUME NEW k \in f[n], k # r PROVE k < r
    <2>1. r \in N /\ Greatest(r)
      BY <1>3, <1>7
    <2>2. k \in f[r] => k \in Sub(f, t.left[r])
      BY <1>7, <1>8, <2>1, Links DEF Sub
    <2>3. k \in f[r] => k < r
      BY <2>1, <2>2, LeftChild DEF Sub
    <2>4. QED
      BY <2>1, <2>3
  <1>9. Rightmost(t, n) = r
    BY <1>1 DEF Rightmost
  <1>10. QED
    BY <1>7, <1>8, <1>9

\* m_rbt_prev_node finds the next smaller node.
LEMMA PrevIs ==
  ASSUME NEW t, NEW N, NEW f, Shape(t, N, f), NEW n \in N
  PROVE  LET r == m_rbt_prev_node(t, n)
         IN  \/ r = Nil /\ \A k \in N : ~ (k < n)
             \/ r \in N /\ r < n /\ \A k \in N : k < n /\ k # r => k < r
  <1>1. n \in f[n] /\ f[n] \subseteq N /\ n # Nil /\ N \subseteq TreeNode /\ \A k \in N : k \in Int
    <2>1. n \in f[n] /\ f[n] \subseteq N /\ n # Nil
      BY Links
    <2>2. N \subseteq TreeNode
      BY DEF Shape
    <2>3. QED
      BY <2>1, <2>2, TreeAssumption
  <1>2. CASE t.left[n] # Nil
    <2> DEFINE c == t.left[n]
               r == Rightmost(t, c)
    <2>1. c \in N /\ f[c] \subseteq f[n] /\ \A k \in f[c] : k < n
      BY <1>2, LeftChild
    <2>2. r \in f[c] /\ \A k \in f[c] : k # r => k < r
      BY <2>1, RightmostIs
    <2>3. r \in N /\ r < n /\ r \in f[n]
      BY <1>1, <2>1, <2>2
    <2>4. ASSUME NEW k \in N, k < n, k # r PROVE k < r
      <3>1. CASE k \in f[n]
        <4>1. k # n
          BY <1>1, <2>4
        <4>2. ~ (k \in Sub(f, t.right[n]))
          <5>1. ASSUME k \in Sub(f, t.right[n]) PROVE FALSE
            <6>1. n < k
              BY <5>1, RightChild DEF Sub
            <6>2. QED
              BY <1>1, <2>4, <6>1
          <5>2. QED
            BY <5>1
        <4>3. k \in f[c]
          BY <1>2, <3>1, <4>1, <4>2, Links DEF Sub
        <4>4. QED
          BY <2>2, <2>4, <4>3
      <3>2. CASE k \notin f[n]
        <4>1. (\A j \in f[n] : j < k) \/ (\A j \in f[n] : k < j)
          BY <3>2, Convex
        <4>2. ~ (n < k)
          BY <1>1, <2>4
        <4>3. QED
          BY <1>1, <2>3, <4>1, <4>2
      <3>3. QED
        BY <3>1, <3>2
    <2>5. m_rbt_prev_node(t, n) = r
      BY <1>1, <1>2 DEF m_rbt_prev_node
    <2> HIDE DEF r
    <2>6. QED
      BY <2>3, <2>4, <2>5
  <1>3. CASE t.left[n] = Nil
    <2> DEFINE link == Climb(t, t.right)
               S == {c \in N : n \in f[c] /\ \A k \in f[c] : k # n => n < k}
               m == [v \in S |-> Cardinality(N \ f[v]) + 1]
               e == EndOf(link, n)
    <2>1. n \in S /\ S \in SUBSET TreeNode
      <3>1. \A k \in f[n] : k # n => n < k
        BY <1>3, Links, RightChild DEF Sub
      <3>2. QED
        BY <1>1, <3>1
    <2>2. link \in [TreeNode -> Place]
      <3>1. t.parent \in [TreeNode -> Place]
        BY DEF Shape, Trees
      <3>2. QED
        BY <3>1 DEF Climb, Place
    <2>3. \A c \in N : link[c] = IF t.parent[c] = Nil \/ t.right[t.parent[c]] = c
                                 THEN Nil ELSE t.parent[c]
      BY <1>1 DEF Climb
    <2>4. ASSUME NEW c \in S, link[c] # Nil
          PROVE  link[c] \in S /\ m[link[c]] < m[c]
      <3> DEFINE p == t.parent[c]
      <3>1. link[c] = p /\ p # Nil /\ t.right[p] # c /\ c \in N
        BY <2>3, <2>4
      <3>2. c # t.root /\ p \in N /\ c = t.left[p] /\ c # Nil /\ p \in Int
        BY <3>1, Links
      <3>3. f[c] \subseteq f[p] /\ \A k \in f[c] : k < p
        BY <3>2, LeftChild
      <3>4. ASSUME NEW k \in f[p], k # n PROVE n < k
        <4>1. k \in f[c] \/ k = p \/ k \in Sub(f, t.right[p])
          BY <3>2, Links DEF Sub
        <4>2. k \in f[c] => n < k
          BY <3>4
        <4>3. n < p /\ n \in Int
          BY <1>1, <3>3
        <4>4. k \in Sub(f, t.right[p]) => p < k /\ k \in Int
          BY <3>2, RightChild DEF Sub
        <4>5. QED
          BY <3>2, <4>1, <4>2, <4>3, <4>4
      <3>5. p \in S
        BY <3>2, <3>3, <3>4
      <3>6. /\ Cardinality(N \ f[p]) < Cardinality(N \ f[c])
            /\ Cardinality(N \ f[p]) \in Nat /\ Cardinality(N \ f[c]) \in Nat
        BY <3>1, <3>2, RankUp
      <3>7. m[p] < m[c]
        <4>1. m[p] = Cardinality(N \ f[p]) + 1 /\ m[c] = Cardinality(N \ f[c]) + 1
          BY <2>4, <3>5
        <4> HIDE DEF m
        <4>2. QED
          BY <3>6, <4>1
      <3> HIDE DEF m, S, link
      <3>8. QED
        BY <3>1, <3>5, <3>7
    <2>5. m \in [S -> 1 .. Steps]
      BY RankUp
    <2>6. e \in S /\ link[e] = Nil
      <3> HIDE DEF S, m, link
      <3>1. QED
        BY <2>1, <2>2, <2>4, <2>5, EndOfIs
    <2>7. m_rbt_prev_node(t, n) = t.parent[e]
      BY <1>1, <1>3 DEF m_rbt_prev_node, UpFromRight
    <2> HIDE DEF e, link
    <2>8. e \in N /\ n \in f[e] /\ (t.parent[e] = Nil \/ t.right[t.parent[e]] = e)
      BY <2>3, <2>6
    <2>9. CASE t.parent[e] = Nil
      <3>1. e = t.root /\ N = f[e]
        BY <2>8, <2>9, Links DEF Shape, Sub
      <3>2. ASSUME NEW k \in N, k < n PROVE FALSE
        <4>1. k # n => n < k
          BY <2>6, <3>1
        <4>2. n \in Int /\ k \in Int
          BY <1>1
        <4>3. QED
          BY <3>2, <4>1, <4>2
      <3>3. QED
        BY <2>7, <2>9, <3>2
    <2>10. CASE t.parent[e] # Nil
      <3> DEFINE p == t.parent[e]
      <3>1. p \in N /\ t.right[p] = e /\ e # Nil /\ p \in Int /\ p \in f[p]
        BY <2>8, <2>10, Links
      <3>2. p < n
        BY <2>8, <3>1, RightChild
      <3>3. ASSUME NEW k \in N, k < n, k # p PROVE k < p
        <4>1. k \notin f[e]
          <5>1. n \in Int /\ k \in Int
            BY <1>1
          <5>2. QED
            BY <2>6, <3>3, <5>1
        <4>2. CASE k \in f[p]
          <5>1. k \in Sub(f, t.left[p])
            BY <3>1, <3>3, <4>1, <4>2, Links DEF Sub
          <5>2. QED
            BY <3>1, <5>1, LeftChild DEF Sub
        <4>3. CASE k \notin f[p]
          <5>1. (\A j \in f[p] : j < k) \/ (\A j \in f[p] : k < j)
            BY <3>1, <4>3, Convex
          <5>2. n \in f[p]
            BY <2>8, <3>1, RightChild
          <5>3. ~ (n < k)
            BY <1>1, <3>3
          <5>4. QED
            BY <3>1, <5>1, <5>2, <5>3
        <4>4. QED
          BY <4>2, <4>3
      <3>4. QED
        BY <2>7, <3>1, <3>2, <3>3
    <2>11. QED
      BY <2>9, <2>10
  <1>4. QED
    BY <1>2, <1>3
-----------------------------------------------------------------------------
(***************************************************************************)
(* The lookup.                                                             *)
(***************************************************************************)

\* The place for the key k is below p: every node above p sends k there.
Leads(t, N, f, k, p) ==
  \A v \in N : p \in f[v] /\ v # p =>
    \/ k < v /\ p \in Sub(f, t.left[v])
    \/ v < k /\ p \in Sub(f, t.right[v])

\* A lookup finds the node with the key or the place where it is missing.
LEMMA LookupIs ==
  ASSUME NEW t, NEW N, NEW f, Shape(t, N, f), NEW k \in TreeNode
  PROVE  LET place == m_rbt_lookup_insert(t, k)
             p == place.parent
         IN  /\ place.node = Nil <=> k \notin N
             /\ p = Nil <=> t.root = Nil
             /\ (k \notin N /\ p # Nil) =>
                  /\ p \in N /\ k # p /\ Leads(t, N, f, k, p)
                  /\ k < p => t.left[p] = Nil
                  /\ ~ (k < p) => t.right[p] = Nil
  <1> DEFINE place == m_rbt_lookup_insert(t, k)
             link == Towards(t, k)
             S == {c \in N : (k \in N => k \in f[c]) /\ Leads(t, N, f, k, c)}
             m == [v \in S |-> Cardinality(f[v])]
             e == EndOf(link, t.root)
  <1>1. N \subseteq TreeNode /\ k # Nil /\ k \in Int /\ N = Sub(f, t.root)
    BY TreeAssumption DEF Shape
  <1>2. \A v \in N : v \in Int
    BY <1>1, TreeAssumption
  <1>3. CASE t.root = Nil
    <2>1. place = [node |-> Nil, parent |-> Nil]
      BY <1>1, <1>3 DEF m_rbt_lookup_insert
    <2>2. k \notin N
      BY <1>1, <1>3 DEF Sub
    <2>3. QED
      BY <1>3, <2>1, <2>2
  <1>4. CASE t.root # Nil
    <2>1. t.root \in N /\ N = f[t.root]
      BY <1>1, <1>4 DEF Shape, Sub, Trees, Place
    <2>2. t.root \in S
      <3>1. \A v \in N : t.root \in f[v] => v = t.root
        BY ParentBelow
      <3>2. QED
        BY <2>1, <3>1 DEF Leads
    <2>3. link \in [TreeNode -> Place]
      <3>1. t.left \in [TreeNode -> Place] /\ t.right \in [TreeNode -> Place]
        BY DEF Shape, Trees
      <3>2. QED
        BY <3>1 DEF Towards, Place
    <2>4. \A c \in N : link[c] = IF k = c THEN Nil ELSE IF k < c THEN t.left[c] ELSE t.right[c]
      BY <1>1 DEF Towards
    <2>5. ASSUME NEW c \in S, link[c] # Nil
          PROVE  link[c] \in S /\ m[link[c]] < m[c]
      <3> DEFINE l == link[c]
      <3>1. c \in N /\ (k \in N => k \in f[c]) /\ Leads(t, N, f, k, c) /\ k # c /\ c \in Int
        BY <1>2, <2>4, <2>5
      <3>2. \/ k < c /\ l = t.left[c] /\ t.left[c] # Nil
            \/ c < k /\ l = t.right[c] /\ t.right[c] # Nil
        BY <1>1, <2>4, <2>5, <3>1
      <3> HIDE DEF l
      <3>3. l \in N /\ f[l] \subseteq f[c] /\ l \in f[l] /\ t.parent[l] = c
        BY <3>1, <3>2, LeftChild, RightChild
      <3>4. k \in N => k \in f[l]
        <4>1. SUFFICES ASSUME k \in N PROVE k \in f[l]
          OBVIOUS
        <4>2. k \in Sub(f, t.left[c]) \/ k \in Sub(f, t.right[c])
          BY <3>1, <4>1, Links
        <4>3. (k \in Sub(f, t.left[c]) => k < c) /\ (k \in Sub(f, t.right[c]) => c < k)
          BY <3>1, LeftChild, RightChild DEF Sub
        <4>4. ~ (k < c /\ c < k)
          BY <1>1, <3>1
        <4>5. QED
          BY <3>2, <4>2, <4>3, <4>4 DEF Sub
      <3>5. ASSUME NEW v \in N, l \in f[v], v # l
            PROVE  \/ k < v /\ l \in Sub(f, t.left[v])
                   \/ v < k /\ l \in Sub(f, t.right[v])
        <4>1. c \in f[v]
          BY <3>3, <3>5, ParentBelow
        <4>2. CASE v = c
          BY <3>2, <3>3, <4>2 DEF Sub
        <4>3. CASE v # c
          <5>1. \/ k < v /\ c \in Sub(f, t.left[v])
                \/ v < k /\ c \in Sub(f, t.right[v])
            BY <3>1, <4>1, <4>3 DEF Leads
          <5>2. c \in Sub(f, t.left[v]) => l \in Sub(f, t.left[v])
            <6>1. ASSUME t.left[v] # Nil, c \in f[t.left[v]] PROVE l \in f[t.left[v]]
              <7>1. t.left[v] \in N
                BY <6>1, LeftChild
              <7>2. f[c] \subseteq f[t.left[v]]
                BY <6>1, <7>1, BelowBelow
              <7>3. QED
                BY <3>3, <7>2
            <6>2. QED
              BY <6>1 DEF Sub
          <5>3. c \in Sub(f, t.right[v]) => l \in Sub(f, t.right[v])
            <6>1. ASSUME t.right[v] # Nil, c \in f[t.right[v]] PROVE l \in f[t.right[v]]
              <7>1. t.right[v] \in N
                BY <6>1, RightChild
              <7>2. f[c] \subseteq f[t.right[v]]
                BY <6>1, <7>1, BelowBelow
              <7>3. QED
                BY <3>3, <7>2
            <6>2. QED
              BY <6>1 DEF Sub
          <5>4. QED
            BY <5>1, <5>2, <5>3
        <4>4. QED
          BY <4>2, <4>3
      <3>6. l \in S
        BY <3>3, <3>4, <3>5 DEF Leads
      <3>7. Cardinality(f[l]) < Cardinality(f[c])
        BY <3>1, <3>2, RankDown
      <3>8. QED
        BY <2>5, <3>6, <3>7 DEF l
    <2>6. m \in [S -> 1 .. Steps] /\ S \in SUBSET TreeNode
      BY <1>1, RankDown
    <2>7. e \in S /\ link[e] = Nil
      <3> HIDE DEF S, m, link
      <3>1. QED
        BY <2>2, <2>3, <2>5, <2>6, EndOfIs
    <2>8. place = [node |-> IF e = k THEN k ELSE Nil, parent |-> e]
      BY <1>4 DEF m_rbt_lookup_insert
    <2> HIDE DEF e, link, place
    <2>9. /\ e \in N /\ (k \in N => k \in f[e]) /\ Leads(t, N, f, k, e) /\ e # Nil /\ e \in Int
          /\ k = e \/ (k < e /\ t.left[e] = Nil) \/ (e < k /\ t.right[e] = Nil)
      <3>1. e \in N /\ (k \in N => k \in f[e]) /\ Leads(t, N, f, k, e) /\ e # Nil /\ e \in Int
        BY <1>2, <2>7, Links
      <3>2. QED
        BY <1>1, <2>4, <2>7, <3>1
    <2>10. k \in N => k = e
      <3>1. SUFFICES ASSUME k \in N, k # e PROVE FALSE
        OBVIOUS
      <3>2. k \in Sub(f, t.left[e]) \/ k \in Sub(f, t.right[e])
        BY <2>9, <3>1, Links
      <3>3. (k \in Sub(f, t.left[e]) => k < e) /\ (k \in Sub(f, t.right[e]) => e < k)
        BY <2>9, LeftChild, RightChild DEF Sub
      <3>4. ~ (k < e /\ e < k)
        BY <1>1, <2>9
      <3>5. QED
        BY <2>9, <3>1, <3>2, <3>3, <3>4 DEF Sub
    <2>11. place.node = Nil <=> k \notin N
      BY <1>1, <2>8, <2>9, <2>10
    <2>12. place.parent = e /\ ~ (k < e /\ e < k)
      BY <1>1, <2>8, <2>9
    <2>13. QED
      BY <1>4, <2>9, <2>11, <2>12 DEF place
  <1>5. QED
    BY <1>3, <1>4
-----------------------------------------------------------------------------
(***************************************************************************)
(* What the assignments of a rotation amount to, and what it does to the   *)
(* shape: the subtrees of two nodes change.                                *)
(***************************************************************************)

\* m_rbt_set_parent changes one parent pointer, if the node is not NULL.
LEMMA SetParentFields ==
  ASSUME NEW t \in Trees, NEW c \in Place, NEW p \in Place
  PROVE  LET u == SetParent(t, c, p)
         IN  /\ u \in Trees /\ u.root = t.root /\ u.left = t.left /\ u.right = t.right
             /\ u.red = t.red
             /\ \A v \in TreeNode : u.parent[v] = IF v = c THEN p ELSE t.parent[v]
  BY TreeAssumption DEF SetParent, Trees, Place

\* The parent's pointer to o, or the root, becomes a pointer to n.
LEMMA SetChildFields ==
  ASSUME NEW t \in Trees, NEW p \in Place, NEW x \in TreeNode, NEW y \in Place
  PROVE  LET u == SetChild(t, p, x, y)
         IN  /\ u \in Trees /\ u.parent = t.parent /\ u.red = t.red
             /\ u.root = IF p = Nil THEN y ELSE t.root
             /\ \A v \in TreeNode :
                  /\ u.left[v] = IF v = p /\ t.left[p] = x THEN y ELSE t.left[v]
                  /\ u.right[v] = IF v = p /\ t.left[p] # x THEN y ELSE t.right[v]
  <1>1. CASE p = Nil
    BY <1>1, TreeAssumption DEF SetChild, Trees, Place
  <1>2. CASE p # Nil /\ t.left[p] = x
    BY <1>2, TreeAssumption DEF SetChild, Trees, Place
  <1>3. CASE p # Nil /\ t.left[p] # x
    BY <1>3, TreeAssumption DEF SetChild, Trees, Place
  <1>4. QED
    BY <1>1, <1>2, <1>3

\* What m_rbt_rotate_left assigns.
LEMMA RotateLeftFields ==
  ASSUME NEW t \in Trees, NEW x \in TreeNode, t.right[x] \in TreeNode,
         x # t.right[x], t.parent[x] # x, t.parent[x] # t.right[x]
  PROVE  LET u == m_rbt_rotate_left(t, x)
             y == t.right[x]
             b == t.left[y]
             p == t.parent[x]
         IN  /\ u \in Trees /\ u.red = t.red
             /\ u.root = IF p = Nil THEN y ELSE t.root
             /\ \A v \in TreeNode :
                  /\ u.left[v] = IF v = y THEN x ELSE IF v = p /\ t.left[p] = x THEN y ELSE t.left[v]
                  /\ u.right[v] = IF v = x THEN b ELSE IF v = p /\ t.left[p] # x THEN y ELSE t.right[v]
                  /\ u.parent[v] = IF v = y THEN p ELSE IF v = x THEN y ELSE IF v = b THEN x ELSE t.parent[v]
  <1> DEFINE y == t.right[x]
             b == t.left[y]
             p == t.parent[x]
             t0 == [t EXCEPT !.right[x] = b, !.left[y] = x]
             t1 == SetChild(t0, p, x, y)
             t2 == SetParent(t1, b, x)
             t3 == SetParent(t2, x, y)
             t4 == SetParent(t3, y, p)
  <1>1. y \in TreeNode /\ b \in Place /\ p \in Place /\ y \in Place /\ x \in Place
    BY DEF Trees, Place
  <1>2. /\ t0 \in Trees /\ t0.root = t.root /\ t0.parent = t.parent /\ t0.red = t.red
        /\ \A v \in TreeNode :
             /\ t0.left[v] = IF v = y THEN x ELSE t.left[v]
             /\ t0.right[v] = IF v = x THEN b ELSE t.right[v]
    BY <1>1 DEF Trees, Place
  <1>3. m_rbt_rotate_left(t, x) = t4
    BY DEF m_rbt_rotate_left
  <1>30. y # p /\ x # p /\ x # y
    OBVIOUS
  <1> HIDE DEF t0, y, b, p
  <1>4. /\ t1 \in Trees /\ t1.parent = t0.parent /\ t1.red = t0.red
        /\ t1.root = IF p = Nil THEN y ELSE t0.root
        /\ \A v \in TreeNode :
             /\ t1.left[v] = IF v = p /\ t0.left[p] = x THEN y ELSE t0.left[v]
             /\ t1.right[v] = IF v = p /\ t0.left[p] # x THEN y ELSE t0.right[v]
    BY <1>1, <1>2, SetChildFields
  <1> HIDE DEF t1
  <1>31. t1 \in Trees
    BY <1>4
  <1>5. /\ t2 \in Trees /\ t2.root = t1.root /\ t2.left = t1.left /\ t2.right = t1.right
        /\ t2.red = t1.red /\ \A v \in TreeNode : t2.parent[v] = IF v = b THEN x ELSE t1.parent[v]
    BY <1>1, <1>31, SetParentFields
  <1> HIDE DEF t2
  <1>6. /\ t3 \in Trees /\ t3.root = t2.root /\ t3.left = t2.left /\ t3.right = t2.right
        /\ t3.red = t2.red /\ \A v \in TreeNode : t3.parent[v] = IF v = x THEN y ELSE t2.parent[v]
    BY <1>1, <1>5, SetParentFields
  <1> HIDE DEF t3
  <1>7. /\ t4 \in Trees /\ t4.root = t3.root /\ t4.left = t3.left /\ t4.right = t3.right
        /\ t4.red = t3.red /\ \A v \in TreeNode : t4.parent[v] = IF v = y THEN p ELSE t3.parent[v]
    BY <1>1, <1>6, SetParentFields
  <1> HIDE DEF t4
  <1>8. p \in TreeNode => t0.left[p] = t.left[p]
    BY <1>2, <1>30
  <1>9. ASSUME NEW v \in TreeNode
        PROVE  /\ t4.left[v] = IF v = y THEN x ELSE IF v = p /\ t.left[p] = x THEN y ELSE t.left[v]
               /\ t4.right[v] = IF v = x THEN b ELSE IF v = p /\ t.left[p] # x THEN y ELSE t.right[v]
               /\ t4.parent[v] = IF v = y THEN p ELSE IF v = x THEN y ELSE IF v = b THEN x ELSE t.parent[v]
    <2>1. t4.left[v] = IF v = y THEN x ELSE IF v = p /\ t.left[p] = x THEN y ELSE t.left[v]
      BY <1>2, <1>30, <1>4, <1>5, <1>6, <1>7, <1>8
    <2>2. t4.right[v] = IF v = x THEN b ELSE IF v = p /\ t.left[p] # x THEN y ELSE t.right[v]
      BY <1>2, <1>30, <1>4, <1>5, <1>6, <1>7, <1>8
    <2>3. t4.parent[v] = IF v = y THEN p ELSE IF v = x THEN y ELSE IF v = b THEN x ELSE t.parent[v]
      BY <1>2, <1>4, <1>5, <1>6, <1>7
    <2>4. QED
      BY <2>1, <2>2, <2>3
  <1>10. t4.red = t.red /\ t4.root = IF p = Nil THEN y ELSE t.root
    BY <1>2, <1>4, <1>5, <1>6, <1>7
  <1>11. QED
    BY <1>3, <1>7, <1>9, <1>10 DEF y, b, p

\* The subtrees after a rotation: y has taken the place of x, with x and the
\* places a and b below.
Rotated(f, x, y, a, b) == [f EXCEPT ![y] = f[x], ![x] = {x} \cup Sub(f, a) \cup Sub(f, b)]

\* m_rbt_rotate_left keeps the order of the nodes.
LEMMA RotateLeftShape ==
  ASSUME NEW t, NEW N, NEW f, Shape(t, N, f), NEW x \in N, t.right[x] # Nil
  PROVE  LET u == m_rbt_rotate_left(t, x)
             y == t.right[x]
             b == t.left[y]
             p == t.parent[x]
         IN  /\ Shape(u, N, Rotated(f, x, y, t.left[x], b))
             /\ u.red = t.red
             /\ u.root = IF p = Nil THEN y ELSE t.root
             /\ \A v \in TreeNode :
                  /\ u.left[v] = IF v = y THEN x ELSE IF v = p /\ t.left[p] = x THEN y ELSE t.left[v]
                  /\ u.right[v] = IF v = x THEN b ELSE IF v = p /\ t.right[p] = x THEN y ELSE t.right[v]
                  /\ u.parent[v] = IF v = y THEN p ELSE IF v = x THEN y ELSE IF v = b THEN x ELSE t.parent[v]
  <1> DEFINE u == m_rbt_rotate_left(t, x)
             y == t.right[x]
             a == t.left[x]
             b == t.left[y]
             c == t.right[y]
             p == t.parent[x]
             g == Rotated(f, x, y, a, b)
  <1>1. /\ t \in Trees /\ N \subseteq TreeNode /\ Nil \notin TreeNode
        /\ f \in [TreeNode -> SUBSET TreeNode] /\ \A v \in TreeNode : v \in f[v]
        /\ \A n \in N : n \in Int
    BY TreeAssumption DEF Shape
  <1>2. /\ x \in TreeNode /\ y \in N /\ y \in TreeNode /\ x # y /\ x < y /\ x \notin f[y]
        /\ f[y] \subseteq f[x] /\ t.parent[y] = x /\ a # y /\ y # t.root
        /\ \A k \in f[y] : x < k
    BY RightChild, Links
  <1>3. p # x /\ p # y /\ p \notin f[x] /\ (p # Nil => p \in N /\ (x = t.left[p] \/ x = t.right[p]))
    <2>1. CASE p = Nil
      BY <1>1, <1>2, <2>1, Links
    <2>2. CASE p # Nil
      <3>1. p \in N /\ (x = t.left[p] \/ x = t.right[p]) /\ x # Nil
        BY <2>2, Links
      <3>2. p \notin f[x]
        BY <3>1, LeftChild, RightChild
      <3>3. x \in f[x] /\ y \in f[x]
        BY <1>1, <1>2
      <3>4. QED
        BY <3>1, <3>2, <3>3
    <2>3. QED
      BY <2>1, <2>2
  <1>4. /\ a \in Place /\ a # x /\ (a # Nil => a \in N /\ t.parent[a] = x)
        /\ \A k \in Sub(f, a) : k < x
    <2>1. a \in Place
      BY Links
    <2>2. CASE a = Nil
      BY <1>1, <1>2, <2>1, <2>2 DEF Sub
    <2>3. CASE a # Nil
      <3>1. a \in N /\ t.parent[a] = x /\ x \notin f[a] /\ a \in f[a] /\ a \in f[x] /\ \A k \in f[a] : k < x
        BY <2>3, LeftChild
      <3>2. QED
        BY <1>1, <1>3, <2>1, <2>3, <3>1 DEF Sub
    <2>4. QED
      BY <2>2, <2>3
  <1>5. /\ b \in Place /\ b # x /\ b # y
        /\ (b # Nil => b \in N /\ t.parent[b] = y /\ b # p /\ b # t.root /\ b # c)
        /\ \A k \in Sub(f, b) : k < y /\ x < k
    <2>1. b \in Place /\ c \in Place
      BY <1>2, Links
    <2>2. CASE b = Nil
      BY <1>1, <1>2, <2>1, <2>2 DEF Sub
    <2>3. CASE b # Nil
      <3>1. b \in N /\ t.parent[b] = y /\ y \notin f[b] /\ b \in f[b] /\ b \in f[y] /\ b # c
            /\ f[b] \subseteq f[y] /\ b # t.root /\ \A k \in f[b] : k < y
        BY <1>2, <2>3, LeftChild
      <3>2. QED
        BY <1>1, <1>2, <1>3, <2>1, <2>3, <3>1 DEF Sub
    <2>4. QED
      BY <2>2, <2>3
  <1>6. /\ c \in Place /\ c # x /\ c # y /\ (c # Nil => c \in N /\ t.parent[c] = y /\ c # b)
        /\ \A k \in Sub(f, c) : y < k
    <2>1. c \in Place
      BY <1>2, Links
    <2>2. CASE c = Nil
      BY <1>1, <1>2, <2>1, <2>2 DEF Sub
    <2>3. CASE c # Nil
      <3>1. c \in N /\ t.parent[c] = y /\ y \notin f[c] /\ c \in f[c] /\ c \in f[y] /\ c # b
            /\ \A k \in f[c] : y < k
        BY <1>2, <2>3, RightChild
      <3>2. QED
        BY <1>1, <1>2, <2>1, <2>3, <3>1 DEF Sub
    <2>4. QED
      BY <2>2, <2>3
  <1>7. f[x] = {x} \cup Sub(f, a) \cup f[y] /\ f[y] = {y} \cup Sub(f, b) \cup Sub(f, c) /\ f[x] \subseteq N
    <2>1. f[x] = {x} \cup Sub(f, a) \cup Sub(f, y) /\ f[y] = {y} \cup Sub(f, b) \cup Sub(f, c) /\ f[x] \subseteq N
      BY <1>2, Links
    <2>2. Sub(f, y) = f[y]
      BY <1>1, <1>2 DEF Sub
    <2>3. QED
      BY <2>1, <2>2
  <1>8. /\ u \in Trees /\ u.red = t.red
        /\ u.root = IF p = Nil THEN y ELSE t.root
        /\ \A v \in TreeNode :
             /\ u.left[v] = IF v = y THEN x ELSE IF v = p /\ t.left[p] = x THEN y ELSE t.left[v]
             /\ u.right[v] = IF v = x THEN b ELSE IF v = p /\ t.right[p] = x THEN y ELSE t.right[v]
             /\ u.parent[v] = IF v = y THEN p ELSE IF v = x THEN y ELSE IF v = b THEN x ELSE t.parent[v]
    <2>1. p \in N => (t.left[p] # x <=> t.right[p] = x)
      <3>1. p \in N /\ t.left[p] = x => t.left[p] # t.right[p]
        BY <1>1, <1>2, LeftChild
      <3>2. QED
        BY <1>1, <1>3, <3>1
    <2>2. \A v \in TreeNode : v = p => p \in N
      BY <1>1, <1>3
    <2>3. QED
      BY <1>1, <1>2, <1>3, <2>1, <2>2, RotateLeftFields
  <1>9. /\ g \in [TreeNode -> SUBSET TreeNode]
        /\ g[y] = f[x] /\ g[x] = {x} \cup Sub(f, a) \cup Sub(f, b)
        /\ \A v \in TreeNode : v # x /\ v # y => g[v] = f[v]
    <2>1. {x} \cup Sub(f, a) \cup Sub(f, b) \subseteq TreeNode /\ f[x] \subseteq TreeNode
      BY <1>1, <1>2, <1>7
    <2>2. QED
      BY <1>1, <1>2, <2>1 DEF Rotated
  <1>10. \A v \in Place : v # x /\ v # y => Sub(g, v) = Sub(f, v)
    BY <1>9 DEF Sub, Place
  <1>11. Sub(g, x) = g[x] /\ Sub(g, y) = f[x] /\ Sub(f, x) = f[x]
    BY <1>1, <1>2, <1>9 DEF Sub
  <1>12. \A n \in N : t.left[n] \in Place /\ t.right[n] \in Place
    BY Links
  <1>13. /\ \A n \in N : t.left[n] # Nil => t.parent[t.left[n]] = n /\ t.left[n] # t.right[n] /\ t.left[n] \in N
         /\ \A n \in N : t.right[n] # Nil => t.parent[t.right[n]] = n /\ t.right[n] \in N
    BY LeftChild, RightChild
  <1>14. p = Nil <=> x = t.root
    BY Links
  <1>15. \A n \in N : NodeShape(t, N, f, n)
    BY DEF Shape
  <1> HIDE DEF g, u, y, a, b, c, p
  <1>16. NodeShape(u, N, g, x)
    <2>1. u.left[x] = a /\ u.right[x] = b /\ u.parent[x] = y
      BY <1>2, <1>3, <1>8 DEF a
    <2>2. Sub(g, a) = Sub(f, a) /\ Sub(g, b) = Sub(f, b)
      BY <1>2, <1>4, <1>5, <1>10
    <2>3. g[x] = {x} \cup Sub(g, a) \cup Sub(g, b) /\ g[x] \subseteq N
      BY <1>7, <1>9, <2>2
    <2>4. a # Nil => u.parent[a] = x
      <3>1. ASSUME a # Nil PROVE a # b
        <4>1. t.parent[a] = x /\ (b # Nil => t.parent[b] = y)
          BY <1>4, <1>5, <3>1
        <4>2. QED
          BY <1>2, <3>1, <4>1
      <3>2. a # Nil => a \in TreeNode
        BY <1>1, <1>4
      <3>3. QED
        BY <1>2, <1>4, <1>8, <3>1, <3>2
    <2>5. b # Nil => u.parent[b] = x
      BY <1>1, <1>5, <1>8
    <2>6. y \in N /\ x = u.left[y]
      BY <1>2, <1>8
    <2>7. QED
      BY <1>4, <1>5, <2>1, <2>2, <2>3, <2>4, <2>5, <2>6 DEF NodeShape
  <1>17. NodeShape(u, N, g, y)
    <2>1. u.left[y] = x /\ u.right[y] = c /\ u.parent[y] = p
      BY <1>2, <1>3, <1>8 DEF c
    <2>2. Sub(g, c) = Sub(f, c)
      BY <1>6, <1>10
    <2>3. g[y] = {y} \cup Sub(g, x) \cup Sub(g, c) /\ g[y] \subseteq N
      BY <1>7, <1>9, <1>11, <2>2
    <2>4. \A k \in Sub(g, x) : k < y
      <3>1. \A k \in Sub(g, x) : k = x \/ k \in Sub(f, a) \/ k \in Sub(f, b)
        BY <1>9, <1>11
      <3>2. ASSUME NEW k \in Sub(f, a) PROVE k < y
        <4>1. k < x /\ k \in f[x]
          BY <1>4, <1>7
        <4>2. k \in Int /\ x \in Int /\ y \in Int
          BY <1>1, <1>2, <1>7, <4>1
        <4>3. QED
          BY <1>2, <4>1, <4>2
      <3>3. QED
        BY <1>2, <1>5, <3>1, <3>2
    <2>5. u.parent[x] = y
      BY <1>2, <1>8
    <2>6. c # Nil => u.parent[c] = y
      <3>1. c # Nil => c \in TreeNode
        BY <1>1, <1>6
      <3>2. QED
        BY <1>6, <1>8, <3>1
    <2>7. y # u.root => p \in N /\ (y = u.left[p] \/ y = u.right[p])
      <3>1. y # u.root => p # Nil
        BY <1>8
      <3>2. p # Nil => p \in N /\ p \in TreeNode
        BY <1>1, <1>3
      <3>3. QED
        BY <1>3, <1>8, <3>1, <3>2
    <2>8. QED
      BY <1>6, <2>1, <2>2, <2>3, <2>4, <2>5, <2>6, <2>7 DEF NodeShape
  <1>18. ASSUME NEW n \in N, n # x, n # y PROVE NodeShape(u, N, g, n)
    <2>1. n \in TreeNode /\ NodeShape(t, N, f, n) /\ g[n] = f[n]
      BY <1>1, <1>9, <1>15, <1>18
    <2>2. /\ Sub(g, u.left[n]) = Sub(f, t.left[n])
          /\ u.left[n] # Nil => u.parent[u.left[n]] = n
      <3>1. CASE n = p /\ t.left[p] = x
        <4>1. u.left[n] = y
          BY <1>8, <1>18, <2>1, <3>1
        <4>2. QED
          BY <1>2, <1>8, <1>11, <3>1, <4>1
      <3>2. CASE ~ (n = p /\ t.left[p] = x)
        <4>1. u.left[n] = t.left[n]
          BY <1>8, <1>18, <2>1, <3>2
        <4>2. CASE t.left[n] = Nil
          BY <4>1, <4>2 DEF Sub
        <4>3. CASE t.left[n] # Nil
          <5>1. t.parent[t.left[n]] = n /\ t.left[n] \in N /\ t.left[n] \in TreeNode
            BY <1>1, <1>13, <4>3
          <5>2. t.left[n] # y
            BY <1>2, <1>18, <5>1
          <5>3. t.left[n] # x
            BY <3>2, <5>1 DEF p
          <5>4. t.left[n] # b
            BY <1>5, <1>18, <4>3, <5>1
          <5>5. QED
            BY <1>8, <1>10, <1>12, <4>1, <5>1, <5>2, <5>3, <5>4
        <4>4. QED
          BY <4>2, <4>3
      <3>3. QED
        BY <3>1, <3>2
    <2>3. /\ Sub(g, u.right[n]) = Sub(f, t.right[n])
          /\ u.right[n] # Nil => u.parent[u.right[n]] = n
      <3>1. CASE n = p /\ t.right[p] = x
        <4>1. u.right[n] = y
          BY <1>8, <1>18, <2>1, <3>1
        <4>2. QED
          BY <1>2, <1>8, <1>11, <3>1, <4>1
      <3>2. CASE ~ (n = p /\ t.right[p] = x)
        <4>1. u.right[n] = t.right[n]
          BY <1>8, <1>18, <2>1, <3>2
        <4>2. CASE t.right[n] = Nil
          BY <4>1, <4>2 DEF Sub
        <4>3. CASE t.right[n] # Nil
          <5>1. t.parent[t.right[n]] = n /\ t.right[n] \in N /\ t.right[n] \in TreeNode
            BY <1>1, <1>13, <4>3
          <5>2. t.right[n] # y
            BY <1>2, <1>18, <5>1
          <5>3. t.right[n] # x
            BY <3>2, <5>1 DEF p
          <5>4. t.right[n] # b
            BY <1>5, <1>18, <4>3, <5>1
          <5>5. QED
            BY <1>8, <1>10, <1>12, <4>1, <5>1, <5>2, <5>3, <5>4
        <4>4. QED
          BY <4>2, <4>3
      <3>3. QED
        BY <3>1, <3>2
    <2>4. ASSUME n # u.root
          PROVE  u.parent[n] \in N /\ (n = u.left[u.parent[n]] \/ n = u.right[u.parent[n]])
      <3>1. CASE n = b
        <4>1. u.parent[n] = x
          BY <1>8, <1>18, <2>1, <3>1
        <4>2. u.right[x] = b
          BY <1>2, <1>8
        <4>3. QED
          BY <3>1, <4>1, <4>2
      <3>2. CASE n # b
        <4> DEFINE q == t.parent[n]
        <4>1. u.parent[n] = q
          BY <1>8, <1>18, <2>1, <3>2
        <4>2. n # t.root
          BY <1>8, <1>14, <1>18, <2>4
        <4>3. q \in N /\ q \in TreeNode /\ (n = t.left[q] \/ n = t.right[q])
          BY <1>1, <2>1, <4>2 DEF NodeShape
        <4>4. n = t.left[q] => n = u.left[q]
          <5>1. n = t.left[q] => q # y
            BY <3>2 DEF b
          <5>2. QED
            BY <1>8, <1>18, <4>3, <5>1
        <4>5. n = t.right[q] => n = u.right[q]
          <5>1. n = t.right[q] => q # x
            BY <1>18 DEF y
          <5>2. QED
            BY <1>8, <1>18, <4>3, <5>1
        <4>6. QED
          BY <4>1, <4>3, <4>4, <4>5
      <3>3. QED
        BY <3>1, <3>2
    <2>5. QED
      BY <2>1, <2>2, <2>3, <2>4 DEF NodeShape
  <1>19. N = Sub(g, u.root) /\ (u.root # Nil => u.parent[u.root] = Nil)
    <2>1. N = Sub(f, t.root) /\ t.root \in N /\ t.parent[t.root] = Nil
      BY Links DEF Shape
    <2>2. CASE p = Nil
      BY <1>2, <1>8, <1>11, <1>14, <2>1, <2>2
    <2>3. CASE p # Nil
      <3>1. u.root = t.root /\ t.root # x
        BY <1>8, <1>14, <2>3
      <3>2. t.root # y /\ t.root \in TreeNode /\ t.root \in Place
        BY <1>1, <1>2, <2>1 DEF Place
      <3>3. t.root # b
        BY <1>5, <3>2, <1>1
      <3>4. QED
        BY <1>8, <1>10, <2>1, <3>1, <3>2, <3>3
    <2>4. QED
      BY <2>2, <2>3
  <1>20. \A v \in TreeNode : v \in g[v]
    BY <1>1, <1>2, <1>7, <1>9
  <1>21. Shape(u, N, g)
    BY <1>1, <1>8, <1>9, <1>16, <1>17, <1>18, <1>19, <1>20 DEF Shape
  <1>22. QED
    BY <1>8, <1>21 DEF u, y, a, b, p, g

\* What m_rbt_rotate_right assigns.
LEMMA RotateRightFields ==
  ASSUME NEW t \in Trees, NEW x \in TreeNode, t.left[x] \in TreeNode,
         x # t.left[x], t.parent[x] # x, t.parent[x] # t.left[x]
  PROVE  LET u == m_rbt_rotate_right(t, x)
             y == t.left[x]
             b == t.right[y]
             p == t.parent[x]
         IN  /\ u \in Trees /\ u.red = t.red
             /\ u.root = IF p = Nil THEN y ELSE t.root
             /\ \A v \in TreeNode :
                  /\ u.left[v] = IF v = x THEN b ELSE IF v = p /\ t.left[p] = x THEN y ELSE t.left[v]
                  /\ u.right[v] = IF v = y THEN x ELSE IF v = p /\ t.left[p] # x THEN y ELSE t.right[v]
                  /\ u.parent[v] = IF v = y THEN p ELSE IF v = x THEN y ELSE IF v = b THEN x ELSE t.parent[v]
  <1> DEFINE y == t.left[x]
             b == t.right[y]
             p == t.parent[x]
             t0 == [t EXCEPT !.left[x] = b, !.right[y] = x]
             t1 == SetChild(t0, p, x, y)
             t2 == SetParent(t1, b, x)
             t3 == SetParent(t2, x, y)
             t4 == SetParent(t3, y, p)
  <1>1. y \in TreeNode /\ b \in Place /\ p \in Place /\ y \in Place /\ x \in Place
    BY DEF Trees, Place
  <1>2. /\ t0 \in Trees /\ t0.root = t.root /\ t0.parent = t.parent /\ t0.red = t.red
        /\ \A v \in TreeNode :
             /\ t0.left[v] = IF v = x THEN b ELSE t.left[v]
             /\ t0.right[v] = IF v = y THEN x ELSE t.right[v]
    BY <1>1 DEF Trees, Place
  <1>3. m_rbt_rotate_right(t, x) = t4
    BY DEF m_rbt_rotate_right
  <1>30. y # p /\ x # p /\ x # y
    OBVIOUS
  <1> HIDE DEF t0, y, b, p
  <1>4. /\ t1 \in Trees /\ t1.parent = t0.parent /\ t1.red = t0.red
        /\ t1.root = IF p = Nil THEN y ELSE t0.root
        /\ \A v \in TreeNode :
             /\ t1.left[v] = IF v = p /\ t0.left[p] = x THEN y ELSE t0.left[v]
             /\ t1.right[v] = IF v = p /\ t0.left[p] # x THEN y ELSE t0.right[v]
    BY <1>1, <1>2, SetChildFields
  <1> HIDE DEF t1
  <1>31. t1 \in Trees
    BY <1>4
  <1>5. /\ t2 \in Trees /\ t2.root = t1.root /\ t2.left = t1.left /\ t2.right = t1.right
        /\ t2.red = t1.red /\ \A v \in TreeNode : t2.parent[v] = IF v = b THEN x ELSE t1.parent[v]
    BY <1>1, <1>31, SetParentFields
  <1> HIDE DEF t2
  <1>6. /\ t3 \in Trees /\ t3.root = t2.root /\ t3.left = t2.left /\ t3.right = t2.right
        /\ t3.red = t2.red /\ \A v \in TreeNode : t3.parent[v] = IF v = x THEN y ELSE t2.parent[v]
    BY <1>1, <1>5, SetParentFields
  <1> HIDE DEF t3
  <1>7. /\ t4 \in Trees /\ t4.root = t3.root /\ t4.left = t3.left /\ t4.right = t3.right
        /\ t4.red = t3.red /\ \A v \in TreeNode : t4.parent[v] = IF v = y THEN p ELSE t3.parent[v]
    BY <1>1, <1>6, SetParentFields
  <1> HIDE DEF t4
  <1>8. p \in TreeNode => t0.left[p] = t.left[p]
    BY <1>2, <1>30
  <1>9. ASSUME NEW v \in TreeNode
        PROVE  /\ t4.left[v] = IF v = x THEN b ELSE IF v = p /\ t.left[p] = x THEN y ELSE t.left[v]
               /\ t4.right[v] = IF v = y THEN x ELSE IF v = p /\ t.left[p] # x THEN y ELSE t.right[v]
               /\ t4.parent[v] = IF v = y THEN p ELSE IF v = x THEN y ELSE IF v = b THEN x ELSE t.parent[v]
    <2>1. t4.left[v] = IF v = x THEN b ELSE IF v = p /\ t.left[p] = x THEN y ELSE t.left[v]
      BY <1>2, <1>30, <1>4, <1>5, <1>6, <1>7, <1>8
    <2>2. t4.right[v] = IF v = y THEN x ELSE IF v = p /\ t.left[p] # x THEN y ELSE t.right[v]
      BY <1>2, <1>30, <1>4, <1>5, <1>6, <1>7, <1>8
    <2>3. t4.parent[v] = IF v = y THEN p ELSE IF v = x THEN y ELSE IF v = b THEN x ELSE t.parent[v]
      BY <1>2, <1>4, <1>5, <1>6, <1>7
    <2>4. QED
      BY <2>1, <2>2, <2>3
  <1>10. t4.red = t.red /\ t4.root = IF p = Nil THEN y ELSE t.root
    BY <1>2, <1>4, <1>5, <1>6, <1>7
  <1>11. QED
    BY <1>3, <1>7, <1>9, <1>10 DEF y, b, p
\* m_rbt_rotate_right keeps the order of the nodes.
LEMMA RotateRightShape ==
  ASSUME NEW t, NEW N, NEW f, Shape(t, N, f), NEW x \in N, t.left[x] # Nil
  PROVE  LET u == m_rbt_rotate_right(t, x)
             y == t.left[x]
             b == t.right[y]
             p == t.parent[x]
         IN  /\ Shape(u, N, Rotated(f, x, y, t.right[x], b))
             /\ u.red = t.red
             /\ u.root = IF p = Nil THEN y ELSE t.root
             /\ \A v \in TreeNode :
                  /\ u.right[v] = IF v = y THEN x ELSE IF v = p /\ t.right[p] = x THEN y ELSE t.right[v]
                  /\ u.left[v] = IF v = x THEN b ELSE IF v = p /\ t.left[p] = x THEN y ELSE t.left[v]
                  /\ u.parent[v] = IF v = y THEN p ELSE IF v = x THEN y ELSE IF v = b THEN x ELSE t.parent[v]
  <1> DEFINE u == m_rbt_rotate_right(t, x)
             y == t.left[x]
             a == t.right[x]
             b == t.right[y]
             c == t.left[y]
             p == t.parent[x]
             g == Rotated(f, x, y, a, b)
  <1>1. /\ t \in Trees /\ N \subseteq TreeNode /\ Nil \notin TreeNode
        /\ f \in [TreeNode -> SUBSET TreeNode] /\ \A v \in TreeNode : v \in f[v]
        /\ \A n \in N : n \in Int
    BY TreeAssumption DEF Shape
  <1>2. /\ x \in TreeNode /\ y \in N /\ y \in TreeNode /\ x # y /\ y < x /\ x \notin f[y]
        /\ f[y] \subseteq f[x] /\ t.parent[y] = x /\ a # y /\ y # t.root
        /\ \A k \in f[y] : k < x
    BY LeftChild, Links
  <1>3. p # x /\ p # y /\ p \notin f[x] /\ (p # Nil => p \in N /\ (x = t.right[p] \/ x = t.left[p]))
    <2>1. CASE p = Nil
      BY <1>1, <1>2, <2>1, Links
    <2>2. CASE p # Nil
      <3>1. p \in N /\ (x = t.right[p] \/ x = t.left[p]) /\ x # Nil
        BY <2>2, Links
      <3>2. p \notin f[x]
        BY <3>1, RightChild, LeftChild
      <3>3. x \in f[x] /\ y \in f[x]
        BY <1>1, <1>2
      <3>4. QED
        BY <3>1, <3>2, <3>3
    <2>3. QED
      BY <2>1, <2>2
  <1>4. /\ a \in Place /\ a # x /\ (a # Nil => a \in N /\ t.parent[a] = x)
        /\ \A k \in Sub(f, a) : x < k
    <2>1. a \in Place
      BY Links
    <2>2. CASE a = Nil
      BY <1>1, <1>2, <2>1, <2>2 DEF Sub
    <2>3. CASE a # Nil
      <3>1. a \in N /\ t.parent[a] = x /\ x \notin f[a] /\ a \in f[a] /\ a \in f[x] /\ \A k \in f[a] : x < k
        BY <2>3, RightChild
      <3>2. QED
        BY <1>1, <1>3, <2>1, <2>3, <3>1 DEF Sub
    <2>4. QED
      BY <2>2, <2>3
  <1>5. /\ b \in Place /\ b # x /\ b # y
        /\ (b # Nil => b \in N /\ t.parent[b] = y /\ b # p /\ b # t.root /\ b # c)
        /\ \A k \in Sub(f, b) : y < k /\ k < x
    <2>1. b \in Place /\ c \in Place
      BY <1>2, Links
    <2>2. CASE b = Nil
      BY <1>1, <1>2, <2>1, <2>2 DEF Sub
    <2>3. CASE b # Nil
      <3>1. b \in N /\ t.parent[b] = y /\ y \notin f[b] /\ b \in f[b] /\ b \in f[y] /\ b # c
            /\ f[b] \subseteq f[y] /\ b # t.root /\ \A k \in f[b] : y < k
        BY <1>2, <2>3, RightChild
      <3>2. QED
        BY <1>1, <1>2, <1>3, <2>1, <2>3, <3>1 DEF Sub
    <2>4. QED
      BY <2>2, <2>3
  <1>6. /\ c \in Place /\ c # x /\ c # y /\ (c # Nil => c \in N /\ t.parent[c] = y /\ c # b)
        /\ \A k \in Sub(f, c) : k < y
    <2>1. c \in Place
      BY <1>2, Links
    <2>2. CASE c = Nil
      BY <1>1, <1>2, <2>1, <2>2 DEF Sub
    <2>3. CASE c # Nil
      <3>1. c \in N /\ t.parent[c] = y /\ y \notin f[c] /\ c \in f[c] /\ c \in f[y] /\ c # b
            /\ \A k \in f[c] : k < y
        BY <1>2, <2>3, LeftChild
      <3>2. QED
        BY <1>1, <1>2, <2>1, <2>3, <3>1 DEF Sub
    <2>4. QED
      BY <2>2, <2>3
  <1>7. f[x] = {x} \cup Sub(f, a) \cup f[y] /\ f[y] = {y} \cup Sub(f, b) \cup Sub(f, c) /\ f[x] \subseteq N
    <2>1. f[x] = {x} \cup Sub(f, a) \cup Sub(f, y) /\ f[y] = {y} \cup Sub(f, b) \cup Sub(f, c) /\ f[x] \subseteq N
      BY <1>2, Links
    <2>2. Sub(f, y) = f[y]
      BY <1>1, <1>2 DEF Sub
    <2>3. QED
      BY <2>1, <2>2
  <1>8. /\ u \in Trees /\ u.red = t.red
        /\ u.root = IF p = Nil THEN y ELSE t.root
        /\ \A v \in TreeNode :
             /\ u.right[v] = IF v = y THEN x ELSE IF v = p /\ t.right[p] = x THEN y ELSE t.right[v]
             /\ u.left[v] = IF v = x THEN b ELSE IF v = p /\ t.left[p] = x THEN y ELSE t.left[v]
             /\ u.parent[v] = IF v = y THEN p ELSE IF v = x THEN y ELSE IF v = b THEN x ELSE t.parent[v]
    <2>1. p \in N => (t.right[p] # x <=> t.left[p] = x)
      <3>1. p \in N /\ t.right[p] = x => t.right[p] # t.left[p]
        BY <1>1, <1>2, RightChild
      <3>2. QED
        BY <1>1, <1>3, <3>1
    <2>2. \A v \in TreeNode : v = p => p \in N
      BY <1>1, <1>3
    <2>3. QED
      BY <1>1, <1>2, <1>3, <2>1, <2>2, RotateRightFields
  <1>9. /\ g \in [TreeNode -> SUBSET TreeNode]
        /\ g[y] = f[x] /\ g[x] = {x} \cup Sub(f, a) \cup Sub(f, b)
        /\ \A v \in TreeNode : v # x /\ v # y => g[v] = f[v]
    <2>1. {x} \cup Sub(f, a) \cup Sub(f, b) \subseteq TreeNode /\ f[x] \subseteq TreeNode
      BY <1>1, <1>2, <1>7
    <2>2. QED
      BY <1>1, <1>2, <2>1 DEF Rotated
  <1>10. \A v \in Place : v # x /\ v # y => Sub(g, v) = Sub(f, v)
    BY <1>9 DEF Sub, Place
  <1>11. Sub(g, x) = g[x] /\ Sub(g, y) = f[x] /\ Sub(f, x) = f[x]
    BY <1>1, <1>2, <1>9 DEF Sub
  <1>12. \A n \in N : t.right[n] \in Place /\ t.left[n] \in Place
    BY Links
  <1>13. /\ \A n \in N : t.right[n] # Nil => t.parent[t.right[n]] = n /\ t.right[n] # t.left[n] /\ t.right[n] \in N
         /\ \A n \in N : t.left[n] # Nil => t.parent[t.left[n]] = n /\ t.left[n] \in N
    BY RightChild, LeftChild
  <1>14. p = Nil <=> x = t.root
    BY Links
  <1>15. \A n \in N : NodeShape(t, N, f, n)
    BY DEF Shape
  <1> HIDE DEF g, u, y, a, b, c, p
  <1>16. NodeShape(u, N, g, x)
    <2>1. u.right[x] = a /\ u.left[x] = b /\ u.parent[x] = y
      BY <1>2, <1>3, <1>8 DEF a
    <2>2. Sub(g, a) = Sub(f, a) /\ Sub(g, b) = Sub(f, b)
      BY <1>2, <1>4, <1>5, <1>10
    <2>3. g[x] = {x} \cup Sub(g, a) \cup Sub(g, b) /\ g[x] \subseteq N
      BY <1>7, <1>9, <2>2
    <2>4. a # Nil => u.parent[a] = x
      <3>1. ASSUME a # Nil PROVE a # b
        <4>1. t.parent[a] = x /\ (b # Nil => t.parent[b] = y)
          BY <1>4, <1>5, <3>1
        <4>2. QED
          BY <1>2, <3>1, <4>1
      <3>2. a # Nil => a \in TreeNode
        BY <1>1, <1>4
      <3>3. QED
        BY <1>2, <1>4, <1>8, <3>1, <3>2
    <2>5. b # Nil => u.parent[b] = x
      BY <1>1, <1>5, <1>8
    <2>6. y \in N /\ x = u.right[y]
      BY <1>2, <1>8
    <2>7. QED
      BY <1>4, <1>5, <2>1, <2>2, <2>3, <2>4, <2>5, <2>6 DEF NodeShape
  <1>17. NodeShape(u, N, g, y)
    <2>1. u.right[y] = x /\ u.left[y] = c /\ u.parent[y] = p
      BY <1>2, <1>3, <1>8 DEF c
    <2>2. Sub(g, c) = Sub(f, c)
      BY <1>6, <1>10
    <2>3. g[y] = {y} \cup Sub(g, x) \cup Sub(g, c) /\ g[y] \subseteq N
      BY <1>7, <1>9, <1>11, <2>2
    <2>4. \A k \in Sub(g, x) : y < k
      <3>1. \A k \in Sub(g, x) : k = x \/ k \in Sub(f, a) \/ k \in Sub(f, b)
        BY <1>9, <1>11
      <3>2. ASSUME NEW k \in Sub(f, a) PROVE y < k
        <4>1. x < k /\ k \in f[x]
          BY <1>4, <1>7
        <4>2. k \in Int /\ x \in Int /\ y \in Int
          BY <1>1, <1>2, <1>7, <4>1
        <4>3. QED
          BY <1>2, <4>1, <4>2
      <3>3. QED
        BY <1>2, <1>5, <3>1, <3>2
    <2>5. u.parent[x] = y
      BY <1>2, <1>8
    <2>6. c # Nil => u.parent[c] = y
      <3>1. c # Nil => c \in TreeNode
        BY <1>1, <1>6
      <3>2. QED
        BY <1>6, <1>8, <3>1
    <2>7. y # u.root => p \in N /\ (y = u.right[p] \/ y = u.left[p])
      <3>1. y # u.root => p # Nil
        BY <1>8
      <3>2. p # Nil => p \in N /\ p \in TreeNode
        BY <1>1, <1>3
      <3>3. QED
        BY <1>3, <1>8, <3>1, <3>2
    <2>8. QED
      BY <1>6, <2>1, <2>2, <2>3, <2>4, <2>5, <2>6, <2>7 DEF NodeShape
  <1>18. ASSUME NEW n \in N, n # x, n # y PROVE NodeShape(u, N, g, n)
    <2>1. n \in TreeNode /\ NodeShape(t, N, f, n) /\ g[n] = f[n]
      BY <1>1, <1>9, <1>15, <1>18
    <2>2. /\ Sub(g, u.right[n]) = Sub(f, t.right[n])
          /\ u.right[n] # Nil => u.parent[u.right[n]] = n
      <3>1. CASE n = p /\ t.right[p] = x
        <4>1. u.right[n] = y
          BY <1>8, <1>18, <2>1, <3>1
        <4>2. QED
          BY <1>2, <1>8, <1>11, <3>1, <4>1
      <3>2. CASE ~ (n = p /\ t.right[p] = x)
        <4>1. u.right[n] = t.right[n]
          BY <1>8, <1>18, <2>1, <3>2
        <4>2. CASE t.right[n] = Nil
          BY <4>1, <4>2 DEF Sub
        <4>3. CASE t.right[n] # Nil
          <5>1. t.parent[t.right[n]] = n /\ t.right[n] \in N /\ t.right[n] \in TreeNode
            BY <1>1, <1>13, <4>3
          <5>2. t.right[n] # y
            BY <1>2, <1>18, <5>1
          <5>3. t.right[n] # x
            BY <3>2, <5>1 DEF p
          <5>4. t.right[n] # b
            BY <1>5, <1>18, <4>3, <5>1
          <5>5. QED
            BY <1>8, <1>10, <1>12, <4>1, <5>1, <5>2, <5>3, <5>4
        <4>4. QED
          BY <4>2, <4>3
      <3>3. QED
        BY <3>1, <3>2
    <2>3. /\ Sub(g, u.left[n]) = Sub(f, t.left[n])
          /\ u.left[n] # Nil => u.parent[u.left[n]] = n
      <3>1. CASE n = p /\ t.left[p] = x
        <4>1. u.left[n] = y
          BY <1>8, <1>18, <2>1, <3>1
        <4>2. QED
          BY <1>2, <1>8, <1>11, <3>1, <4>1
      <3>2. CASE ~ (n = p /\ t.left[p] = x)
        <4>1. u.left[n] = t.left[n]
          BY <1>8, <1>18, <2>1, <3>2
        <4>2. CASE t.left[n] = Nil
          BY <4>1, <4>2 DEF Sub
        <4>3. CASE t.left[n] # Nil
          <5>1. t.parent[t.left[n]] = n /\ t.left[n] \in N /\ t.left[n] \in TreeNode
            BY <1>1, <1>13, <4>3
          <5>2. t.left[n] # y
            BY <1>2, <1>18, <5>1
          <5>3. t.left[n] # x
            BY <3>2, <5>1 DEF p
          <5>4. t.left[n] # b
            BY <1>5, <1>18, <4>3, <5>1
          <5>5. QED
            BY <1>8, <1>10, <1>12, <4>1, <5>1, <5>2, <5>3, <5>4
        <4>4. QED
          BY <4>2, <4>3
      <3>3. QED
        BY <3>1, <3>2
    <2>4. ASSUME n # u.root
          PROVE  u.parent[n] \in N /\ (n = u.right[u.parent[n]] \/ n = u.left[u.parent[n]])
      <3>1. CASE n = b
        <4>1. u.parent[n] = x
          BY <1>8, <1>18, <2>1, <3>1
        <4>2. u.left[x] = b
          BY <1>2, <1>8
        <4>3. QED
          BY <3>1, <4>1, <4>2
      <3>2. CASE n # b
        <4> DEFINE q == t.parent[n]
        <4>1. u.parent[n] = q
          BY <1>8, <1>18, <2>1, <3>2
        <4>2. n # t.root
          BY <1>8, <1>14, <1>18, <2>4
        <4>3. q \in N /\ q \in TreeNode /\ (n = t.right[q] \/ n = t.left[q])
          BY <1>1, <2>1, <4>2 DEF NodeShape
        <4>4. n = t.right[q] => n = u.right[q]
          <5>1. n = t.right[q] => q # y
            BY <3>2 DEF b
          <5>2. QED
            BY <1>8, <1>18, <4>3, <5>1
        <4>5. n = t.left[q] => n = u.left[q]
          <5>1. n = t.left[q] => q # x
            BY <1>18 DEF y
          <5>2. QED
            BY <1>8, <1>18, <4>3, <5>1
        <4>6. QED
          BY <4>1, <4>3, <4>4, <4>5
      <3>3. QED
        BY <3>1, <3>2
    <2>5. QED
      BY <2>1, <2>2, <2>3, <2>4 DEF NodeShape
  <1>19. N = Sub(g, u.root) /\ (u.root # Nil => u.parent[u.root] = Nil)
    <2>1. N = Sub(f, t.root) /\ t.root \in N /\ t.parent[t.root] = Nil
      BY Links DEF Shape
    <2>2. CASE p = Nil
      BY <1>2, <1>8, <1>11, <1>14, <2>1, <2>2
    <2>3. CASE p # Nil
      <3>1. u.root = t.root /\ t.root # x
        BY <1>8, <1>14, <2>3
      <3>2. t.root # y /\ t.root \in TreeNode /\ t.root \in Place
        BY <1>1, <1>2, <2>1 DEF Place
      <3>3. t.root # b
        BY <1>5, <3>2, <1>1
      <3>4. QED
        BY <1>8, <1>10, <2>1, <3>1, <3>2, <3>3
    <2>4. QED
      BY <2>2, <2>3
  <1>20. \A v \in TreeNode : v \in g[v]
    BY <1>1, <1>2, <1>7, <1>9
  <1>21. Shape(u, N, g)
    BY <1>1, <1>8, <1>9, <1>16, <1>17, <1>18, <1>19, <1>20 DEF Shape
  <1>22. QED
    BY <1>8, <1>21 DEF u, y, a, b, p, g
-----------------------------------------------------------------------------
(***************************************************************************)
(* Colours, and what a rotation leaves as it was: m_rbt_remove holds       *)
(* pointers across the rotations of its rebalance loop.                    *)
(***************************************************************************)

\* Colours do not move nodes.
SameLinks(t, u) ==
  u.root = t.root /\ u.left = t.left /\ u.right = t.right /\ u.parent = t.parent

\* The colour macros change colours only.
LEMMA Recoloured ==
  ASSUME NEW t \in Trees, NEW S \in SUBSET TreeNode
  PROVE  /\ Red(t, S) \in Trees /\ SameLinks(t, Red(t, S)) /\ Red(t, S).red = t.red \cup S
         /\ Black(t, S) \in Trees /\ SameLinks(t, Black(t, S)) /\ Black(t, S).red = t.red \ S
  BY DEF Red, Black, Trees, SameLinks

\* A recoloured tree has the shape it had.
LEMMA RecolouredShape ==
  ASSUME NEW t, NEW u \in Trees, NEW N, NEW f, Shape(t, N, f), SameLinks(t, u)
  PROVE  Shape(u, N, f)
  <1>1. \A n \in N : NodeShape(u, N, f, n)
    BY DEF Shape, NodeShape, SameLinks
  <1>2. QED
    BY <1>1 DEF Shape, SameLinks

\* The node s keeps its links, and every node that had it in its left subtree,
\* or as a child, still has.
Kept(t, f, u, g, N, s) ==
  /\ u.left[s] = t.left[s] /\ u.right[s] = t.right[s] /\ u.parent[s] = t.parent[s]
  /\ \A n \in N :
       /\ s \in Sub(f, t.left[n]) => s \in Sub(g, u.left[n])
       /\ s = t.left[n] <=> s = u.left[n]
       /\ s = t.right[n] <=> s = u.right[n]

\* What two steps keep, both together keep.
LEMMA KeptTwice ==
  ASSUME NEW t, NEW f, NEW u, NEW g, NEW w, NEW h, NEW N, NEW s,
         Kept(t, f, u, g, N, s), Kept(u, g, w, h, N, s)
  PROVE  Kept(t, f, w, h, N, s)
  BY DEF Kept

\* The pointers of m_rbt_remove stand when nodes are recoloured.
LEMMA RecolouredKept ==
  ASSUME NEW t, NEW u, NEW f, NEW N, NEW s, SameLinks(t, u)
  PROVE  Kept(t, f, u, f, N, s)
  BY DEF Kept, SameLinks

\* m_rbt_rotate_left keeps a node that is not above the rotation nor below the right child.
LEMMA RotateLeftKept ==
  ASSUME NEW t, NEW N, NEW f, Shape(t, N, f), NEW x \in N, t.right[x] # Nil,
         NEW s \in N, x \notin f[s], s \notin f[t.right[x]]
  PROVE  LET y == t.right[x]
         IN  Kept(t, f, m_rbt_rotate_left(t, x), Rotated(f, x, y, t.left[x], t.left[y]), N, s)
  <1> DEFINE u == m_rbt_rotate_left(t, x)
             y == t.right[x]
             a == t.left[x]
             b == t.left[y]
             p == t.parent[x]
             g == Rotated(f, x, y, a, b)
  <1>1. /\ \A v \in TreeNode :
             /\ u.left[v] = IF v = y THEN x ELSE IF v = p /\ t.left[p] = x THEN y ELSE t.left[v]
             /\ u.right[v] = IF v = x THEN b ELSE IF v = p /\ t.right[p] = x THEN y ELSE t.right[v]
             /\ u.parent[v] = IF v = y THEN p ELSE IF v = x THEN y ELSE IF v = b THEN x ELSE t.parent[v]
    BY RotateLeftShape
  <1>2. /\ N \subseteq TreeNode /\ Nil \notin TreeNode
        /\ f \in [TreeNode -> SUBSET TreeNode] /\ \A v \in TreeNode : v \in f[v]
    BY TreeAssumption DEF Shape
  <1>3. y \in N /\ x # y /\ y \in f[y] /\ t.parent[y] = x /\ f[y] \subseteq f[x] /\ x \in N /\ x \notin f[y]
    BY RightChild
  <1>4. s # y /\ s # b /\ s # x /\ s # Nil
    <2>1. b # Nil => b \in f[y]
      BY <1>3, LeftChild
    <2>2. s # Nil
      BY <1>2
    <2>3. QED
      BY <1>2, <1>3, <2>1, <2>2
  <1>5. p # x /\ (p # Nil => p \in N /\ (x = t.left[p] \/ x = t.right[p]))
    <2>1. p # Nil => p \in N /\ (x = t.left[p] \/ x = t.right[p])
      BY Links
    <2>2. x # Nil
      BY <1>2
    <2>3. p # Nil => p \notin f[x]
      BY <2>1, <2>2, LeftChild, RightChild
    <2>4. QED
      BY <1>2, <2>1, <2>2, <2>3
  <1>6. /\ g[y] = f[x] /\ \A v \in TreeNode : v # x /\ v # y => g[v] = f[v]
        /\ g[x] = {x} \cup Sub(f, a) \cup Sub(f, b)
    <2>1. x \in TreeNode /\ y \in TreeNode
      BY <1>2, <1>3
    <2>2. QED
      BY <1>2, <1>3, <2>1 DEF Rotated
  <1>7. f[x] = {x} \cup Sub(f, a) \cup Sub(f, y) /\ Sub(f, y) = f[y]
    BY <1>2, <1>3, Links DEF Sub
  <1>8. /\ \A n \in N : t.left[n] # Nil => t.parent[t.left[n]] = n /\ t.left[n] # t.right[n] /\ t.left[n] \in N
        /\ \A n \in N : t.right[n] # Nil => t.parent[t.right[n]] = n /\ t.right[n] \in N
    BY LeftChild, RightChild
  <1>9. t.left[y] # s /\ t.right[y] # s /\ s # p /\ s \in TreeNode
    <2>1. t.left[y] # s /\ t.right[y] # s
      BY <1>3, <1>4, LeftChild, RightChild
    <2>2. s = p => x \in f[s]
      BY <1>2, <1>4, <1>5, LeftChild, RightChild
    <2>3. QED
      BY <1>2, <2>1, <2>2
  <1>10. Sub(f, t.left[y]) \subseteq f[y] /\ Sub(f, x) = f[x] /\ Sub(g, y) = f[x]
    <2>1. x # Nil /\ y # Nil
      BY <1>2, <1>3
    <2>2. QED
      BY <1>3, <1>6, <2>1, LeftChild DEF Sub
  <1> HIDE DEF u, g, y, a, b, p
  <1>11. u.left[s] = t.left[s] /\ u.right[s] = t.right[s] /\ u.parent[s] = t.parent[s]
    BY <1>1, <1>4, <1>9
  <1>12. ASSUME NEW n \in N
         PROVE  /\ s \in Sub(f, t.left[n]) => s \in Sub(g, u.left[n])
                /\ s = t.left[n] <=> s = u.left[n]
                /\ s = t.right[n] <=> s = u.right[n]
    <2>1. n \in TreeNode
      BY <1>2
    <2>2. s = t.left[n] <=> s = u.left[n]
      BY <1>1, <1>4, <1>9, <2>1
    <2>3. s = t.right[n] <=> s = u.right[n]
      <3>1. t.right[x] = y
        BY DEF y
      <3>2. QED
        BY <1>1, <1>4, <1>9, <2>1, <3>1
    <2>4. ASSUME s \in Sub(f, t.left[n]) PROVE s \in Sub(g, u.left[n])
      <3>1. n # y
        BY <1>10, <2>4 DEF y
      <3>2. CASE n = p /\ t.left[p] = x
        BY <1>1, <1>10, <2>1, <2>4, <3>1, <3>2
      <3>3. CASE ~ (n = p /\ t.left[p] = x)
        <4>1. u.left[n] = t.left[n] /\ t.left[n] # Nil
          BY <1>1, <2>1, <2>4, <3>1, <3>3 DEF Sub
        <4>2. t.parent[t.left[n]] = n /\ t.left[n] # t.right[n] /\ t.left[n] \in N
          BY <1>8, <4>1
        <4>3. t.left[n] # x
          BY <3>3, <4>2 DEF p
        <4>4. t.left[n] # y
          <5>1. t.left[n] = y => n = x
            BY <1>3, <4>2
          <5>2. QED
            BY <4>2, <5>1 DEF y
        <4>5. g[t.left[n]] = f[t.left[n]]
          BY <1>2, <1>6, <4>2, <4>3, <4>4
        <4>6. QED
          BY <2>4, <4>1, <4>5 DEF Sub
      <3>4. QED
        BY <3>2, <3>3
    <2>5. QED
      BY <2>2, <2>3, <2>4
  <1>13. QED
    BY <1>11, <1>12 DEF Kept, u, g, y, a, b, p

\* m_rbt_rotate_right keeps a node that is not above the rotation nor below the left child.
LEMMA RotateRightKept ==
  ASSUME NEW t, NEW N, NEW f, Shape(t, N, f), NEW x \in N, t.left[x] # Nil,
         NEW s \in N, x \notin f[s], s \notin f[t.left[x]]
  PROVE  LET y == t.left[x]
         IN  Kept(t, f, m_rbt_rotate_right(t, x), Rotated(f, x, y, t.right[x], t.right[y]), N, s)
  <1> DEFINE u == m_rbt_rotate_right(t, x)
             y == t.left[x]
             a == t.right[x]
             b == t.right[y]
             p == t.parent[x]
             g == Rotated(f, x, y, a, b)
  <1>1. /\ \A v \in TreeNode :
             /\ u.right[v] = IF v = y THEN x ELSE IF v = p /\ t.right[p] = x THEN y ELSE t.right[v]
             /\ u.left[v] = IF v = x THEN b ELSE IF v = p /\ t.left[p] = x THEN y ELSE t.left[v]
             /\ u.parent[v] = IF v = y THEN p ELSE IF v = x THEN y ELSE IF v = b THEN x ELSE t.parent[v]
    BY RotateRightShape
  <1>2. /\ N \subseteq TreeNode /\ Nil \notin TreeNode
        /\ f \in [TreeNode -> SUBSET TreeNode] /\ \A v \in TreeNode : v \in f[v]
    BY TreeAssumption DEF Shape
  <1>3. y \in N /\ x # y /\ y \in f[y] /\ t.parent[y] = x /\ f[y] \subseteq f[x] /\ x \in N /\ x \notin f[y]
    BY LeftChild
  <1>4. s # y /\ s # b /\ s # x /\ s # Nil
    <2>1. b # Nil => b \in f[y]
      BY <1>3, RightChild
    <2>2. s # Nil
      BY <1>2
    <2>3. QED
      BY <1>2, <1>3, <2>1, <2>2
  <1>5. p # x /\ (p # Nil => p \in N /\ (x = t.right[p] \/ x = t.left[p]))
    <2>1. p # Nil => p \in N /\ (x = t.right[p] \/ x = t.left[p])
      BY Links
    <2>2. x # Nil
      BY <1>2
    <2>3. p # Nil => p \notin f[x]
      BY <2>1, <2>2, RightChild, LeftChild
    <2>4. QED
      BY <1>2, <2>1, <2>2, <2>3
  <1>6. /\ g[y] = f[x] /\ \A v \in TreeNode : v # x /\ v # y => g[v] = f[v]
        /\ g[x] = {x} \cup Sub(f, a) \cup Sub(f, b)
    <2>1. x \in TreeNode /\ y \in TreeNode
      BY <1>2, <1>3
    <2>2. QED
      BY <1>2, <1>3, <2>1 DEF Rotated
  <1>7. f[x] = {x} \cup Sub(f, a) \cup Sub(f, y) /\ Sub(f, y) = f[y]
    BY <1>2, <1>3, Links DEF Sub
  <1>8. /\ \A n \in N : t.right[n] # Nil => t.parent[t.right[n]] = n /\ t.right[n] # t.left[n] /\ t.right[n] \in N
        /\ \A n \in N : t.left[n] # Nil => t.parent[t.left[n]] = n /\ t.left[n] \in N
    BY RightChild, LeftChild
  <1>9. t.right[y] # s /\ t.left[y] # s /\ s # p /\ s \in TreeNode
    <2>1. t.right[y] # s /\ t.left[y] # s
      BY <1>3, <1>4, RightChild, LeftChild
    <2>2. s = p => x \in f[s]
      BY <1>2, <1>4, <1>5, RightChild, LeftChild
    <2>3. QED
      BY <1>2, <2>1, <2>2
  <1>10. Sub(f, t.right[y]) \subseteq f[y] /\ Sub(f, x) = f[x] /\ Sub(g, y) = f[x]
    <2>1. x # Nil /\ y # Nil
      BY <1>2, <1>3
    <2>2. QED
      BY <1>3, <1>6, <2>1, RightChild DEF Sub
  <1> HIDE DEF u, g, y, a, b, p
  <1>11. u.right[s] = t.right[s] /\ u.left[s] = t.left[s] /\ u.parent[s] = t.parent[s]
    BY <1>1, <1>4, <1>9
  <1>12. ASSUME NEW n \in N
         PROVE  /\ s \in Sub(f, t.left[n]) => s \in Sub(g, u.left[n])
                /\ s = t.left[n] <=> s = u.left[n]
                /\ s = t.right[n] <=> s = u.right[n]
    <2>1. n \in TreeNode
      BY <1>2
    <2>2. s = t.right[n] <=> s = u.right[n]
      BY <1>1, <1>4, <1>9, <2>1
    <2>3. s = t.left[n] <=> s = u.left[n]
      <3>1. t.left[x] = y
        BY DEF y
      <3>2. QED
        BY <1>1, <1>4, <1>9, <2>1, <3>1
    <2>4. ASSUME s \in Sub(f, t.left[n]) PROVE s \in Sub(g, u.left[n])
      <3>1. n # x
        BY <1>7, <2>4 DEF y
      <3>2. CASE n = p /\ t.left[p] = x
        BY <1>1, <1>10, <2>1, <2>4, <3>1, <3>2
      <3>3. CASE ~ (n = p /\ t.left[p] = x)
        <4>1. u.left[n] = t.left[n] /\ t.left[n] # Nil
          BY <1>1, <2>1, <2>4, <3>1, <3>3 DEF Sub
        <4>2. t.parent[t.left[n]] = n /\ t.left[n] \in N
          BY <1>8, <4>1
        <4>3. t.left[n] # x
          BY <3>3, <4>2 DEF p
        <4>4. t.left[n] # y
          BY <1>3, <3>1, <4>2
        <4>5. g[t.left[n]] = f[t.left[n]]
          BY <1>2, <1>6, <4>2, <4>3, <4>4
        <4>6. QED
          BY <2>4, <4>1, <4>5 DEF Sub
      <3>4. QED
        BY <3>2, <3>3
    <2>5. QED
      BY <2>2, <2>3, <2>4
  <1>13. QED
    BY <1>11, <1>12 DEF Kept, u, g, y, a, b, p
-----------------------------------------------------------------------------
(***************************************************************************)
(* A node with one child at most is spliced out.                           *)
(***************************************************************************)

\* u is t without s, whose only child c has taken its place.
Spliced(t, N, s, c, u) ==
  LET p == t.parent[s]
  IN  /\ u \in Trees
      /\ u.root = IF p = Nil THEN c ELSE t.root
      /\ \A v \in N \ {s} :
           /\ u.left[v] = IF v = p /\ t.left[p] = s THEN c ELSE t.left[v]
           /\ u.right[v] = IF v = p /\ t.right[p] = s THEN c ELSE t.right[v]
           /\ u.parent[v] = IF v = c THEN p ELSE t.parent[v]

OnlyChild(t, s, c) ==
  \/ t.left[s] = c /\ t.right[s] = Nil
  \/ t.left[s] = Nil /\ t.right[s] = c

Without(f, s) == [v \in TreeNode |-> IF v = s THEN {s} ELSE f[v] \ {s}]

\* Splicing out a node takes it, and nothing else, from the tree.
LEMMA SplicedShape ==
  ASSUME NEW t, NEW N, NEW f, Shape(t, N, f), NEW s \in N, NEW c, OnlyChild(t, s, c),
         NEW u, Spliced(t, N, s, c, u)
  PROVE  Shape(u, N \ {s}, Without(f, s))
  <1> DEFINE p == t.parent[s]
             g == Without(f, s)
             M == N \ {s}
  <1>1. /\ N \subseteq TreeNode /\ Nil \notin TreeNode /\ t \in Trees /\ s \in TreeNode
        /\ f \in [TreeNode -> SUBSET TreeNode] /\ \A v \in TreeNode : v \in f[v]
    BY TreeAssumption DEF Shape
  <1>2. /\ u.root = IF p = Nil THEN c ELSE t.root
        /\ \A v \in M :
             /\ u.left[v] = IF v = p /\ t.left[p] = s THEN c ELSE t.left[v]
             /\ u.right[v] = IF v = p /\ t.right[p] = s THEN c ELSE t.right[v]
             /\ u.parent[v] = IF v = c THEN p ELSE t.parent[v]
    BY DEF Spliced
  <1>3. u \in Trees
    BY DEF Spliced
  <1>4. /\ f[s] = {s} \cup Sub(f, c) /\ f[s] \subseteq N
        /\ p = Nil <=> s = t.root
        /\ p # Nil => p \in M /\ (s = t.left[p] \/ s = t.right[p])
    <2>1. f[s] = {s} \cup Sub(f, t.left[s]) \cup Sub(f, t.right[s]) /\ f[s] \subseteq N
      BY Links
    <2>2. Sub(f, Nil) = {}
      BY DEF Sub
    <2>3. f[s] = {s} \cup Sub(f, c)
      BY <2>1, <2>2 DEF OnlyChild
    <2>4. p = Nil <=> s = t.root
      BY Links
    <2>5. p # Nil => p \in N /\ (s = t.left[p] \/ s = t.right[p])
      BY Links
    <2>6. p # s
      <3>1. p = s => s = t.left[s] \/ s = t.right[s]
        BY <1>1, <2>5
      <3>2. t.left[s] # s
        BY <1>1, LeftChild
      <3>3. t.right[s] # s
        BY <1>1, RightChild
      <3>4. QED
        BY <3>1, <3>2, <3>3
    <2>7. QED
      BY <2>1, <2>3, <2>4, <2>5, <2>6
  <1>5. c # Nil => c \in M /\ t.parent[c] = s /\ c # t.root
    <2>1. c # Nil /\ c = t.left[s] => c \in M /\ t.parent[c] = s /\ c # t.root
      BY <1>1, LeftChild
    <2>2. c # Nil /\ c = t.right[s] => c \in M /\ t.parent[c] = s /\ c # t.root
      BY <1>1, RightChild
    <2>3. QED
      BY <2>1, <2>2 DEF OnlyChild
  <1>6. /\ g \in [TreeNode -> SUBSET TreeNode] /\ g[s] = {s}
        /\ \A v \in TreeNode : v # s => g[v] = f[v] \ {s}
        /\ \A v \in TreeNode : v \in g[v]
    BY <1>1 DEF Without
  <1>7. \A v \in Place : v # s => Sub(g, v) = Sub(f, v) \ {s}
    BY <1>6 DEF Sub, Place
  <1>8. Sub(g, c) = Sub(f, s) \ {s} /\ Sub(f, s) = f[s]
    <2>1. c \in Place /\ c # s
      BY <1>1, <1>5 DEF Place
    <2>2. QED
      BY <1>1, <1>4, <1>7, <2>1 DEF Sub
  <1>9. /\ \A n \in N : t.left[n] # Nil => t.parent[t.left[n]] = n /\ t.left[n] \in N
        /\ \A n \in N : t.right[n] # Nil => t.parent[t.right[n]] = n /\ t.right[n] \in N
    BY LeftChild, RightChild
  <1>10. \A n \in N : NodeShape(t, N, f, n) /\ t.left[n] \in Place /\ t.right[n] \in Place
    BY Links DEF Shape
  <1>20. t.left[s] = c \/ t.left[s] = Nil
    BY DEF OnlyChild
  <1>21. t.right[s] = c \/ t.right[s] = Nil
    BY DEF OnlyChild
  <1> HIDE DEF g, p, M
  <1>11. M \subseteq N /\ s \notin M /\ \A v \in N : v # s => v \in M
    BY DEF M
  <1>12. ASSUME NEW n \in M PROVE NodeShape(u, M, g, n)
    <2>1. n \in N /\ n \in TreeNode /\ n # s /\ NodeShape(t, N, f, n) /\ g[n] = f[n] \ {s}
      BY <1>1, <1>6, <1>10, <1>11
    <2>2. /\ Sub(g, u.left[n]) = Sub(f, t.left[n]) \ {s}
          /\ u.left[n] # Nil => u.parent[u.left[n]] = n
      <3>1. CASE n = p /\ t.left[p] = s
        BY <1>2, <1>5, <1>8, <3>1 DEF M
      <3>2. CASE ~ (n = p /\ t.left[p] = s)
        <4>1. u.left[n] = t.left[n]
          BY <1>2, <3>2
        <4>2. t.left[n] # s
          BY <1>1, <1>9, <2>1, <3>2 DEF p
        <4>3. Sub(g, t.left[n]) = Sub(f, t.left[n]) \ {s}
          BY <1>7, <1>10, <2>1, <4>2
        <4>4. t.left[n] # Nil => t.left[n] \in M /\ t.left[n] # c /\ t.parent[t.left[n]] = n
          BY <1>5, <1>9, <1>11, <2>1, <4>2
        <4>5. QED
          BY <1>2, <4>1, <4>3, <4>4
      <3>3. QED
        BY <3>1, <3>2
    <2>3. /\ Sub(g, u.right[n]) = Sub(f, t.right[n]) \ {s}
          /\ u.right[n] # Nil => u.parent[u.right[n]] = n
      <3>1. CASE n = p /\ t.right[p] = s
        BY <1>2, <1>5, <1>8, <3>1 DEF M
      <3>2. CASE ~ (n = p /\ t.right[p] = s)
        <4>1. u.right[n] = t.right[n]
          BY <1>2, <3>2
        <4>2. t.right[n] # s
          BY <1>1, <1>9, <2>1, <3>2 DEF p
        <4>3. Sub(g, t.right[n]) = Sub(f, t.right[n]) \ {s}
          BY <1>7, <1>10, <2>1, <4>2
        <4>4. t.right[n] # Nil => t.right[n] \in M /\ t.right[n] # c /\ t.parent[t.right[n]] = n
          BY <1>5, <1>9, <1>11, <2>1, <4>2
        <4>5. QED
          BY <1>2, <4>1, <4>3, <4>4
      <3>3. QED
        BY <3>1, <3>2
    <2>4. g[n] = {n} \cup Sub(g, u.left[n]) \cup Sub(g, u.right[n]) /\ g[n] \subseteq M
      <3>1. f[n] = {n} \cup Sub(f, t.left[n]) \cup Sub(f, t.right[n]) /\ f[n] \subseteq N
        BY <2>1 DEF NodeShape
      <3>2. QED
        BY <2>1, <2>2, <2>3, <3>1 DEF M
    <2>5. ASSUME n # u.root
          PROVE  u.parent[n] \in M /\ (n = u.left[u.parent[n]] \/ n = u.right[u.parent[n]])
      <3>1. CASE n = c
        <4>1. u.parent[n] = p /\ p # Nil
          BY <1>2, <2>5, <3>1
        <4>2. p \in M /\ (s = t.left[p] \/ s = t.right[p])
          BY <1>4, <4>1 DEF M, p
        <4>3. QED
          BY <1>2, <3>1, <4>1, <4>2
      <3>2. CASE n # c
        <4> DEFINE q == t.parent[n]
        <4>1. n # t.root /\ u.parent[n] = q
          BY <1>2, <1>4, <2>1, <2>5, <3>2 DEF p
        <4>2. q \in N /\ (n = t.left[q] \/ n = t.right[q])
          BY <2>1, <4>1 DEF NodeShape
        <4>3. q # s /\ q \in M
          BY <1>1, <1>11, <1>20, <1>21, <2>1, <3>2, <4>2
        <4>4. QED
          BY <1>2, <2>1, <4>1, <4>2, <4>3
      <3>3. QED
        BY <3>1, <3>2
    <2>6. QED
      BY <2>1, <2>2, <2>3, <2>4, <2>5 DEF NodeShape
  <1>13. M = Sub(g, u.root) /\ (u.root # Nil => u.parent[u.root] = Nil)
    <2>1. N = Sub(f, t.root) /\ t.root \in N /\ t.parent[t.root] = Nil
      BY Links DEF Shape
    <2>2. CASE p = Nil
      BY <1>2, <1>4, <1>5, <1>8, <2>1, <2>2 DEF M, p
    <2>3. CASE p # Nil
      <3>1. u.root = t.root /\ t.root # s /\ t.root \in Place /\ t.root # c /\ t.root \in M
        <4>1. u.root = t.root /\ t.root # s
          BY <1>2, <1>4, <2>3 DEF p
        <4>2. t.root \in M /\ t.root \in Place
          BY <1>1, <1>11, <2>1, <4>1 DEF Place
        <4>3. t.root # c
          BY <1>1, <1>5, <2>1
        <4>4. QED
          BY <4>1, <4>2, <4>3
      <3>2. QED
        BY <1>2, <1>7, <2>1, <3>1 DEF M
    <2>4. QED
      BY <2>2, <2>3
  <1>14. Shape(u, M, g)
    BY <1>1, <1>3, <1>6, <1>11, <1>12, <1>13 DEF Shape
  <1>15. QED
    BY <1>14 DEF M, g
-----------------------------------------------------------------------------
(***************************************************************************)
(* A node gives its place to another.                                      *)
(***************************************************************************)

\* u is t with s in the place of n.
Replaced(t, N, n, s, u) ==
  LET q == t.parent[n]
  IN  /\ u \in Trees
      /\ u.root = IF q = Nil THEN s ELSE t.root
      /\ u.left[s] = t.left[n] /\ u.right[s] = t.right[n] /\ u.parent[s] = q
      /\ \A v \in N \ {n} :
           /\ u.left[v] = IF v = q /\ t.left[q] = n THEN s ELSE t.left[v]
           /\ u.right[v] = IF v = q /\ t.right[q] = n THEN s ELSE t.right[v]
           /\ u.parent[v] = IF v = t.left[n] \/ v = t.right[n] THEN s ELSE t.parent[v]

Exchange(S, n, s) == IF n \in S THEN (S \ {n}) \cup {s} ELSE S
Exchanged(f, n, s) ==
  [v \in TreeNode |-> IF v = s THEN Exchange(f[n], n, s) ELSE IF v = n THEN {n} ELSE Exchange(f[v], n, s)]

\* Putting a node in the place of another takes the other, and nothing else, from the tree.
LEMMA ReplacedShape ==
  ASSUME NEW t, NEW N, NEW f, Shape(t, N, f), NEW n \in N, NEW s \in TreeNode, s \notin N,
         \A k \in N \ {n} : (k < n => k < s) /\ (n < k => s < k),
         NEW u, Replaced(t, N, n, s, u)
  PROVE  Shape(u, (N \ {n}) \cup {s}, Exchanged(f, n, s))
  <1> DEFINE q == t.parent[n]
             g == Exchanged(f, n, s)
             M == (N \ {n}) \cup {s}
             X(S) == Exchange(S, n, s)
  <1>1. /\ N \subseteq TreeNode /\ Nil \notin TreeNode /\ t \in Trees /\ n \in TreeNode
        /\ f \in [TreeNode -> SUBSET TreeNode] /\ \A v \in TreeNode : v \in f[v]
        /\ s # n /\ s # Nil /\ n # Nil /\ \A v \in N : v # s
    BY TreeAssumption DEF Shape
  <1>2. /\ u.root = IF q = Nil THEN s ELSE t.root
        /\ u.left[s] = t.left[n] /\ u.right[s] = t.right[n] /\ u.parent[s] = q
        /\ \A v \in N \ {n} :
             /\ u.left[v] = IF v = q /\ t.left[q] = n THEN s ELSE t.left[v]
             /\ u.right[v] = IF v = q /\ t.right[q] = n THEN s ELSE t.right[v]
             /\ u.parent[v] = IF v = t.left[n] \/ v = t.right[n] THEN s ELSE t.parent[v]
    BY DEF Replaced
  <1>3. u \in Trees
    BY DEF Replaced
  <1>4. /\ q = Nil <=> n = t.root
        /\ q # Nil => q \in N /\ q # n /\ (n = t.left[q] \/ n = t.right[q])
    <2>1. (q = Nil <=> n = t.root) /\ (q # Nil => q \in N /\ (n = t.left[q] \/ n = t.right[q]))
      BY Links
    <2>2. t.left[n] # n /\ t.right[n] # n
      BY <1>1, LeftChild, RightChild
    <2>3. QED
      BY <2>1, <2>2
  <1>5. /\ \A v \in N : t.left[v] # Nil => t.parent[t.left[v]] = v /\ t.left[v] \in N /\ t.left[v] # v
        /\ \A v \in N : t.right[v] # Nil => t.parent[t.right[v]] = v /\ t.right[v] \in N /\ t.right[v] # v
    BY <1>1, LeftChild, RightChild
  <1>6. /\ g \in [TreeNode -> SUBSET TreeNode]
        /\ g[s] = X(f[n]) /\ g[n] = {n}
        /\ \A v \in TreeNode : v # s /\ v # n => g[v] = X(f[v])
        /\ \A v \in TreeNode : v \in g[v]
    <2>1. \A S \in SUBSET TreeNode : X(S) \in SUBSET TreeNode
      BY DEF Exchange
    <2>2. \A v \in TreeNode : f[v] \in SUBSET TreeNode /\ v \in f[v]
      BY <1>1
    <2> HIDE DEF X
    <2>3. /\ g \in [TreeNode -> SUBSET TreeNode] /\ g[s] = X(f[n]) /\ g[n] = {n}
          /\ \A v \in TreeNode : v # s /\ v # n => g[v] = X(f[v])
      <3>1. g = [v \in TreeNode |-> IF v = s THEN X(f[n]) ELSE IF v = n THEN {n} ELSE X(f[v])]
        BY DEF Exchanged, X
      <3> HIDE DEF g
      <3>2. QED
        BY <1>1, <2>1, <2>2, <3>1
    <2>4. \A v \in TreeNode : v # n => v \in X(f[v])
      BY <2>2 DEF X, Exchange
    <2>5. s \in X(f[n])
      BY <1>1 DEF X, Exchange
    <2>6. QED
      BY <2>3, <2>4, <2>5
  <1>7. \A v \in Place : v # s /\ v # n => Sub(g, v) = X(Sub(f, v))
    BY <1>6 DEF Sub, Place, Exchange
  <1>8. Sub(g, s) = X(Sub(f, n))
    BY <1>1, <1>6 DEF Sub
  <1>9. \A v \in N : NodeShape(t, N, f, v) /\ t.left[v] \in Place /\ t.right[v] \in Place
    BY Links DEF Shape
  <1>10. /\ M \subseteq TreeNode /\ n \notin M /\ s \in M /\ \A v \in N : v # n => v \in M
         /\ \A S \in SUBSET N : X(S) \subseteq M
    BY <1>1 DEF Exchange
  <1>11. X({}) = {}
    BY DEF Exchange
  \* Keys on one side of a node stay on that side.
  <1>12. ASSUME NEW v \in N, NEW S \in SUBSET N, \A k \in S : k < v, v # n
         PROVE  \A k \in X(S) : k < v
    <2>1. n \in S => s < v
      BY <1>12
    <2>2. QED
      BY <1>12, <2>1 DEF Exchange
  <1>13. ASSUME NEW v \in N, NEW S \in SUBSET N, \A k \in S : v < k, v # n
         PROVE  \A k \in X(S) : v < k
    <2>1. n \in S => v < s
      BY <1>13
    <2>2. QED
      BY <1>13, <2>1 DEF Exchange
  <1>14. NodeShape(u, M, g, s)
    <2>1. /\ f[n] = {n} \cup Sub(f, t.left[n]) \cup Sub(f, t.right[n]) /\ f[n] \subseteq N
          /\ \A k \in Sub(f, t.left[n]) : k < n
          /\ \A k \in Sub(f, t.right[n]) : n < k
      BY <1>9 DEF NodeShape
    <2>2. n \notin Sub(f, t.left[n]) /\ n \notin Sub(f, t.right[n])
      <3>1. n \in Int
        BY <1>1, TreeAssumption
      <3>2. QED
        BY <2>1, <3>1
    <2>3. t.left[n] # n /\ t.left[n] # s /\ t.right[n] # n /\ t.right[n] # s
      BY <1>1, <1>5
    <2>4. Sub(g, t.left[n]) = Sub(f, t.left[n]) /\ Sub(g, t.right[n]) = Sub(f, t.right[n])
      <3>1. Sub(g, t.left[n]) = X(Sub(f, t.left[n])) /\ Sub(g, t.right[n]) = X(Sub(f, t.right[n]))
        BY <1>7, <1>9, <2>3
      <3>2. QED
        BY <2>2, <3>1 DEF Exchange
    <2>5. X(f[n]) = {s} \cup Sub(f, t.left[n]) \cup Sub(f, t.right[n])
      BY <2>1, <2>2 DEF Exchange
    <2>6. g[s] = {s} \cup Sub(g, u.left[s]) \cup Sub(g, u.right[s]) /\ g[s] \subseteq M
      <3> HIDE DEF X, M, g
      <3>1. X(f[n]) \subseteq M
        BY <1>10, <2>1
      <3>2. QED
        BY <1>2, <1>6, <2>4, <2>5, <3>1
    <2>7. \A k \in Sub(g, u.left[s]) : k < s
      BY <1>2, <2>1, <2>2, <2>4
    <2>8. \A k \in Sub(g, u.right[s]) : s < k
      BY <1>2, <2>1, <2>2, <2>4
    <2>9. /\ u.left[s] # Nil => u.parent[u.left[s]] = s
          /\ u.right[s] # Nil => u.parent[u.right[s]] = s
      BY <1>2, <1>5, <2>3
    <2>10. s # u.root => u.parent[s] \in M /\ (s = u.left[u.parent[s]] \/ s = u.right[u.parent[s]])
      <3>1. s # u.root => q # Nil
        BY <1>2
      <3>2. QED
        BY <1>2, <1>4, <1>10, <3>1
    <2>11. QED
      BY <2>6, <2>7, <2>8, <2>9, <2>10 DEF NodeShape
  <1> HIDE DEF X, g, M, q
  <1>15. ASSUME NEW v \in N, v # n PROVE NodeShape(u, M, g, v)
    <2>1. v \in TreeNode /\ v # s /\ NodeShape(t, N, f, v) /\ g[v] = X(f[v]) /\ v \in M
      BY <1>1, <1>6, <1>9, <1>10, <1>15
    <2>2. /\ Sub(g, u.left[v]) = X(Sub(f, t.left[v]))
          /\ u.left[v] # Nil => u.parent[u.left[v]] = v
      <3>1. CASE v = q /\ t.left[q] = n
        BY <1>2, <1>8, <1>15, <3>1 DEF q
      <3>2. CASE ~ (v = q /\ t.left[q] = n)
        <4>1. u.left[v] = t.left[v]
          BY <1>2, <1>15, <3>2 DEF q
        <4>2. t.left[v] # n /\ t.left[v] # s
          BY <1>1, <1>5, <3>2 DEF q
        <4>3. t.left[v] # Nil => t.left[v] \in N /\ t.parent[t.left[v]] = v /\ t.left[v] # t.left[n]
                                 /\ t.left[v] # t.right[n]
          BY <1>5, <1>15
        <4>4. QED
          BY <1>2, <1>7, <1>9, <4>1, <4>2, <4>3
      <3>3. QED
        BY <3>1, <3>2
    <2>3. /\ Sub(g, u.right[v]) = X(Sub(f, t.right[v]))
          /\ u.right[v] # Nil => u.parent[u.right[v]] = v
      <3>1. CASE v = q /\ t.right[q] = n
        BY <1>2, <1>8, <1>15, <3>1 DEF q
      <3>2. CASE ~ (v = q /\ t.right[q] = n)
        <4>1. u.right[v] = t.right[v]
          BY <1>2, <1>15, <3>2 DEF q
        <4>2. t.right[v] # n /\ t.right[v] # s
          BY <1>1, <1>5, <3>2 DEF q
        <4>3. t.right[v] # Nil => t.right[v] \in N /\ t.parent[t.right[v]] = v /\ t.right[v] # t.left[n]
                                 /\ t.right[v] # t.right[n]
          BY <1>5, <1>15
        <4>4. QED
          BY <1>2, <1>7, <1>9, <4>1, <4>2, <4>3
      <3>3. QED
        BY <3>1, <3>2
    <2>4. f[v] = {v} \cup Sub(f, t.left[v]) \cup Sub(f, t.right[v]) /\ f[v] \subseteq N
      BY <2>1 DEF NodeShape
    <2>5. g[v] = {v} \cup Sub(g, u.left[v]) \cup Sub(g, u.right[v]) /\ g[v] \subseteq M
      <3>1. X(f[v]) = {v} \cup X(Sub(f, t.left[v])) \cup X(Sub(f, t.right[v]))
        BY <1>15, <2>4 DEF X, Exchange
      <3>2. X(f[v]) \subseteq M
        BY <1>10, <2>4
      <3>3. QED
        BY <2>1, <2>2, <2>3, <3>1, <3>2
    <2>6. \A k \in Sub(g, u.left[v]) : k < v
      <3>1. Sub(f, t.left[v]) \in SUBSET N /\ \A k \in Sub(f, t.left[v]) : k < v
        BY <2>1, <2>4 DEF NodeShape
      <3>2. QED
        BY <1>12, <1>15, <2>2, <3>1
    <2>7. \A k \in Sub(g, u.right[v]) : v < k
      <3>1. Sub(f, t.right[v]) \in SUBSET N /\ \A k \in Sub(f, t.right[v]) : v < k
        BY <2>1, <2>4 DEF NodeShape
      <3>2. QED
        BY <1>13, <1>15, <2>3, <3>1
    <2>8. ASSUME v # u.root
          PROVE  u.parent[v] \in M /\ (v = u.left[u.parent[v]] \/ v = u.right[u.parent[v]])
      <3>1. CASE v = t.left[n] \/ v = t.right[n]
        BY <1>2, <1>10, <1>15, <3>1
      <3>2. CASE ~ (v = t.left[n] \/ v = t.right[n])
        <4> DEFINE w == t.parent[v]
        <4>1. v # t.root /\ u.parent[v] = w
          BY <1>2, <1>4, <1>15, <2>8, <3>2 DEF q
        <4>2. w \in N /\ (v = t.left[w] \/ v = t.right[w])
          BY <2>1, <4>1 DEF NodeShape
        <4>3. w # n /\ w \in M
          BY <1>10, <3>2, <4>2
        <4>4. QED
          BY <1>2, <1>15, <4>1, <4>2, <4>3 DEF q
      <3>3. QED
        BY <3>1, <3>2
    <2>9. QED
      BY <2>2, <2>3, <2>5, <2>6, <2>7, <2>8 DEF NodeShape
  <1>16. M = Sub(g, u.root) /\ (u.root # Nil => u.parent[u.root] = Nil)
    <2>1. N = Sub(f, t.root) /\ t.root \in N /\ t.parent[t.root] = Nil
      BY Links DEF Shape
    <2>2. X(N) = M
      BY DEF X, Exchange, M
    <2>3. CASE q = Nil
      BY <1>2, <1>4, <1>8, <2>1, <2>2, <2>3 DEF q
    <2>4. CASE q # Nil
      <3>1. u.root = t.root /\ t.root # n /\ t.root # s /\ t.root \in Place
        BY <1>1, <1>2, <1>4, <2>1, <2>4 DEF q, Place
      <3>2. t.root # t.left[n] /\ t.root # t.right[n]
        BY <1>1, <1>5, <2>1
      <3>3. QED
        BY <1>2, <1>7, <2>1, <2>2, <3>1, <3>2
    <2>5. QED
      BY <2>3, <2>4
  <1>17. \A v \in M : NodeShape(u, M, g, v)
    BY <1>14, <1>15 DEF M, g, X
  <1>18. Shape(u, M, g)
    BY <1>1, <1>3, <1>6, <1>10, <1>16, <1>17 DEF Shape
  <1>19. QED
    BY <1>18 DEF M, g
-----------------------------------------------------------------------------
(***************************************************************************)
(* A node is linked below a leaf.                                          *)
(***************************************************************************)

\* u is t with n linked below p, on the side of its key.
Inserted(t, N, n, p, u) ==
  /\ u \in Trees
  /\ u.root = IF p = Nil THEN n ELSE t.root
  /\ u.left[n] = Nil /\ u.right[n] = Nil /\ u.parent[n] = p
  /\ \A v \in N :
       /\ u.left[v] = IF v = p /\ n < p THEN n ELSE t.left[v]
       /\ u.right[v] = IF v = p /\ ~ (n < p) THEN n ELSE t.right[v]
       /\ u.parent[v] = t.parent[v]

Grown(f, N, n, p) ==
  [v \in TreeNode |-> IF v = n THEN {n} ELSE IF v \in N /\ p \in f[v] THEN f[v] \cup {n} ELSE f[v]]

\* Linking a node below a leaf adds it, and nothing else, to the tree.
LEMMA InsertedShape ==
  ASSUME NEW t, NEW N, NEW f, Shape(t, N, f), NEW n \in TreeNode, n \notin N, NEW p,
         p = Nil <=> t.root = Nil,
         p # Nil => /\ p \in N /\ n # p /\ Leads(t, N, f, n, p)
                    /\ n < p => t.left[p] = Nil
                    /\ ~ (n < p) => t.right[p] = Nil,
         NEW u, Inserted(t, N, n, p, u)
  PROVE  Shape(u, N \cup {n}, Grown(f, N, n, p))
  <1> DEFINE g == Grown(f, N, n, p)
             M == N \cup {n}
  <1>1. /\ N \subseteq TreeNode /\ Nil \notin TreeNode /\ t \in Trees /\ n # Nil
        /\ f \in [TreeNode -> SUBSET TreeNode] /\ \A v \in TreeNode : v \in f[v]
        /\ \A v \in N : v # n /\ v # Nil /\ v \in Int
        /\ n \in Int
    BY TreeAssumption DEF Shape
  <1>2. /\ u \in Trees
        /\ u.root = IF p = Nil THEN n ELSE t.root
        /\ u.left[n] = Nil /\ u.right[n] = Nil /\ u.parent[n] = p
        /\ \A v \in N :
             /\ u.left[v] = IF v = p /\ n < p THEN n ELSE t.left[v]
             /\ u.right[v] = IF v = p /\ ~ (n < p) THEN n ELSE t.right[v]
             /\ u.parent[v] = t.parent[v]
    BY DEF Inserted
  <1>3. /\ g \in [TreeNode -> SUBSET TreeNode] /\ g[n] = {n}
        /\ \A v \in N : g[v] = IF p \in f[v] THEN f[v] \cup {n} ELSE f[v]
        /\ \A v \in TreeNode : v \in g[v]
    <2>1. \A v \in TreeNode : f[v] \in SUBSET TreeNode /\ v \in f[v] /\ f[v] \cup {n} \in SUBSET TreeNode
      BY <1>1
    <2>2. QED
      BY <1>1, <2>1 DEF Grown
  <1>4. \A c \in N : Sub(g, c) = IF p \in Sub(f, c) THEN Sub(f, c) \cup {n} ELSE Sub(f, c)
    BY <1>1, <1>3 DEF Sub
  <1>5. Sub(g, Nil) = {} /\ Sub(f, Nil) = {} /\ Sub(g, n) = {n}
    BY <1>1, <1>3 DEF Sub
  <1>6. \A c \in N \cup {Nil} : Sub(g, c) = IF p \in Sub(f, c) THEN Sub(f, c) \cup {n} ELSE Sub(f, c)
    BY <1>4, <1>5
  <1>7. \A v \in N : NodeShape(t, N, f, v)
    BY DEF Shape
  <1>8. /\ \A v \in N : t.left[v] # Nil => t.parent[t.left[v]] = v /\ t.left[v] \in N
        /\ \A v \in N : t.right[v] # Nil => t.parent[t.right[v]] = v /\ t.right[v] \in N
        /\ \A v \in N : t.left[v] \in N \cup {Nil} /\ t.right[v] \in N \cup {Nil}
    BY LeftChild, RightChild
  <1>9. p = Nil => N = {}
    BY DEF Shape, Sub
  <1> HIDE DEF g
  <1>10. NodeShape(u, M, g, n)
    <2>1. n # u.root => p # Nil
      BY <1>2
    <2>2. p # Nil => p \in M /\ (n = u.left[p] \/ n = u.right[p])
      BY <1>2
    <2>3. QED
      BY <1>2, <1>3, <1>5, <2>1, <2>2 DEF NodeShape
  <1>11. ASSUME NEW v \in N PROVE NodeShape(u, M, g, v)
    <2> DEFINE l == t.left[v]
               r == t.right[v]
    <2>1. /\ p # Nil /\ p \in N /\ Leads(t, N, f, n, p) /\ n # p /\ p \in Int /\ p \in f[p]
          /\ n < p => t.left[p] = Nil
          /\ ~ (n < p) => t.right[p] = Nil
      BY <1>1, <1>9
    <2>2. /\ f[v] = {v} \cup Sub(f, l) \cup Sub(f, r) /\ f[v] \subseteq N
          /\ \A k \in Sub(f, l) : k < v
          /\ \A k \in Sub(f, r) : v < k
          /\ v \in Int /\ v # n /\ v \in TreeNode
      BY <1>1, <1>7 DEF NodeShape
    <2>3. \A k \in Sub(f, l) : k \notin Sub(f, r) /\ k # v
      BY <1>1, <2>2
    <2>4. v \notin Sub(f, r)
      BY <2>2
    <2>5. /\ Sub(g, l) = IF p \in Sub(f, l) THEN Sub(f, l) \cup {n} ELSE Sub(f, l)
          /\ Sub(g, r) = IF p \in Sub(f, r) THEN Sub(f, r) \cup {n} ELSE Sub(f, r)
          /\ g[v] = IF p \in f[v] THEN f[v] \cup {n} ELSE f[v]
      BY <1>3, <1>6, <1>8
    <2>6. \/ p = v /\ n < v /\ p \notin Sub(f, l) /\ p \notin Sub(f, r)
             /\ u.left[v] = n /\ u.right[v] = r /\ Sub(f, l) = {}
          \/ p = v /\ v < n /\ p \notin Sub(f, l) /\ p \notin Sub(f, r)
             /\ u.left[v] = l /\ u.right[v] = n /\ Sub(f, r) = {}
          \/ p # v /\ n < v /\ p \in Sub(f, l) /\ p \notin Sub(f, r) /\ p \in f[v]
             /\ u.left[v] = l /\ u.right[v] = r
          \/ p # v /\ v < n /\ p \notin Sub(f, l) /\ p \in Sub(f, r) /\ p \in f[v]
             /\ u.left[v] = l /\ u.right[v] = r
          \/ p # v /\ p \notin Sub(f, l) /\ p \notin Sub(f, r) /\ p \notin f[v]
             /\ u.left[v] = l /\ u.right[v] = r
      <3>1. CASE p = v
        <4>1. n < v \/ v < n
          BY <1>1, <2>1, <2>2, <3>1
        <4>2. ~ (n < v /\ v < n)
          BY <1>1, <2>2
        <4>3. p \notin Sub(f, l) /\ p \notin Sub(f, r)
          BY <2>3, <2>4, <3>1
        <4>4. QED
          BY <1>2, <1>5, <2>1, <3>1, <4>1, <4>2, <4>3
      <3>2. CASE p # v /\ p \in f[v]
        <4>1. (n < v /\ p \in Sub(f, l)) \/ (v < n /\ p \in Sub(f, r))
          <5>1. \A x \in N : p \in f[x] /\ x # p =>
                  (n < x /\ p \in Sub(f, t.left[x])) \/ (x < n /\ p \in Sub(f, t.right[x]))
            BY <2>1 DEF Leads
          <5>2. QED
            BY <3>2, <5>1
        <4>2. QED
          BY <1>2, <2>3, <3>2, <4>1
      <3>3. CASE p # v /\ p \notin f[v]
        BY <1>2, <2>2, <3>3
      <3>4. QED
        BY <3>1, <3>2, <3>3
    <2> HIDE DEF l, r
    <2>7. g[v] = {v} \cup Sub(g, u.left[v]) \cup Sub(g, u.right[v]) /\ g[v] \subseteq M
      <3>1. g[v] \subseteq M
        BY <2>2, <2>5
      <3>2. p = v => p \in f[v]
        BY <1>1, <2>2
      <3>3. QED
        BY <1>5, <2>2, <2>5, <2>6, <3>1, <3>2
    <2>8. (\A k \in Sub(g, u.left[v]) : k < v) /\ (\A k \in Sub(g, u.right[v]) : v < k)
      BY <1>5, <2>2, <2>5, <2>6
    <2>9. /\ u.left[v] # Nil => u.parent[u.left[v]] = v
          /\ u.right[v] # Nil => u.parent[u.right[v]] = v
      BY <1>2, <1>8, <2>6 DEF l, r
    <2>10. v # u.root => u.parent[v] \in M /\ (v = u.left[u.parent[v]] \/ v = u.right[u.parent[v]])
      <3>1. u.root = t.root /\ u.parent[v] = t.parent[v]
        BY <1>2, <2>1
      <3> DEFINE q == t.parent[v]
      <3>2. v # t.root => q \in N /\ (v = t.left[q] \/ v = t.right[q])
        BY <1>7 DEF NodeShape
      <3>3. v # t.root => ~ (q = p /\ n < p /\ v = t.left[q]) /\ ~ (q = p /\ ~ (n < p) /\ v = t.right[q])
        BY <1>1, <2>1
      <3>4. QED
        BY <1>2, <3>1, <3>2, <3>3
    <2>11. QED
      BY <2>7, <2>8, <2>9, <2>10 DEF NodeShape
  <1>12. M = Sub(g, u.root) /\ (u.root # Nil => u.parent[u.root] = Nil)
    <2>1. CASE p = Nil
      BY <1>2, <1>5, <1>9, <2>1
    <2>2. CASE p # Nil
      <3>1. t.root \in N /\ t.parent[t.root] = Nil /\ N = Sub(f, t.root) /\ p \in N
        <4>1. p \in N
          BY <2>2
        <4>2. t.root \in N /\ t.root # Nil
          BY <4>1, Links
        <4>3. QED
          BY <4>1, <4>2 DEF Shape
      <3>2. QED
        BY <1>2, <1>6, <2>2, <3>1
    <2>3. QED
      BY <2>1, <2>2
  <1>13. Shape(u, M, g)
    BY <1>1, <1>2, <1>3, <1>10, <1>11, <1>12 DEF Shape
  <1>14. QED
    BY <1>13 DEF g
-----------------------------------------------------------------------------
(***************************************************************************)
(* Black heights.  A tree is balanced if there is a height for each node   *)
(* that is its weight more than the heights of both its children.  A black *)
(* node weighs 1, a red node 0.                                            *)
(***************************************************************************)

\* Black heights: e[v] is the height of v when each node counts as its weight.
Height(e, c) == IF c = Nil THEN 0 ELSE e[c]
Level(t, e, w, v) ==
  Height(e, t.left[v]) = Height(e, t.right[v]) /\ e[v] = Height(e, t.left[v]) + w[v]
Levels(t, N, e, w) == \A v \in N : Level(t, e, w, v)

\* The sibling of a node.
LEMMA SiblingIs ==
  ASSUME NEW t, NEW N, NEW f, Shape(t, N, f), NEW n \in N, t.parent[n] # Nil
  PROVE  LET p == t.parent[n]
         IN  /\ p \in N /\ p # n /\ p \notin f[n]
             /\ \/ n = t.left[p] /\ n # t.right[p] /\ m_rbt_sibling(t, n) = t.right[p]
                \/ n = t.right[p] /\ n # t.left[p] /\ m_rbt_sibling(t, n) = t.left[p]
  <1> DEFINE p == t.parent[n]
  <1>1. p \in N /\ (n = t.left[p] \/ n = t.right[p]) /\ n # Nil
    BY Links
  <1>2. n = t.left[p] => n # t.right[p] /\ p \notin f[n]
    BY <1>1, LeftChild
  <1>3. n = t.right[p] => n # t.left[p] /\ p \notin f[n]
    BY <1>1, RightChild
  <1>4. p # n
    BY <1>1, <1>2, <1>3, Links
  <1>5. QED
    BY <1>1, <1>2, <1>3, <1>4 DEF m_rbt_sibling

\* A rotation that keeps black heights: d and z are the heights and the weights after it.
LEMMA RotateLeftLevels ==
  ASSUME NEW t, NEW N, NEW f, Shape(t, N, f), NEW x \in N, t.right[x] # Nil,
         NEW e \in [TreeNode -> Int], NEW w \in [TreeNode -> Int],
         NEW d \in [TreeNode -> Int], NEW z \in [TreeNode -> Int],
         Levels(t, N, e, w),
         LET y == t.right[x]
             a == t.left[x]
             b == t.left[y]
             c == t.right[y]
         IN  /\ \A v \in N : v # x /\ v # y => d[v] - z[v] = e[v] - w[v]
             /\ \A v \in N : v # x /\ v # y /\ v # a /\ v # c => d[v] = e[v]
             /\ Height(d, a) = Height(e, b) /\ d[x] = Height(d, a) + z[x]
             /\ Height(d, c) = d[x] /\ d[y] = d[x] + z[y] /\ d[y] = e[x]
  PROVE  Levels(m_rbt_rotate_left(t, x), N, d, z)
  <1> DEFINE u == m_rbt_rotate_left(t, x)
             y == t.right[x]
             a == t.left[x]
             b == t.left[y]
             c == t.right[y]
             p == t.parent[x]
  <1>1. \A v \in TreeNode :
           /\ u.left[v] = IF v = y THEN x ELSE IF v = p /\ t.left[p] = x THEN y ELSE t.left[v]
           /\ u.right[v] = IF v = x THEN b ELSE IF v = p /\ t.right[p] = x THEN y ELSE t.right[v]
    BY RotateLeftShape
  <1>2. N \subseteq TreeNode /\ Nil \notin TreeNode /\ x # Nil
    BY TreeAssumption DEF Shape
  <1>3. y \in N /\ x # y /\ t.parent[y] = x /\ y # Nil /\ a # y
    BY <1>2, RightChild
  <1>4. /\ \A v \in N : t.left[v] # Nil => t.parent[t.left[v]] = v /\ t.left[v] \in N /\ t.left[v] # t.right[v]
        /\ \A v \in N : t.right[v] # Nil => t.parent[t.right[v]] = v /\ t.right[v] \in N /\ t.right[v] # t.left[v]
    BY LeftChild, RightChild
  <1>5. p # x /\ p # y
    <2>1. p # Nil => p \in N /\ (x = t.left[p] \/ x = t.right[p])
      BY Links
    <2>2. p # Nil => p \notin f[x] /\ p # x
      BY <1>2, <2>1, LeftChild, RightChild
    <2>3. y \in f[x]
      BY <1>2, RightChild
    <2>4. QED
      BY <1>2, <1>3, <2>2, <2>3
  <1>6. b # Nil => b # x /\ b # y /\ b # a /\ b # c /\ b \in N
    <2>1. b # Nil => t.parent[b] = y /\ b \in N /\ b # c /\ b # y
      BY <1>2, <1>3, LeftChild
    <2>2. a # Nil => t.parent[a] = x
      BY <1>4
    <2>3. QED
      BY <1>3, <1>5, <2>1, <2>2
  <1>7. /\ \A v \in N : v # x /\ v # y => d[v] - z[v] = e[v] - w[v]
        /\ \A v \in N : v # x /\ v # y /\ v # a /\ v # c => d[v] = e[v]
        /\ Height(d, a) = Height(e, b) /\ d[x] = Height(d, a) + z[x]
        /\ Height(d, c) = d[x] /\ d[y] = d[x] + z[y] /\ d[y] = e[x]
    OBVIOUS
  <1>8. \A v \in N : Level(t, e, w, v)
    BY DEF Levels
  <1> HIDE DEF u, y, a, b, c, p
  <1>9. Height(d, b) = Height(e, b)
    BY <1>6, <1>7 DEF Height
  <1>10. Level(u, d, z, x)
    <2>1. u.left[x] = a /\ u.right[x] = b
      <3>1. u.left[x] = t.left[x] /\ u.right[x] = b
        BY <1>1, <1>2, <1>3, <1>5
      <3>2. QED
        BY <3>1 DEF a
    <2>2. QED
      BY <1>7, <1>9, <2>1 DEF Level
  <1>11. Level(u, d, z, y)
    <2>1. u.left[y] = x /\ u.right[y] = c
      <3>1. u.left[y] = x /\ u.right[y] = t.right[y]
        BY <1>1, <1>2, <1>3, <1>5
      <3>2. QED
        BY <3>1 DEF c
    <2>2. Height(d, x) = d[x]
      BY <1>2 DEF Height
    <2>3. QED
      BY <1>7, <2>1, <2>2 DEF Level
  <1>12. ASSUME NEW v \in N, v # x, v # y PROVE Level(u, d, z, v)
    <2>1. \A k \in N : t.parent[k] = v /\ k # x => d[k] = e[k]
      <3>1. a # Nil => t.parent[a] = x
        BY <1>4 DEF a
      <3>2. c # Nil => t.parent[c] = y
        BY <1>3, <1>4 DEF c
      <3>3. QED
        BY <1>2, <1>3, <1>7, <1>12, <3>1, <3>2
    <2>2. Height(d, u.left[v]) = Height(e, t.left[v])
      <3>1. CASE v = p /\ t.left[p] = x
        BY <1>1, <1>2, <1>3, <1>7, <1>12, <3>1 DEF Height
      <3>2. CASE ~ (v = p /\ t.left[p] = x)
        <4>1. u.left[v] = t.left[v]
          BY <1>1, <1>2, <1>12, <3>2
        <4>2. t.left[v] # x
          BY <1>2, <1>4, <3>2 DEF p
        <4>3. QED
          BY <1>4, <2>1, <4>1, <4>2 DEF Height
      <3>3. QED
        BY <3>1, <3>2
    <2>3. Height(d, u.right[v]) = Height(e, t.right[v])
      <3>1. CASE v = p /\ t.right[p] = x
        BY <1>1, <1>2, <1>3, <1>7, <1>12, <3>1 DEF Height
      <3>2. CASE ~ (v = p /\ t.right[p] = x)
        <4>1. u.right[v] = t.right[v]
          BY <1>1, <1>2, <1>12, <3>2
        <4>2. t.right[v] # x
          BY <1>2, <1>4, <3>2 DEF p
        <4>3. QED
          BY <1>4, <2>1, <4>1, <4>2 DEF Height
      <3>3. QED
        BY <3>1, <3>2
    <2>4. d[v] = e[v] - w[v] + z[v]
      <3>1. d[v] \in Int /\ z[v] \in Int /\ e[v] \in Int /\ w[v] \in Int
        BY <1>2
      <3>2. d[v] - z[v] = e[v] - w[v]
        BY <1>7, <1>12
      <3>3. QED
        BY <3>1, <3>2
    <2>5. Height(e, t.left[v]) = Height(e, t.right[v]) /\ e[v] = Height(e, t.left[v]) + w[v]
      BY <1>8 DEF Level
    <2>6. Height(e, t.left[v]) \in Int /\ e[v] \in Int /\ w[v] \in Int /\ z[v] \in Int
      BY <1>2, <1>4 DEF Height
    <2>7. d[v] = Height(e, t.left[v]) + z[v]
      BY <2>4, <2>5, <2>6
    <2>8. QED
      BY <2>2, <2>3, <2>5, <2>7 DEF Level
  <1>13. QED
    BY <1>10, <1>11, <1>12 DEF Levels, u

\* The same on the other side.
LEMMA RotateRightLevels ==
  ASSUME NEW t, NEW N, NEW f, Shape(t, N, f), NEW x \in N, t.left[x] # Nil,
         NEW e \in [TreeNode -> Int], NEW w \in [TreeNode -> Int],
         NEW d \in [TreeNode -> Int], NEW z \in [TreeNode -> Int],
         Levels(t, N, e, w),
         LET y == t.left[x]
             a == t.right[x]
             b == t.right[y]
             c == t.left[y]
         IN  /\ \A v \in N : v # x /\ v # y => d[v] - z[v] = e[v] - w[v]
             /\ \A v \in N : v # x /\ v # y /\ v # a /\ v # c => d[v] = e[v]
             /\ Height(d, a) = Height(e, b) /\ d[x] = Height(d, a) + z[x]
             /\ Height(d, c) = d[x] /\ d[y] = d[x] + z[y] /\ d[y] = e[x]
  PROVE  Levels(m_rbt_rotate_right(t, x), N, d, z)
  <1> DEFINE u == m_rbt_rotate_right(t, x)
             y == t.left[x]
             a == t.right[x]
             b == t.right[y]
             c == t.left[y]
             p == t.parent[x]
  <1>1. \A v \in TreeNode :
           /\ u.right[v] = IF v = y THEN x ELSE IF v = p /\ t.right[p] = x THEN y ELSE t.right[v]
           /\ u.left[v] = IF v = x THEN b ELSE IF v = p /\ t.left[p] = x THEN y ELSE t.left[v]
    BY RotateRightShape
  <1>2. N \subseteq TreeNode /\ Nil \notin TreeNode /\ x # Nil
    BY TreeAssumption DEF Shape
  <1>3. y \in N /\ x # y /\ t.parent[y] = x /\ y # Nil /\ a # y
    BY <1>2, LeftChild
  <1>4. /\ \A v \in N : t.right[v] # Nil => t.parent[t.right[v]] = v /\ t.right[v] \in N /\ t.right[v] # t.left[v]
        /\ \A v \in N : t.left[v] # Nil => t.parent[t.left[v]] = v /\ t.left[v] \in N /\ t.left[v] # t.right[v]
    BY RightChild, LeftChild
  <1>5. p # x /\ p # y
    <2>1. p # Nil => p \in N /\ (x = t.right[p] \/ x = t.left[p])
      BY Links
    <2>2. p # Nil => p \notin f[x] /\ p # x
      BY <1>2, <2>1, RightChild, LeftChild
    <2>3. y \in f[x]
      BY <1>2, LeftChild
    <2>4. QED
      BY <1>2, <1>3, <2>2, <2>3
  <1>6. b # Nil => b # x /\ b # y /\ b # a /\ b # c /\ b \in N
    <2>1. b # Nil => t.parent[b] = y /\ b \in N /\ b # c /\ b # y
      BY <1>2, <1>3, RightChild
    <2>2. a # Nil => t.parent[a] = x
      BY <1>4
    <2>3. QED
      BY <1>3, <1>5, <2>1, <2>2
  <1>7. /\ \A v \in N : v # x /\ v # y => d[v] - z[v] = e[v] - w[v]
        /\ \A v \in N : v # x /\ v # y /\ v # a /\ v # c => d[v] = e[v]
        /\ Height(d, a) = Height(e, b) /\ d[x] = Height(d, a) + z[x]
        /\ Height(d, c) = d[x] /\ d[y] = d[x] + z[y] /\ d[y] = e[x]
    OBVIOUS
  <1>8. \A v \in N : Level(t, e, w, v)
    BY DEF Levels
  <1> HIDE DEF u, y, a, b, c, p
  <1>9. Height(d, b) = Height(e, b)
    BY <1>6, <1>7 DEF Height
  <1>10. Level(u, d, z, x)
    <2>1. u.right[x] = a /\ u.left[x] = b
      <3>1. u.right[x] = t.right[x] /\ u.left[x] = b
        BY <1>1, <1>2, <1>3, <1>5
      <3>2. QED
        BY <3>1 DEF a
    <2>2. QED
      BY <1>7, <1>9, <2>1 DEF Level
  <1>11. Level(u, d, z, y)
    <2>1. u.right[y] = x /\ u.left[y] = c
      <3>1. u.right[y] = x /\ u.left[y] = t.left[y]
        BY <1>1, <1>2, <1>3, <1>5
      <3>2. QED
        BY <3>1 DEF c
    <2>2. Height(d, x) = d[x]
      BY <1>2 DEF Height
    <2>3. QED
      BY <1>7, <2>1, <2>2 DEF Level
  <1>12. ASSUME NEW v \in N, v # x, v # y PROVE Level(u, d, z, v)
    <2>1. \A k \in N : t.parent[k] = v /\ k # x => d[k] = e[k]
      <3>1. a # Nil => t.parent[a] = x
        BY <1>4 DEF a
      <3>2. c # Nil => t.parent[c] = y
        BY <1>3, <1>4 DEF c
      <3>3. QED
        BY <1>2, <1>3, <1>7, <1>12, <3>1, <3>2
    <2>2. Height(d, u.right[v]) = Height(e, t.right[v])
      <3>1. CASE v = p /\ t.right[p] = x
        BY <1>1, <1>2, <1>3, <1>7, <1>12, <3>1 DEF Height
      <3>2. CASE ~ (v = p /\ t.right[p] = x)
        <4>1. u.right[v] = t.right[v]
          BY <1>1, <1>2, <1>12, <3>2
        <4>2. t.right[v] # x
          BY <1>2, <1>4, <3>2 DEF p
        <4>3. QED
          BY <1>4, <2>1, <4>1, <4>2 DEF Height
      <3>3. QED
        BY <3>1, <3>2
    <2>3. Height(d, u.left[v]) = Height(e, t.left[v])
      <3>1. CASE v = p /\ t.left[p] = x
        BY <1>1, <1>2, <1>3, <1>7, <1>12, <3>1 DEF Height
      <3>2. CASE ~ (v = p /\ t.left[p] = x)
        <4>1. u.left[v] = t.left[v]
          BY <1>1, <1>2, <1>12, <3>2
        <4>2. t.left[v] # x
          BY <1>2, <1>4, <3>2 DEF p
        <4>3. QED
          BY <1>4, <2>1, <4>1, <4>2 DEF Height
      <3>3. QED
        BY <3>1, <3>2
    <2>4. d[v] = e[v] - w[v] + z[v]
      <3>1. d[v] \in Int /\ z[v] \in Int /\ e[v] \in Int /\ w[v] \in Int
        BY <1>2
      <3>2. d[v] - z[v] = e[v] - w[v]
        BY <1>7, <1>12
      <3>3. QED
        BY <3>1, <3>2
    <2>5. Height(e, t.right[v]) = Height(e, t.left[v]) /\ e[v] = Height(e, t.right[v]) + w[v]
      BY <1>8 DEF Level
    <2>6. Height(e, t.right[v]) \in Int /\ e[v] \in Int /\ w[v] \in Int /\ z[v] \in Int
      BY <1>2, <1>4 DEF Height
    <2>7. d[v] = Height(e, t.right[v]) + z[v]
      BY <2>4, <2>5, <2>6
    <2>8. QED
      BY <2>2, <2>3, <2>5, <2>7 DEF Level
  <1>13. QED
    BY <1>10, <1>11, <1>12 DEF Levels, u
-----------------------------------------------------------------------------
(***************************************************************************)
(* While m_rbt_remove rebalances the tree, the node that will leave weighs *)
(* 0 and the node the loop is at weighs one more.                          *)
(***************************************************************************)

\* A red node and the node s do not count, the node c counts one more.
Weights(t, s, c) ==
  [v \in TreeNode |-> (IF v \in t.red \/ v = s THEN 0 ELSE 1) + (IF v = c THEN 1 ELSE 0)]
Balanced(t, N, s, c) == \E e \in [TreeNode -> Nat] : Levels(t, N, e, Weights(t, s, c))

\* No red node has a red parent, except for those in X.
Apart(t, X) == \A v \in t.red \ X : t.parent[v] \notin t.red

\* A rotation keeps the tree balanced if the red child takes over the colour of the node.
LEMMA RotateLeftBalanced ==
  ASSUME NEW t, NEW N, NEW f, Shape(t, N, f), NEW x \in N, t.right[x] # Nil,
         NEW q \in Trees, SameLinks(t, q), NEW s, NEW c, s # x, c # x,
         LET y == t.right[x]
         IN  /\ s # y /\ c # y /\ y \in t.red /\ x \in q.red /\ (y \in q.red <=> x \in t.red)
             /\ \A v \in N : v # x /\ v # y => (v \in q.red <=> v \in t.red),
         Balanced(t, N, s, c)
  PROVE  Balanced(m_rbt_rotate_left(q, x), N, s, c)
  <1> DEFINE u == m_rbt_rotate_left(q, x)
             y == t.right[x]
             a == t.left[x]
             b == t.left[y]
             k == t.right[y]
             w == Weights(t, s, c)
             z == Weights(u, s, c)
  <1>1. PICK e \in [TreeNode -> Nat] : Levels(t, N, e, w)
    BY DEF Balanced
  <1>2. Shape(q, N, f)
    BY RecolouredShape
  <1>3. u.red = q.red /\ q.left = t.left /\ q.right = t.right
    BY <1>2, RotateLeftShape DEF SameLinks
  <1>4. /\ w \in [TreeNode -> Int] /\ z \in [TreeNode -> Int]
        /\ \A v \in TreeNode :
             /\ w[v] \in Nat /\ w[v] = (IF v \in t.red \/ v = s THEN 0 ELSE 1) + (IF v = c THEN 1 ELSE 0)
             /\ z[v] \in Nat /\ z[v] = (IF v \in q.red \/ v = s THEN 0 ELSE 1) + (IF v = c THEN 1 ELSE 0)
    BY <1>3 DEF Weights
  <1>5. N \subseteq TreeNode /\ Nil \notin TreeNode /\ x \in TreeNode /\ x # Nil
    BY TreeAssumption DEF Shape
  <1>6. y \in N /\ y # x /\ y # Nil /\ y # a /\ y \in TreeNode /\ t.parent[y] = x
    BY <1>5, RightChild
  <1>7. a # Nil => a \in N /\ a # x /\ t.parent[a] = x
    BY <1>5, LeftChild
  <1>8. /\ b # Nil => b \in N /\ b # y /\ t.parent[b] = y
        /\ k # Nil => k \in N /\ k # y /\ t.parent[k] = y
    BY <1>5, <1>6, LeftChild, RightChild
  <1>9. b # x /\ k # x
    <2>1. t.parent[x] # y
      <3>1. t.parent[x] # Nil => x \notin f[x] \/ t.parent[x] \notin f[x]
        BY SiblingIs
      <3>2. y \in f[x]
        BY RightChild
      <3>3. x \in f[x]
        BY Links
      <3>4. QED
        BY <1>6, <3>1, <3>2, <3>3
    <2>2. QED
      BY <1>5, <1>8, <2>1
  <1>10. Level(t, e, w, x) /\ Level(t, e, w, y)
    BY <1>1, <1>6 DEF Levels
  <1> DEFINE d == [e EXCEPT ![x] = Height(e, b), ![y] = e[x]]
  <1> HIDE DEF w, z
  <1>11. w[y] = 0 /\ z[x] = 0 /\ z[y] = w[x]
    BY <1>4, <1>5, <1>6
  <1>12. \A v \in N : v # x /\ v # y => z[v] = w[v]
    BY <1>4, <1>5
  <1>13. Height(e, b) \in Nat
    BY <1>5, <1>8 DEF Height
  <1>14. /\ d \in [TreeNode -> Nat] /\ d[x] = Height(e, b) /\ d[y] = e[x]
         /\ \A v \in N : v # x /\ v # y => d[v] = e[v]
    BY <1>5, <1>6, <1>13
  <1> HIDE DEF d
  <1>15. e[y] = Height(e, b) /\ Height(e, a) = e[y] /\ e[x] = e[y] + w[x] /\ Height(e, k) = Height(e, b)
    <2>1. Height(e, y) = e[y]
      BY <1>6 DEF Height
    <2>2. QED
      BY <1>10, <1>11, <1>13, <2>1 DEF Level
  <1>16. Height(d, a) = Height(e, a) /\ Height(d, k) = Height(e, k)
    BY <1>6, <1>7, <1>8, <1>9, <1>14 DEF Height
  <1>17. /\ Height(d, a) = Height(e, b) /\ d[x] = Height(d, a) + z[x]
         /\ Height(d, k) = d[x] /\ d[y] = d[x] + z[y] /\ d[y] = e[x]
    BY <1>11, <1>13, <1>14, <1>15, <1>16
  <1>18. \A v \in N : v # x /\ v # y => d[v] - z[v] = e[v] - w[v]
    BY <1>12, <1>14
  <1>19. Levels(q, N, e, w)
    BY <1>1, <1>3 DEF Levels, Level
  <1>20. d \in [TreeNode -> Int] /\ e \in [TreeNode -> Int]
    BY <1>14
  <1>21. Levels(u, N, d, z)
    <2> HIDE DEF u, a, b, k, y
    <2>1. y = q.right[x] /\ a = q.left[x] /\ b = q.left[q.right[x]] /\ k = q.right[q.right[x]]
      BY <1>3 DEF y, a, b, k
    <2>2. q.right[x] # Nil
      BY <1>6, <2>1
    <2>3. /\ \A v \in N : v # x /\ v # q.right[x] => d[v] - z[v] = e[v] - w[v]
          /\ \A v \in N : v # x /\ v # q.right[x] /\ v # q.left[x] /\ v # q.right[q.right[x]] => d[v] = e[v]
          /\ Height(d, q.left[x]) = Height(e, q.left[q.right[x]]) /\ d[x] = Height(d, q.left[x]) + z[x]
          /\ Height(d, q.right[q.right[x]]) = d[x] /\ d[q.right[x]] = d[x] + z[q.right[x]]
          /\ d[q.right[x]] = e[x]
      BY <1>14, <1>17, <1>18, <2>1
    <2>4. w \in [TreeNode -> Int] /\ z \in [TreeNode -> Int]
      BY <1>4
    <2>5. QED
      BY <1>2, <1>19, <1>20, <2>2, <2>3, <2>4, RotateLeftLevels DEF u
  <1>22. QED
    BY <1>14, <1>21 DEF Balanced, z

\* The same on the other side.
LEMMA RotateRightBalanced ==
  ASSUME NEW t, NEW N, NEW f, Shape(t, N, f), NEW x \in N, t.left[x] # Nil,
         NEW q \in Trees, SameLinks(t, q), NEW s, NEW c, s # x, c # x,
         LET y == t.left[x]
         IN  /\ s # y /\ c # y /\ y \in t.red /\ x \in q.red /\ (y \in q.red <=> x \in t.red)
             /\ \A v \in N : v # x /\ v # y => (v \in q.red <=> v \in t.red),
         Balanced(t, N, s, c)
  PROVE  Balanced(m_rbt_rotate_right(q, x), N, s, c)
  <1> DEFINE u == m_rbt_rotate_right(q, x)
             y == t.left[x]
             a == t.right[x]
             b == t.right[y]
             k == t.left[y]
             w == Weights(t, s, c)
             z == Weights(u, s, c)
  <1>1. PICK e \in [TreeNode -> Nat] : Levels(t, N, e, w)
    BY DEF Balanced
  <1>2. Shape(q, N, f)
    BY RecolouredShape
  <1>3. u.red = q.red /\ q.right = t.right /\ q.left = t.left
    BY <1>2, RotateRightShape DEF SameLinks
  <1>4. /\ w \in [TreeNode -> Int] /\ z \in [TreeNode -> Int]
        /\ \A v \in TreeNode :
             /\ w[v] \in Nat /\ w[v] = (IF v \in t.red \/ v = s THEN 0 ELSE 1) + (IF v = c THEN 1 ELSE 0)
             /\ z[v] \in Nat /\ z[v] = (IF v \in q.red \/ v = s THEN 0 ELSE 1) + (IF v = c THEN 1 ELSE 0)
    BY <1>3 DEF Weights
  <1>5. N \subseteq TreeNode /\ Nil \notin TreeNode /\ x \in TreeNode /\ x # Nil
    BY TreeAssumption DEF Shape
  <1>6. y \in N /\ y # x /\ y # Nil /\ y # a /\ y \in TreeNode /\ t.parent[y] = x
    BY <1>5, LeftChild
  <1>7. a # Nil => a \in N /\ a # x /\ t.parent[a] = x
    BY <1>5, RightChild
  <1>8. /\ b # Nil => b \in N /\ b # y /\ t.parent[b] = y
        /\ k # Nil => k \in N /\ k # y /\ t.parent[k] = y
    BY <1>5, <1>6, RightChild, LeftChild
  <1>9. b # x /\ k # x
    <2>1. t.parent[x] # y
      <3>1. t.parent[x] # Nil => x \notin f[x] \/ t.parent[x] \notin f[x]
        BY SiblingIs
      <3>2. y \in f[x]
        BY LeftChild
      <3>3. x \in f[x]
        BY Links
      <3>4. QED
        BY <1>6, <3>1, <3>2, <3>3
    <2>2. QED
      BY <1>5, <1>8, <2>1
  <1>10. Level(t, e, w, x) /\ Level(t, e, w, y)
    BY <1>1, <1>6 DEF Levels
  <1> DEFINE d == [e EXCEPT ![x] = Height(e, b), ![y] = e[x]]
  <1> HIDE DEF w, z
  <1>11. w[y] = 0 /\ z[x] = 0 /\ z[y] = w[x]
    BY <1>4, <1>5, <1>6
  <1>12. \A v \in N : v # x /\ v # y => z[v] = w[v]
    BY <1>4, <1>5
  <1>13. Height(e, b) \in Nat
    BY <1>5, <1>8 DEF Height
  <1>14. /\ d \in [TreeNode -> Nat] /\ d[x] = Height(e, b) /\ d[y] = e[x]
         /\ \A v \in N : v # x /\ v # y => d[v] = e[v]
    BY <1>5, <1>6, <1>13
  <1> HIDE DEF d
  <1>15. e[y] = Height(e, b) /\ Height(e, a) = e[y] /\ e[x] = e[y] + w[x] /\ Height(e, k) = Height(e, b)
    <2>1. Height(e, y) = e[y]
      BY <1>6 DEF Height
    <2>2. QED
      BY <1>10, <1>11, <1>13, <2>1 DEF Level
  <1>16. Height(d, a) = Height(e, a) /\ Height(d, k) = Height(e, k)
    BY <1>6, <1>7, <1>8, <1>9, <1>14 DEF Height
  <1>17. /\ Height(d, a) = Height(e, b) /\ d[x] = Height(d, a) + z[x]
         /\ Height(d, k) = d[x] /\ d[y] = d[x] + z[y] /\ d[y] = e[x]
    BY <1>11, <1>13, <1>14, <1>15, <1>16
  <1>18. \A v \in N : v # x /\ v # y => d[v] - z[v] = e[v] - w[v]
    BY <1>12, <1>14
  <1>19. Levels(q, N, e, w)
    BY <1>1, <1>3 DEF Levels, Level
  <1>20. d \in [TreeNode -> Int] /\ e \in [TreeNode -> Int]
    BY <1>14
  <1>21. Levels(u, N, d, z)
    <2> HIDE DEF u, a, b, k, y
    <2>1. y = q.left[x] /\ a = q.right[x] /\ b = q.right[q.left[x]] /\ k = q.left[q.left[x]]
      BY <1>3 DEF y, a, b, k
    <2>2. q.left[x] # Nil
      BY <1>6, <2>1
    <2>3. /\ \A v \in N : v # x /\ v # q.left[x] => d[v] - z[v] = e[v] - w[v]
          /\ \A v \in N : v # x /\ v # q.left[x] /\ v # q.right[x] /\ v # q.left[q.left[x]] => d[v] = e[v]
          /\ Height(d, q.right[x]) = Height(e, q.right[q.left[x]]) /\ d[x] = Height(d, q.right[x]) + z[x]
          /\ Height(d, q.left[q.left[x]]) = d[x] /\ d[q.left[x]] = d[x] + z[q.left[x]]
          /\ d[q.left[x]] = e[x]
      BY <1>14, <1>17, <1>18, <2>1
    <2>4. w \in [TreeNode -> Int] /\ z \in [TreeNode -> Int]
      BY <1>4
    <2>5. QED
      BY <1>2, <1>19, <1>20, <2>2, <2>3, <2>4, RotateRightLevels DEF u
  <1>22. QED
    BY <1>14, <1>21 DEF Balanced, z

\* A rotation makes up for the black that is missing below x if the far nephew, which is
\* red, turns black.
LEMMA RotateLeftFar ==
  ASSUME NEW t, NEW N, NEW f, Shape(t, N, f), NEW x \in N, t.right[x] # Nil, t.left[x] # Nil,
         NEW q \in Trees, SameLinks(t, q), NEW s, s # x, x \notin q.red,
         LET y == t.right[x]
             k == t.right[y]
         IN  /\ s # y /\ s # k /\ k \in N /\ k \in t.red /\ k \notin q.red
             /\ y \notin t.red /\ (y \in q.red <=> x \in t.red)
             /\ \A v \in N : v # x /\ v # y /\ v # k => (v \in q.red <=> v \in t.red),
         Balanced(t, N, s, t.left[x])
  PROVE  Balanced(m_rbt_rotate_left(q, x), N, s, Nil)
  <1> DEFINE u == m_rbt_rotate_left(q, x)
             y == t.right[x]
             a == t.left[x]
             b == t.left[y]
             k == t.right[y]
             w == Weights(t, s, a)
             z == Weights(u, s, Nil)
  <1>1. PICK e \in [TreeNode -> Nat] : Levels(t, N, e, w)
    BY DEF Balanced
  <1>2. Shape(q, N, f)
    BY RecolouredShape
  <1>3. u.red = q.red /\ q.left = t.left /\ q.right = t.right
    BY <1>2, RotateLeftShape DEF SameLinks
  <1>5. N \subseteq TreeNode /\ Nil \notin TreeNode /\ x \in TreeNode /\ x # Nil
    BY TreeAssumption DEF Shape
  <1>4. /\ w \in [TreeNode -> Int] /\ z \in [TreeNode -> Int]
        /\ \A v \in TreeNode :
             /\ w[v] \in Nat /\ w[v] = (IF v \in t.red \/ v = s THEN 0 ELSE 1) + (IF v = a THEN 1 ELSE 0)
             /\ z[v] \in Nat /\ z[v] = (IF v \in q.red \/ v = s THEN 0 ELSE 1)
    BY <1>3, <1>5 DEF Weights
  <1>6. y \in N /\ y # x /\ y # Nil /\ y # a /\ y \in TreeNode /\ t.parent[y] = x
    BY <1>5, RightChild
  <1>7. a \in N /\ a # x /\ t.parent[a] = x /\ a \in TreeNode
    BY <1>5, LeftChild
  <1>8. /\ b # Nil => b \in N /\ b # y /\ t.parent[b] = y
        /\ k \in N /\ k # y /\ t.parent[k] = y /\ k # Nil /\ k \in TreeNode
        /\ k # b
    BY <1>5, <1>6, LeftChild, RightChild
  <1>9. b # x /\ k # x /\ k # a
    <2>1. t.parent[x] # y
      <3>1. t.parent[x] # Nil => x \notin f[x] \/ t.parent[x] \notin f[x]
        BY SiblingIs
      <3>2. y \in f[x]
        BY RightChild
      <3>3. x \in f[x]
        BY Links
      <3>4. QED
        BY <1>6, <3>1, <3>2, <3>3
    <2>2. QED
      BY <1>5, <1>6, <1>7, <1>8, <2>1
  <1>10. Level(t, e, w, x) /\ Level(t, e, w, y)
    BY <1>1, <1>6 DEF Levels
  <1> DEFINE d == [e EXCEPT ![x] = Height(e, b) + 1, ![y] = e[x], ![a] = e[a] - 1, ![k] = e[k] + 1]
  <1> HIDE DEF w, z
  <1>11. w[y] = 1 /\ z[x] = 1 /\ z[y] = w[x] /\ z[a] = w[a] - 1 /\ z[k] = 1 /\ w[k] = 0
    BY <1>4, <1>5, <1>6, <1>7, <1>8, <1>9
  <1>12. \A v \in N : v # x /\ v # y /\ v # a /\ v # k => z[v] = w[v]
    BY <1>4, <1>5
  <1>13. Height(e, b) \in Nat
    BY <1>5, <1>8 DEF Height
  <1>15. e[y] = Height(e, b) + 1 /\ e[a] = e[y] /\ e[x] = e[y] + w[x] /\ e[k] = Height(e, b)
    <2>1. Height(e, y) = e[y] /\ Height(e, a) = e[a] /\ Height(e, k) = e[k]
      BY <1>5, <1>6, <1>7, <1>8 DEF Height
    <2>2. QED
      BY <1>10, <1>11, <1>13, <2>1 DEF Level
  <1>14. /\ d \in [TreeNode -> Nat] /\ d[x] = Height(e, b) + 1 /\ d[y] = e[x]
         /\ d[a] = e[a] - 1 /\ d[k] = e[k] + 1
         /\ \A v \in N : v # x /\ v # y /\ v # a /\ v # k => d[v] = e[v]
    <2>1. e[a] - 1 \in Nat /\ e[k] + 1 \in Nat /\ e[x] \in Nat /\ Height(e, b) + 1 \in Nat
      BY <1>5, <1>8, <1>13, <1>15
    <2>2. QED
      BY <1>5, <1>6, <1>7, <1>8, <1>9, <2>1
  <1> HIDE DEF d
  <1>16. Height(d, a) = d[a] /\ Height(d, k) = d[k]
    BY <1>5, <1>7, <1>8 DEF Height
  <1>17. /\ Height(d, a) = Height(e, b) /\ d[x] = Height(d, a) + z[x]
         /\ Height(d, k) = d[x] /\ d[y] = d[x] + z[y] /\ d[y] = e[x]
    BY <1>11, <1>13, <1>14, <1>15, <1>16
  <1>18. \A v \in N : v # x /\ v # y => d[v] - z[v] = e[v] - w[v]
    <2>1. \A v \in N : w[v] \in Int /\ e[v] \in Int
      BY <1>4, <1>5
    <2>2. d[a] - z[a] = e[a] - w[a] /\ d[k] - z[k] = e[k] - w[k]
      BY <1>7, <1>8, <1>11, <1>14, <2>1
    <2>3. QED
      BY <1>12, <1>14, <2>2
  <1>19. Levels(q, N, e, w)
    BY <1>1, <1>3 DEF Levels, Level
  <1>20. d \in [TreeNode -> Int] /\ e \in [TreeNode -> Int]
    BY <1>14
  <1>21. Levels(u, N, d, z)
    <2> HIDE DEF u, a, b, k, y
    <2>1. y = q.right[x] /\ a = q.left[x] /\ b = q.left[q.right[x]] /\ k = q.right[q.right[x]]
      BY <1>3 DEF y, a, b, k
    <2>2. q.right[x] # Nil
      BY <1>6, <2>1
    <2>3. /\ \A v \in N : v # x /\ v # q.right[x] => d[v] - z[v] = e[v] - w[v]
          /\ \A v \in N : v # x /\ v # q.right[x] /\ v # q.left[x] /\ v # q.right[q.right[x]] => d[v] = e[v]
          /\ Height(d, q.left[x]) = Height(e, q.left[q.right[x]]) /\ d[x] = Height(d, q.left[x]) + z[x]
          /\ Height(d, q.right[q.right[x]]) = d[x] /\ d[q.right[x]] = d[x] + z[q.right[x]]
          /\ d[q.right[x]] = e[x]
      BY <1>14, <1>17, <1>18, <2>1
    <2>4. w \in [TreeNode -> Int] /\ z \in [TreeNode -> Int]
      BY <1>4
    <2>5. QED
      BY <1>2, <1>19, <1>20, <2>2, <2>3, <2>4, RotateLeftLevels DEF u
  <1>22. QED
    BY <1>14, <1>21 DEF Balanced, z

\* The same on the other side.
LEMMA RotateRightFar ==
  ASSUME NEW t, NEW N, NEW f, Shape(t, N, f), NEW x \in N, t.left[x] # Nil, t.right[x] # Nil,
         NEW q \in Trees, SameLinks(t, q), NEW s, s # x, x \notin q.red,
         LET y == t.left[x]
             k == t.left[y]
         IN  /\ s # y /\ s # k /\ k \in N /\ k \in t.red /\ k \notin q.red
             /\ y \notin t.red /\ (y \in q.red <=> x \in t.red)
             /\ \A v \in N : v # x /\ v # y /\ v # k => (v \in q.red <=> v \in t.red),
         Balanced(t, N, s, t.right[x])
  PROVE  Balanced(m_rbt_rotate_right(q, x), N, s, Nil)
  <1> DEFINE u == m_rbt_rotate_right(q, x)
             y == t.left[x]
             a == t.right[x]
             b == t.right[y]
             k == t.left[y]
             w == Weights(t, s, a)
             z == Weights(u, s, Nil)
  <1>1. PICK e \in [TreeNode -> Nat] : Levels(t, N, e, w)
    BY DEF Balanced
  <1>2. Shape(q, N, f)
    BY RecolouredShape
  <1>3. u.red = q.red /\ q.right = t.right /\ q.left = t.left
    BY <1>2, RotateRightShape DEF SameLinks
  <1>5. N \subseteq TreeNode /\ Nil \notin TreeNode /\ x \in TreeNode /\ x # Nil
    BY TreeAssumption DEF Shape
  <1>4. /\ w \in [TreeNode -> Int] /\ z \in [TreeNode -> Int]
        /\ \A v \in TreeNode :
             /\ w[v] \in Nat /\ w[v] = (IF v \in t.red \/ v = s THEN 0 ELSE 1) + (IF v = a THEN 1 ELSE 0)
             /\ z[v] \in Nat /\ z[v] = (IF v \in q.red \/ v = s THEN 0 ELSE 1)
    BY <1>3, <1>5 DEF Weights
  <1>6. y \in N /\ y # x /\ y # Nil /\ y # a /\ y \in TreeNode /\ t.parent[y] = x
    BY <1>5, LeftChild
  <1>7. a \in N /\ a # x /\ t.parent[a] = x /\ a \in TreeNode
    BY <1>5, RightChild
  <1>8. /\ b # Nil => b \in N /\ b # y /\ t.parent[b] = y
        /\ k \in N /\ k # y /\ t.parent[k] = y /\ k # Nil /\ k \in TreeNode
        /\ k # b
    BY <1>5, <1>6, RightChild, LeftChild
  <1>9. b # x /\ k # x /\ k # a
    <2>1. t.parent[x] # y
      <3>1. t.parent[x] # Nil => x \notin f[x] \/ t.parent[x] \notin f[x]
        BY SiblingIs
      <3>2. y \in f[x]
        BY LeftChild
      <3>3. x \in f[x]
        BY Links
      <3>4. QED
        BY <1>6, <3>1, <3>2, <3>3
    <2>2. QED
      BY <1>5, <1>6, <1>7, <1>8, <2>1
  <1>10. Level(t, e, w, x) /\ Level(t, e, w, y)
    BY <1>1, <1>6 DEF Levels
  <1> DEFINE d == [e EXCEPT ![x] = Height(e, b) + 1, ![y] = e[x], ![a] = e[a] - 1, ![k] = e[k] + 1]
  <1> HIDE DEF w, z
  <1>11. w[y] = 1 /\ z[x] = 1 /\ z[y] = w[x] /\ z[a] = w[a] - 1 /\ z[k] = 1 /\ w[k] = 0
    BY <1>4, <1>5, <1>6, <1>7, <1>8, <1>9
  <1>12. \A v \in N : v # x /\ v # y /\ v # a /\ v # k => z[v] = w[v]
    BY <1>4, <1>5
  <1>13. Height(e, b) \in Nat
    BY <1>5, <1>8 DEF Height
  <1>15. e[y] = Height(e, b) + 1 /\ e[a] = e[y] /\ e[x] = e[y] + w[x] /\ e[k] = Height(e, b)
    <2>1. Height(e, y) = e[y] /\ Height(e, a) = e[a] /\ Height(e, k) = e[k]
      BY <1>5, <1>6, <1>7, <1>8 DEF Height
    <2>2. QED
      BY <1>10, <1>11, <1>13, <2>1 DEF Level
  <1>14. /\ d \in [TreeNode -> Nat] /\ d[x] = Height(e, b) + 1 /\ d[y] = e[x]
         /\ d[a] = e[a] - 1 /\ d[k] = e[k] + 1
         /\ \A v \in N : v # x /\ v # y /\ v # a /\ v # k => d[v] = e[v]
    <2>1. e[a] - 1 \in Nat /\ e[k] + 1 \in Nat /\ e[x] \in Nat /\ Height(e, b) + 1 \in Nat
      BY <1>5, <1>8, <1>13, <1>15
    <2>2. QED
      BY <1>5, <1>6, <1>7, <1>8, <1>9, <2>1
  <1> HIDE DEF d
  <1>16. Height(d, a) = d[a] /\ Height(d, k) = d[k]
    BY <1>5, <1>7, <1>8 DEF Height
  <1>17. /\ Height(d, a) = Height(e, b) /\ d[x] = Height(d, a) + z[x]
         /\ Height(d, k) = d[x] /\ d[y] = d[x] + z[y] /\ d[y] = e[x]
    BY <1>11, <1>13, <1>14, <1>15, <1>16
  <1>18. \A v \in N : v # x /\ v # y => d[v] - z[v] = e[v] - w[v]
    <2>1. \A v \in N : w[v] \in Int /\ e[v] \in Int
      BY <1>4, <1>5
    <2>2. d[a] - z[a] = e[a] - w[a] /\ d[k] - z[k] = e[k] - w[k]
      BY <1>7, <1>8, <1>11, <1>14, <2>1
    <2>3. QED
      BY <1>12, <1>14, <2>2
  <1>19. Levels(q, N, e, w)
    BY <1>1, <1>3 DEF Levels, Level
  <1>20. d \in [TreeNode -> Int] /\ e \in [TreeNode -> Int]
    BY <1>14
  <1>21. Levels(u, N, d, z)
    <2> HIDE DEF u, a, b, k, y
    <2>1. y = q.left[x] /\ a = q.right[x] /\ b = q.right[q.left[x]] /\ k = q.left[q.left[x]]
      BY <1>3 DEF y, a, b, k
    <2>2. q.left[x] # Nil
      BY <1>6, <2>1
    <2>3. /\ \A v \in N : v # x /\ v # q.left[x] => d[v] - z[v] = e[v] - w[v]
          /\ \A v \in N : v # x /\ v # q.left[x] /\ v # q.right[x] /\ v # q.left[q.left[x]] => d[v] = e[v]
          /\ Height(d, q.right[x]) = Height(e, q.right[q.left[x]]) /\ d[x] = Height(d, q.right[x]) + z[x]
          /\ Height(d, q.left[q.left[x]]) = d[x] /\ d[q.left[x]] = d[x] + z[q.left[x]]
          /\ d[q.left[x]] = e[x]
      BY <1>14, <1>17, <1>18, <2>1
    <2>4. w \in [TreeNode -> Int] /\ z \in [TreeNode -> Int]
      BY <1>4
    <2>5. QED
      BY <1>2, <1>19, <1>20, <2>2, <2>3, <2>4, RotateRightLevels DEF u
  <1>22. QED
    BY <1>14, <1>21 DEF Balanced, z
-----------------------------------------------------------------------------
(***************************************************************************)
(* What the end of m_rbt_remove assigns, and what it does to colours and   *)
(* heights.                                                                *)
(***************************************************************************)

\* The tree is red black, but the nodes X may have a red parent, s does not count and
\* c counts one more.
RedBlackBut(t, N, X, s, c) ==
  /\ t.red \subseteq N /\ t.root \notin t.red
  /\ Apart(t, X) /\ Balanced(t, N, s, c)

\* What SwapIn assigns.
SwappedIn(t, n, s, u) ==
  LET a == IF s = t.left[n] THEN Nil ELSE t.left[n]
      q == t.parent[n]
  IN  /\ u \in Trees
      /\ u.root = IF q = Nil THEN s ELSE t.root
      /\ u.red = IF n \in t.red THEN t.red \cup {s} ELSE t.red \ {s}
      /\ \A v \in TreeNode :
           /\ u.left[v] = IF v = s THEN a ELSE IF v = q /\ t.left[q] = n THEN s ELSE t.left[v]
           /\ u.right[v] = IF v = s THEN t.right[n]
                           ELSE IF v = q /\ t.left[q] # n THEN s ELSE t.right[v]
           /\ u.parent[v] = IF v = s THEN q
                            ELSE IF v = a \/ v = t.right[n] THEN s ELSE t.parent[v]

\* SwapIn assigns this.
LEMMA SwapInFields ==
  ASSUME NEW t \in Trees, NEW n \in TreeNode, NEW s \in TreeNode, s # n,
         t.right[n] # s, t.parent[n] # s
  PROVE  SwappedIn(t, n, s, SwapIn(t, n, s))
  <1> DEFINE a == IF s = t.left[n] THEN Nil ELSE t.left[n]
             r == t.right[n]
             q == t.parent[n]
             t1 == [t EXCEPT !.left[s] = a, !.right[s] = r, !.parent[s] = q,
                             !.red = IF n \in t.red THEN @ \cup {s} ELSE @ \ {s}]
             t2 == SetParent(t1, a, s)
             t3 == SetParent(t2, r, s)
             u == SetChild(t3, q, n, s)
  <1>1. a \in Place /\ r \in Place /\ q \in Place /\ s \in Place /\ r # s /\ q # s /\ a # s /\ Nil \notin TreeNode
    BY TreeAssumption DEF Trees, Place
  <1> HIDE DEF a, r, q
  <1>2. /\ t1 \in Trees /\ t1.root = t.root
        /\ t1.red = IF n \in t.red THEN t.red \cup {s} ELSE t.red \ {s}
        /\ \A v \in TreeNode :
             /\ t1.left[v] = IF v = s THEN a ELSE t.left[v]
             /\ t1.right[v] = IF v = s THEN r ELSE t.right[v]
             /\ t1.parent[v] = IF v = s THEN q ELSE t.parent[v]
    BY <1>1 DEF Trees
  <1> HIDE DEF t1
  <1>3. /\ t2 \in Trees /\ t2.root = t1.root /\ t2.left = t1.left /\ t2.right = t1.right
        /\ t2.red = t1.red
        /\ \A v \in TreeNode : t2.parent[v] = IF v = a THEN s ELSE t1.parent[v]
    BY <1>1, <1>2, SetParentFields
  <1> HIDE DEF t2
  <1>4. /\ t3 \in Trees /\ t3.root = t2.root /\ t3.left = t2.left /\ t3.right = t2.right
        /\ t3.red = t2.red
        /\ \A v \in TreeNode : t3.parent[v] = IF v = r THEN s ELSE t2.parent[v]
    BY <1>1, <1>3, SetParentFields
  <1> HIDE DEF t3
  <1>5. /\ u \in Trees /\ u.parent = t3.parent /\ u.red = t3.red
        /\ u.root = IF q = Nil THEN s ELSE t3.root
        /\ \A v \in TreeNode :
             /\ u.left[v] = IF v = q /\ t3.left[q] = n THEN s ELSE t3.left[v]
             /\ u.right[v] = IF v = q /\ t3.left[q] # n THEN s ELSE t3.right[v]
    <2>1. t3 \in Trees /\ q \in Place /\ s \in Place
      BY <1>1, <1>4
    <2>2. QED
      BY ONLY <2>1, SetChildFields
  <1> HIDE DEF u
  <1>6. u = SwapIn(t, n, s)
    BY DEF u, t3, t2, t1, a, r, q, SwapIn
  <1>7. /\ u.root = IF q = Nil THEN s ELSE t.root
        /\ u.red = IF n \in t.red THEN t.red \cup {s} ELSE t.red \ {s}
    BY <1>2, <1>3, <1>4, <1>5
  <1>8. q \in TreeNode => t3.left[q] = t.left[q]
    BY <1>1, <1>2, <1>3, <1>4
  <1>9. ASSUME NEW v \in TreeNode
        PROVE  /\ u.left[v] = IF v = s THEN a ELSE IF v = q /\ t.left[q] = n THEN s ELSE t.left[v]
               /\ u.right[v] = IF v = s THEN r ELSE IF v = q /\ t.left[q] # n THEN s ELSE t.right[v]
               /\ u.parent[v] = IF v = s THEN q ELSE IF v = a \/ v = r THEN s ELSE t.parent[v]
    <2>1. u.parent[v] = IF v = s THEN q ELSE IF v = a \/ v = r THEN s ELSE t.parent[v]
      BY <1>1, <1>2, <1>3, <1>4, <1>5
    <2>2. u.left[v] = IF v = s THEN a ELSE IF v = q /\ t.left[q] = n THEN s ELSE t.left[v]
      BY <1>1, <1>2, <1>3, <1>4, <1>5, <1>8
    <2>3. u.right[v] = IF v = s THEN r ELSE IF v = q /\ t.left[q] # n THEN s ELSE t.right[v]
      BY <1>1, <1>2, <1>3, <1>4, <1>5, <1>8
    <2>4. QED
      BY <2>1, <2>2, <2>3
  <1>10. QED
    <2>1. SwappedIn(t, n, s, u)
      BY <1>5, <1>7, <1>9 DEF a, r, q, SwappedIn
    <2>2. QED
      BY <1>6, <2>1

\* The end of m_rbt_remove: c moves into the place of p's child, n is left without links.
MovedUp(t, n, p, is_left, c) ==
  LET t1 == IF p = Nil THEN [t EXCEPT !.root = c]
            ELSE IF is_left THEN [t EXCEPT !.left[p] = c] ELSE [t EXCEPT !.right[p] = c]
      t2 == SetParent(t1, c, p)
      t3 == IF c = Nil THEN t2 ELSE Black(t2, {c})
  IN  [t3 EXCEPT !.left[n] = Nil, !.right[n] = Nil, !.parent[n] = Nil, !.red = @ \ {n}]

\* These assignments, field by field, but for the fields of n.
LEMMA MovedUpFields ==
  ASSUME NEW t \in Trees, NEW n \in TreeNode, NEW p \in Place, NEW is_left \in BOOLEAN, NEW c \in Place
  PROVE  LET u == MovedUp(t, n, p, is_left, c)
         IN  /\ u \in Trees
             /\ u.root = IF p = Nil THEN c ELSE t.root
             /\ u.red = t.red \ {n, c}
             /\ \A v \in TreeNode : v # n =>
                  /\ u.left[v] = IF v = p /\ is_left THEN c ELSE t.left[v]
                  /\ u.right[v] = IF v = p /\ ~ is_left THEN c ELSE t.right[v]
                  /\ u.parent[v] = IF v = c THEN p ELSE t.parent[v]
  <1> DEFINE t1 == IF p = Nil THEN [t EXCEPT !.root = c]
                   ELSE IF is_left THEN [t EXCEPT !.left[p] = c] ELSE [t EXCEPT !.right[p] = c]
             t2 == SetParent(t1, c, p)
             t3 == IF c = Nil THEN t2 ELSE Black(t2, {c})
             u == [t3 EXCEPT !.left[n] = Nil, !.right[n] = Nil, !.parent[n] = Nil, !.red = @ \ {n}]
  <1>1. /\ t1 \in Trees /\ t1.parent = t.parent /\ t1.red = t.red
        /\ t1.root = IF p = Nil THEN c ELSE t.root
        /\ \A v \in TreeNode :
             /\ t1.left[v] = IF v = p /\ is_left THEN c ELSE t.left[v]
             /\ t1.right[v] = IF v = p /\ ~ is_left THEN c ELSE t.right[v]
    <2>0. Nil \notin TreeNode
      BY TreeAssumption
    <2>1. CASE p = Nil
      BY <2>0, <2>1 DEF Trees, Place
    <2>2. CASE p # Nil /\ is_left
      BY <2>0, <2>2 DEF Trees, Place
    <2>3. CASE p # Nil /\ ~ is_left
      BY <2>0, <2>3 DEF Trees, Place
    <2>4. QED
      BY <2>1, <2>2, <2>3
  <1> HIDE DEF t1
  <1>2. /\ t2 \in Trees /\ t2.root = t1.root /\ t2.left = t1.left /\ t2.right = t1.right
        /\ t2.red = t1.red
        /\ \A v \in TreeNode : t2.parent[v] = IF v = c THEN p ELSE t1.parent[v]
    BY <1>1, SetParentFields
  <1> HIDE DEF t2
  <1>3. t3 \in Trees /\ SameLinks(t2, t3) /\ t3.red = t2.red \ {c}
    <2>1. CASE c = Nil
      BY <1>2, <2>1, TreeAssumption DEF SameLinks, Trees
    <2>2. CASE c # Nil
      BY <1>2, <2>2, Recoloured DEF Place
    <2>3. QED
      BY <2>1, <2>2
  <1> HIDE DEF t3
  <1>4. /\ u \in Trees /\ u.root = t3.root /\ u.red = t3.red \ {n}
        /\ \A v \in TreeNode : v # n =>
             u.left[v] = t3.left[v] /\ u.right[v] = t3.right[v] /\ u.parent[v] = t3.parent[v]
    BY <1>3 DEF Trees, Place
  <1>5. u = MovedUp(t, n, p, is_left, c)
    BY DEF u, t3, t2, t1, MovedUp
  <1> HIDE DEF u
  <1>6. QED
    BY <1>1, <1>2, <1>3, <1>4, <1>5 DEF SameLinks

\* What a splice does to the colours: the only child of s, which is red, turns black.
LEMMA SplicedBalanced ==
  ASSUME NEW t, NEW N, NEW f, Shape(t, N, f), NEW s \in N, NEW c, OnlyChild(t, s, c),
         RedBlackBut(t, N, {}, IF c = Nil THEN s ELSE Nil, Nil),
         NEW u, Spliced(t, N, s, c, u), u.red = t.red \ {s, c}
  PROVE  RedBlackBut(u, N \ {s}, {}, Nil, Nil)
  <1> DEFINE p == t.parent[s]
             x == IF c = Nil THEN s ELSE Nil
             w == Weights(t, x, Nil)
             z == Weights(u, Nil, Nil)
  <1>1. /\ N \subseteq TreeNode /\ Nil \notin TreeNode /\ t.red \subseteq N /\ t.root \notin t.red
        /\ Apart(t, {}) /\ Balanced(t, N, x, Nil) /\ s \in TreeNode /\ s # Nil
    BY TreeAssumption DEF Shape, RedBlackBut
  <1>2. /\ u.root = IF p = Nil THEN c ELSE t.root
        /\ \A v \in N \ {s} :
             /\ u.left[v] = IF v = p /\ t.left[p] = s THEN c ELSE t.left[v]
             /\ u.right[v] = IF v = p /\ t.right[p] = s THEN c ELSE t.right[v]
             /\ u.parent[v] = IF v = c THEN p ELSE t.parent[v]
    BY DEF Spliced
  <1>3. c # Nil => c \in N /\ c # s /\ t.parent[c] = s
    BY <1>1, LeftChild, RightChild DEF OnlyChild
  <1>4. PICK e \in [TreeNode -> Nat] : Levels(t, N, e, w)
    BY <1>1 DEF Balanced
  <1>5. \A v \in TreeNode : /\ w[v] = IF v \in t.red \/ v = x THEN 0 ELSE 1
                            /\ z[v] = IF v \in u.red THEN 0 ELSE 1
    BY <1>1 DEF Weights
  <1> HIDE DEF w, z
  <1>6. Level(t, e, w, s)
    BY <1>4 DEF Levels
  <1>7. /\ c = Nil => e[s] = 0
        /\ c # Nil => e[c] = 0 /\ w[c] = 0 /\ e[s] = 1
    <2>1. CASE c = Nil
      <3>1. t.left[s] = Nil /\ w[s] = 0
        BY <1>1, <1>5, <2>1 DEF OnlyChild
      <3>2. QED
        BY <1>6, <2>1, <3>1 DEF Level, Height
    <2>2. CASE c # Nil
      <3>1. Height(e, t.left[s]) = 0 /\ Height(e, t.right[s]) = 0 /\ e[c] = 0
        <4>1. Height(e, Nil) = 0 /\ Height(e, c) = e[c]
          BY <2>2 DEF Height
        <4>2. Height(e, t.left[s]) = Height(e, t.right[s])
          BY <1>6 DEF Level
        <4>3. QED
          BY <4>1, <4>2 DEF OnlyChild
      <3>2. Level(t, e, w, c) /\ c \in TreeNode /\ t.left[c] \in Place
        <4>1. c \in N
          BY <1>3, <2>2
        <4>2. QED
          BY <1>1, <1>4, <4>1, Links DEF Levels
      <3>3. Height(e, t.left[c]) \in Nat
        BY <1>4, <3>2 DEF Height, Place
      <3>4. w[c] = 0
        BY <1>5, <3>1, <3>2, <3>3 DEF Level
      <3>5. c \in t.red
        BY <1>1, <1>3, <1>5, <2>2, <3>2, <3>4
      <3>6. s \notin t.red
        BY <1>1, <1>3, <2>2, <3>5 DEF Apart
      <3>7. w[s] = 1
        BY <1>1, <1>5, <2>2, <3>6
      <3>8. e[s] = 1
        BY <1>6, <3>1, <3>7 DEF Level
      <3>9. QED
        BY <2>2, <3>1, <3>4, <3>8
    <2>3. QED
      BY <2>1, <2>2
  <1> DEFINE d == [v \in TreeNode |-> IF v = c THEN 1 ELSE e[v]]
  <1>8. /\ d \in [TreeNode -> Nat] /\ (c # Nil => d[c] = 1)
        /\ \A v \in TreeNode : v # c => d[v] = e[v]
    BY <1>1, <1>3
  <1> HIDE DEF d
  <1>9. Height(d, c) = e[s]
    BY <1>7, <1>8 DEF Height
  <1>10. /\ \A v \in N : t.left[v] # Nil => t.parent[t.left[v]] = v
         /\ \A v \in N : t.right[v] # Nil => t.parent[t.right[v]] = v
    BY LeftChild, RightChild
  <1>11. \A v \in N : v # s /\ v # c => z[v] = w[v]
    BY <1>1, <1>5
  <1>12. c # Nil => z[c] = 1
    BY <1>1, <1>3, <1>5
  <1>13. ASSUME NEW v \in N \ {s} PROVE Level(u, d, z, v)
    <2>1. Level(t, e, w, v) /\ t.left[v] \in Place /\ t.right[v] \in Place /\ v \in TreeNode
      BY <1>1, <1>4, Links DEF Levels
    <2>2. Height(d, u.left[v]) = Height(e, t.left[v])
      <3>1. CASE v = p /\ t.left[p] = s
        <4>1. u.left[v] = c
          BY <1>2, <3>1
        <4>2. Height(e, t.left[v]) = e[s]
          BY <1>1, <3>1 DEF Height
        <4>3. QED
          BY <1>9, <4>1, <4>2
      <3>2. CASE ~ (v = p /\ t.left[p] = s)
        <4>1. u.left[v] = t.left[v]
          BY <1>2, <3>2
        <4>2. t.left[v] # Nil => t.left[v] # c
          BY <1>3, <1>10
        <4>3. QED
          BY <1>8, <2>1, <4>1, <4>2 DEF Height, Place
      <3>3. QED
        BY <3>1, <3>2
    <2>3. Height(d, u.right[v]) = Height(e, t.right[v])
      <3>1. CASE v = p /\ t.right[p] = s
        <4>1. u.right[v] = c
          BY <1>2, <3>1
        <4>2. Height(e, t.right[v]) = e[s]
          BY <1>1, <3>1 DEF Height
        <4>3. QED
          BY <1>9, <4>1, <4>2
      <3>2. CASE ~ (v = p /\ t.right[p] = s)
        <4>1. u.right[v] = t.right[v]
          BY <1>2, <3>2
        <4>2. t.right[v] # Nil => t.right[v] # c
          BY <1>3, <1>10
        <4>3. QED
          BY <1>8, <2>1, <4>1, <4>2 DEF Height, Place
      <3>3. QED
        BY <3>1, <3>2
    <2>4. Height(e, t.left[v]) \in Nat
      BY <1>4, <2>1 DEF Height, Place
    <2>5. d[v] = Height(e, t.left[v]) + z[v]
      <3>1. CASE v = c
        <4>1. c # Nil /\ e[v] = Height(e, t.left[v]) + w[v]
          BY <1>1, <2>1, <3>1 DEF Level
        <4>2. QED
          BY <1>7, <1>8, <1>12, <2>4, <3>1, <4>1
      <3>2. CASE v # c
        BY <1>8, <1>11, <2>1, <3>2 DEF Level
      <3>3. QED
        BY <3>1, <3>2
    <2>6. QED
      BY <2>1, <2>2, <2>3, <2>5 DEF Level
  <1>14. Balanced(u, N \ {s}, Nil, Nil)
    BY <1>8, <1>13 DEF Balanced, Levels, z
  <1>15. Apart(u, {})
    BY <1>1, <1>2 DEF Apart
  <1>16. u.root \notin u.red
    BY <1>1, <1>2
  <1>17. QED
    BY <1>1, <1>14, <1>15, <1>16 DEF RedBlackBut

\* A node that takes over the links and the colour of another one.
LEMMA ReplacedBalanced ==
  ASSUME NEW t, NEW N, NEW f, Shape(t, N, f), NEW n \in N, NEW s \in TreeNode, s \notin N,
         RedBlackBut(t, N, {}, Nil, Nil), NEW u, Replaced(t, N, n, s, u),
         u.red = IF n \in t.red THEN (t.red \ {n}) \cup {s} ELSE t.red
  PROVE  RedBlackBut(u, (N \ {n}) \cup {s}, {}, Nil, Nil)
  <1> DEFINE q == t.parent[n]
             M == (N \ {n}) \cup {s}
             w == Weights(t, Nil, Nil)
             z == Weights(u, Nil, Nil)
  <1>1. /\ N \subseteq TreeNode /\ Nil \notin TreeNode /\ t.red \subseteq N /\ t.root \notin t.red
        /\ Apart(t, {}) /\ Balanced(t, N, Nil, Nil) /\ n \in TreeNode /\ n # s /\ s # Nil /\ n # Nil
    BY TreeAssumption DEF Shape, RedBlackBut
  <1>2. /\ u.root = IF q = Nil THEN s ELSE t.root
        /\ u.left[s] = t.left[n] /\ u.right[s] = t.right[n] /\ u.parent[s] = q
        /\ \A v \in N \ {n} :
             /\ u.left[v] = IF v = q /\ t.left[q] = n THEN s ELSE t.left[v]
             /\ u.right[v] = IF v = q /\ t.right[q] = n THEN s ELSE t.right[v]
             /\ u.parent[v] = IF v = t.left[n] \/ v = t.right[n] THEN s ELSE t.parent[v]
    BY DEF Replaced
  <1>3. PICK e \in [TreeNode -> Nat] : Levels(t, N, e, w)
    BY <1>1 DEF Balanced
  <1>4. \A v \in TreeNode : /\ w[v] = IF v \in t.red THEN 0 ELSE 1
                            /\ z[v] = IF v \in u.red THEN 0 ELSE 1
    BY <1>1 DEF Weights
  <1>5. z[s] = w[n] /\ \A v \in N \ {n} : z[v] = w[v]
    BY <1>1, <1>4
  <1> DEFINE d == [e EXCEPT ![s] = e[n]]
  <1>6. d \in [TreeNode -> Nat] /\ d[s] = e[n] /\ \A v \in N : d[v] = e[v]
    BY <1>1
  <1> HIDE DEF d, w, z
  <1>7. /\ \A v \in N : t.left[v] \in N \cup {Nil} /\ t.right[v] \in N \cup {Nil}
        /\ \A v \in N : t.left[v] # Nil => t.parent[t.left[v]] = v
        /\ \A v \in N : t.right[v] # Nil => t.parent[t.right[v]] = v
    BY LeftChild, RightChild
  <1>8. \A c \in N \cup {Nil} : Height(d, c) = Height(e, c)
    BY <1>6 DEF Height
  <1>9. Level(u, d, z, s)
    BY <1>2, <1>3, <1>5, <1>6, <1>7, <1>8 DEF Level, Levels
  <1>10. ASSUME NEW v \in N \ {n} PROVE Level(u, d, z, v)
    <2>1. Level(t, e, w, v) /\ d[v] = e[v] /\ z[v] = w[v]
      BY <1>3, <1>5, <1>6 DEF Levels
    <2>2. Height(d, s) = e[n] /\ Height(e, n) = e[n]
      BY <1>1, <1>6 DEF Height
    <2>3. Height(d, u.left[v]) = Height(e, t.left[v])
      BY <1>2, <1>7, <1>8, <2>2
    <2>4. Height(d, u.right[v]) = Height(e, t.right[v])
      BY <1>2, <1>7, <1>8, <2>2
    <2>5. QED
      BY <2>1, <2>3, <2>4 DEF Level
  <1>11. Balanced(u, M, Nil, Nil)
    BY <1>6, <1>9, <1>10 DEF Balanced, Levels, z
  <1>12. n = t.root <=> q = Nil
    BY Links
  <1>13. t.root \in N
    BY Links
  <1>14. u.root \notin u.red
    BY <1>1, <1>2, <1>12, <1>13
  <1>15. ASSUME NEW v \in u.red PROVE u.parent[v] \notin u.red
    <2>1. CASE v = s
      <3>1. n \in t.red
        BY <1>1, <1>15, <2>1
      <3>2. q \notin t.red /\ q # s
        <4>1. q \in N \cup {Nil}
          BY <1>12, Links
        <4>2. QED
          BY <1>1, <3>1, <4>1 DEF Apart
      <3>3. QED
        BY <1>2, <2>1, <3>2
    <2>2. CASE v # s
      <3>1. v \in t.red /\ v \in N \ {n}
        <4>1. v \in t.red
          BY <1>15, <2>2
        <4>2. v # n
          BY <1>1, <1>15
        <4>3. QED
          BY <1>1, <4>1, <4>2
      <3>2. CASE v = t.left[n] \/ v = t.right[n]
        <4>1. t.parent[v] = n /\ u.parent[v] = s
          BY <1>1, <1>2, <1>7, <3>1, <3>2
        <4>2. n \notin t.red
          BY <1>1, <3>1, <4>1 DEF Apart
        <4>3. QED
          BY <1>1, <4>1, <4>2
      <3>3. CASE ~ (v = t.left[n] \/ v = t.right[n])
        <4>1. u.parent[v] = t.parent[v] /\ t.parent[v] \notin t.red
          BY <1>1, <1>2, <3>1, <3>3 DEF Apart
        <4>2. t.parent[v] # s
          <5>1. t.parent[v] \in N \cup {Nil}
            BY <3>1, Links
          <5>2. QED
            BY <1>1, <5>1
        <4>3. QED
          BY <4>1, <4>2
      <3>4. QED
        BY <3>2, <3>3
    <2>3. QED
      BY <2>1, <2>2
  <1>16. u.red \subseteq M /\ Apart(u, {})
    BY <1>1, <1>15 DEF Apart
  <1>17. QED
    BY <1>11, <1>14, <1>16 DEF RedBlackBut
=============================================================================
