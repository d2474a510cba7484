-------------------------- MODULE ContainerProofs ---------------------------
(***************************************************************************)
(* The containers, for any sets of nodes and keys: the hash table of       *)
(* include/m_hash.h, the root table of src/m_gc_root.c that is one, and    *)
(* the lists of include/m_list.h.                                          *)
(***************************************************************************)
EXTENDS HashTable, GcRoot, Lists, DataLemmas
-----------------------------------------------------------------------------
(***************************************************************************)
(* The hash table is a set of nodes with unique keys, for any size of the  *)
(* first buffer.                                                           *)
(***************************************************************************)

\* The loop of m_hash_resize as a function of the number of nodes moved.
IsRehash(f, nodes, key, nsize) ==
  f = [i \in 0 .. Len(nodes) |->
         IF i = 0 THEN [q \in 1 .. nsize |-> <<>>]
         ELSE [f[i - 1] EXCEPT ![(key[nodes[i]] % nsize) + 1] = Cons(nodes[i], @)]]

\* The recursion of the loop in m_hash_resize has a solution.
LEMMA RehashExists ==
  ASSUME NEW S, NEW nodes \in Seq(S), NEW key, NEW nsize
  PROVE  \E f : IsRehash(f, nodes, key, nsize)
  <1> DEFINE Start == [q \in 1 .. nsize |-> <<>>]
             Step(l, i) == [l EXCEPT ![(key[nodes[i]] % nsize) + 1] = Cons(nodes[i], @)]
             Upto(f, n) == f = [i \in 0 .. n |-> IF i = 0 THEN Start ELSE Step(f[i - 1], i)]
             T == {n \in 0 .. Len(nodes) : \E f : Upto(f, n)}
  <1>1. Len(nodes) \in Nat
    OBVIOUS
  <1>2. 0 \in T
    <2> DEFINE g == [i \in 0 .. 0 |-> Start]
    <2> HIDE DEF Start, Step
    <2>1. Upto(g, 0)
      OBVIOUS
    <2> HIDE DEF Upto, g
    <2>2. QED
      BY <1>1, <2>1
  <1>3. ASSUME NEW n \in 1 .. Len(nodes), n - 1 \in T PROVE n \in T
    <2> HIDE DEF Start, Step
    <2>1. PICK f : Upto(f, n - 1)
      BY <1>3
    <2> DEFINE g == [i \in 0 .. n |-> IF i < n THEN f[i] ELSE Step(f[n - 1], n)]
    <2>2. \A i \in 0 .. n - 1 : f[i] = IF i = 0 THEN Start ELSE Step(f[i - 1], i)
      BY <2>1
    <2>3. ASSUME NEW i \in 0 .. n PROVE g[i] = IF i = 0 THEN Start ELSE Step(g[i - 1], i)
      <3>1. CASE i < n
        <4>1. g[i] = f[i] /\ (i # 0 => g[i - 1] = f[i - 1])
          BY <3>1
        <4> HIDE DEF g
        <4>2. QED
          BY <2>2, <3>1, <4>1
      <3>2. CASE i = n
        <4>1. g[i - 1] = f[i - 1] /\ g[i] = Step(f[n - 1], n) /\ i # 0
          BY <3>2
        <4> HIDE DEF g
        <4>2. QED
          BY <3>2, <4>1
      <3>3. QED
        BY <3>1, <3>2
    <2>4. Upto(g, n)
      <3>1. g = [i \in 0 .. n |-> g[i]]
        OBVIOUS
      <3> HIDE DEF g
      <3>2. QED
        BY <2>3, <3>1
    <2> HIDE DEF Upto, g
    <2>5. QED
      BY <2>4
  <1>4. \A n \in 0 .. Len(nodes) : n \in T
    <2> HIDE DEF T
    <2>1. QED
      BY <1>1, <1>2, <1>3, Induction
  <1>5. PICK f : Upto(f, Len(nodes))
    <2> HIDE DEF Upto
    <2>1. QED
      BY <1>1, <1>4
  <1>6. QED
    BY <1>5 DEF IsRehash

\* Every node is on the list its key selects, once if it was once among the
\* nodes.
LEMMA RehashFacts ==
  ASSUME NEW S, NEW nodes \in Seq(S), NEW key \in [S -> Nat], NEW nsize \in Nat \ {0}
  PROVE  LET R == Rehashed(nodes, key, nsize)
         IN  /\ R \in Seq(Seq(S)) /\ Len(R) = nsize
             /\ \A q \in 1 .. nsize :
                  /\ ToSet(R[q]) = {n \in ToSet(nodes) : (key[n] % nsize) + 1 = q}
                  /\ IsInjective(nodes) => IsInjective(R[q])
  <1> DEFINE f == CHOOSE g : IsRehash(g, nodes, key, nsize)
             N == Len(nodes)
             Slot(i) == (key[nodes[i]] % nsize) + 1
             Seen(i, q) == {nodes[j] : j \in {k \in 1 .. i : Slot(k) = q}}
             Good(i) == /\ f[i] \in [1 .. nsize -> Seq(S)]
                        /\ \A q \in 1 .. nsize :
                             /\ ToSet(f[i][q]) = Seen(i, q)
                             /\ IsInjective(nodes) => IsInjective(f[i][q])
             T == {i \in 0 .. N : Good(i)}
  <1>1. N \in Nat /\ nodes \in [1 .. N -> S]
    OBVIOUS
  <1>2. Rehashed(nodes, key, nsize) = f[N]
    BY DEF Rehashed, IsRehash
  <1>3. IsRehash(f, nodes, key, nsize)
    BY RehashExists
  <1> HIDE DEF f
  <1>4. f[0] = [q \in 1 .. nsize |-> <<>>]
    BY <1>1, <1>3 DEF IsRehash
  <1>5. \A i \in 1 .. N : f[i] = [f[i - 1] EXCEPT ![Slot(i)] = Cons(nodes[i], @)]
    <2> DEFINE Start == [q \in 1 .. nsize |-> <<>>]
               Step(l, i) == [l EXCEPT ![Slot(i)] = Cons(nodes[i], @)]
    <2>1. f = [i \in 0 .. N |-> IF i = 0 THEN Start ELSE Step(f[i - 1], i)]
      BY <1>3 DEF IsRehash
    <2> HIDE DEF Start, Step, N
    <2>2. \A i \in 1 .. N : f[i] = Step(f[i - 1], i)
      BY <1>1, <2>1
    <2>3. QED
      BY <2>2 DEF Step
  <1>6. \A i \in 1 .. N : Slot(i) \in 1 .. nsize /\ nodes[i] \in S
    BY <1>1
  <1> HIDE DEF N, Slot
  <1>7. Good(0)
    <2>1. \A q \in 1 .. nsize : Seen(0, q) = {}
      OBVIOUS
    <2>2. ToSet(<<>>) = {} /\ IsInjective(<<>>) /\ <<>> \in Seq(S)
      BY DEF ToSet, IsInjective
    <2> HIDE DEF Seen
    <2>3. QED
      BY <1>4, <2>1, <2>2
  <1>8. ASSUME NEW i \in 1 .. N, Good(i - 1) PROVE Good(i)
    <2> DEFINE l == f[i - 1]
               p == Slot(i)
    <2>1. l \in [1 .. nsize -> Seq(S)] /\ p \in 1 .. nsize /\ nodes[i] \in S
      BY <1>6, <1>8
    <2>2. \A q \in 1 .. nsize : f[i][q] = IF q = p THEN Cons(nodes[i], l[q]) ELSE l[q]
      BY <1>5, <2>1
    <2>3. f[i] \in [1 .. nsize -> Seq(S)]
      <3>1. Cons(nodes[i], l[p]) \in Seq(S)
        BY <2>1, ConsFacts
      <3>2. f[i] = [l EXCEPT ![p] = Cons(nodes[i], l[p])]
        BY <1>5, <2>1
      <3> HIDE DEF l, p
      <3>3. QED
        BY <2>1, <3>1, <3>2
    <2>4. ASSUME NEW q \in 1 .. nsize
          PROVE  /\ ToSet(f[i][q]) = Seen(i, q)
                 /\ IsInjective(nodes) => IsInjective(f[i][q])
      <3>1. ToSet(l[q]) = Seen(i - 1, q) /\ (IsInjective(nodes) => IsInjective(l[q])) /\ l[q] \in Seq(S)
        BY <1>8, <2>1
      <3>2. CASE q # p
        <4>1. Seen(i, q) = Seen(i - 1, q)
          <5>1. \A k \in 1 .. i : Slot(k) = q <=> k \in 1 .. i - 1 /\ Slot(k) = q
            BY <1>1, <3>2
          <5>2. {k \in 1 .. i : Slot(k) = q} = {k \in 1 .. i - 1 : Slot(k) = q}
            BY <1>1, <5>1
          <5>3. QED
            BY <5>2
        <4>2. QED
          BY <2>2, <3>1, <3>2, <4>1
      <3>3. CASE q = p
        <4>1. Seen(i, q) = Seen(i - 1, q) \cup {nodes[i]}
          <5>1. {k \in 1 .. i : Slot(k) = q} = {k \in 1 .. i - 1 : Slot(k) = q} \cup {i}
            BY <1>1, <3>3
          <5>2. QED
            BY <5>1
        <4>2. IsInjective(nodes) => nodes[i] \notin Seen(i - 1, q)
          <5>1. \A j \in 1 .. i - 1 : j \in 1 .. N /\ j # i
            BY <1>1
          <5>2. DOMAIN nodes = 1 .. N
            BY <1>1
          <5>3. QED
            BY <5>1, <5>2 DEF IsInjective
        <4>3. f[i][q] = Cons(nodes[i], l[q])
          BY <2>2, <3>3
        <4> HIDE DEF Seen, l, p
        <4>4. /\ ToSet(Cons(nodes[i], l[q])) = ToSet(l[q]) \cup {nodes[i]}
              /\ IsInjective(l[q]) /\ nodes[i] \notin ToSet(l[q])
                   => IsInjective(Cons(nodes[i], l[q]))
          <5> DEFINE t == l[q]
                     e == nodes[i]
          <5>1. t \in Seq(S) /\ e \in S
            BY <2>1, <3>1
          <5> HIDE DEF t, e
          <5>2. QED
            <6>1. /\ ToSet(Cons(e, t)) = ToSet(t) \cup {e}
                  /\ IsInjective(t) /\ e \notin ToSet(t) => IsInjective(Cons(e, t))
              BY <5>1, ConsFacts
            <6>2. QED
              BY <6>1 DEF t, e
        <4>5. QED
          BY <3>1, <4>1, <4>2, <4>3, <4>4
      <3>4. QED
        BY <3>2, <3>3
    <2>5. QED
      BY <2>3, <2>4
  <1>9. Good(N)
    <2> HIDE DEF Good
    <2>1. 0 \in T /\ \A i \in 1 .. N : i - 1 \in T => i \in T
      BY <1>1, <1>7, <1>8
    <2>2. \A i \in 0 .. N : i \in T
      <3> HIDE DEF T
      <3>1. QED
        BY <1>1, <2>1, Induction
    <2>3. QED
      BY <1>1, <2>2
  <1>10. ASSUME NEW q \in 1 .. nsize
         PROVE  Seen(N, q) = {n \in ToSet(nodes) : (key[n] % nsize) + 1 = q}
    BY <1>1 DEF ToSet, Slot
  <1>11. f[N] \in Seq(Seq(S)) /\ Len(f[N]) = nsize
    BY <1>9
  <1>12. QED
    BY <1>2, <1>9, <1>10, <1>11
-----------------------------------------------------------------------------
Shape(h, S) == h \in [lists : Seq(Seq(S)), size : Nat]

\* The nodes of a table are those on its lists, finitely many.
LEMMA NodesAre ==
  ASSUME NEW S, NEW h, Shape(h, S)
  PROVE  /\ nlist(h) \in Nat /\ h.lists \in [1 .. nlist(h) -> Seq(S)]
         /\ Nodes(h) = UNION {ToSet(h.lists[q]) : q \in 1 .. nlist(h)}
         /\ Nodes(h) \subseteq S /\ IsFiniteSet(Nodes(h))
  <1>1. h.lists \in Seq(Seq(S))
    BY DEF Shape
  <1>2. nlist(h) \in Nat /\ h.lists \in [1 .. nlist(h) -> Seq(S)]
    BY <1>1 DEF nlist
  <1>3. /\ FlattenSeq(h.lists) \in Seq(S)
        /\ Nodes(h) = UNION {ToSet(h.lists[q]) : q \in 1 .. nlist(h)}
    BY <1>1, FlattenFacts DEF Nodes, nlist
  <1>4. Nodes(h) \subseteq S /\ IsFiniteSet(Nodes(h))
    BY <1>3, ToSetFinite DEF Nodes
  <1>5. QED
    BY <1>2, <1>3, <1>4

\* A resize keeps the nodes and leaves at least one list; if it moves them,
\* each is on the list of its key.
LEMMA ResizeShape ==
  ASSUME NEW S, NEW key \in [S -> Nat], NEW h, Shape(h, S)
  PROVE  LET r == m_hash_resize(h, key)
         IN  /\ Shape(r, S) /\ r.size = h.size /\ nlist(r) \in Nat \ {0}
             /\ Nodes(r) = Nodes(h)
             /\ r = h \/ \A q \in 1 .. nlist(r) :
                  /\ ToSet(r.lists[q]) = {n \in Nodes(h) : (key[n] % nlist(r)) + 1 = q}
                  /\ IsInjective(FlattenSeq(h.lists)) => IsInjective(r.lists[q])
  <1> DEFINE r == m_hash_resize(h, key)
             nsize == IF h.size > MinLists THEN h.size ELSE MinLists
             nodes == FlattenSeq(h.lists)
             R == Rehashed(nodes, key, nsize)
  <1>1. /\ h.lists \in Seq(Seq(S)) /\ h.size \in Nat /\ nlist(h) \in Nat
        /\ h = [lists |-> h.lists, size |-> h.size]
    BY DEF Shape, nlist
  <1>2. nsize \in Nat \ {0}
    BY <1>1, HashAssumption
  <1>3. CASE nlist(h) * 3 > h.size
    <2>1. r = h
      BY <1>3 DEF m_hash_resize
    <2>2. nlist(h) # 0
      BY <1>1, <1>3
    <2> HIDE DEF r
    <2>3. QED
      BY <1>1, <2>1, <2>2 DEF r
  <1>4. CASE ~ (nlist(h) * 3 > h.size)
    <2>1. r = [h EXCEPT !.lists = R]
      BY <1>4 DEF m_hash_resize
    <2>2. nodes \in Seq(S) /\ ToSet(nodes) = Nodes(h)
      BY <1>1, FlattenFacts DEF Nodes
    <2> HIDE DEF nodes, nsize
    <2>3. /\ R \in Seq(Seq(S)) /\ Len(R) = nsize
          /\ \A q \in 1 .. nsize :
               /\ ToSet(R[q]) = {n \in ToSet(nodes) : (key[n] % nsize) + 1 = q}
               /\ IsInjective(nodes) => IsInjective(R[q])
      BY <1>2, <2>2, RehashFacts
    <2> HIDE DEF R, r
    <2>4. r = [lists |-> R, size |-> h.size]
      BY <1>1, <2>1
    <2>5. Shape(r, S) /\ r.size = h.size /\ nlist(r) = nsize /\ r.lists = R
      BY <1>1, <2>3, <2>4 DEF Shape, nlist
    <2>6. Nodes(r) = Nodes(h)
      <3>1. Nodes(r) = UNION {ToSet(R[q]) : q \in 1 .. nsize}
        BY <2>5, NodesAre
      <3>2. \A n \in Nodes(h) : (key[n] % nsize) + 1 \in 1 .. nsize
        <4>1. Nodes(h) \subseteq S
          BY NodesAre
        <4>2. QED
          BY <1>2, <4>1
      <3>3. QED
        BY <2>2, <2>3, <3>1, <3>2
    <2>7. QED
      BY <1>2, <2>2, <2>3, <2>5, <2>6 DEF r, nodes
  <1>5. QED
    BY <1>3, <1>4

\* r is the table h with n on the list that k selects.
WithNode(S, h, n, k, r) ==
  /\ Pos(h, k) \in 1 .. nlist(h)
  /\ Shape(r, S) /\ r.size = h.size + 1 /\ nlist(r) = nlist(h)
  /\ \A q \in 1 .. nlist(h) :
       r.lists[q] = IF q = Pos(h, k) THEN Cons(n, h.lists[q]) ELSE h.lists[q]
  /\ Nodes(r) = Nodes(h) \cup {n}

\* m_hash_insert: the node is put on the list its key selects.
LEMMA InsertShape ==
  ASSUME NEW S, NEW h, Shape(h, S), nlist(h) # 0, NEW n \in S, NEW k \in Nat
  PROVE  WithNode(S, h, n, k, m_hash_insert_with_kv(h, n, k))
  <1> DEFINE r == m_hash_insert_with_kv(h, n, k)
             p == Pos(h, k)
             ls == [h.lists EXCEPT ![p] = Cons(n, h.lists[p])]
  <1>1. /\ h.lists \in Seq(Seq(S)) /\ h.size \in Nat /\ nlist(h) \in Nat \ {0}
        /\ h = [lists |-> h.lists, size |-> h.size] /\ nlist(h) = Len(h.lists)
    BY DEF Shape, nlist
  <1>2. p \in 1 .. nlist(h)
    BY <1>1 DEF Pos
  <1>3. h.lists[p] \in Seq(S)
    BY <1>1, <1>2
  <1>4. r = [lists |-> ls, size |-> h.size + 1]
    <2> DEFINE a == h.lists
               b == h.size
    <2> HIDE DEF a, b, p
    <2>1. h = [lists |-> a, size |-> b] /\ p \in DOMAIN a
      BY <1>1, <1>2 DEF a, b
    <2>2. r = [h EXCEPT !.lists[p] = Cons(n, @), !.size = @ + 1]
      BY DEF m_hash_insert_with_kv, p
    <2>3. r = [lists |-> [a EXCEPT ![p] = Cons(n, a[p])], size |-> b + 1]
      <3> HIDE DEF r
      <3>1. QED
        BY <2>1, <2>2
    <2>4. QED
      BY <2>3 DEF a, b
  <1> HIDE DEF r, p
  <1>5. Cons(n, h.lists[p]) \in Seq(S) /\ ToSet(Cons(n, h.lists[p])) = ToSet(h.lists[p]) \cup {n}
    <2> DEFINE l == h.lists[p]
    <2>1. l \in Seq(S)
      BY <1>3
    <2> HIDE DEF l
    <2>2. Cons(n, l) \in Seq(S) /\ ToSet(Cons(n, l)) = ToSet(l) \cup {n}
      BY <2>1, ConsFacts
    <2>3. QED
      BY <2>2 DEF l
  <1>6. /\ ls \in Seq(Seq(S)) /\ Len(ls) = nlist(h)
        /\ \A q \in 1 .. nlist(h) : ls[q] = IF q = p THEN Cons(n, h.lists[q]) ELSE h.lists[q]
    BY <1>1, <1>2, <1>5
  <1> HIDE DEF ls
  <1>7. Shape(r, S) /\ r.size = h.size + 1 /\ nlist(r) = nlist(h) /\ r.lists = ls
    BY <1>1, <1>4, <1>6 DEF Shape, nlist
  <1>8. Nodes(r) = Nodes(h) \cup {n}
    <2>1. Nodes(r) = UNION {ToSet(ls[q]) : q \in 1 .. nlist(h)}
      BY <1>7, NodesAre
    <2>2. Nodes(h) = UNION {ToSet(h.lists[q]) : q \in 1 .. nlist(h)}
      BY NodesAre
    <2>3. \A q \in 1 .. nlist(h) : ToSet(ls[q]) = ToSet(h.lists[q]) \cup (IF q = p THEN {n} ELSE {})
      BY <1>5, <1>6
    <2>4. QED
      BY <1>2, <2>1, <2>2, <2>3
  <1>9. QED
    BY <1>2, <1>6, <1>7, <1>8 DEF r, p, WithNode

\* m_hash_remove: the node leaves the list its key selects.
LEMMA RemoveShape ==
  ASSUME NEW S, NEW h, Shape(h, S), NEW p \in 1 .. nlist(h), NEW i \in 1 .. Len(h.lists[p]),
         h.size # 0
  PROVE  LET r == m_hash_remove_from_prev(h, [pos |-> p, i |-> i])
         IN  /\ Shape(r, S) /\ r.size = h.size - 1 /\ nlist(r) = nlist(h)
             /\ \A q \in 1 .. nlist(h) :
                  r.lists[q] = IF q = p THEN RemoveAt(h.lists[q], i) ELSE h.lists[q]
  <1> DEFINE r == m_hash_remove_from_prev(h, [pos |-> p, i |-> i])
             ls == [h.lists EXCEPT ![p] = RemoveAt(h.lists[p], i)]
  <1>1. /\ h.lists \in Seq(Seq(S)) /\ h.size \in Nat /\ nlist(h) \in Nat
        /\ h = [lists |-> h.lists, size |-> h.size] /\ nlist(h) = Len(h.lists)
    BY DEF Shape, nlist
  <1>2. h.lists[p] \in Seq(S)
    BY <1>1
  <1>3. r = [lists |-> ls, size |-> h.size - 1]
    <2> DEFINE a == h.lists
               b == h.size
    <2> HIDE DEF a, b
    <2>1. h = [lists |-> a, size |-> b] /\ p \in DOMAIN a
      BY <1>1 DEF a, b
    <2>2. r = [h EXCEPT !.lists[p] = RemoveAt(@, i), !.size = @ - 1]
      BY DEF m_hash_remove_from_prev
    <2>3. r = [lists |-> [a EXCEPT ![p] = RemoveAt(a[p], i)], size |-> b - 1]
      <3> HIDE DEF r
      <3>1. QED
        BY <2>1, <2>2
    <2>4. QED
      BY <2>3 DEF a, b
  <1> HIDE DEF r
  <1>4. RemoveAt(h.lists[p], i) \in Seq(S)
    <2> DEFINE l == h.lists[p]
    <2>1. l \in Seq(S) /\ i \in 1 .. Len(l)
      BY <1>2
    <2> HIDE DEF l
    <2>2. RemoveAt(l, i) \in Seq(S)
      BY <2>1, RemoveAtFacts
    <2>3. QED
      BY <2>2 DEF l
  <1>5. /\ ls \in Seq(Seq(S)) /\ Len(ls) = nlist(h)
        /\ \A q \in 1 .. nlist(h) : ls[q] = IF q = p THEN RemoveAt(h.lists[q], i) ELSE h.lists[q]
    BY <1>1, <1>4
  <1> HIDE DEF ls
  <1>6. Shape(r, S) /\ r.size = h.size - 1 /\ nlist(r) = nlist(h) /\ r.lists = ls
    BY <1>1, <1>3, <1>5 DEF Shape, nlist
  <1>7. QED
    BY <1>5, <1>6 DEF r

\* The place in a list of the first node with a key.
PlaceOfKey(l, key, k) == SelectInSeq(l, LAMBDA n : key[n] = k)

\* A search along a list finds a node with the key or there is none.
LEMMA SelectKey ==
  ASSUME NEW S, NEW l \in Seq(S), NEW key, NEW k
  PROVE  LET i == PlaceOfKey(l, key, k)
         IN  \/ i = 0 /\ \A j \in 1 .. Len(l) : key[l[j]] # k
             \/ i \in 1 .. Len(l) /\ key[l[i]] = k
  <1> DEFINE I == {j \in 1 .. Len(l) : key[l[j]] = k}
             i == PlaceOfKey(l, key, k)
  <1>1. i = IF I # {} THEN Min(I) ELSE 0
    BY DEF SelectInSeq, PlaceOfKey
  <1>2. I # {} => Min(I) \in I
    <2>1. I \subseteq Nat
      OBVIOUS
    <2> HIDE DEF I
    <2>2. I # {} => \E x \in I : \A y \in I : x <= y
      BY <2>1, LeastElement
    <2>3. QED
      BY <2>2 DEF Min
  <1> HIDE DEF i
  <1>3. QED
    BY <1>1, <1>2 DEF i
-----------------------------------------------------------------------------
\* What holds of the table between any two steps: every node is on the list of
\* its key, once, no two nodes have the same key, and the nodes are counted.
TableInv(h) ==
  /\ Shape(h, Node)
  /\ \A q \in 1 .. nlist(h) : IsInjective(h.lists[q])
  /\ \A q \in 1 .. nlist(h) : \A n \in ToSet(h.lists[q]) : (KeyOf[n] % nlist(h)) + 1 = q
  /\ \A m, n \in Nodes(h) : KeyOf[m] = KeyOf[n] => m = n
  /\ h.size = Cardinality(Nodes(h))

\* No node is on two lists, so the lists joined have none twice.
LEMMA TableFlat ==
  ASSUME NEW h, TableInv(h)
  PROVE  /\ \A p, q \in 1 .. nlist(h) : p # q => ToSet(h.lists[p]) \cap ToSet(h.lists[q]) = {}
         /\ IsInjective(FlattenSeq(h.lists)) /\ FlattenSeq(h.lists) \in Seq(Node)
  <1>1. \A p, q \in 1 .. nlist(h) : p # q => ToSet(h.lists[p]) \cap ToSet(h.lists[q]) = {}
    BY DEF TableInv
  <1>2. h.lists \in Seq(Seq(Node)) /\ \A q \in 1 .. Len(h.lists) : IsInjective(h.lists[q])
    BY DEF TableInv, Shape, nlist
  <1>3. QED
    BY <1>1, <1>2, FlattenFacts DEF nlist

\* m_hash_init leaves an empty table without lists.
LEMMA EmptyTable == TableInv(m_hash_init) /\ Nodes(m_hash_init) = {} /\ nlist(m_hash_init) = 0
  <1> DEFINE h == m_hash_init
  <1>1. h.lists = <<>> /\ h.size = 0 /\ Shape(h, Node) /\ nlist(h) = 0
    BY DEF m_hash_init, Shape, nlist
  <1> HIDE DEF h
  <1>2. Nodes(h) = {}
    <2>1. Nodes(h) = UNION {ToSet(h.lists[q]) : q \in 1 .. nlist(h)}
      BY <1>1, NodesAre
    <2>2. QED
      BY <1>1, <2>1
  <1>3. TableInv(h)
    BY <1>1, <1>2, FS_EmptySet DEF TableInv
  <1>4. QED
    BY <1>1, <1>2, <1>3 DEF h

\* m_hash_resize keeps the table and its nodes.
LEMMA ResizeInv ==
  ASSUME NEW h, TableInv(h)
  PROVE  LET r == m_hash_resize(h, KeyOf)
         IN  TableInv(r) /\ Nodes(r) = Nodes(h) /\ nlist(r) # 0
  <1> DEFINE r == m_hash_resize(h, KeyOf)
  <1>1. Shape(h, Node) /\ KeyOf \in [Node -> Nat]
    BY TableAssumption DEF TableInv
  <1>2. /\ Shape(r, Node) /\ r.size = h.size /\ nlist(r) \in Nat \ {0}
        /\ Nodes(r) = Nodes(h)
        /\ r = h \/ \A q \in 1 .. nlist(r) :
             /\ ToSet(r.lists[q]) = {n \in Nodes(h) : (KeyOf[n] % nlist(r)) + 1 = q}
             /\ IsInjective(FlattenSeq(h.lists)) => IsInjective(r.lists[q])
    BY <1>1, ResizeShape
  <1> HIDE DEF r
  <1>3. CASE r = h
    BY <1>2, <1>3 DEF r
  <1>4. CASE r # h
    <2>1. TableInv(r)
      BY <1>2, <1>4, TableFlat DEF TableInv
    <2>2. QED
      BY <1>2, <2>1 DEF r
  <1>5. QED
    BY <1>3, <1>4

\* m_hash_insert of a node with a new key keeps the table and adds it.
LEMMA InsertInv ==
  ASSUME NEW h, TableInv(h), nlist(h) # 0, NEW n \in Node,
         \A m \in Nodes(h) : KeyOf[m] # KeyOf[n]
  PROVE  LET r == m_hash_insert_with_kv(h, n, KeyOf[n])
         IN  TableInv(r) /\ Nodes(r) = Nodes(h) \cup {n}
  <1> DEFINE r == m_hash_insert_with_kv(h, n, KeyOf[n])
             p == Pos(h, KeyOf[n])
  <1>1. Shape(h, Node) /\ KeyOf[n] \in Nat /\ n \notin Nodes(h)
    BY TableAssumption DEF TableInv
  <1>2. /\ p \in 1 .. nlist(h)
        /\ Shape(r, Node) /\ r.size = h.size + 1 /\ nlist(r) = nlist(h)
        /\ \A q \in 1 .. nlist(h) : r.lists[q] = IF q = p THEN Cons(n, h.lists[q]) ELSE h.lists[q]
        /\ Nodes(r) = Nodes(h) \cup {n}
    <2>1. nlist(h) # 0 /\ n \in Node
      OBVIOUS
    <2>2. WithNode(Node, h, n, KeyOf[n], r)
      BY ONLY <1>1, <2>1, InsertShape
    <2>3. QED
      BY <2>2 DEF WithNode
  <1>3. p = (KeyOf[n] % nlist(h)) + 1
    BY DEF Pos
  <1> HIDE DEF r, p
  <1>4. h.lists[p] \in Seq(Node) /\ n \notin ToSet(h.lists[p]) /\ IsFiniteSet(Nodes(h))
    BY <1>1, <1>2, NodesAre
  <1>5. /\ ToSet(Cons(n, h.lists[p])) = ToSet(h.lists[p]) \cup {n}
        /\ IsInjective(Cons(n, h.lists[p]))
    <2> DEFINE l == h.lists[p]
    <2>1. l \in Seq(Node) /\ n \notin ToSet(l) /\ IsInjective(l)
      BY <1>2, <1>4 DEF TableInv
    <2> HIDE DEF l
    <2>2. ToSet(Cons(n, l)) = ToSet(l) \cup {n} /\ IsInjective(Cons(n, l))
      BY <2>1, ConsFacts
    <2>3. QED
      BY <2>2 DEF l
  <1>6. \A q \in 1 .. nlist(r) : IsInjective(r.lists[q])
    BY <1>2, <1>5 DEF TableInv
  <1>7. \A q \in 1 .. nlist(r) : \A m \in ToSet(r.lists[q]) : (KeyOf[m] % nlist(r)) + 1 = q
    BY <1>2, <1>3, <1>5 DEF TableInv
  <1>8. \A m1, m2 \in Nodes(r) : KeyOf[m1] = KeyOf[m2] => m1 = m2
    BY <1>2 DEF TableInv
  <1>9. r.size = Cardinality(Nodes(r))
    BY <1>1, <1>2, <1>4, FS_AddElement DEF TableInv
  <1>10. QED
    BY <1>2, <1>6, <1>7, <1>8, <1>9 DEF TableInv, r

\* m_hash_remove keeps the table and takes the node out.
LEMMA RemoveInv ==
  ASSUME NEW h, TableInv(h), NEW p \in 1 .. nlist(h), NEW i \in 1 .. Len(h.lists[p])
  PROVE  LET r == m_hash_remove_from_prev(h, [pos |-> p, i |-> i])
         IN  /\ TableInv(r) /\ nlist(r) = nlist(h)
             /\ h.lists[p][i] \in Nodes(h) /\ Nodes(r) = Nodes(h) \ {h.lists[p][i]}
             /\ \A q \in 1 .. nlist(h) :
                  r.lists[q] = IF q = p THEN RemoveAt(h.lists[q], i) ELSE h.lists[q]
  <1> DEFINE r == m_hash_remove_from_prev(h, [pos |-> p, i |-> i])
             l == h.lists[p]
             n == l[i]
  <1>1. /\ Shape(h, Node) /\ IsFiniteSet(Nodes(h)) /\ l \in Seq(Node) /\ IsInjective(l)
        /\ Nodes(h) = UNION {ToSet(h.lists[q]) : q \in 1 .. nlist(h)}
    BY NodesAre DEF TableInv
  <1>2. n \in ToSet(l) /\ n \in Nodes(h)
    BY <1>1 DEF ToSet
  <1>3. h.size # 0
    BY <1>1, <1>2, FS_EmptySet DEF TableInv
  <1>4. /\ Shape(r, Node) /\ r.size = h.size - 1 /\ nlist(r) = nlist(h)
        /\ \A q \in 1 .. nlist(h) :
             r.lists[q] = IF q = p THEN RemoveAt(h.lists[q], i) ELSE h.lists[q]
    BY <1>1, <1>3, RemoveShape
  <1>5. ToSet(RemoveAt(l, i)) = ToSet(l) \ {n} /\ IsInjective(RemoveAt(l, i))
    <2>1. l \in Seq(Node) /\ i \in 1 .. Len(l) /\ IsInjective(l)
      BY <1>1
    <2> HIDE DEF l
    <2>2. QED
      BY <2>1, RemoveAtFacts
  <1> HIDE DEF r, n
  <1>6. \A q \in 1 .. nlist(h) : ToSet(r.lists[q]) = ToSet(h.lists[q]) \ {n}
    <2>1. ASSUME NEW q \in 1 .. nlist(h), q # p PROVE n \notin ToSet(h.lists[q])
      BY <1>2, <2>1, TableFlat
    <2>2. ASSUME NEW q \in 1 .. nlist(h), q # p PROVE ToSet(r.lists[q]) = ToSet(h.lists[q]) \ {n}
      BY <1>4, <2>1, <2>2
    <2>3. ToSet(r.lists[p]) = ToSet(h.lists[p]) \ {n}
      BY <1>4, <1>5
    <2>4. QED
      BY <2>2, <2>3
  <1>7. Nodes(r) = Nodes(h) \ {n}
    <2>1. Nodes(r) = UNION {ToSet(r.lists[q]) : q \in 1 .. nlist(h)}
      BY <1>4, NodesAre
    <2>2. \A m : m \in Nodes(r) <=> \E q \in 1 .. nlist(h) : m \in ToSet(h.lists[q]) \ {n}
      BY <1>6, <2>1
    <2>3. \A m : m \in Nodes(h) <=> \E q \in 1 .. nlist(h) : m \in ToSet(h.lists[q])
      BY <1>1
    <2>4. QED
      BY <2>2, <2>3
  <1>8. r.size = Cardinality(Nodes(r))
    BY <1>1, <1>2, <1>4, <1>7, FS_RemoveElement DEF TableInv
  <1>9. \A q \in 1 .. nlist(r) : IsInjective(r.lists[q])
    BY <1>4, <1>5 DEF TableInv
  <1>10. TableInv(r)
    BY <1>4, <1>6, <1>7, <1>8, <1>9 DEF TableInv
  <1>11. QED
    BY <1>2, <1>4, <1>7, <1>10 DEF r, n

\* A lookup finds the node with the key, if the table has one.
LEMMA LookupFacts ==
  ASSUME NEW h, TableInv(h), NEW k \in Nat
  PROVE  LET found == m_hash_lookup(h, KeyOf, k)
         IN  /\ \A place \in found :
                  /\ place = [pos |-> place.pos, i |-> place.i]
                  /\ place.pos \in 1 .. nlist(h) /\ place.i \in 1 .. Len(h.lists[place.pos])
                  /\ KeyOf[h.lists[place.pos][place.i]] = k
             /\ \A n \in Nodes(h) : KeyOf[n] = k => found # {}
  <1> DEFINE found == m_hash_lookup(h, KeyOf, k)
             p == Pos(h, k)
             l == h.lists[p]
             i == PlaceOfKey(l, KeyOf, k)
  <1>1. /\ Shape(h, Node) /\ IsFiniteSet(Nodes(h)) /\ nlist(h) \in Nat
        /\ Nodes(h) = UNION {ToSet(h.lists[q]) : q \in 1 .. nlist(h)}
        /\ h.lists \in [1 .. nlist(h) -> Seq(Node)]
    BY NodesAre DEF TableInv
  <1>2. CASE h.size = 0
    <2>1. found = {}
      BY <1>2 DEF m_hash_lookup
    <2>2. Nodes(h) = {}
      BY <1>1, <1>2, FS_EmptySet DEF TableInv
    <2>3. QED
      BY <2>1, <2>2
  <1>3. CASE h.size # 0
    <2>1. found = IF i = 0 THEN {} ELSE {[pos |-> p, i |-> i]}
      BY <1>3 DEF m_hash_lookup, PlaceOfKey
    <2>2. nlist(h) # 0
      <3>1. Nodes(h) # {}
        BY <1>3, FS_EmptySet DEF TableInv
      <3>2. QED
        BY <1>1, <3>1
    <2>3. p \in 1 .. nlist(h) /\ p = (k % nlist(h)) + 1 /\ l \in Seq(Node)
      BY <1>1, <2>2 DEF Pos
    <2>4. \/ i = 0 /\ \A j \in 1 .. Len(l) : KeyOf[l[j]] # k
          \/ i \in 1 .. Len(l) /\ KeyOf[l[i]] = k
      <3>1. l \in Seq(Node)
        BY <2>3
      <3> HIDE DEF l
      <3>2. QED
        BY <3>1, SelectKey
    <2> HIDE DEF i, found
    <2>5. ASSUME NEW n \in Nodes(h), KeyOf[n] = k PROVE i # 0
      <3>1. n \in ToSet(l)
        BY <1>1, <2>3, <2>5 DEF TableInv
      <3>2. QED
        BY <2>3, <2>4, <2>5, <3>1 DEF ToSet
    <2>6. \A place \in found :
             /\ place = [pos |-> place.pos, i |-> place.i]
             /\ place.pos \in 1 .. nlist(h) /\ place.i \in 1 .. Len(h.lists[place.pos])
             /\ KeyOf[h.lists[place.pos][place.i]] = k
      BY <2>1, <2>3, <2>4
    <2>7. QED
      BY <2>1, <2>5, <2>6 DEF found
  <1>4. QED
    BY <1>2, <1>3
-----------------------------------------------------------------------------
Item(l, i) == IF i \in 1 .. Len(l) THEN l[i] ELSE Null

\* The nodes that a traversal at index i of list p has still to show.
Left(h, p, i) ==
  {h.lists[p][j] : j \in i .. Len(h.lists[p])} \cup UNION {ToSet(h.lists[q]) : q \in p + 1 .. nlist(h)}

\* A traversal has shown the nodes before its place, each once, and has those
\* from there on left.
LoopInv ==
  /\ loop \in {"none", "safe", "prev", "done"}
  /\ loop # "none" => visited \in Seq(Node) /\ IsInjective(visited)
  /\ loop = "done" => ToSet(visited) = expected
  /\ loop \in {"safe", "prev"} =>
       /\ pos \in 1 .. nlist(hash)
       /\ \E i \in 1 .. Len(hash.lists[pos]) + 1 :
            /\ loop = "prev" => pnode = i
            /\ loop = "safe" => node = Item(hash.lists[pos], i) /\ next = Item(hash.lists[pos], i + 1)
            /\ ToSet(visited) \cap Left(hash, pos, i) = {}
            /\ ToSet(visited) \cup Left(hash, pos, i) = expected

HashInv == TableInv(hash) /\ LoopInv

\* The pointer a safe loop saves: the node after it on its list, or NULL.
LEMMA SavedNextIs ==
  ASSUME NEW l \in Seq(Node), IsInjective(l), NEW i \in 1 .. Len(l) + 1
  PROVE  SavedNext(l, Item(l, i)) = Item(l, i + 1)
  <1>1. \A n : SavedNext(l, n) = IF n = Null \/ PlaceOf(l, n) = Len(l) THEN Null ELSE l[PlaceOf(l, n) + 1]
    BY DEF SavedNext, PlaceOf
  <1>2. CASE i \in 1 .. Len(l)
    <2>1. l[i] # Null /\ Item(l, i) = l[i]
      BY <1>2, TableAssumption DEF Item
    <2>2. PlaceOf(l, l[i]) = i
      BY <1>2, PlaceOfInjective
    <2>3. Item(l, i + 1) = IF i = Len(l) THEN Null ELSE l[i + 1]
      BY <1>2 DEF Item
    <2>4. QED
      BY <1>1, <2>1, <2>2, <2>3
  <1>3. CASE i = Len(l) + 1
    <2>1. Item(l, i) = Null /\ Item(l, i + 1) = Null
      BY <1>3 DEF Item
    <2>2. QED
      BY <1>1, <2>1
  <1>4. QED
    BY <1>2, <1>3

\* Every step keeps the table sound and does to its nodes what KeyedSet allows.
LEMMA TableStep ==
  ASSUME HashInv, [Next]_vars
  PROVE  TableInv(hash') /\ [Content!Next]_(Nodes(hash))
  <1>1. TableInv(hash) /\ Shape(hash, Node)
    BY DEF HashInv, TableInv
  <1> DEFINE Kept == hash' = hash
  <1>2. Kept => TableInv(hash') /\ [Content!Next]_(Nodes(hash))
    <2>1. Kept => Nodes(hash)' = Nodes(hash)
      BY DEF Nodes
    <2>2. QED
      BY <1>1, <2>1
  <1>3. ASSUME NEW p \in 1 .. nlist(hash), NEW i \in 1 .. Len(hash.lists[p]),
               hash' = m_hash_remove_from_prev(hash, [pos |-> p, i |-> i])
        PROVE  TableInv(hash') /\ [Content!Next]_(Nodes(hash))
    <2> DEFINE n == hash.lists[p][i]
    <2>1. TableInv(hash') /\ n \in Nodes(hash) /\ Nodes(hash') = Nodes(hash) \ {n}
      BY <1>1, <1>3, RemoveInv
    <2>2. n \in Node /\ Nodes(hash)' = Nodes(hash')
      BY <1>1, <2>1, NodesAre DEF Nodes
    <2> HIDE DEF n
    <2>3. Content!Remove(n)
      BY <2>1, <2>2 DEF Content!Remove
    <2>4. QED
      BY <2>1, <2>2, <2>3 DEF Content!Next
  <1>4. ASSUME NEW k \in Nat, NEW place \in Lookup(k), hash' = m_hash_remove_from_prev(hash, place)
        PROVE  TableInv(hash') /\ [Content!Next]_(Nodes(hash))
    <2>1. /\ place = [pos |-> place.pos, i |-> place.i]
          /\ place.pos \in 1 .. nlist(hash) /\ place.i \in 1 .. Len(hash.lists[place.pos])
      BY <1>1, LookupFacts DEF Lookup
    <2>2. QED
      BY <1>3, <1>4, <2>1
  <1>5. ASSUME NEW n \in Node \ Nodes(hash), NEW resize \in BOOLEAN, insert(n, resize)
        PROVE  TableInv(hash') /\ [Content!Next]_(Nodes(hash))
    <2> DEFINE h == IF resize THEN m_hash_resize(hash, KeyOf) ELSE hash
    <2>1. TableInv(h) /\ Nodes(h) = Nodes(hash) /\ nlist(h) # 0
      <3>1. CASE resize
        BY <1>1, <3>1, ResizeInv
      <3>2. CASE ~ resize
        BY <1>1, <1>5, <3>2 DEF insert
      <3>3. QED
        BY <3>1, <3>2
    <2>2. hash' = m_hash_insert_with_kv(h, n, KeyOf[n])
      BY <1>5 DEF insert, Key
    <2>3. KeyOf[n] \in Nat /\ Lookup(KeyOf[n]) = {}
      BY <1>5, TableAssumption DEF insert, Key
    <2>4. \A m \in Nodes(hash) : KeyOf[m] # KeyOf[n]
      BY <1>1, <2>3, LookupFacts DEF Lookup
    <2> HIDE DEF h
    <2>5. TableInv(hash') /\ Nodes(hash') = Nodes(hash) \cup {n}
      BY <2>1, <2>2, <2>4, InsertInv
    <2>6. Nodes(hash)' = Nodes(hash')
      BY DEF Nodes
    <2>7. Content!Insert(n)
      BY <2>4, <2>5, <2>6 DEF Content!Insert
    <2>8. QED
      BY <2>5, <2>7 DEF Content!Next
  <1>6. ASSUME NEW k \in {KeyOf[n] : n \in Node}, remove(k)
        PROVE  TableInv(hash') /\ [Content!Next]_(Nodes(hash))
    <2>1. k \in Nat
      BY TableAssumption
    <2>2. QED
      BY <1>4, <1>6, <2>1 DEF remove
  <1>7. ASSUME m_hash_deinit PROVE TableInv(hash') /\ [Content!Next]_(Nodes(hash))
    <2>1. hash' = m_hash_init /\ Nodes(hash)' = Nodes(hash')
      BY <1>7 DEF m_hash_deinit, Nodes
    <2>2. TableInv(hash') /\ Nodes(hash)' = {}
      BY <2>1, EmptyTable
    <2>3. QED
      BY <2>2 DEF Content!Next, Content!Clear
  <1>8. ASSUME NEW removes \in BOOLEAN, m_hash_foreach_safe(removes)
        PROVE  TableInv(hash') /\ [Content!Next]_(Nodes(hash))
    <2>1. CASE removes
      <3>1. KeyOf[node] \in Nat
        <4>1. /\ loop = "safe" /\ node # Null /\ pos \in 1 .. nlist(hash)
              /\ \E i \in 1 .. Len(hash.lists[pos]) + 1 : node = Item(hash.lists[pos], i)
          BY <1>8 DEF m_hash_foreach_safe, HashInv, LoopInv
        <4>2. hash.lists[pos] \in Seq(Node)
          BY <1>1, <4>1, NodesAre
        <4>3. node \in Node
          BY <4>1, <4>2 DEF Item
        <4>4. QED
          BY <4>3, TableAssumption
      <3>2. PICK place \in Lookup(KeyOf[node]) : hash' = m_hash_remove_from_prev(hash, place)
        BY <1>8, <2>1 DEF m_hash_foreach_safe, Key
      <3>3. QED
        BY <1>4, <3>1, <3>2
    <2>2. CASE ~ removes
      BY <1>2, <1>8, <2>2 DEF m_hash_foreach_safe
    <2>3. QED
      BY <2>1, <2>2
  <1>9. ASSUME NEW removes \in BOOLEAN, m_hash_foreach_prev(removes)
        PROVE  TableInv(hash') /\ [Content!Next]_(Nodes(hash))
    <2>1. CASE removes
      <3>1. pos \in 1 .. nlist(hash) /\ pnode \in 1 .. Len(hash.lists[pos]) + 1 /\ pnode <= Len(hash.lists[pos])
        BY <1>9 DEF m_hash_foreach_prev, HashInv, LoopInv
      <3>2. hash.lists[pos] \in Seq(Node)
        BY <1>1, <3>1, NodesAre
      <3>3. pnode \in 1 .. Len(hash.lists[pos])
        BY <3>1, <3>2
      <3>4. hash' = m_hash_remove_from_prev(hash, [pos |-> pos, i |-> pnode])
        BY <1>9, <2>1 DEF m_hash_foreach_prev
      <3>5. QED
        BY <1>3, <3>1, <3>3, <3>4
    <2>2. CASE ~ removes
      BY <1>2, <1>9, <2>2 DEF m_hash_foreach_prev
    <2>3. QED
      BY <2>1, <2>2
  <1>10. ASSUME (\E kind \in {"safe", "prev"} : foreach_begin(kind)) \/ foreach_list_end \/ foreach_end
                  \/ UNCHANGED vars
         PROVE  TableInv(hash') /\ [Content!Next]_(Nodes(hash))
    BY <1>2, <1>10 DEF foreach_begin, foreach_list_end, foreach_end, vars
  <1>11. QED
    BY <1>5, <1>6, <1>7, <1>8, <1>9, <1>10 DEF Next

\* A traversal that shows the node at its place and goes on, in a table that
\* keeps the node or in one from which it was removed; and what that leaves.
Moves(h, p, i, h2, i2) ==
  \/ h2 = h /\ i2 = i + 1
  \/ h2 = m_hash_remove_from_prev(h, [pos |-> p, i |-> i]) /\ i2 = i

Moved(h, p, i, h2, i2) ==
  /\ p \in 1 .. nlist(h2) /\ i2 \in 1 .. Len(h2.lists[p]) + 1
  /\ h2.lists[p] \in Seq(Node) /\ IsInjective(h2.lists[p])
  /\ h.lists[p][i] \in Left(h, p, i) /\ h.lists[p][i] \in Node
  /\ Left(h2, p, i2) = Left(h, p, i) \ {h.lists[p][i]}
  /\ Item(h2.lists[p], i2) = Item(h.lists[p], i + 1)
  /\ Item(h2.lists[p], i2 + 1) = Item(h.lists[p], i + 2)

\* A loop that moves on has one node less to visit.
LEMMA Advance ==
  ASSUME NEW h, TableInv(h), NEW p \in 1 .. nlist(h), NEW i \in 1 .. Len(h.lists[p]),
         NEW h2, NEW i2, Moves(h, p, i, h2, i2)
  PROVE  Moved(h, p, i, h2, i2)
  <1> DEFINE l == h.lists[p]
             n == l[i]
             Later(g) == UNION {ToSet(g.lists[q]) : q \in p + 1 .. nlist(h)}
  <1>1. /\ l \in Seq(Node) /\ IsInjective(l) /\ nlist(h) \in Nat /\ Len(l) \in Nat
        /\ DOMAIN l = 1 .. Len(l) /\ n \in Node
    BY NodesAre DEF TableInv
  <1>2. n \in Left(h, p, i)
    BY <1>1 DEF Left
  <1>3. n \notin Later(h)
    <2>1. n \in ToSet(l)
      BY <1>1 DEF ToSet
    <2>2. \A q \in p + 1 .. nlist(h) : q \in 1 .. nlist(h) /\ p # q
      BY <1>1
    <2>3. \A q \in p + 1 .. nlist(h) : n \notin ToSet(h.lists[q])
      BY <2>1, <2>2, TableFlat
    <2>4. QED
      BY <2>3
  <1>4. Left(h, p, i + 1) = Left(h, p, i) \ {n}
    <2> DEFINE From(k) == {l[j] : j \in k .. Len(l)}
    <2>1. From(i) = From(i + 1) \cup {n}
      <3>1. i .. Len(l) = (i + 1 .. Len(l)) \cup {i}
        BY <1>1
      <3>2. QED
        BY <3>1
    <2>2. n \notin From(i + 1)
      BY <1>1 DEF IsInjective
    <2>3. \A k : Left(h, p, k) = From(k) \cup Later(h)
      BY DEF Left
    <2> HIDE DEF l, n, Later, From
    <2>4. QED
      BY <1>3, <2>1, <2>2, <2>3
  <1>5. CASE h2 = h /\ i2 = i + 1
    <2>1. i2 \in 1 .. Len(l) + 1 /\ i2 + 1 = i + 2
      BY <1>1, <1>5
    <2>2. QED
      BY <1>1, <1>2, <1>4, <1>5, <2>1 DEF Moved
  <1>6. CASE h2 = m_hash_remove_from_prev(h, [pos |-> p, i |-> i]) /\ i2 = i
    <2> DEFINE t == RemoveAt(l, i)
    <2>1. /\ nlist(h2) = nlist(h)
          /\ \A q \in 1 .. nlist(h) : h2.lists[q] = IF q = p THEN RemoveAt(h.lists[q], i) ELSE h.lists[q]
      BY <1>6, RemoveInv
    <2>2. /\ t \in Seq(Node) /\ Len(t) = Len(l) - 1 /\ IsInjective(t)
          /\ \A j \in 1 .. Len(l) - 1 : t[j] = IF j < i THEN l[j] ELSE l[j + 1]
      <3>1. l \in Seq(Node) /\ i \in 1 .. Len(l) /\ IsInjective(l)
        BY <1>1
      <3> HIDE DEF l
      <3>2. QED
        BY <3>1, RemoveAtFacts
    <2>3. h2.lists[p] = t
      BY <2>1
    <2> HIDE DEF t
    <2>4. Item(t, i) = Item(l, i + 1) /\ Item(t, i + 1) = Item(l, i + 2)
      BY <1>1, <2>2 DEF Item
    <2>5. Left(h2, p, i) = Left(h, p, i + 1)
      <3>1. {t[j] : j \in i .. Len(t)} = {l[j] : j \in i + 1 .. Len(l)}
        <4>1. \A j \in i .. Len(t) : j + 1 \in i + 1 .. Len(l) /\ t[j] = l[j + 1]
          BY <1>1, <2>2
        <4>2. \A j \in i + 1 .. Len(l) : j - 1 \in i .. Len(t) /\ t[j - 1] = l[j]
          BY <1>1, <2>2
        <4>3. {t[j] : j \in i .. Len(t)} \subseteq {l[j] : j \in i + 1 .. Len(l)}
          BY <4>1
        <4>4. {l[j] : j \in i + 1 .. Len(l)} \subseteq {t[j] : j \in i .. Len(t)}
          BY <4>2
        <4>5. QED
          BY <4>3, <4>4
      <3>2. \A q \in p + 1 .. nlist(h) : h2.lists[q] = h.lists[q]
        BY <1>1, <2>1
      <3>3. QED
        BY <2>1, <2>3, <3>1, <3>2 DEF Left
    <2>6. i2 \in 1 .. Len(t) + 1
      BY <1>1, <1>6, <2>2
    <2>7. QED
      BY <1>1, <1>2, <1>4, <1>6, <2>1, <2>2, <2>3, <2>4, <2>5, <2>6 DEF Moved
  <1>7. QED
    BY <1>5, <1>6 DEF Moves

\* A node of the table has one place.
LEMMA SamePlace ==
  ASSUME NEW h, TableInv(h), NEW p \in 1 .. nlist(h), NEW i \in 1 .. Len(h.lists[p]),
         NEW q \in 1 .. nlist(h), NEW j \in 1 .. Len(h.lists[q]),
         KeyOf[h.lists[p][i]] = KeyOf[h.lists[q][j]]
  PROVE  p = q /\ i = j
  <1> DEFINE a == h.lists[p]
             b == h.lists[q]
  <1>1. /\ a \in Seq(Node) /\ b \in Seq(Node) /\ IsInjective(a)
        /\ Nodes(h) = UNION {ToSet(h.lists[k]) : k \in 1 .. nlist(h)}
    <2>1. Shape(h, Node) /\ \A k \in 1 .. nlist(h) : IsInjective(h.lists[k])
      BY DEF TableInv
    <2>2. /\ h.lists \in [1 .. nlist(h) -> Seq(Node)]
          /\ Nodes(h) = UNION {ToSet(h.lists[k]) : k \in 1 .. nlist(h)}
      BY <2>1, NodesAre
    <2>3. QED
      BY <2>1, <2>2
  <1>2. /\ DOMAIN a = 1 .. Len(a) /\ DOMAIN b = 1 .. Len(b)
        /\ a[i] \in ToSet(a) /\ b[j] \in ToSet(b) /\ a[i] \in Nodes(h) /\ b[j] \in Nodes(h)
    BY <1>1 DEF ToSet
  <1>3. a[i] = b[j]
    BY <1>2 DEF TableInv
  <1>4. p = q
    BY <1>2, <1>3, TableFlat
  <1>5. QED
    BY <1>1, <1>2, <1>3, <1>4 DEF IsInjective

\* The sequence of visited nodes with one more.
LEMMA VisitFacts ==
  ASSUME NEW s \in Seq(Node), IsInjective(s), NEW n \in Node, n \notin ToSet(s)
  PROVE  /\ Append(s, n) \in Seq(Node) /\ IsInjective(Append(s, n))
         /\ ToSet(Append(s, n)) = ToSet(s) \cup {n}
  <1>1. <<n>> \in Seq(Node) /\ ToSet(<<n>>) = {n} /\ IsInjective(<<n>>)
    BY DEF ToSet, IsInjective
  <1>2. Append(s, n) = s \o <<n>>
    BY AppendIsConcat
  <1>3. ToSet(s) \cap ToSet(<<n>>) = {}
    BY <1>1
  <1> DEFINE t == <<n>>
  <1>4. t \in Seq(Node) /\ ToSet(t) = {n} /\ IsInjective(t) /\ ToSet(s) \cap ToSet(t) = {}
    BY <1>1, <1>3
  <1> HIDE DEF t
  <1>5. s \o t \in Seq(Node) /\ ToSet(s \o t) = ToSet(s) \cup {n} /\ IsInjective(s \o t)
    BY <1>4, ConcatFacts
  <1>6. QED
    BY <1>2, <1>5 DEF t

\* Every step of a traversal keeps its invariant.
LEMMA LoopStep ==
  ASSUME HashInv, [Next]_vars
  PROVE  LoopInv'
  <1>1. TableInv(hash) /\ Shape(hash, Node) /\ LoopInv /\ TableInv(hash')
    BY TableStep DEF HashInv, TableInv
  <1>2. ASSUME loop' = "none" PROVE LoopInv'
    BY <1>2 DEF LoopInv
  <1>3. ASSUME UNCHANGED vars PROVE LoopInv'
    BY <1>1, <1>3 DEF LoopInv, vars, loopVars, Left, nlist
  <1> DEFINE Here(p, i) ==
        /\ p \in 1 .. nlist(hash') /\ i \in 1 .. Len(hash'.lists[p]) + 1
        /\ loop' = "prev" => pnode' = i
        /\ loop' = "safe" => node' = Item(hash'.lists[p], i) /\ next' = Item(hash'.lists[p], i + 1)
        /\ ToSet(visited') \cap Left(hash', p, i) = {}
        /\ ToSet(visited') \cup Left(hash', p, i) = expected'
  <1>5. ASSUME loop' \in {"safe", "prev"}, visited' \in Seq(Node), IsInjective(visited'),
               NEW i, Here(pos', i)
        PROVE  LoopInv'
    BY <1>5 DEF LoopInv, Left, nlist, Nodes, IsInjective, ToSet
  <1> HIDE DEF Here
  <1>4. ASSUME NEW kind \in {"safe", "prev"}, foreach_begin(kind) PROVE LoopInv'
    <2> DEFINE l == hash.lists[1]
    <2>1. /\ hash' = hash /\ loop' = kind /\ pos' = 1 /\ pnode' = 1 /\ visited' = <<>>
          /\ expected' = Nodes(hash) /\ nlist(hash) # 0
          /\ node' = First(1) /\ next' = SavedNext(l, First(1))
      BY <1>4 DEF foreach_begin
    <2>2. 1 \in 1 .. nlist(hash) /\ l \in Seq(Node) /\ IsInjective(l) /\ nlist(hash) \in Nat
      BY <1>1, <2>1, NodesAre DEF TableInv
    <2>3. First(1) = Item(l, 1) /\ 1 \in 1 .. Len(l) + 1 /\ Item(l, 1 + 1) = Item(l, 2)
      BY <2>2 DEF First, Item
    <2>4. SavedNext(l, First(1)) = Item(l, 1 + 1)
      BY <2>2, <2>3, SavedNextIs
    <2>5. Left(hash, 1, 1) = Nodes(hash)
      <3>1. Nodes(hash) = UNION {ToSet(hash.lists[q]) : q \in 1 .. nlist(hash)}
        BY <1>1, NodesAre
      <3>2. 1 .. nlist(hash) = {1} \cup (2 .. nlist(hash))
        BY <2>2
      <3>3. ToSet(l) = {l[j] : j \in 1 .. Len(l)}
        BY <2>2 DEF ToSet
      <3>4. QED
        BY <3>1, <3>2, <3>3 DEF Left
    <2>6. ToSet(<<>>) = {} /\ IsInjective(<<>>) /\ <<>> \in Seq(Node)
      BY DEF ToSet, IsInjective
    <2> HIDE DEF l
    <2>7. /\ node' = Item(l, 1) /\ next' = Item(l, 1 + 1)
          /\ ToSet(visited') \cap Left(hash, 1, 1) = {}
          /\ ToSet(visited') \cup Left(hash, 1, 1) = expected'
      BY <2>1, <2>3, <2>4, <2>5, <2>6
    <2>8. Here(1, 1)
      BY <2>1, <2>2, <2>3, <2>7 DEF Here, l
    <2>9. QED
      BY <1>5, <2>1, <2>6, <2>8
  <1>6. ASSUME foreach_list_end PROVE LoopInv'
    <2> DEFINE l == hash.lists[pos]
    <2>1. /\ loop \in {"safe", "prev"} /\ hash' = hash /\ expected' = expected /\ visited' = visited
          /\ loop = "safe" => node = Null
          /\ loop = "prev" => pnode > Len(l)
      BY <1>6 DEF foreach_list_end
    <2>2. PICK i \in 1 .. Len(l) + 1 :
             /\ loop = "prev" => pnode = i
             /\ loop = "safe" => node = Item(l, i)
             /\ ToSet(visited) \cap Left(hash, pos, i) = {}
             /\ ToSet(visited) \cup Left(hash, pos, i) = expected
      BY <1>1, <2>1 DEF LoopInv
    <2>3. /\ pos \in 1 .. nlist(hash) /\ nlist(hash) \in Nat /\ l \in Seq(Node)
          /\ visited \in Seq(Node) /\ IsInjective(visited)
      BY <1>1, <2>1, NodesAre DEF LoopInv
    <2>4. i = Len(l) + 1
      <3>1. i \in 1 .. Len(l) => Item(l, i) # Null
        BY <2>3, TableAssumption DEF Item
      <3>2. QED
        BY <2>1, <2>2, <2>3, <3>1
    <2>5. Left(hash, pos, i) = UNION {ToSet(hash.lists[q]) : q \in pos + 1 .. nlist(hash)}
      <3>1. {l[j] : j \in i .. Len(l)} = {}
        BY <2>3, <2>4
      <3>2. QED
        BY <3>1 DEF Left
    <2>6. CASE pos < nlist(hash)
      <3> DEFINE m == hash.lists[pos + 1]
      <3>1. /\ pos' = pos + 1 /\ pnode' = 1 /\ loop' = loop
            /\ node' = First(pos + 1) /\ next' = SavedNext(m, First(pos + 1))
        BY <1>6, <2>1, <2>6 DEF foreach_list_end, First
      <3>2. pos + 1 \in 1 .. nlist(hash) /\ m \in Seq(Node) /\ IsInjective(m)
        BY <1>1, <2>3, <2>6, NodesAre DEF TableInv
      <3>3. First(pos + 1) = Item(m, 1) /\ 1 \in 1 .. Len(m) + 1
        BY <3>2 DEF First, Item
      <3>4. SavedNext(m, First(pos + 1)) = Item(m, 1 + 1)
        BY <3>2, <3>3, SavedNextIs
      <3>5. Left(hash, pos, i) = Left(hash, pos + 1, 1)
        <4>1. pos + 1 .. nlist(hash) = {pos + 1} \cup (pos + 1 + 1 .. nlist(hash))
          BY <2>3, <2>6
        <4>2. ToSet(m) = {m[j] : j \in 1 .. Len(m)}
          BY <3>2 DEF ToSet
        <4>3. QED
          BY <2>5, <4>1, <4>2 DEF Left
      <3>6. Here(pos + 1, 1)
        BY <2>1, <2>2, <3>1, <3>2, <3>3, <3>4, <3>5 DEF Here
      <3>7. QED
        BY <1>5, <2>1, <2>3, <3>1, <3>6
    <2>7. CASE ~ (pos < nlist(hash))
      <3>1. loop' = "done"
        BY <1>6, <2>7 DEF foreach_list_end
      <3>2. pos + 1 .. nlist(hash) = {}
        BY <2>3, <2>7
      <3>3. ToSet(visited) = expected
        BY <2>2, <2>5, <3>2
      <3>4. QED
        BY <2>1, <2>3, <3>1, <3>3 DEF LoopInv, ToSet, IsInjective
    <2>8. QED
      BY <2>6, <2>7
  <1>7. ASSUME loop \in {"safe", "prev"}, loop' = loop, pos' = pos, expected' = expected,
               NEW i \in 1 .. Len(hash.lists[pos]),
               ToSet(visited) \cap Left(hash, pos, i) = {},
               ToSet(visited) \cup Left(hash, pos, i) = expected,
               visited' = Append(visited, hash.lists[pos][i]),
               NEW i2, \/ hash' = hash /\ i2 = i + 1
                       \/ hash' = m_hash_remove_from_prev(hash, [pos |-> pos, i |-> i]) /\ i2 = i,
               loop = "prev" => pnode' = i2,
               loop = "safe" => /\ node' = Item(hash.lists[pos], i + 1)
                                /\ next' = SavedNext(hash'.lists[pos], node')
        PROVE  LoopInv'
    <2> DEFINE n == hash.lists[pos][i]
    <2>1. pos \in 1 .. nlist(hash) /\ visited \in Seq(Node) /\ IsInjective(visited)
      BY <1>1, <1>7 DEF LoopInv
    <2>2. /\ pos \in 1 .. nlist(hash') /\ i2 \in 1 .. Len(hash'.lists[pos]) + 1
          /\ hash'.lists[pos] \in Seq(Node) /\ IsInjective(hash'.lists[pos])
          /\ n \in Left(hash, pos, i) /\ n \in Node
          /\ Left(hash', pos, i2) = Left(hash, pos, i) \ {n}
          /\ Item(hash'.lists[pos], i2) = Item(hash.lists[pos], i + 1)
          /\ Item(hash'.lists[pos], i2 + 1) = Item(hash.lists[pos], i + 2)
      <3>1. Moves(hash, pos, i, hash', i2)
        BY <1>7 DEF Moves
      <3>2. Moved(hash, pos, i, hash', i2)
        BY <1>1, <2>1, <3>1, Advance
      <3>3. QED
        BY <3>2 DEF Moved
    <2> HIDE DEF n
    <2>3. /\ visited' \in Seq(Node) /\ IsInjective(visited')
          /\ ToSet(visited') = ToSet(visited) \cup {n}
      <3>1. visited' = Append(visited, n) /\ n \notin ToSet(visited)
        BY <1>7, <2>2 DEF n
      <3>2. QED
        BY <2>1, <2>2, <3>1, VisitFacts
    <2>4. loop = "safe" => next' = Item(hash'.lists[pos], i2 + 1)
      BY <1>7, <2>2, SavedNextIs
    <2>5. Here(pos, i2)
      BY <1>7, <2>2, <2>3, <2>4 DEF Here
    <2>6. QED
      BY <1>5, <1>7, <2>3, <2>5
  <1>8. ASSUME NEW removes \in BOOLEAN, m_hash_foreach_safe(removes) PROVE LoopInv'
    <2> DEFINE l == hash.lists[pos]
    <2>1. /\ loop = "safe" /\ node # Null /\ visited' = Append(visited, node)
          /\ node' = next /\ next' = SavedNext(hash'.lists[pos], next)
          /\ loop' = loop /\ pos' = pos /\ expected' = expected
      BY <1>8 DEF m_hash_foreach_safe
    <2>2. PICK i \in 1 .. Len(l) + 1 :
             /\ node = Item(l, i) /\ next = Item(l, i + 1)
             /\ ToSet(visited) \cap Left(hash, pos, i) = {}
             /\ ToSet(visited) \cup Left(hash, pos, i) = expected
      BY <1>1, <2>1 DEF LoopInv
    <2>3. /\ pos \in 1 .. nlist(hash) /\ l \in Seq(Node)
      BY <1>1, <2>1, NodesAre DEF LoopInv
    <2>4. i \in 1 .. Len(l) /\ node = l[i] /\ node \in Node /\ KeyOf[node] \in Nat
      BY <2>1, <2>2, <2>3, TableAssumption DEF Item
    <2>5. CASE ~ removes
      <3>1. hash' = hash
        BY <1>8, <2>5 DEF m_hash_foreach_safe
      <3>2. QED
        BY <1>7, <2>1, <2>2, <2>4, <3>1
    <2>6. CASE removes
      <3>1. PICK place \in Lookup(KeyOf[node]) : hash' = m_hash_remove_from_prev(hash, place)
        BY <1>8, <2>6 DEF m_hash_foreach_safe, Key
      <3>2. /\ place = [pos |-> place.pos, i |-> place.i]
            /\ place.pos \in 1 .. nlist(hash) /\ place.i \in 1 .. Len(hash.lists[place.pos])
            /\ KeyOf[hash.lists[place.pos][place.i]] = KeyOf[node]
        BY <1>1, <2>4, LookupFacts DEF Lookup
      <3>3. place.pos = pos /\ place.i = i
        BY <1>1, <2>3, <2>4, <3>2, SamePlace
      <3>4. QED
        BY <1>7, <2>1, <2>2, <2>4, <3>1, <3>2, <3>3
    <2>7. QED
      BY <2>5, <2>6
  <1>9. ASSUME NEW removes \in BOOLEAN, m_hash_foreach_prev(removes) PROVE LoopInv'
    <2> DEFINE l == hash.lists[pos]
    <2>1. /\ loop = "prev" /\ pnode <= Len(l) /\ visited' = Append(visited, l[pnode])
          /\ hash' = IF removes THEN m_hash_remove_from_prev(hash, [pos |-> pos, i |-> pnode]) ELSE hash
          /\ pnode' = PnodeAfter(l[pnode], hash')
          /\ loop' = loop /\ pos' = pos /\ expected' = expected
      BY <1>9 DEF m_hash_foreach_prev
    <2>2. /\ pnode \in 1 .. Len(l) + 1
          /\ ToSet(visited) \cap Left(hash, pos, pnode) = {}
          /\ ToSet(visited) \cup Left(hash, pos, pnode) = expected
      BY <1>1, <2>1 DEF LoopInv
    <2>3. /\ pos \in 1 .. nlist(hash) /\ l \in Seq(Node) /\ IsInjective(l) /\ DOMAIN l = 1 .. Len(l)
      BY <1>1, <2>1, NodesAre DEF LoopInv, TableInv
    <2>4. pnode \in 1 .. Len(l)
      BY <2>1, <2>2, <2>3
    <2>5. CASE ~ removes
      <3>1. hash' = hash /\ pnode' = pnode + 1
        BY <2>1, <2>4, <2>5 DEF PnodeAfter
      <3>2. QED
        BY <1>7, <2>1, <2>2, <2>4, <3>1
    <2>6. CASE removes
      <3>1. hash' = m_hash_remove_from_prev(hash, [pos |-> pos, i |-> pnode])
        BY <2>1, <2>6
      <3>2. hash'.lists[pos] = RemoveAt(l, pnode)
        BY <1>1, <2>3, <2>4, <3>1, RemoveInv
      <3>3. pnode' = pnode
        <4> DEFINE t == RemoveAt(l, pnode)
        <4>1. /\ Len(t) = Len(l) - 1
              /\ \A j \in 1 .. Len(l) - 1 : t[j] = IF j < pnode THEN l[j] ELSE l[j + 1]
          <5>1. l \in Seq(Node) /\ pnode \in 1 .. Len(l)
            BY <2>3, <2>4
          <5> HIDE DEF l
          <5>2. QED
            BY <5>1, RemoveAtFacts
        <4>2. ~ (pnode <= Len(hash'.lists[pos]) /\ hash'.lists[pos][pnode] = l[pnode])
          <5> HIDE DEF t
          <5>1. hash'.lists[pos] = t
            BY <3>2 DEF t
          <5> HIDE DEF l
          <5>2. pnode <= Len(l) - 1 => t[pnode] = l[pnode + 1] /\ pnode + 1 \in 1 .. Len(l)
            BY <2>3, <2>4, <4>1
          <5>3. pnode <= Len(l) - 1 => l[pnode + 1] # l[pnode]
            BY <2>3, <2>4, <5>2 DEF IsInjective
          <5>4. QED
            BY <4>1, <5>1, <5>2, <5>3
        <4>3. QED
          BY <2>1, <4>2 DEF PnodeAfter
      <3>4. QED
        BY <1>7, <2>1, <2>2, <2>4, <3>1, <3>3
    <2>7. QED
      BY <2>5, <2>6
  <1>10. ASSUME \/ \E n \in Node \ Nodes(hash), resize \in BOOLEAN : insert(n, resize)
                \/ \E k \in {KeyOf[n] : n \in Node} : remove(k)
                \/ m_hash_deinit \/ foreach_end
         PROVE  LoopInv'
    BY <1>2, <1>10 DEF insert, remove, m_hash_deinit, foreach_end, loopVars
  <1>11. QED
    BY <1>3, <1>4, <1>6, <1>8, <1>9, <1>10 DEF Next
-----------------------------------------------------------------------------
\* The table and the traversal keep their invariant.
LEMMA HashInvInvariant == Spec => []HashInv
  <1>1. Init => HashInv
    <2>1. SUFFICES ASSUME Init PROVE HashInv
      OBVIOUS
    <2>2. TableInv(hash)
      BY <2>1, EmptyTable DEF Init
    <2>3. LoopInv
      BY <2>1 DEF Init, LoopInv
    <2>4. QED
      BY <2>2, <2>3 DEF HashInv
  <1>2. HashInv /\ [Next]_vars => HashInv'
    <2>1. SUFFICES ASSUME HashInv, [Next]_vars PROVE HashInv'
      OBVIOUS
    <2>2. TableInv(hash') /\ LoopInv'
      BY <2>1, TableStep, LoopStep
    <2>3. TableInv(hash)'
      BY <2>2 DEF TableInv, Shape, nlist, Nodes
    <2>4. QED
      BY <2>2, <2>3 DEF HashInv
  <1>3. QED
    BY <1>1, <1>2, PTL DEF Spec

\* The size m_hash.h keeps is the number of nodes on its lists, none of which
\* is on them twice: through any sequence of inserts, resizes, removes and
\* traversals that remove, for any nodes, keys and first buffer.
THEOREM SizeIsExact == Spec => []SizeExact
  <1>1. HashInv => SizeExact
    <2>1. SUFFICES ASSUME HashInv PROVE SizeExact
      OBVIOUS
    <2>2. TableInv(hash) /\ FlattenSeq(hash.lists) \in Seq(Node) /\ IsInjective(FlattenSeq(hash.lists))
      BY <2>1, TableFlat DEF HashInv
    <2>3. Cardinality(Nodes(hash)) = Len(FlattenSeq(hash.lists))
      <3> DEFINE s == FlattenSeq(hash.lists)
      <3> HIDE DEF s
      <3>1. Cardinality(ToSet(s)) = Len(s)
        BY <2>2, ToSetCardinality DEF s
      <3>2. QED
        BY <3>1 DEF Nodes, s
    <2>4. QED
      BY <2>2, <2>3 DEF SizeExact, TableInv
  <1>2. QED
    BY <1>1, HashInvInvariant, PTL

\* m_hash_lookup finds every node of the table by its key, and no other node.
THEOREM EveryNodeFound == Spec => []FoundByKey
  <1>1. HashInv => FoundByKey
    <2>1. SUFFICES ASSUME HashInv, NEW n \in Node
                   PROVE  IF n \in Nodes(hash)
                            THEN {NodeAt(place) : place \in Lookup(Key(n))} = {n}
                            ELSE \A place \in Lookup(Key(n)) :
                                   NodeAt(place) # n /\ Key(NodeAt(place)) = Key(n)
      BY DEF FoundByKey
    <2>2. TableInv(hash) /\ KeyOf[n] \in Nat /\ Shape(hash, Node)
      BY <2>1, TableAssumption DEF HashInv, TableInv
    <2>3. /\ \A place \in Lookup(Key(n)) :
               /\ place.pos \in 1 .. nlist(hash) /\ place.i \in 1 .. Len(hash.lists[place.pos])
               /\ KeyOf[NodeAt(place)] = KeyOf[n]
          /\ n \in Nodes(hash) => Lookup(Key(n)) # {}
      BY <2>2, LookupFacts DEF Lookup, Key, NodeAt
    <2>4. \A place \in Lookup(Key(n)) : NodeAt(place) \in Nodes(hash)
      <3>1. SUFFICES ASSUME NEW place \in Lookup(Key(n)) PROVE NodeAt(place) \in Nodes(hash)
        OBVIOUS
      <3>2. NodeAt(place) \in ToSet(hash.lists[place.pos])
        <4>1. hash.lists[place.pos] \in Seq(Node)
          BY <2>2, <2>3, NodesAre
        <4>2. QED
          BY <2>3, <4>1 DEF ToSet, NodeAt
      <3>3. QED
        BY <2>2, <2>3, <3>2, NodesAre
    <2>5. \A m \in Nodes(hash) : n \in Nodes(hash) /\ KeyOf[m] = KeyOf[n] => m = n
      BY <2>2 DEF TableInv
    <2>6. CASE n \in Nodes(hash)
      BY <2>3, <2>4, <2>5, <2>6
    <2>7. CASE n \notin Nodes(hash)
      BY <2>3, <2>4, <2>7 DEF Key
    <2>8. QED
      BY <2>6, <2>7
  <1>2. QED
    BY <1>1, HashInvInvariant, PTL

\* m_hash_foreach_safe and m_hash_foreach_prev show every node once, although
\* their bodies remove nodes.
THEOREM TraversalsComplete == Spec => []TraversalComplete
  <1>1. HashInv => TraversalComplete
    BY ToSetCardinality DEF HashInv, LoopInv, TraversalComplete
  <1>2. QED
    BY <1>1, HashInvInvariant, PTL

\* The hash table implements a set of nodes with unique keys: insert adds its
\* node, remove and the traversals take one away, a resize changes nothing.
THEOREM HashIsKeyedSet == Spec => ImplementsKeyedSet
  <1>1. Init => Content!Init
    BY EmptyTable DEF Init, Content!Init
  <1>2. HashInv /\ [Next]_vars => [Content!Next]_(Nodes(hash))
    BY TableStep
  <1>3. QED
    BY <1>1, <1>2, HashInvInvariant, PTL DEF Spec, ImplementsKeyedSet, Content!Spec
-----------------------------------------------------------------------------
(***************************************************************************)
(* The root table of src/m_gc_root.c, a hash table whose nodes are keyed   *)
(* by their own address.                                                   *)
(***************************************************************************)
RootInv ==
  /\ Shape(gc_root_hash, NodeAddr) /\ (gc_root_hash.size # 0 => nlist(gc_root_hash) # 0)
  /\ ptr \in [NodeAddr -> Nat] /\ added \in [Object -> Nat]
  /\ up => \A p \in Object : added[p] > 0 => \E n \in Nodes(gc_root_hash) : ptr[n] = p

\* A lookup of an object finds nothing: the keys are addresses of nodes.
LEMMA RootNotFound ==
  ASSUME RootInv, NEW p \in Object
  PROVE  Found(p) = {}
  <1> DEFINE h == gc_root_hash
             key == [n \in NodeAddr |-> n]
             l == h.lists[Pos(h, p)]
             i == PlaceOfKey(l, key, p)
  <1>1. p \in Nat /\ p \notin NodeAddr
    BY RootAssumption
  <1>2. gc_root_get_key = key
    BY DEF gc_root_get_key
  <1>3. m_hash_lookup(h, key, p) = IF h.size = 0 THEN {} ELSE IF i = 0 THEN {} ELSE {[pos |-> Pos(h, p), i |-> i]}
    BY DEF m_hash_lookup, PlaceOfKey
  <1>4. h.size # 0 => i = 0
    <2>1. SUFFICES ASSUME h.size # 0 PROVE i = 0
      OBVIOUS
    <2>2. Shape(h, NodeAddr) /\ nlist(h) # 0
      BY <2>1 DEF RootInv
    <2>3. nlist(h) \in Nat /\ h.lists \in [1 .. nlist(h) -> Seq(NodeAddr)]
      BY <2>2, NodesAre
    <2>4. Pos(h, p) \in 1 .. nlist(h)
      BY <1>1, <2>2, <2>3 DEF Pos
    <2>5. l \in Seq(NodeAddr)
      BY <2>3, <2>4
    <2> HIDE DEF l, key
    <2>6. i = 0 \/ (i \in 1 .. Len(l) /\ key[l[i]] = p)
      BY <2>5, SelectKey
    <2> HIDE DEF i
    <2>7. i \in 1 .. Len(l) => key[l[i]] \in NodeAddr
      BY <2>5 DEF key
    <2>8. QED
      BY <1>1, <2>6, <2>7
  <1> HIDE DEF i, key
  <1>5. m_hash_lookup(h, key, p) = {}
    BY <1>3, <1>4
  <1>6. QED
    BY <1>2, <1>5 DEF Found

\* An object that was added with m_gc_add_root and not given back has a node in
\* the root table, through every rehash, for any objects and nodes: as no node
\* is ever found again, each call adds one and no call takes one away.
THEOREM RootsStay == RootSpec => []RootsKept
  <1> DEFINE key == [n \in NodeAddr |-> n]
  <1>1. RootInit => RootInv
    <2>1. SUFFICES ASSUME RootInit PROVE RootInv
      OBVIOUS
    <2>2. gc_root_hash = [lists |-> <<>>, size |-> 0]
      BY <2>1 DEF RootInit, m_hash_init
    <2>3. Shape(gc_root_hash, NodeAddr) /\ gc_root_hash.size = 0
      BY <2>2 DEF Shape
    <2>4. QED
      BY <2>1, <2>3 DEF RootInv, RootInit
  <1>2. RootInv /\ [RootNext]_rootVars => RootInv'
    <2>1. SUFFICES ASSUME RootInv, [RootNext]_rootVars PROVE RootInv'
      OBVIOUS
    <2>2. /\ Shape(gc_root_hash, NodeAddr) /\ (gc_root_hash.size # 0 => nlist(gc_root_hash) # 0)
          /\ ptr \in [NodeAddr -> Nat] /\ added \in [Object -> Nat]
      BY <2>1 DEF RootInv
    <2>3. ASSUME NEW p \in Object, m_gc_add_root(p) PROVE RootInv'
      <3>1. PICK n \in NodeAddr \ Nodes(gc_root_hash) :
              /\ ptr' = [ptr EXCEPT ![n] = p]
              /\ gc_root_hash' = m_hash_insert_with_kv(
                   m_hash_resize(gc_root_hash, gc_root_get_key), n, p)
        BY <2>1, <2>3, RootNotFound DEF m_gc_add_root
      <3>2. up /\ added' = [added EXCEPT ![p] = @ + 1] /\ up' = up
        BY <2>3 DEF m_gc_add_root
      <3> DEFINE r == m_hash_resize(gc_root_hash, key)
      <3>3. gc_root_hash' = m_hash_insert_with_kv(r, n, p)
        BY <3>1 DEF gc_root_get_key
      <3>4. key \in [NodeAddr -> Nat] /\ p \in Nat
        BY RootAssumption
      <3>5. Shape(r, NodeAddr) /\ nlist(r) # 0 /\ Nodes(r) = Nodes(gc_root_hash)
        <4> HIDE DEF key
        <4>1. QED
          BY <2>2, <3>4, ResizeShape
      <3> HIDE DEF r, key
      <3>6. /\ Shape(gc_root_hash', NodeAddr) /\ nlist(gc_root_hash') # 0
            /\ Nodes(gc_root_hash') = Nodes(gc_root_hash) \cup {n}
        <4>1. /\ Shape(m_hash_insert_with_kv(r, n, p), NodeAddr)
              /\ nlist(m_hash_insert_with_kv(r, n, p)) = nlist(r)
              /\ Nodes(m_hash_insert_with_kv(r, n, p)) = Nodes(r) \cup {n}
          <5>1. n \in NodeAddr /\ p \in Nat
            BY <3>4
          <5>2. Shape(r, NodeAddr) /\ nlist(r) # 0
            BY <3>5
          <5>3. WithNode(NodeAddr, r, n, p, m_hash_insert_with_kv(r, n, p))
            BY ONLY <5>1, <5>2, InsertShape
          <5>4. QED
            BY <5>3 DEF WithNode
        <4>2. QED
          BY <3>3, <3>5, <4>1
      <3>7. ptr' \in [NodeAddr -> Nat] /\ added' \in [Object -> Nat]
        BY <2>2, <3>1, <3>2, <3>4
      <3>8. ASSUME NEW x \in Object, added'[x] > 0 PROVE \E m \in Nodes(gc_root_hash') : ptr'[m] = x
        <4>1. CASE x = p
          BY <2>2, <3>1, <3>6, <4>1
        <4>2. CASE x # p
          <5>1. added[x] > 0
            BY <2>2, <3>2, <3>8, <4>2
          <5>2. PICK m \in Nodes(gc_root_hash) : ptr[m] = x
            BY <2>1, <3>2, <5>1 DEF RootInv
          <5>3. ptr'[m] = x
            BY <2>2, <3>1, <5>2, NodesAre
          <5>4. QED
            BY <3>6, <5>3
        <4>3. QED
          BY <4>1, <4>2
      <3>9. Nodes(gc_root_hash)' = Nodes(gc_root_hash') /\ nlist(gc_root_hash)' = nlist(gc_root_hash')
        BY DEF Nodes, nlist
      <3>10. QED
        BY <3>6, <3>7, <3>8, <3>9 DEF RootInv, Shape
    <2>4. ASSUME NEW p \in Object, m_gc_remove_root(p) PROVE RootInv'
      <3>1. /\ up' = up /\ gc_root_hash' = gc_root_hash /\ ptr' = ptr
            /\ added[p] > 0 /\ added' = [added EXCEPT ![p] = @ - 1]
        BY <2>1, <2>4, RootNotFound DEF m_gc_remove_root
      <3>2. added' \in [Object -> Nat] /\ \A x \in Object : added'[x] > 0 => added[x] > 0
        BY <2>2, <3>1
      <3>3. QED
        BY <2>1, <3>1, <3>2 DEF RootInv, Shape, nlist, Nodes
    <2>5. ASSUME gc_root_hash_shutdown PROVE RootInv'
      <3>1. /\ gc_root_hash' = [lists |-> <<>>, size |-> 0] /\ ~ up'
            /\ ptr' = [n \in NodeAddr |-> 0] /\ added' = added
        BY <2>5 DEF gc_root_hash_shutdown, m_hash_init
      <3>2. Shape(gc_root_hash', NodeAddr) /\ gc_root_hash'.size = 0
        BY <3>1 DEF Shape
      <3>3. QED
        BY <2>2, <3>1, <3>2 DEF RootInv, Shape
    <2>6. ASSUME UNCHANGED rootVars PROVE RootInv'
      BY <2>1, <2>6 DEF rootVars, RootInv, Shape, nlist, Nodes
    <2>7. QED
      BY <2>1, <2>3, <2>4, <2>5, <2>6 DEF RootNext
  <1>3. RootInv => RootsKept
    BY DEF RootInv, RootsKept, Rooted
  <1>4. QED
    BY <1>1, <1>2, <1>3, PTL DEF RootSpec
-----------------------------------------------------------------------------
(***************************************************************************)
(* The lists: the links spell the sequence the calls made, and the safe    *)
(* loops see the nodes there were.                                         *)
(***************************************************************************)

\* The nodes of s between the two ends of the list.
At(s, head, stop, i) == IF i = 0 THEN head ELSE IF i = Len(s) + 1 THEN stop ELSE s[i]

\* Following link from head one meets the nodes of s, then stop.
Path(link, s, head, stop) ==
  \A i \in 0 .. Len(s) : link[At(s, head, stop, i)] = At(s, head, stop, i + 1)

\* What foreach computes: the i-th node it meets.
IsWalk(at, link, head, stop, n) ==
  at = [i \in 1 .. n |-> IF i = 1 THEN link[head]
                         ELSE IF at[i - 1] = stop THEN stop ELSE link[at[i - 1]]]

\* A loop over a path meets its nodes and ends.
LEMMA PathForeach ==
  ASSUME NEW link, NEW s \in Seq(ListNode), IsInjective(s),
         NEW head, NEW stop, stop \notin ListNode, Path(link, s, head, stop)
  PROVE  foreach(link, head, stop) = s
  <1> DEFINE N == Len(s)
             C == Cardinality(ListNode) + 1
             w == [i \in 1 .. C |-> IF i <= N THEN s[i] ELSE stop]
             f == CHOOSE at : IsWalk(at, link, head, stop, C)
  <1>1. N \in Nat /\ C \in Nat /\ N < C
    <2>1. IsFiniteSet(ListNode) /\ ToSet(s) \subseteq ListNode
      BY ToSetFinite, ListsAssumption
    <2>2. Cardinality(ListNode) \in Nat /\ Cardinality(ToSet(s)) <= Cardinality(ListNode)
      BY <2>1, FS_CardinalityType, FS_Subset
    <2>3. Cardinality(ToSet(s)) = N
      BY ToSetCardinality
    <2>4. QED
      BY <2>2, <2>3
  <1> HIDE DEF C
  <1>2. \A i \in 1 .. N : s[i] \in ListNode /\ s[i] # stop
    OBVIOUS
  <1>3. \A i \in 0 .. N : link[IF i = 0 THEN head ELSE s[i]] = IF i = N THEN stop ELSE s[i + 1]
    BY <1>1 DEF Path, At
  <1> HIDE DEF N
  <1>4. ASSUME NEW i \in 1 .. C
        PROVE  w[i] = IF i = 1 THEN link[head] ELSE IF w[i - 1] = stop THEN stop ELSE link[w[i - 1]]
    <2>1. CASE i = 1
      <3>1. w[i] = IF i <= N THEN s[i] ELSE stop
        OBVIOUS
      <3> HIDE DEF w, f
      <3>2. 0 \in 0 .. N /\ 0 + 1 = 1
        BY <1>1
      <3>3. link[head] = IF 0 = N THEN stop ELSE s[1]
        BY ONLY <3>2, <1>3
      <3>4. 0 = N <=> ~ (1 <= N)
        BY <1>1
      <3>5. w[1] = link[head]
        BY <2>1, <3>3, <3>1, <3>4
      <3>6. QED
        BY <2>1, <3>5
    <2>2. CASE i # 1
      <3>1. i - 1 \in 1 .. C /\ (i - 1) + 1 = i /\ i - 1 # 0
        BY <1>1, <2>2
      <3>2. w[i] = (IF i <= N THEN s[i] ELSE stop) /\ w[i - 1] = IF i - 1 <= N THEN s[i - 1] ELSE stop
        BY <3>1
      <3> HIDE DEF w
      <3>3. CASE i - 1 <= N
        <4>1. i - 1 \in 1 .. N /\ i - 1 \in 0 .. N /\ (i <= N <=> i - 1 # N)
          BY <1>1, <3>1, <3>3
        <4>2. w[i - 1] = s[i - 1] /\ s[i - 1] # stop
          BY <1>2, <3>2, <3>3, <4>1
        <4>3. link[s[i - 1]] = IF i - 1 = N THEN stop ELSE s[i]
          BY <1>3, <3>1, <4>1
        <4>4. QED
          BY <2>2, <3>2, <4>1, <4>2, <4>3
      <3>4. CASE ~ (i - 1 <= N)
        <4>1. ~ (i <= N)
          BY <1>1, <3>4
        <4>2. QED
          BY <2>2, <3>2, <3>4, <4>1
      <3>5. QED
        BY <3>3, <3>4
    <2>3. QED
      BY <2>1, <2>2
  <1>5. IsWalk(w, link, head, stop, C)
    <2>1. w = [i \in 1 .. C |-> w[i]]
      OBVIOUS
    <2> HIDE DEF w
    <2>2. QED
      BY <1>4, <2>1 DEF IsWalk
  <1>6. IsWalk(f, link, head, stop, C)
    <2> HIDE DEF w
    <2>1. QED
      BY <1>5
  <1> HIDE DEF f
  <1>7. /\ \A i \in 1 .. C : f[i] = IF i = 1 THEN link[head] ELSE IF f[i - 1] = stop THEN stop ELSE link[f[i - 1]]
        /\ f = [i \in 1 .. C |-> f[i]]
    BY <1>6 DEF IsWalk
  <1>8. \A i \in 1 .. C : f[i] = w[i]
    <2> DEFINE T == {i \in 0 .. C : i # 0 => f[i] = w[i]}
    <2> HIDE DEF w
    <2>1. 0 \in T
      BY <1>1
    <2>2. ASSUME NEW i \in 1 .. C, i - 1 \in T PROVE i \in T
      <3>1. i \in 0 .. C /\ (i # 1 => f[i - 1] = w[i - 1])
        BY <1>1, <2>2
      <3>2. f[i] = w[i]
        BY <1>4, <1>7, <3>1, Zenon
      <3>3. QED
        BY <3>1, <3>2
    <2> HIDE DEF T
    <2>3. \A i \in 0 .. C : i \in T
      BY <1>1, <2>1, <2>2, Induction
    <2>4. QED
      BY <1>1, <2>3 DEF T
  <1>9. f = w
    <2>1. w = [i \in 1 .. C |-> w[i]]
      OBVIOUS
    <2> HIDE DEF w
    <2>2. QED
      BY <1>7, <1>8, <2>1
  <1>10. /\ w \in Seq(ListNode \cup {stop}) /\ Len(w) = C /\ N + 1 \in 1 .. Len(w) /\ w[N + 1] = stop
         /\ \A i \in 1 .. Len(w) : i < N + 1 => w[i] # stop
         /\ \A i \in 1 .. N : w[i] = s[i]
    BY <1>1, <1>2
  <1>11. PlaceOf(w, stop) = N + 1
    <2> HIDE DEF w
    <2>1. QED
      BY <1>10, PlaceOfFirst
  <1>12. SubSeq(w, 1, (N + 1) - 1) = s
    <2> HIDE DEF w
    <2>1. SubSeq(w, 1, N) \in Seq(ListNode \cup {stop}) /\ Len(SubSeq(w, 1, N)) = N
          /\ \A i \in 1 .. N : SubSeq(w, 1, N)[i] = w[i]
      BY <1>1, <1>10, SubSeqProperties
    <2>2. s \in Seq(ListNode \cup {stop}) /\ Len(s) = N
      BY DEF N
    <2>3. (N + 1) - 1 = N
      BY <1>1
    <2>4. SubSeq(w, 1, N) = s
      BY <1>10, <2>1, <2>2, SeqEqual
    <2>5. QED
      BY <2>3, <2>4
  <1>13. foreach(link, head, stop) = IF PlaceOf(f, stop) = 0 THEN f ELSE SubSeq(f, 1, PlaceOf(f, stop) - 1)
    BY DEF foreach, PlaceOf, f, IsWalk, C
  <1>14. QED
    <2> HIDE DEF w
    <2>1. N + 1 # 0
      BY <1>1
    <2>2. QED
      BY <1>9, <1>11, <1>12, <1>13, <2>1

\* A node linked in after the head.
LEMMA PathCons ==
  ASSUME NEW s \in Seq(ListNode), NEW n \in ListNode, n \notin ToSet(s), NEW head, head \notin ListNode,
         NEW stop, NEW f, Path(f, s, head, stop),
         NEW g, g[head] = n, g[n] = f[head], \A m \in ToSet(s) : g[m] = f[m]
  PROVE  Path(g, Cons(n, s), head, stop)
  <1> DEFINE t == Cons(n, s)
             N == Len(s)
  <1>1. /\ t \in Seq(ListNode) /\ Len(t) = N + 1 /\ t[1] = n /\ N \in Nat
        /\ \A i \in 1 .. N : t[i + 1] = s[i]
    <2>1. N \in Nat
      OBVIOUS
    <2>2. ASSUME NEW S, NEW u \in Seq(S), NEW e \in S
          PROVE  /\ Cons(e, u) \in Seq(S) /\ Len(Cons(e, u)) = Len(u) + 1 /\ Cons(e, u)[1] = e
                 /\ \A i \in 1 .. Len(u) : Cons(e, u)[i + 1] = u[i]
      BY <2>2, ConsFacts
    <2>3. QED
      BY <2>1, <2>2
  <1>2. \A i \in 1 .. N : s[i] \in ToSet(s)
    BY DEF ToSet
  <1>3. /\ f[head] = IF N = 0 THEN stop ELSE s[1]
        /\ \A i \in 1 .. N : f[s[i]] = IF i = N THEN stop ELSE s[i + 1]
    BY <1>1 DEF Path, At
  <1> HIDE DEF t, N
  <1>4. ASSUME NEW i \in 0 .. N + 1 PROVE g[At(t, head, stop, i)] = At(t, head, stop, i + 1)
    <2>1. CASE i = 0
      BY <1>1, <2>1 DEF At
    <2>2. CASE i = 1
      <3>1. At(t, head, stop, i) = n
        BY <1>1, <2>2 DEF At
      <3>2. At(t, head, stop, i + 1) = IF N = 0 THEN stop ELSE s[1]
        BY <1>1, <2>2 DEF At
      <3>3. QED
        BY <1>3, <3>1, <3>2
    <2>3. CASE i > 1
      <3>1. i - 1 \in 1 .. N /\ (i - 1) + 1 = i /\ (i = N + 1 <=> i - 1 = N) /\ i # 0 /\ i + 1 # 0 /\ i # (N + 1) + 1
            /\ (i + 1 = (N + 1) + 1 <=> i - 1 = N)
        BY <1>1, <2>3
      <3>2. At(t, head, stop, i) = s[i - 1]
        BY <1>1, <3>1 DEF At
      <3>3. At(t, head, stop, i + 1) = IF i - 1 = N THEN stop ELSE s[(i - 1) + 1]
        <4>1. CASE i - 1 = N
          BY <1>1, <3>1, <4>1 DEF At
        <4>2. CASE i - 1 # N
          <5>1. i \in 1 .. N /\ t[i + 1] = s[i]
            BY <1>1, <3>1, <4>2
          <5>2. QED
            BY <1>1, <3>1, <4>2, <5>1 DEF At
        <4>3. QED
          BY <4>1, <4>2
      <3>4. QED
        BY <1>2, <1>3, <3>1, <3>2, <3>3
    <2>4. QED
      BY <1>1, <2>1, <2>2, <2>3
  <1>5. QED
    BY <1>1, <1>4 DEF Path, t

\* A node linked in after the last one.
LEMMA PathAppend ==
  ASSUME NEW s \in Seq(ListNode), IsInjective(s), NEW n \in ListNode, n \notin ToSet(s),
         NEW head, head \notin ListNode, NEW stop, NEW f, Path(f, s, head, stop),
         NEW g, NEW last, last = At(s, head, stop, Len(s)), g[last] = n, g[n] = stop,
         \A m \in (ToSet(s) \cup {head}) \ {last} : g[m] = f[m]
  PROVE  Path(g, Append(s, n), head, stop)
  <1> DEFINE t == Append(s, n)
             N == Len(s)
  <1>1. /\ t \in Seq(ListNode) /\ Len(t) = N + 1 /\ t[N + 1] = n /\ N \in Nat /\ DOMAIN s = 1 .. N
        /\ \A i \in 1 .. N : t[i] = s[i]
    BY AppendFacts
  <1>2. \A i \in 1 .. N : s[i] \in ToSet(s) /\ s[i] \in ListNode
    BY DEF ToSet
  <1>3. \A i \in 0 .. N : f[At(s, head, stop, i)] = At(s, head, stop, i + 1)
    BY DEF Path
  <1>4. Len(s) = N /\ last = IF N = 0 THEN head ELSE s[N]
    <2> HIDE DEF t
    <2>1. N \in Nat
      BY <1>1
    <2> HIDE DEF N
    <2>2. N # N + 1
      BY <2>1
    <2>3. Len(s) = N
      BY DEF N
    <2>4. QED
      BY <2>2, <2>3, Zenon DEF At
  <1>5. \A i, j \in 1 .. N : s[i] = s[j] => i = j
    BY <1>1 DEF IsInjective
  <1> HIDE DEF t, N
  <1>6. ASSUME NEW i \in 0 .. N + 1 PROVE g[At(t, head, stop, i)] = At(t, head, stop, i + 1)
    <2>1. CASE i = N + 1
      BY <1>1, <2>1 DEF At
    <2>2. CASE i = N
      <3>1. At(t, head, stop, i) = last /\ At(t, head, stop, i + 1) = n
        BY <1>1, <1>4, <2>2 DEF At
      <3>2. QED
        BY <3>1
    <2>3. CASE i < N
      <3> DEFINE a == At(s, head, stop, i)
      <3>1. At(t, head, stop, i) = a /\ At(t, head, stop, i + 1) = At(s, head, stop, i + 1)
        <4>1. i + 1 \in 1 .. N /\ (i # 0 => i \in 1 .. N) /\ i # N + 1 /\ i + 1 # N + 1
              /\ i # (N + 1) + 1 /\ i + 1 # (N + 1) + 1 /\ i + 1 # 0
          BY <1>1, <2>3
        <4>2. QED
          BY <1>1, <1>4, <4>1 DEF At
      <3>2. a \in ToSet(s) \cup {head} /\ a # last
        <4>1. CASE i = 0
          <5>1. a = head /\ last = s[N] /\ N \in 1 .. N
            BY <1>1, <1>4, <2>3, <4>1 DEF At
          <5>2. QED
            BY <1>2, <5>1
        <4>2. CASE i # 0
          <5>1. a = s[i] /\ last = s[N] /\ N \in 1 .. N /\ i \in 1 .. N
            BY <1>1, <1>4, <2>3, <4>2 DEF At
          <5>2. s[i] # s[N]
            BY <1>1, <1>5, <2>3, <5>1
          <5>3. QED
            BY <1>2, <5>1, <5>2
        <4>3. QED
          BY <4>1, <4>2
      <3>3. f[a] = At(s, head, stop, i + 1)
        BY <1>1, <1>3, <2>3
      <3> HIDE DEF a
      <3>4. QED
        BY <3>1, <3>2, <3>3
    <2>4. QED
      BY <1>1, <2>1, <2>2, <2>3
  <1>7. QED
    BY <1>1, <1>6 DEF Path, t

\* The node before the i-th one linked to the node after it.
LEMMA PathRemove ==
  ASSUME NEW s \in Seq(ListNode), IsInjective(s), NEW i \in 1 .. Len(s),
         NEW head, head \notin ListNode, NEW stop, NEW f, Path(f, s, head, stop),
         NEW g, NEW before, before = At(s, head, stop, i - 1), g[before] = f[s[i]],
         \A m \in (ToSet(s) \cup {head}) \ {before, s[i]} : g[m] = f[m]
  PROVE  Path(g, RemoveAt(s, i), head, stop)
  <1> DEFINE t == RemoveAt(s, i)
             N == Len(s)
             A(j) == At(s, head, stop, j)
             B(j) == At(t, head, stop, j)
  <1>1. /\ t \in Seq(ListNode) /\ Len(t) = N - 1 /\ N \in Nat /\ DOMAIN s = 1 .. N /\ i \in 1 .. N
        /\ \A j \in 1 .. N - 1 : t[j] = IF j < i THEN s[j] ELSE s[j + 1]
    BY RemoveAtFacts
  <1>2. \A j \in 1 .. N : s[j] \in ToSet(s) /\ s[j] \in ListNode
    BY DEF ToSet
  <1>3. \A j \in 0 .. N : f[A(j)] = A(j + 1)
    BY DEF Path
  <1>4. before = A(i - 1) /\ A(i) = s[i]
    BY DEF At
  <1>5. \A j, k \in 1 .. N : s[j] = s[k] => j = k
    BY <1>1 DEF IsInjective
  <1> HIDE DEF t
  <1>6. \A j \in 0 .. N : B(j) = IF j < i THEN A(j) ELSE A(j + 1)
    <2>1. SUFFICES ASSUME NEW j \in 0 .. N PROVE B(j) = IF j < i THEN A(j) ELSE A(j + 1)
      OBVIOUS
    <2>2. CASE j = 0
      BY <1>1, <2>2 DEF At
    <2>3. CASE j \in 1 .. N - 1
      BY <1>1, <2>3 DEF At
    <2>4. CASE j = N
      BY <1>1, <2>4 DEF At
    <2>5. QED
      BY <1>1, <2>2, <2>3, <2>4
  <1>7. ASSUME NEW j \in 0 .. N, j # i - 1, j # i
        PROVE  A(j) \in (ToSet(s) \cup {head}) \ {before, s[i]}
    <2>1. CASE j = 0
      <3>1. A(j) = head /\ i - 1 \in 1 .. N /\ before = s[i - 1]
        BY <1>1, <1>4, <1>7, <2>1 DEF At
      <3>2. QED
        BY <1>1, <1>2, <3>1
    <2>2. CASE j # 0
      <3>1. A(j) = s[j] /\ j \in 1 .. N /\ s[j] # s[i]
        BY <1>1, <1>5, <1>7, <2>2 DEF At
      <3>2. s[j] # before
        <4>1. CASE i = 1
          BY <1>1, <1>2, <1>4, <3>1, <4>1 DEF At
        <4>2. CASE i # 1
          <5>1. i - 1 \in 1 .. N /\ before = s[i - 1]
            BY <1>1, <1>4, <4>2 DEF At
          <5>2. QED
            BY <1>5, <1>7, <3>1, <5>1
        <4>3. QED
          BY <4>1, <4>2
      <3>3. QED
        BY <1>2, <3>1, <3>2
    <2>3. QED
      BY <2>1, <2>2
  <1> HIDE DEF A, B, N
  <1>8. ASSUME NEW j \in 0 .. N - 1 PROVE g[B(j)] = B(j + 1)
    <2>0. j \in 0 .. N /\ j + 1 \in 0 .. N
      BY <1>1
    <2>1. CASE j = i - 1
      <3>1. B(j) = before /\ B(j + 1) = A(i + 1)
        <4>1. j < i /\ ~ (j + 1 < i) /\ (j + 1) + 1 = i + 1
          BY <1>1, <2>1
        <4>2. QED
          BY <1>4, <1>6, <2>0, <2>1, <4>1
      <3>2. f[s[i]] = A(i + 1)
        BY <1>1, <1>3, <1>4
      <3>3. QED
        BY <3>1, <3>2
    <2>2. CASE j < i - 1
      <3>1. j < i /\ j + 1 < i /\ j # i /\ j # i - 1
        BY <1>1, <2>2
      <3>2. B(j) = A(j) /\ B(j + 1) = A(j + 1) /\ f[A(j)] = A(j + 1)
        BY <1>3, <1>6, <2>0, <3>1
      <3>3. g[A(j)] = f[A(j)]
        BY <1>7, <2>0, <3>1
      <3>4. QED
        BY <3>2, <3>3
    <2>3. CASE j >= i
      <3>1. ~ (j < i) /\ ~ (j + 1 < i) /\ j + 1 # i /\ j + 1 # i - 1
        BY <1>1, <2>3
      <3>2. B(j) = A(j + 1) /\ B(j + 1) = A((j + 1) + 1) /\ f[A(j + 1)] = A((j + 1) + 1)
        BY <1>3, <1>6, <2>0, <3>1
      <3>3. g[A(j + 1)] = f[A(j + 1)]
        BY <1>7, <2>0, <3>1
      <3>4. QED
        BY <3>2, <3>3
    <2>4. QED
      BY <1>1, <2>1, <2>2, <2>3
  <1>9. QED
    BY <1>1, <1>8 DEF Path, t, B, N

\* A path that no longer has to do with a node does not see its link change.
LEMMA PathFrame ==
  ASSUME NEW s \in Seq(ListNode), NEW head, NEW stop, NEW f, Path(f, s, head, stop),
         NEW g, \A m \in ToSet(s) \cup {head} : g[m] = f[m]
  PROVE  Path(g, s, head, stop)
  <1>1. \A i \in 0 .. Len(s) : At(s, head, stop, i) \in ToSet(s) \cup {head}
    BY DEF At, ToSet
  <1>2. QED
    BY <1>1 DEF Path

\* The ring read from the other end.
LEMMA AtReverse ==
  ASSUME NEW S, NEW s \in Seq(S), NEW head, NEW i \in 0 .. Len(s) + 1
  PROVE  At(Reverse(s), head, head, i) = At(s, head, head, Len(s) + 1 - i)
  <1> DEFINE r == Reverse(s)
  <1>1. r \in Seq(S) /\ Len(r) = Len(s) /\ Len(s) \in Nat /\ \A j \in 1 .. Len(s) : r[j] = s[Len(s) - j + 1]
    BY ReverseFacts
  <1> HIDE DEF r
  <1>2. At(r, head, head, i) = At(s, head, head, Len(s) + 1 - i)
    <2>1. CASE i \in 1 .. Len(s)
      <3>1. Len(s) - i + 1 = Len(s) + 1 - i /\ Len(s) + 1 - i \in 1 .. Len(s) /\ i # 0 /\ i # Len(s) + 1
        BY <1>1, <2>1
      <3>2. r[i] = s[Len(s) + 1 - i]
        BY <1>1, <2>1, <3>1
      <3>3. QED
        BY <1>1, <3>1, <3>2 DEF At
    <2>2. CASE i = 0 \/ i = Len(s) + 1
      BY <1>1, <2>2 DEF At
    <2>3. QED
      BY <1>1, <2>1, <2>2
  <1>3. QED
    BY <1>2 DEF r

\* The reversed path leads from each node to the one before it.
LEMMA PrevOf ==
  ASSUME NEW s \in Seq(ListNode), NEW head, NEW f, Path(f, Reverse(s), head, head),
         NEW j \in 1 .. Len(s) + 1
  PROVE  f[At(s, head, head, j)] = At(s, head, head, j - 1)
  <1> DEFINE r == Reverse(s)
             N == Len(s)
             i == N + 1 - j
  <1>1. r \in Seq(ListNode) /\ Len(r) = N /\ N \in Nat
    BY ReverseFacts
  <1>2. i \in 0 .. N /\ i \in 0 .. N + 1 /\ i + 1 \in 0 .. N + 1 /\ N + 1 - i = j /\ N + 1 - (i + 1) = j - 1
    BY <1>1
  <1> HIDE DEF i
  <1>3. f[At(r, head, head, i)] = At(r, head, head, i + 1)
    BY <1>1, <1>2 DEF Path
  <1>4. At(r, head, head, i) = At(s, head, head, j) /\ At(r, head, head, i + 1) = At(s, head, head, j - 1)
    BY <1>2, AtReverse
  <1>5. QED
    BY <1>3, <1>4
-----------------------------------------------------------------------------
\* What holds of the double linked list between any two calls: both directions
\* spell the sequence, in which no node occurs twice.
DInv(l, s) ==
  /\ s \in Seq(ListNode) /\ IsInjective(s)
  /\ DOMAIN l.next = ListNode \cup {DHead, Junk} /\ DOMAIN l.prev = ListNode \cup {DHead, Junk}
  /\ Path(l.next, s, DHead, DHead)
  /\ Path(l.prev, Reverse(s), DHead, DHead)

\* m_list_append, of a node that is not on the list.
LEMMA AppendDInv ==
  ASSUME NEW l, NEW s, DInv(l, s), NEW n \in ListNode, n \notin ToSet(s)
  PROVE  DInv(m_list_append(l, DHead, n), Append(s, n))
  <1> DEFINE r == Reverse(s)
             t == Append(s, n)
             tail == l.prev[DHead]
             f == l.next
             p == l.prev
             g == [f EXCEPT ![n] = DHead, ![tail] = n]
             q == [p EXCEPT ![n] = tail, ![DHead] = n]
  <1>0. DHead \notin ListNode /\ n # DHead
    BY ListsAssumption
  <1>1. /\ s \in Seq(ListNode) /\ IsInjective(s) /\ Len(s) \in Nat
        /\ DOMAIN f = ListNode \cup {DHead, Junk} /\ DOMAIN p = ListNode \cup {DHead, Junk}
        /\ Path(f, s, DHead, DHead) /\ Path(p, r, DHead, DHead)
    BY DEF DInv
  <1>2. r \in Seq(ListNode) /\ ToSet(r) = ToSet(s) /\ ToSet(s) \subseteq ListNode
    BY <1>1, ReverseFacts, ToSetFinite
  <1>3. t \in Seq(ListNode) /\ IsInjective(t) /\ Reverse(t) = Cons(n, r)
    BY <1>1, AppendFacts, ReverseAppend
  <1>4. tail = At(s, DHead, DHead, Len(s))
    <2>1. At(s, DHead, DHead, Len(s) + 1) = DHead /\ (Len(s) + 1) - 1 = Len(s) /\ Len(s) + 1 \in 1 .. Len(s) + 1
      BY <1>1 DEF At
    <2>2. QED
      BY <1>1, <2>1, PrevOf
  <1>5. tail \in ToSet(s) \cup {DHead}
    BY <1>1, <1>4 DEF At, ToSet
  <1>6. m_list_append(l, DHead, n).next = g /\ m_list_append(l, DHead, n).prev = q
    BY DEF m_list_append
  <1> HIDE DEF r, t, tail, f, p
  <1>7. /\ DOMAIN g = ListNode \cup {DHead, Junk} /\ g[tail] = n /\ g[n] = DHead
        /\ \A m \in (ToSet(s) \cup {DHead}) \ {tail} : g[m] = f[m]
    BY <1>0, <1>1, <1>2, <1>5
  <1>8. /\ DOMAIN q = ListNode \cup {DHead, Junk} /\ q[DHead] = n /\ q[n] = p[DHead]
        /\ \A m \in ToSet(r) : q[m] = p[m]
    BY <1>0, <1>1, <1>2 DEF tail, p
  <1> HIDE DEF g, q
  <1>9. Path(g, t, DHead, DHead)
    BY <1>0, <1>1, <1>4, <1>7, PathAppend DEF t
  <1>10. Path(q, Cons(n, r), DHead, DHead)
    BY <1>0, <1>1, <1>2, <1>8, PathCons
  <1>11. QED
    BY <1>3, <1>6, <1>7, <1>8, <1>9, <1>10 DEF DInv, t

\* m_list_prepend, of a node that is not on the list.
LEMMA PrependDInv ==
  ASSUME NEW l, NEW s, DInv(l, s), NEW n \in ListNode, n \notin ToSet(s)
  PROVE  DInv(m_list_prepend(l, DHead, n), Cons(n, s))
  <1> DEFINE r == Reverse(s)
             t == Cons(n, s)
             first == l.next[DHead]
             f == l.next
             p == l.prev
             g == [f EXCEPT ![n] = first, ![DHead] = n]
             q == [p EXCEPT ![n] = DHead, ![first] = n]
  <1>0. DHead \notin ListNode /\ n # DHead
    BY ListsAssumption
  <1>1. /\ s \in Seq(ListNode) /\ IsInjective(s) /\ Len(s) \in Nat
        /\ DOMAIN f = ListNode \cup {DHead, Junk} /\ DOMAIN p = ListNode \cup {DHead, Junk}
        /\ Path(f, s, DHead, DHead) /\ Path(p, r, DHead, DHead)
    BY DEF DInv
  <1>2. r \in Seq(ListNode) /\ ToSet(r) = ToSet(s) /\ ToSet(s) \subseteq ListNode /\ IsInjective(r) /\ Len(r) = Len(s)
    BY <1>1, ReverseFacts, ToSetFinite
  <1>3. t \in Seq(ListNode) /\ IsInjective(t) /\ Reverse(t) = Append(r, n)
    BY <1>1, ConsFacts, ReverseAppend
  <1>4. first = At(r, DHead, DHead, Len(r))
    <2>1. At(s, DHead, DHead, 0) = DHead /\ 0 \in 0 .. Len(s) /\ 0 + 1 = 1
          /\ Len(s) \in 0 .. Len(s) + 1 /\ Len(s) + 1 - Len(s) = 1
      BY <1>1 DEF At
    <2>2. first = At(s, DHead, DHead, 1)
      BY <1>1, <2>1 DEF Path
    <2>3. At(r, DHead, DHead, Len(s)) = At(s, DHead, DHead, 1)
      BY <1>1, <2>1, AtReverse
    <2>4. QED
      BY <1>2, <2>2, <2>3
  <1> HIDE DEF r
  <1>5. first \in ToSet(r) \cup {DHead}
    BY <1>1, <1>2, <1>4 DEF At, ToSet
  <1>6. m_list_prepend(l, DHead, n).next = g /\ m_list_prepend(l, DHead, n).prev = q
    BY DEF m_list_prepend
  <1> HIDE DEF t, first, f, p
  <1>7. /\ DOMAIN q = ListNode \cup {DHead, Junk} /\ q[first] = n /\ q[n] = DHead
        /\ \A m \in (ToSet(r) \cup {DHead}) \ {first} : q[m] = p[m]
    BY <1>0, <1>1, <1>2, <1>5
  <1>8. /\ DOMAIN g = ListNode \cup {DHead, Junk} /\ g[DHead] = n /\ g[n] = f[DHead]
        /\ \A m \in ToSet(s) : g[m] = f[m]
    BY <1>0, <1>1, <1>2 DEF first, f
  <1> HIDE DEF g, q
  <1>9. Path(q, Append(r, n), DHead, DHead)
    BY <1>0, <1>1, <1>2, <1>4, <1>7, PathAppend
  <1>10. Path(g, t, DHead, DHead)
    BY <1>0, <1>1, <1>8, PathCons DEF t
  <1>11. QED
    BY <1>3, <1>6, <1>7, <1>8, <1>9, <1>10 DEF DInv, t

\* m_list_remove of any node of the list, and free of its memory.
LEMMA RemoveDInv ==
  ASSUME NEW l, NEW s, DInv(l, s), NEW i \in 1 .. Len(s)
  PROVE  DInv(FreeNode(m_list_remove(l, s[i]), s[i]), RemoveAt(s, i))
  <1> DEFINE r == Reverse(s)
             N == Len(s)
             k == N - i + 1
             n == s[i]
             f == l.next
             p == l.prev
             before == p[n]
             after == f[n]
             g == [[f EXCEPT ![before] = after] EXCEPT ![n] = Junk]
             q == [[p EXCEPT ![after] = before] EXCEPT ![n] = Junk]
  <1>0. DHead \notin ListNode
    BY ListsAssumption
  <1>1. /\ s \in Seq(ListNode) /\ IsInjective(s) /\ N \in Nat
        /\ DOMAIN f = ListNode \cup {DHead, Junk} /\ DOMAIN p = ListNode \cup {DHead, Junk}
        /\ Path(f, s, DHead, DHead) /\ Path(p, r, DHead, DHead)
    BY DEF DInv
  <1>2. r \in Seq(ListNode) /\ ToSet(r) = ToSet(s) /\ ToSet(s) \subseteq ListNode /\ IsInjective(r) /\ Len(r) = N
        /\ \A j \in 1 .. N : r[j] = s[N - j + 1]
    BY <1>1, ReverseFacts, ToSetFinite
  <1>3. k \in 1 .. N /\ N - k + 1 = i /\ n \in ListNode /\ r[k] = n
    <2>1. k \in 1 .. N /\ N - k + 1 = i /\ n \in ListNode
      BY <1>1
    <2>2. QED
      BY <1>2, <2>1
  <1>4. RemoveAt(s, i) \in Seq(ListNode) /\ IsInjective(RemoveAt(s, i)) /\ Reverse(RemoveAt(s, i)) = RemoveAt(r, k)
    BY <1>1, RemoveAtFacts, ReverseRemoveAt
  <1>5. At(s, DHead, DHead, i) = n
    BY <1>1 DEF At
  <1>6. before = At(s, DHead, DHead, i - 1)
    <2>1. i \in 1 .. Len(s) + 1
      BY <1>1
    <2>2. QED
      BY <1>1, <1>5, <2>1, PrevOf
  <1>7. after = At(r, DHead, DHead, k - 1)
    <2>1. i \in 0 .. N /\ k - 1 \in 0 .. N + 1 /\ N + 1 - (k - 1) = i + 1
      BY <1>1
    <2>2. after = At(s, DHead, DHead, i + 1)
      BY <1>1, <1>5, <2>1 DEF Path
    <2>3. At(r, DHead, DHead, k - 1) = At(s, DHead, DHead, N + 1 - (k - 1))
      BY <1>1, <2>1, AtReverse
    <2>4. QED
      BY <2>1, <2>2, <2>3
  <1>8. before # n /\ before \in ToSet(s) \cup {DHead}
    <2>1. CASE i = 1
      BY <1>0, <1>1, <1>3, <1>6, <2>1 DEF At
    <2>2. CASE i # 1
      <3>1. i - 1 \in 1 .. N /\ i - 1 # 0 /\ i - 1 # N + 1 /\ i - 1 # i /\ DOMAIN s = 1 .. N
        BY <1>1, <2>2
      <3>2. before = s[i - 1]
        BY <1>6, <3>1 DEF At
      <3>3. s[i - 1] # s[i]
        BY <1>1, <3>1 DEF IsInjective
      <3>4. QED
        BY <3>1, <3>2, <3>3 DEF ToSet
    <2>3. QED
      BY <2>1, <2>2
  <1>9. after # n /\ after \in ToSet(r) \cup {DHead}
    <2> HIDE DEF k, r, after
    <2>1. CASE k = 1
      BY <1>0, <1>1, <1>2, <1>3, <1>7, <2>1 DEF At
    <2>2. CASE k # 1
      <3>1. k - 1 \in 1 .. N /\ k - 1 # 0 /\ k - 1 # N + 1 /\ k - 1 # k /\ DOMAIN r = 1 .. N
        BY <1>1, <1>2, <1>3, <2>2
      <3>2. after = r[k - 1]
        BY <1>2, <1>7, <3>1 DEF At
      <3>3. r[k - 1] # r[k]
        BY <1>2, <1>3, <3>1 DEF IsInjective
      <3>4. QED
        BY <1>3, <3>1, <3>2, <3>3 DEF ToSet
    <2>3. QED
      BY <2>1, <2>2
  <1>10. /\ FreeNode(m_list_remove(l, s[i]), s[i]).next = g
         /\ FreeNode(m_list_remove(l, s[i]), s[i]).prev = q
    BY DEF FreeNode, m_list_remove
  <1>11. n \in ListNode /\ s[i] = n
    BY <1>1
  <1> HIDE DEF r, N, k, n, f, p, before, after
  <1>12. /\ DOMAIN g = ListNode \cup {DHead, Junk} /\ g[before] = after
         /\ \A m \in (ToSet(s) \cup {DHead}) \ {before, n} : g[m] = f[m]
    BY <1>0, <1>1, <1>2, <1>8, <1>11
  <1>13. /\ DOMAIN q = ListNode \cup {DHead, Junk} /\ q[after] = before
         /\ \A m \in (ToSet(r) \cup {DHead}) \ {after, n} : q[m] = p[m]
    BY <1>0, <1>1, <1>2, <1>9, <1>11
  <1> HIDE DEF g, q
  <1>14. Path(g, RemoveAt(s, i), DHead, DHead)
    <2>1. g[before] = f[s[i]]
      BY <1>11, <1>12 DEF after
    <2>2. QED
      BY <1>0, <1>1, <1>6, <1>11, <1>12, <2>1, PathRemove
  <1>15. Path(q, RemoveAt(r, k), DHead, DHead)
    <2>1. q[after] = p[r[k]]
      BY <1>3, <1>13 DEF before
    <2>2. k \in 1 .. Len(r)
      BY <1>2, <1>3
    <2>3. QED
      BY <1>0, <1>1, <1>2, <1>3, <1>7, <1>13, <2>1, <2>2, PathRemove
  <1>16. QED
    BY <1>4, <1>10, <1>12, <1>13, <1>14, <1>15 DEF DInv
-----------------------------------------------------------------------------
\* The sequence in the direction a loop over the double linked list takes.
Cur(kind, s) == IF kind = "safe" THEN s ELSE Reverse(s)

\* Either direction of the list is a path.
LEMMA CurFacts ==
  ASSUME NEW l, NEW s, DInv(l, s), NEW kind \in {"safe", "safe_r"}
  PROVE  /\ Cur(kind, s) \in Seq(ListNode) /\ IsInjective(Cur(kind, s)) /\ Len(Cur(kind, s)) = Len(s)
         /\ Path(Link(l, kind), Cur(kind, s), DHead, DHead)
  <1>1. /\ s \in Seq(ListNode) /\ IsInjective(s) 
        /\ Path(l.next, s, DHead, DHead) /\ Path(l.prev, Reverse(s), DHead, DHead)
    BY DEF DInv
  <1>2. Reverse(s) \in Seq(ListNode) /\ IsInjective(Reverse(s)) /\ Len(Reverse(s)) = Len(s)
    BY <1>1, ReverseFacts
  <1>3. CASE kind = "safe"
    BY <1>1, <1>3, Zenon DEF Cur, Link
  <1>4. CASE kind # "safe"
    BY <1>1, <1>2, <1>4, Zenon DEF Cur, Link
  <1>5. QED
    BY <1>3, <1>4

\* A loop body that removes and frees the j-th node it was to meet.
LEMMA CurRemove ==
  ASSUME NEW l, NEW s, DInv(l, s), NEW kind \in {"safe", "safe_r"},
         NEW j \in 1 .. Len(s), NEW n, n = Cur(kind, s)[j]
  PROVE  /\ DInv(FreeNode(m_list_remove(l, n), n), RemoveFirst(s, n))
         /\ Cur(kind, RemoveFirst(s, n)) = RemoveAt(Cur(kind, s), j)
  <1>1. s \in Seq(ListNode) /\ IsInjective(s) /\ Len(s) \in Nat
    BY DEF DInv
  <1>2. CASE kind = "safe"
    <2>1. n = s[j] /\ Cur(kind, s) = s /\ Cur(kind, RemoveFirst(s, n)) = RemoveFirst(s, n)
      BY <1>2 DEF Cur
    <2>2. RemoveFirst(s, n) = RemoveAt(s, j)
      BY <1>1, <2>1, RemoveFirstInjective
    <2>3. QED
      BY <2>1, <2>2, RemoveDInv
  <1>3. CASE kind # "safe"
    <2> DEFINE i == Len(s) - j + 1
    <2>1. i \in 1 .. Len(s) /\ Len(s) - i + 1 = j
      BY <1>1
    <2>2. n = Reverse(s)[j] /\ Cur(kind, s) = Reverse(s) /\ Cur(kind, RemoveFirst(s, n)) = Reverse(RemoveFirst(s, n))
      BY <1>3, Zenon DEF Cur
    <2>3. n = s[i]
      BY <1>1, <2>2, ReverseFacts
    <2> HIDE DEF i
    <2>4. RemoveFirst(s, n) = RemoveAt(s, i)
      BY <1>1, <2>1, <2>3, RemoveFirstInjective
    <2>5. Reverse(RemoveAt(s, i)) = RemoveAt(Reverse(s), j)
      BY <1>1, <2>1, ReverseRemoveAt
    <2>6. DInv(FreeNode(m_list_remove(l, n), n), RemoveAt(s, i))
      BY <2>1, <2>3, RemoveDInv
    <2>7. QED
      BY <2>2, <2>4, <2>5, <2>6
  <1>4. QED
    BY <1>2, <1>3

\* The single linked list between any two calls.
SInv(l, s) ==
  /\ s \in Seq(ListNode) /\ IsInjective(s)
  /\ DOMAIN l = ListNode \cup {SHead, Copy, Junk}
  /\ Path(l, s, SHead, NULL)

\* m_slist_push, of a node that is not on the list.
LEMMA PushSInv ==
  ASSUME NEW l, NEW s, SInv(l, s), NEW n \in ListNode, n \notin ToSet(s)
  PROVE  SInv(m_slist_push(l, SHead, n), Cons(n, s))
  <1> DEFINE g == m_slist_push(l, SHead, n)
  <1>0. SHead \notin ListNode
    BY ListsAssumption
  <1>1. s \in Seq(ListNode) /\ IsInjective(s) /\ DOMAIN l = ListNode \cup {SHead, Copy, Junk} /\ Path(l, s, SHead, NULL)
    BY DEF SInv
  <1>2. ToSet(s) \subseteq ListNode
    BY <1>1, ToSetFinite
  <1>3. g = [l EXCEPT ![n] = l[SHead], ![SHead] = n]
    BY DEF m_slist_push
  <1> HIDE DEF g
  <1>4. /\ DOMAIN g = ListNode \cup {SHead, Copy, Junk} /\ g[SHead] = n /\ g[n] = l[SHead]
        /\ \A m \in ToSet(s) : g[m] = l[m]
    BY <1>0, <1>1, <1>2, <1>3
  <1>5. Path(g, Cons(n, s), SHead, NULL)
    BY <1>0, <1>1, <1>4, PathCons
  <1>6. Cons(n, s) \in Seq(ListNode) /\ IsInjective(Cons(n, s))
    BY <1>1, ConsFacts
  <1>7. QED
    BY <1>4, <1>5, <1>6 DEF SInv, g

\* A change to the link of nothing on the list.
LEMMA FrameSInv ==
  ASSUME NEW l, NEW s, SInv(l, s), NEW x, x \notin ToSet(s) \cup {SHead}, NEW v
  PROVE  SInv([l EXCEPT ![x] = v], s)
  <1> DEFINE g == [l EXCEPT ![x] = v]
  <1>1. s \in Seq(ListNode) /\ IsInjective(s) /\ DOMAIN l = ListNode \cup {SHead, Copy, Junk} /\ Path(l, s, SHead, NULL)
    BY DEF SInv
  <1>2. ToSet(s) \subseteq ListNode
    BY <1>1, ToSetFinite
  <1>3. DOMAIN g = DOMAIN l /\ \A m \in ToSet(s) \cup {SHead} : g[m] = l[m]
    BY <1>1, <1>2
  <1> HIDE DEF g
  <1>4. Path(g, s, SHead, NULL)
    BY <1>1, <1>3, PathFrame
  <1>5. QED
    BY <1>1, <1>3, <1>4 DEF SInv, g

\* pop: the first node leaves and is freed; an empty list stays as it is.
LEMMA PopSInv ==
  ASSUME NEW l, NEW s, SInv(l, s)
  PROVE  LET links == m_slist_pop(l, SHead, NULL)
         IN  SInv(IF l[SHead] = NULL THEN links ELSE [links EXCEPT ![l[SHead]] = Junk],
                  IF s = <<>> THEN s ELSE Tail(s))
  <1>0. SHead \notin ListNode /\ NULL \notin ListNode
    BY ListsAssumption
  <1>1. s \in Seq(ListNode) /\ IsInjective(s) /\ DOMAIN l = ListNode \cup {SHead, Copy, Junk}
        /\ Path(l, s, SHead, NULL) /\ Len(s) \in Nat
    BY DEF SInv
  <1>2. At(s, SHead, NULL, 0) = SHead /\ l[SHead] = At(s, SHead, NULL, 1)
    <2>1. At(s, SHead, NULL, 0) = SHead
      BY DEF At
    <2>2. 0 \in 0 .. Len(s) /\ 0 + 1 = 1
      BY <1>1
    <2>3. QED
      BY <1>1, <2>1, <2>2 DEF Path
  <1>3. CASE s = <<>>
    <2>1. l[SHead] = NULL
      BY <1>2, <1>3 DEF At
    <2>2. QED
      BY <1>3, <2>1 DEF m_slist_pop
  <1>4. CASE s # <<>>
    <2> DEFINE n == s[1]
               g == [[l EXCEPT ![SHead] = l[n]] EXCEPT ![n] = Junk]
    <2>1. 1 \in 1 .. Len(s) /\ n \in ListNode /\ n \in ToSet(s)
      BY <1>1, <1>4 DEF ToSet
    <2>2. l[SHead] = n /\ n # NULL
      BY <1>0, <1>1, <1>2, <2>1 DEF At
    <2>3. ToSet(s) \subseteq ListNode
      BY <1>1, ToSetFinite
    <2>4. Tail(s) = RemoveAt(s, 1)
      <3>1. RemoveAt(s, 1) \in Seq(ListNode) /\ Len(RemoveAt(s, 1)) = Len(s) - 1
            /\ \A j \in 1 .. Len(s) - 1 : RemoveAt(s, 1)[j] = IF j < 1 THEN s[j] ELSE s[j + 1]
        BY <1>1, <2>1, RemoveAtFacts
      <3> DEFINE a == RemoveAt(s, 1)
      <3> HIDE DEF a
      <3>2. Tail(s) \in Seq(ListNode) /\ Len(Tail(s)) = Len(s) - 1 /\ \A j \in 1 .. Len(s) - 1 : Tail(s)[j] = s[j + 1]
        BY <1>1, <1>4, HeadTailProperties
      <3>3. \A j \in 1 .. Len(s) - 1 : Tail(s)[j] = a[j]
        BY <1>1, <3>1, <3>2 DEF a
      <3>4. QED
        BY <3>1, <3>2, <3>3, SeqEqual DEF a
    <2>5. RemoveAt(s, 1) \in Seq(ListNode) /\ IsInjective(RemoveAt(s, 1))
      BY <1>1, <2>1, RemoveAtFacts
    <2> HIDE DEF n
    <2>6. DOMAIN g = DOMAIN l /\ g[SHead] = l[n] /\ \A m \in (ToSet(s) \cup {SHead}) \ {SHead, n} : g[m] = l[m]
      BY <1>0, <1>1, <2>1, <2>3
    <2> HIDE DEF g
    <2>7. Path(g, RemoveAt(s, 1), SHead, NULL)
      <3>1. g[SHead] = l[s[1]] /\ \A m \in (ToSet(s) \cup {SHead}) \ {SHead, s[1]} : g[m] = l[m]
        BY <2>6 DEF n
      <3>2. SHead = At(s, SHead, NULL, 1 - 1)
        BY <1>2
      <3>3. QED
        BY <1>0, <1>1, <2>1, <3>1, <3>2, PathRemove
    <2>8. SInv(g, Tail(s))
      BY <1>1, <2>4, <2>5, <2>6, <2>7 DEF SInv
    <2>9. m_slist_pop(l, SHead, NULL) = [l EXCEPT ![SHead] = l[n]]
      BY <2>2 DEF m_slist_pop
    <2>10. QED
      BY <1>4, <2>2, <2>8, <2>9 DEF g
  <1>5. QED
    BY <1>3, <1>4
-----------------------------------------------------------------------------
\* What a loop has visited is the beginning of what it must.
VisitInv ==
  /\ l_expected \in Seq(ListNode) /\ IsInjective(l_expected)
  /\ l_visited \in Seq(ListNode) /\ Len(l_visited) <= Len(l_expected)
  /\ \A i \in 1 .. Len(l_visited) : l_visited[i] = l_expected[i]

\* What is left of the list in a loop's direction ends as what it must visit
\* ends: what the body frees lies behind the loop.
Remaining(cur, due, seen) ==
  LET d == Len(cur) - Len(due)
  IN  /\ d + Len(seen) >= 0
      /\ \A i \in Len(seen) + 1 .. Len(due) : due[i] = cur[i + d]

DLoopInv ==
  l_loop \in {"safe", "safe_r"} =>
    /\ Remaining(Cur(l_loop, dref), l_expected, l_visited)
    /\ l_node = At(l_expected, DHead, DHead, Len(l_visited) + 1)
    /\ l_saved = Link(list, l_loop)[l_node]

\* The links of the nodes a gc_sweep loop has not reached are untouched, and
\* only nodes it has visited are back on the list.
SLoopInv ==
  l_loop = "slist" =>
    /\ l_node = At(l_expected, SHead, NULL, Len(l_visited) + 1)
    /\ l_saved = IF l_node = NULL THEN NULL ELSE slist[l_node]
    /\ \A i \in Len(l_visited) + 1 .. Len(l_expected) : slist[l_expected[i]] = At(l_expected, SHead, NULL, i + 1)
    /\ \A m \in ToSet(sref) : \E i \in 1 .. Len(l_visited) : m = l_expected[i]

ListInv ==
  /\ l_loop \in {"none", "safe", "safe_r", "slist"}
  /\ DInv(list, dref) /\ SInv(slist, sref)
  /\ VisitInv /\ DLoopInv /\ SLoopInv

\* The lists start empty.
LEMMA ListInitial ==
  ASSUME ListInit
  PROVE  ListInv
  <1>0. DHead \notin ListNode /\ SHead \notin ListNode
    BY ListsAssumption
  <1>1. /\ <<>> \in Seq(ListNode) /\ IsInjective(<<>>) /\ Len(<<>>) = 0 /\ Reverse(<<>>) = <<>>
    BY DEF IsInjective, Reverse
  <1>2. /\ list.next = [n \in ListNode \cup {DHead, Junk} |-> IF n = DHead THEN DHead ELSE Junk]
        /\ list.prev = [n \in ListNode \cup {DHead, Junk} |-> IF n = DHead THEN DHead ELSE Junk]
    BY DEF ListInit, m_list_init
  <1>3. slist[SHead] = NULL /\ DOMAIN slist = ListNode \cup {SHead, Copy, Junk}
    BY DEF ListInit
  <1>4. \A f, head, stop : f[head] = stop => Path(f, <<>>, head, stop)
    BY <1>1 DEF Path, At
  <1>5. list.next[DHead] = DHead /\ list.prev[DHead] = DHead
        /\ DOMAIN list.next = ListNode \cup {DHead, Junk} /\ DOMAIN list.prev = ListNode \cup {DHead, Junk}
    BY <1>2
  <1>6. DInv(list, dref)
    BY <1>1, <1>4, <1>5 DEF ListInit, DInv
  <1>7. SInv(slist, sref)
    BY <1>1, <1>3, <1>4 DEF ListInit, SInv
  <1>8. VisitInv /\ DLoopInv /\ SLoopInv /\ l_loop \in {"none", "safe", "safe_r", "slist"}
    BY <1>1 DEF ListInit, VisitInv, DLoopInv, SLoopInv
  <1>9. QED
    BY <1>6, <1>7, <1>8 DEF ListInv

\* Where a loop that has not ended stands.
LEMMA StandsOn ==
  ASSUME VisitInv, NEW head, NEW stop, stop \notin ListNode,
         l_node = At(l_expected, head, stop, Len(l_visited) + 1), l_node # stop
  PROVE  /\ Len(l_visited) + 1 \in 1 .. Len(l_expected) /\ l_node = l_expected[Len(l_visited) + 1] /\ l_node \in ListNode
         /\ \A i \in 1 .. Len(l_visited) : l_expected[i] # l_node
         /\ \A i \in Len(l_visited) + 2 .. Len(l_expected) : l_expected[i] # l_node
  <1> DEFINE k == Len(l_visited)
             N == Len(l_expected)
  <1>1. /\ k \in Nat /\ N \in Nat /\ k <= N /\ DOMAIN l_expected = 1 .. N
        /\ \A i \in 1 .. N : l_expected[i] \in ListNode
    BY DEF VisitInv
  <1>2. \A i, j \in 1 .. N : l_expected[i] = l_expected[j] => i = j
    BY <1>1 DEF VisitInv, IsInjective
  <1>3. l_node = IF k + 1 = N + 1 THEN stop ELSE l_expected[k + 1]
    BY <1>1 DEF At
  <1> HIDE DEF k, N
  <1>4. k + 1 \in 1 .. N /\ l_node = l_expected[k + 1] /\ l_node \in ListNode
    BY <1>1, <1>3
  <1>5. \A i \in 1 .. N : i # k + 1 => l_expected[i] # l_node
    BY <1>2, <1>4
  <1>6. /\ \A i \in 1 .. k : i \in 1 .. N /\ i # k + 1
        /\ \A i \in k + 2 .. N : i \in 1 .. N /\ i # k + 1
    BY <1>1
  <1>7. QED
    BY <1>4, <1>5, <1>6 DEF k, N

\* A loop that visits the node it must visit next.
LEMMA VisitStep ==
  ASSUME VisitInv, Len(l_visited) + 1 \in 1 .. Len(l_expected), l_node = l_expected[Len(l_visited) + 1],
         l_visited' = Append(l_visited, l_node), l_expected' = l_expected
  PROVE  VisitInv' /\ Len(l_visited') = Len(l_visited) + 1
  <1> DEFINE k == Len(l_visited)
  <1>1. /\ l_visited \in Seq(ListNode) /\ k \in Nat /\ l_expected \in Seq(ListNode) /\ Len(l_expected) \in Nat
        /\ IsInjective(l_expected) /\ \A i \in 1 .. k : l_visited[i] = l_expected[i]
    BY DEF VisitInv
  <1>2. l_node \in ListNode
    BY <1>1
  <1>3. /\ l_visited' \in Seq(ListNode) /\ Len(l_visited') = k + 1 /\ l_visited'[k + 1] = l_node
        /\ \A i \in 1 .. k : l_visited'[i] = l_visited[i]
    BY <1>1, <1>2, AppendFacts
  <1>4. \A i \in 1 .. k + 1 : l_visited'[i] = l_expected[i]
    BY <1>1, <1>3
  <1>5. QED
    BY <1>1, <1>3, <1>4 DEF VisitInv

\* An iteration of m_list_foreach_safe or its reverse.
LEMMA DStep ==
  ASSUME ListInv, NEW frees \in BOOLEAN, m_list_foreach_safe(frees)
  PROVE  ListInv'
  <1> DEFINE k == Len(l_visited)
             N == Len(l_expected)
             cur == Cur(l_loop, dref)
             M == Len(cur)
             d == M - N
             j == k + 1 + d
  <1>0. DHead \notin ListNode
    BY ListsAssumption
  <1>1. /\ l_loop \in {"safe", "safe_r"} /\ l_loop' = l_loop /\ l_node # DHead
        /\ l_visited' = Append(l_visited, l_node) /\ l_expected' = l_expected
        /\ slist' = slist /\ sref' = sref
        /\ list' = (IF frees THEN FreeNode(m_list_remove(list, l_node), l_node) ELSE list)
        /\ dref' = (IF frees THEN RemoveFirst(dref, l_node) ELSE dref)
        /\ l_node' = l_saved /\ l_saved' = Link(list', l_loop)[l_node']
    BY DEF m_list_foreach_safe, AfterBody
  <1>2. DInv(list, dref) /\ SInv(slist, sref) /\ VisitInv /\ Remaining(cur, l_expected, l_visited)
        /\ l_node = At(l_expected, DHead, DHead, k + 1) /\ l_saved = Link(list, l_loop)[l_node]
    BY <1>1 DEF ListInv, DLoopInv
  <1>3. k + 1 \in 1 .. N /\ l_node = l_expected[k + 1] /\ l_node \in ListNode /\ k \in Nat /\ N \in Nat
    <2>1. k \in Nat /\ N \in Nat
      BY <1>2 DEF VisitInv
    <2>2. QED
      BY <1>0, <1>1, <1>2, <2>1, StandsOn
  <1>4. VisitInv' /\ Len(l_visited') = k + 1 /\ Len(l_expected') = N
    BY <1>1, <1>2, <1>3, VisitStep
  <1>5. cur \in Seq(ListNode) /\ IsInjective(cur) /\ M = Len(dref) /\ Path(Link(list, l_loop), cur, DHead, DHead)
    BY <1>1, <1>2, CurFacts
  <1>6. M \in Nat /\ d + k >= 0 /\ \A i \in k + 1 .. N : l_expected[i] = cur[i + d]
    BY <1>2, <1>5 DEF Remaining
  <1>7. j \in 1 .. M /\ l_node = cur[j] /\ d \in Int /\ j = (k + 1) + d
    BY <1>3, <1>6
  <1>8. l_saved = At(l_expected, DHead, DHead, (k + 1) + 1)
    <2>1. l_saved = At(cur, DHead, DHead, j + 1)
      <3>1. At(cur, DHead, DHead, j) = l_node /\ j \in 0 .. M
        BY <1>5, <1>6, <1>7 DEF At
      <3>2. QED
        BY <1>2, <1>5, <3>1 DEF Path
    <2>2. CASE k + 1 = N
      <3>1. j + 1 = M + 1 /\ j + 1 # 0 /\ (k + 1) + 1 = N + 1 /\ (k + 1) + 1 # 0
        BY <1>3, <1>6, <1>7, <2>2
      <3>2. QED
        BY <2>1, <3>1 DEF At
    <2>3. CASE k + 1 # N
      <3>1. /\ j + 1 # M + 1 /\ j + 1 # 0 /\ (k + 1) + 1 # N + 1 /\ (k + 1) + 1 # 0
            /\ (k + 1) + 1 \in k + 1 .. N /\ ((k + 1) + 1) + d = j + 1
        BY <1>3, <1>6, <1>7, <2>3
      <3>2. l_expected[(k + 1) + 1] = cur[j + 1]
        BY <1>6, <3>1
      <3> HIDE DEF cur, M, N, k, j
      <3>3. Len(cur) = M /\ Len(l_expected) = N
        BY DEF M, N
      <3>4. QED
        BY <2>1, <3>1, <3>2, <3>3 DEF At
    <2>4. QED
      BY <2>2, <2>3
  <1>9. DInv(list', dref') /\ Remaining(Cur(l_loop', dref'), l_expected', l_visited')
    <2>1. CASE ~ frees
      <3>1. list' = list /\ dref' = dref
        BY <1>1, <2>1
      <3>2. Remaining(Cur(l_loop', dref'), l_expected', l_visited')
        <4>1. Cur(l_loop', dref') = cur
          BY <1>1, <3>1, Zenon
        <4> HIDE DEF cur, k, N
        <4>2. /\ (M - N) + (k + 1) >= 0
              /\ \A i \in (k + 1) + 1 .. N : l_expected[i] = cur[i + (M - N)]
          BY <1>3, <1>6
        <4>3. QED
          BY <1>1, <1>4, <4>1, <4>2 DEF Remaining, cur
      <3>3. QED
        BY <1>2, <3>1, <3>2
    <2>2. CASE frees
      <3> DEFINE cur2 == Cur(l_loop', dref')
      <3>1. DInv(list', dref') /\ cur2 = RemoveAt(cur, j)
        <4>1. l_loop' = l_loop /\ dref' = RemoveFirst(dref, l_node) /\ list' = FreeNode(m_list_remove(list, l_node), l_node)
          BY <1>1, <2>2
        <4>2. j \in 1 .. Len(dref)
          BY <1>5, <1>7
        <4>3. l_node = Cur(l_loop, dref)[j]
          BY <1>7
        <4> HIDE DEF j
        <4>4. QED
          BY <1>1, <1>2, <4>1, <4>2, <4>3, CurRemove
      <3>2. Len(cur2) = M - 1 /\ \A i \in 1 .. M - 1 : cur2[i] = IF i < j THEN cur[i] ELSE cur[i + 1]
        BY <1>5, <1>7, <3>1, RemoveAtFacts
      <3> HIDE DEF cur2, cur, k, N
      <3>3. ASSUME NEW i \in (k + 1) + 1 .. N PROVE l_expected[i] = cur2[i + (Len(cur2) - N)]
        <4>1. /\ i + (Len(cur2) - N) \in 1 .. M - 1 /\ ~ (i + (Len(cur2) - N) < j)
              /\ (i + (Len(cur2) - N)) + 1 = i + d /\ i \in k + 1 .. N
          BY <1>3, <1>6, <1>7, <3>2
        <4>2. cur2[i + (Len(cur2) - N)] = cur[i + d]
          BY <3>2, <4>1
        <4>3. QED
          BY <1>6, <4>1, <4>2
      <3>4. (Len(cur2) - N) + (k + 1) >= 0
        BY <1>3, <1>6, <3>2
      <3>5. Remaining(cur2, l_expected', l_visited')
        BY <1>1, <1>4, <3>3, <3>4 DEF Remaining
      <3>6. QED
        BY <1>1, <3>1, <3>5 DEF cur2
    <2>3. QED
      BY <2>1, <2>2
  <1>10. DLoopInv'
    BY <1>1, <1>4, <1>8, <1>9 DEF DLoopInv
  <1>11. QED
    BY <1>1, <1>2, <1>4, <1>9, <1>10 DEF ListInv, SLoopInv

\* An iteration of m_slist_foreach_safe.
LEMMA SStep ==
  ASSUME ListInv, NEW frees \in BOOLEAN, m_slist_foreach_safe(frees)
  PROVE  ListInv'
  <1> DEFINE k == Len(l_visited)
             N == Len(l_expected)
             A(i) == At(l_expected, SHead, NULL, i)
  <1>0. SHead \notin ListNode /\ NULL \notin ListNode
    BY ListsAssumption
  <1>1. /\ l_loop = "slist" /\ l_loop' = l_loop /\ l_node # NULL
        /\ l_visited' = Append(l_visited, l_node) /\ l_expected' = l_expected /\ list' = list /\ dref' = dref
        /\ slist' = (IF frees THEN [slist EXCEPT ![l_node] = Junk] ELSE m_slist_push(slist, SHead, l_node))
        /\ sref' = (IF frees THEN sref ELSE Cons(l_node, sref))
        /\ l_node' = l_saved /\ l_saved' = IF l_node' = NULL THEN NULL ELSE slist'[l_node']
    BY DEF m_slist_foreach_safe, AfterBody
  <1>2. /\ DInv(list, dref) /\ SInv(slist, sref) /\ VisitInv
        /\ l_node = A(k + 1) /\ l_saved = slist[l_node]
        /\ \A i \in k + 1 .. N : slist[l_expected[i]] = A(i + 1)
        /\ \A m \in ToSet(sref) : \E i \in 1 .. k : m = l_expected[i]
    BY <1>1 DEF ListInv, SLoopInv
  <1>3. /\ k + 1 \in 1 .. N /\ l_node = l_expected[k + 1] /\ l_node \in ListNode
        /\ \A i \in 1 .. k : l_expected[i] # l_node
        /\ \A i \in k + 2 .. N : l_expected[i] # l_node
    BY <1>0, <1>1, <1>2, StandsOn
  <1>4. VisitInv' /\ Len(l_visited') = k + 1 /\ Len(l_expected') = N
    BY <1>1, <1>2, <1>3, VisitStep
  <1>5. k \in Nat /\ N \in Nat /\ \A i \in 1 .. N : l_expected[i] \in ListNode
    BY <1>2 DEF VisitInv
  <1>6. l_node \notin ToSet(sref) /\ DOMAIN slist = ListNode \cup {SHead, Copy, Junk} /\ sref \in Seq(ListNode)
    BY <1>2, <1>3 DEF SInv
  <1>7. SInv(slist', sref')
    <2>1. CASE frees
      <3>1. l_node \notin ToSet(sref) \cup {SHead}
        BY <1>0, <1>3, <1>6
      <3>2. SInv([slist EXCEPT ![l_node] = Junk], sref)
        BY <1>2, <3>1, FrameSInv
      <3>3. QED
        BY <1>1, <2>1, <3>2
    <2>2. CASE ~ frees
      BY <1>1, <1>2, <1>3, <1>6, <2>2, PushSInv
    <2>3. QED
      BY <2>1, <2>2
  <1>8. \A m \in ListNode : m # l_node => slist'[m] = slist[m]
    <2>1. CASE frees
      BY <1>1, <1>6, <2>1
    <2>2. CASE ~ frees
      BY <1>0, <1>1, <1>6, <2>2 DEF m_slist_push
    <2>3. QED
      BY <2>1, <2>2
  <1> HIDE DEF k, N, A
  <1>9. ASSUME NEW i \in (k + 1) + 1 .. N PROVE slist'[l_expected[i]] = A(i + 1)
    <2>1. i \in k + 1 .. N /\ i \in k + 2 .. N /\ i \in 1 .. N
      BY <1>5
    <2>2. QED
      BY <1>2, <1>3, <1>5, <1>8, <2>1
  <1>10. l_node' = A((k + 1) + 1)
    <2>1. k + 1 \in k + 1 .. N
      BY <1>3, <1>5
    <2>2. QED
      BY <1>1, <1>2, <1>3, <2>1
  <1>11. ASSUME NEW m \in ToSet(sref') PROVE \E i \in 1 .. k + 1 : m = l_expected[i]
    <2>1. m \in ToSet(sref) \/ m = l_node
      <3>1. CASE frees
        BY <1>1, <1>11, <3>1
      <3>2. CASE ~ frees
        <4>1. ToSet(Cons(l_node, sref)) = ToSet(sref) \cup {l_node}
          <5>1. l_node \in ListNode /\ sref \in Seq(ListNode)
            BY <1>3, <1>6
          <5>2. \A s \in Seq(ListNode), e \in ListNode : ToSet(Cons(e, s)) = ToSet(s) \cup {e}
            BY ConsFacts
          <5>3. QED
            BY <5>1, <5>2, Zenon
        <4>2. QED
          BY <1>1, <1>11, <3>2, <4>1
      <3>3. QED
        BY <3>1, <3>2
    <2>2. CASE m = l_node
      <3>1. k + 1 \in 1 .. k + 1
        BY <1>5
      <3>2. QED
        BY <1>3, <2>2, <3>1
    <2>3. CASE m \in ToSet(sref)
      <3>1. \A i \in 1 .. k : i \in 1 .. k + 1
        BY <1>5
      <3>2. QED
        BY <1>2, <2>3, <3>1
    <2>4. QED
      BY <2>1, <2>2, <2>3
  <1>12. SLoopInv'
    BY <1>1, <1>4, <1>9, <1>10, <1>11 DEF SLoopInv, A
  <1>13. QED
    BY <1>1, <1>2, <1>4, <1>7, <1>12 DEF ListInv, DLoopInv

\* The start of a loop over the double linked list.
LEMMA DBegin ==
  ASSUME ListInv, NEW kind \in {"safe", "safe_r"}, foreach_safe_begin(kind)
  PROVE  ListInv'
  <1> DEFINE cur == Cur(kind, dref)
  <1>1. /\ l_loop' = kind /\ list' = list /\ slist' = slist /\ dref' = dref /\ sref' = sref
        /\ l_node' = Link(list, kind)[DHead] /\ l_saved' = Link(list, kind)[l_node']
        /\ l_expected' = cur /\ l_visited' = <<>>
    BY DEF foreach_safe_begin, Cur
  <1>2. DInv(list, dref) /\ SInv(slist, sref)
    BY DEF ListInv
  <1>3. cur \in Seq(ListNode) /\ IsInjective(cur) /\ Path(Link(list, kind), cur, DHead, DHead)
    BY <1>2, CurFacts
  <1>4. Len(<<>>) = 0 /\ <<>> \in Seq(ListNode) /\ Len(cur) \in Nat
    BY <1>3
  <1>5. VisitInv'
    BY <1>1, <1>3, <1>4 DEF VisitInv
  <1>6. Remaining(cur, cur, <<>>)
    BY <1>4 DEF Remaining
  <1>7. l_node' = At(cur, DHead, DHead, 1)
    <2>1. At(cur, DHead, DHead, 0) = DHead /\ 0 \in 0 .. Len(cur) /\ 0 + 1 = 1
      BY <1>4 DEF At
    <2> HIDE DEF cur
    <2>2. QED
      BY <1>1, <1>3, <2>1 DEF Path
  <1>8. DLoopInv'
    <2>1. /\ Cur(l_loop', dref') = cur /\ Len(l_visited') + 1 = 1
          /\ l_expected' = cur /\ l_visited' = <<>> /\ list' = list /\ l_loop' = kind
      BY <1>1, <1>4
    <2>2. l_saved' = Link(list', l_loop')[l_node']
      BY <1>1, <2>1
    <2>3. QED
      BY <1>6, <1>7, <2>1, <2>2 DEF DLoopInv
  <1>9. QED
    BY <1>1, <1>2, <1>5, <1>8 DEF ListInv, SLoopInv

\* The start of the loop of gc_sweep, over the copied head.
LEMMA SBegin ==
  ASSUME ListInv, slist_foreach_begin
  PROVE  ListInv'
  <1>0. SHead \notin ListNode /\ Copy \notin ListNode /\ SHead # Copy /\ NULL \notin ListNode
    BY ListsAssumption
  <1>1. /\ l_loop' = "slist" /\ list' = list /\ dref' = dref /\ slist[SHead] # NULL
        /\ slist' = [slist EXCEPT ![Copy] = slist[SHead], ![SHead] = NULL]
        /\ l_node' = slist'[Copy] /\ l_saved' = slist'[l_node']
        /\ l_expected' = sref /\ l_visited' = <<>> /\ sref' = <<>>
    BY DEF slist_foreach_begin, m_slist_empty
  <1>2. /\ DInv(list, dref) /\ sref \in Seq(ListNode) /\ IsInjective(sref) /\ Len(sref) \in Nat
        /\ DOMAIN slist = ListNode \cup {SHead, Copy, Junk} /\ Path(slist, sref, SHead, NULL)
    BY DEF ListInv, SInv
  <1>3. /\ DOMAIN slist' = ListNode \cup {SHead, Copy, Junk} /\ slist'[SHead] = NULL
        /\ l_node' = slist[SHead] /\ \A m \in ListNode : slist'[m] = slist[m]
    BY <1>0, <1>1, <1>2
  <1>4. <<>> \in Seq(ListNode) /\ IsInjective(<<>>) /\ Len(<<>>) = 0 /\ ToSet(<<>>) = {}
    BY DEF IsInjective, ToSet
  <1>5. SInv(slist', sref')
    <2>1. Path(slist', <<>>, SHead, NULL)
      BY <1>3, <1>4 DEF Path, At
    <2>2. QED
      BY <1>1, <1>3, <1>4, <2>1 DEF SInv
  <1>6. VisitInv'
    BY <1>1, <1>2, <1>4 DEF VisitInv
  <1>7. l_node' = At(sref, SHead, NULL, 1)
    <2>1. At(sref, SHead, NULL, 0) = SHead /\ 0 \in 0 .. Len(sref) /\ 0 + 1 = 1
      BY <1>2 DEF At
    <2>2. QED
      BY <1>2, <1>3, <2>1 DEF Path
  <1>8. ASSUME NEW i \in 1 .. Len(sref) PROVE slist'[sref[i]] = At(sref, SHead, NULL, i + 1)
    <2>1. sref[i] \in ListNode /\ At(sref, SHead, NULL, i) = sref[i] /\ i \in 0 .. Len(sref)
      BY <1>2 DEF At
    <2>2. QED
      BY <1>2, <1>3, <2>1 DEF Path
  <1>9. SLoopInv'
    <2>1. /\ Len(l_visited') + 1 = 1 /\ l_expected' = sref /\ ToSet(sref') = {} /\ l_node' # NULL
          /\ l_saved' = slist'[l_node']
      BY <1>1, <1>3, <1>4
    <2>2. QED
      BY <1>7, <1>8, <2>1 DEF SLoopInv
  <1>10. QED
    BY <1>1, <1>2, <1>5, <1>6, <1>9 DEF ListInv, DLoopInv

\* Every step keeps the invariant of the lists and of the loops.
LEMMA ListStep ==
  ASSUME ListInv, [ListNext]_listVars
  PROVE  ListInv'
  <1>0. ASSUME listLoopVars' = listLoopVars, DInv(list', dref'), SInv(slist', sref'), l_loop = "none"
        PROVE  ListInv'
    BY <1>0 DEF ListInv, listLoopVars, VisitInv, DLoopInv, SLoopInv
  <1>1. DInv(list, dref) /\ SInv(slist, sref) /\ dref \in Seq(ListNode) /\ IsInjective(dref)
    BY DEF ListInv, DInv
  <1>2. ASSUME NEW n \in ListNode \ Used, append(n) PROVE ListInv'
    <2>1. DInv(list', dref')
      BY <1>1, <1>2, AppendDInv DEF append, Used
    <2>2. QED
      BY <1>0, <1>1, <1>2, <2>1 DEF append
  <1>3. ASSUME NEW n \in ListNode \ Used, prepend(n) PROVE ListInv'
    <2>1. DInv(list', dref')
      BY <1>1, <1>3, PrependDInv DEF prepend, Used
    <2>2. QED
      BY <1>0, <1>1, <1>3, <2>1 DEF prepend
  <1>4. ASSUME NEW n \in ListNode \ Used, push(n) PROVE ListInv'
    <2>1. SInv(slist', sref')
      BY <1>1, <1>4, PushSInv DEF push, Used
    <2>2. QED
      BY <1>0, <1>1, <1>4, <2>1 DEF push
  <1>5. ASSUME NEW n \in ListNode, list_remove(n) PROVE ListInv'
    <2>1. PICK i \in 1 .. Len(dref) : n = dref[i]
      BY <1>1, <1>5 DEF list_remove, ToSet
    <2>2. dref' = RemoveAt(dref, i) /\ list' = FreeNode(m_list_remove(list, dref[i]), dref[i])
      BY <1>1, <1>5, <2>1, RemoveFirstInjective DEF list_remove
    <2>3. DInv(list', dref')
      BY <1>1, <2>2, RemoveDInv
    <2>4. QED
      BY <1>0, <1>1, <1>5, <2>3 DEF list_remove
  <1>6. ASSUME pop PROVE ListInv'
    <2>1. SInv(slist', sref')
      BY <1>1, <1>6, PopSInv DEF pop
    <2>2. QED
      BY <1>0, <1>1, <1>6, <2>1 DEF pop
  <1>7. ASSUME list_foreach_end PROVE ListInv'
    <2>1. /\ l_loop' = "none" /\ l_expected' = <<>> /\ l_visited' = <<>>
          /\ slist' = [slist EXCEPT ![Copy] = NULL] /\ list' = list /\ dref' = dref /\ sref' = sref
      BY <1>7 DEF list_foreach_end
    <2>2. ToSet(sref) \subseteq ListNode
      BY <1>1, ToSetFinite DEF SInv
    <2>3. Copy \notin ToSet(sref) \cup {SHead}
      BY <2>2, ListsAssumption
    <2>4. SInv([slist EXCEPT ![Copy] = NULL], sref)
      BY <1>1, <2>3, FrameSInv
    <2>5. VisitInv'
      BY <2>1 DEF VisitInv, IsInjective
    <2>6. QED
      BY <1>1, <2>1, <2>4, <2>5 DEF ListInv, DLoopInv, SLoopInv
  <1>8. CASE UNCHANGED listVars
    BY <1>8 DEF listVars, listLoopVars, ListInv, VisitInv, DLoopInv, SLoopInv
  <1>9. QED
    BY <1>2, <1>3, <1>4, <1>5, <1>6, <1>7, <1>8, DStep, SStep, DBegin, SBegin DEF ListNext
-----------------------------------------------------------------------------
\* The lists and the loops keep their invariant.
LEMMA ListInvInvariant == ListSpec => []ListInv
  BY ListInitial, ListStep, PTL DEF ListSpec

\* include/m_list.h: whatever calls were made, and in the middle of any loop,
\* both directions of the double linked list and the single linked list read as
\* the sequences those calls built, for every set of nodes.
THEOREM ListsAreSequences == ListSpec => []ListIsSequence
  <1>1. ASSUME ListInv PROVE ListIsSequence
    <2>1. /\ dref \in Seq(ListNode) /\ IsInjective(dref) /\ sref \in Seq(ListNode) /\ IsInjective(sref)
          /\ Path(list.next, dref, DHead, DHead) /\ Path(list.prev, Reverse(dref), DHead, DHead)
          /\ Path(slist, sref, SHead, NULL)
      BY <1>1 DEF ListInv, DInv, SInv
    <2>2. Reverse(dref) \in Seq(ListNode) /\ IsInjective(Reverse(dref))
      BY <2>1, ReverseFacts
    <2>3. DHead \notin ListNode /\ NULL \notin ListNode
      BY ListsAssumption
    <2>4. foreach(list.next, DHead, DHead) = dref
      BY <2>1, <2>3, PathForeach
    <2>5. foreach(list.prev, DHead, DHead) = Reverse(dref)
      BY <2>1, <2>2, <2>3, PathForeach
    <2>6. foreach(slist, SHead, NULL) = sref
      BY <2>1, <2>3, PathForeach
    <2>7. QED
      BY <2>4, <2>5, <2>6 DEF ListIsSequence
  <1>2. QED
    BY <1>1, ListInvInvariant, PTL

\* m_list_foreach_safe, its reverse and m_slist_foreach_safe see every node
\* there was when the loop began, in order, whichever of them the body frees or
\* pushes on the list again.
THEOREM SafeLoopsComplete == ListSpec => []ListTraversalOrdered
  <1>1. ASSUME ListInv PROVE ListTraversalOrdered
    <2>1. SUFFICES ASSUME l_loop # "none"
                   PROVE  IsPrefix(l_visited, l_expected) /\ (AtEnd => l_visited = l_expected)
      BY DEF ListTraversalOrdered
    <2>2. /\ l_visited \in Seq(ListNode) /\ l_expected \in Seq(ListNode) /\ Len(l_visited) <= Len(l_expected)
          /\ Len(l_visited) \in Nat /\ Len(l_expected) \in Nat
          /\ \A i \in 1 .. Len(l_visited) : l_visited[i] = l_expected[i]
      BY <1>1 DEF ListInv, VisitInv
    <2>3. IsPrefix(l_visited, l_expected)
      <3> DEFINE a == SubSeq(l_visited, 1, Len(l_visited))
                 b == SubSeq(l_expected, 1, Len(l_visited))
      <3>1. a \in Seq(ListNode) /\ Len(a) = Len(l_visited) /\ \A i \in 1 .. Len(l_visited) : a[i] = l_visited[i]
        BY <2>2
      <3>2. b \in Seq(ListNode) /\ Len(b) = Len(l_visited) /\ \A i \in 1 .. Len(l_visited) : b[i] = l_expected[i]
        BY <2>2
      <3> HIDE DEF a, b
      <3>3. a = b
        BY <2>2, <3>1, <3>2, SeqEqual
      <3>4. QED
        BY <2>2, <3>3 DEF IsPrefix, a, b
    <2>4. ASSUME AtEnd, Len(l_visited) # Len(l_expected) PROVE FALSE
      <3>1. Len(l_visited) + 1 \in 1 .. Len(l_expected) /\ Len(l_visited) + 1 # Len(l_expected) + 1 /\ Len(l_visited) + 1 # 0
        BY <2>2, <2>4
      <3>2. l_expected[Len(l_visited) + 1] \in ListNode
        BY <2>2, <3>1
      <3>3. l_node = l_expected[Len(l_visited) + 1]
        BY <1>1, <2>1, <3>1 DEF ListInv, DLoopInv, SLoopInv, At
      <3>4. QED
        BY <2>4, <3>2, <3>3, ListsAssumption DEF AtEnd
    <2>5. QED
      BY <2>2, <2>3, <2>4, SeqEqual
  <1>2. QED
    BY <1>1, ListInvInvariant, PTL
=============================================================================
