----------------------------- MODULE DataLemmas -----------------------------
(***************************************************************************)
(* What the proofs share: induction over an interval and over a finite     *)
(* set, sums over a finite set, and what the sequence operators of the     *)
(* community modules do to the elements of a sequence.                     *)
(***************************************************************************)
EXTENDS Integers, Sequences, SequencesExt, FiniteSets, FiniteSetsExt, FiniteSetTheorems,
        SequenceTheorems, NaturalsInduction, WellFoundedInduction, TLAPS

\* A set of natural numbers has a least element.
LEMMA LeastElement ==
  ASSUME NEW I, I \subseteq Nat, I # {}
  PROVE  \E i \in I : \A j \in I : i <= j
  <1>1. PICK i \in I : \A j \in I : ~ (<<j, i>> \in OpToRel(<, Nat))
    BY NatLessThanWellFounded, WFMin
  <1>2. \A j \in I : ~ (j < i)
    BY <1>1 DEF OpToRel
  <1>3. QED
    BY <1>2

\* A set of natural numbers with a bound has a greatest element.
LEMMA GreatestElement ==
  ASSUME NEW n \in Int, NEW I, I \subseteq 0 .. n, I # {}
  PROVE  \E i \in I : \A j \in I : i >= j
  <1> DEFINE D == {n - j : j \in I}
  <1>1. D \subseteq Nat /\ D # {} /\ I \subseteq Int
    <2>1. \A j \in I : j \in Int /\ n - j \in Nat
      OBVIOUS
    <2>2. QED
      BY <2>1
  <1>2. PICK d \in D : \A j \in D : d <= j
    <2> HIDE DEF D
    <2>1. QED
      BY <1>1, LeastElement
  <1>3. PICK i \in I : d = n - i
    BY <1>2
  <1>4. \A j \in I : n - i <= n - j
    BY <1>2, <1>3
  <1>5. QED
    BY <1>1, <1>4

\* Induction: a set that holds 0 and with i - 1 also i holds all of 0 .. n.
LEMMA Induction ==
  ASSUME NEW n \in Nat, NEW T, 0 \in T, \A i \in 1 .. n : i - 1 \in T => i \in T
  PROVE  \A i \in 0 .. n : i \in T
  <1> DEFINE B == {i \in 0 .. n : i \notin T}
  <1>1. SUFFICES ASSUME B # {} PROVE FALSE
    OBVIOUS
  <1>2. PICK i \in B : \A j \in B : i <= j
    <2>1. B \subseteq Nat
      OBVIOUS
    <2> HIDE DEF B
    <2>2. QED
      BY <1>1, <2>1, LeastElement
  <1>3. i \in 1 .. n /\ i \notin T
    OBVIOUS
  <1>4. i - 1 \in 0 .. n /\ i - 1 \notin B
    BY <1>2, <1>3
  <1>5. QED
    BY <1>3, <1>4
-----------------------------------------------------------------------------
\* The elements of a sequence form a finite set.
LEMMA ToSetFinite ==
  ASSUME NEW S, NEW s \in Seq(S)
  PROVE  ToSet(s) \subseteq S /\ IsFiniteSet(ToSet(s))
  <1>1. ToSet(s) = {s[i] : i \in 1 .. Len(s)} /\ Len(s) \in Nat
    BY DEF ToSet
  <1>2. IsFiniteSet(1 .. Len(s))
    BY <1>1, FS_Interval
  <1>3. s \in Surjection(1 .. Len(s), ToSet(s))
    BY <1>1 DEF Surjection
  <1>4. IsFiniteSet(ToSet(s))
    BY <1>2, <1>3, FS_Surjection
  <1>5. QED
    BY <1>1, <1>4

\* As many elements as the sequence is long, when none occurs twice.
LEMMA ToSetCardinality ==
  ASSUME NEW S, NEW s \in Seq(S), IsInjective(s)
  PROVE  Cardinality(ToSet(s)) = Len(s)
  <1>1. ToSet(s) = {s[i] : i \in 1 .. Len(s)} /\ Len(s) \in Nat /\ DOMAIN s = 1 .. Len(s)
    BY DEF ToSet
  <1>2. IsFiniteSet(1 .. Len(s)) /\ Cardinality(1 .. Len(s)) = Len(s)
    BY <1>1, FS_Interval
  <1>3. s \in Bijection(1 .. Len(s), ToSet(s))
    BY <1>1 DEF Bijection, Injection, Surjection, IsInjective
  <1>4. ExistsBijection(1 .. Len(s), ToSet(s))
    BY <1>3 DEF ExistsBijection
  <1>5. QED
    BY <1>2, <1>4, FS_Bijection

\* An element put in front of a sequence.
LEMMA ConsFacts ==
  ASSUME NEW S, NEW s \in Seq(S), NEW e \in S
  PROVE  /\ Cons(e, s) \in Seq(S)
         /\ Len(Cons(e, s)) = Len(s) + 1
         /\ Cons(e, s)[1] = e
         /\ \A i \in 1 .. Len(s) : Cons(e, s)[i + 1] = s[i]
         /\ ToSet(Cons(e, s)) = ToSet(s) \cup {e}
         /\ IsInjective(s) /\ e \notin ToSet(s) => IsInjective(Cons(e, s))
  <1> DEFINE t == Cons(e, s)
  <1>1. t \in Seq(S) /\ Len(t) = Len(s) + 1 /\ t[1] = e /\ \A i \in 1 .. Len(s) : t[i + 1] = s[i]
    BY DEF Cons
  <1> HIDE DEF t
  <1>2. DOMAIN t = 1 .. Len(s) + 1 /\ DOMAIN s = 1 .. Len(s) /\ Len(s) \in Nat
    BY <1>1
  <1>3. \A i \in DOMAIN t : i = 1 \/ (i - 1 \in DOMAIN s /\ t[i] = s[i - 1])
    BY <1>1, <1>2
  <1>4. ToSet(t) = ToSet(s) \cup {e}
    <2>1. ToSet(t) \subseteq ToSet(s) \cup {e}
      BY <1>1, <1>3 DEF ToSet
    <2>2. e \in ToSet(t)
      BY <1>1, <1>2 DEF ToSet
    <2>3. ASSUME NEW i \in DOMAIN s PROVE s[i] \in ToSet(t)
      <3>1. i + 1 \in DOMAIN t /\ t[i + 1] = s[i]
        BY <1>1, <1>2
      <3>2. QED
        BY <3>1 DEF ToSet
    <2>4. QED
      BY <2>1, <2>2, <2>3 DEF ToSet
  <1>5. ASSUME IsInjective(s), e \notin ToSet(s) PROVE IsInjective(t)
    <2>1. \A i \in DOMAIN s : s[i] # e
      BY <1>5 DEF ToSet
    <2>2. SUFFICES ASSUME NEW i \in DOMAIN t, NEW j \in DOMAIN t, t[i] = t[j] PROVE i = j
      BY DEF IsInjective
    <2>3. QED
      BY <1>1, <1>2, <1>3, <1>5, <2>1, <2>2 DEF IsInjective
  <1>6. QED
    BY <1>1, <1>4, <1>5 DEF t

\* Two sequences joined.
LEMMA ConcatFacts ==
  ASSUME NEW S, NEW s \in Seq(S), NEW t \in Seq(S)
  PROVE  /\ s \o t \in Seq(S)
         /\ ToSet(s \o t) = ToSet(s) \cup ToSet(t)
         /\ IsInjective(s) /\ IsInjective(t) /\ ToSet(s) \cap ToSet(t) = {} => IsInjective(s \o t)
  <1> DEFINE u == s \o t
  <1>1. /\ u \in Seq(S) /\ Len(u) = Len(s) + Len(t)
        /\ \A i \in 1 .. Len(s) + Len(t) : u[i] = IF i <= Len(s) THEN s[i] ELSE t[i - Len(s)]
    BY ConcatProperties
  <1> HIDE DEF u
  <1>2. /\ DOMAIN u = 1 .. Len(s) + Len(t) /\ DOMAIN s = 1 .. Len(s) /\ DOMAIN t = 1 .. Len(t)
        /\ Len(s) \in Nat /\ Len(t) \in Nat
    BY <1>1
  <1>3. \A i \in DOMAIN u : \/ i \in DOMAIN s /\ u[i] = s[i]
                            \/ i - Len(s) \in DOMAIN t /\ u[i] = t[i - Len(s)]
    BY <1>1, <1>2
  <1>4. ToSet(u) = ToSet(s) \cup ToSet(t)
    <2>1. ToSet(u) \subseteq ToSet(s) \cup ToSet(t)
      BY <1>3 DEF ToSet
    <2>2. ASSUME NEW i \in DOMAIN s PROVE s[i] \in ToSet(u)
      <3>1. i \in DOMAIN u /\ u[i] = s[i]
        BY <1>1, <1>2
      <3>2. QED
        BY <3>1 DEF ToSet
    <2>3. ASSUME NEW i \in DOMAIN t PROVE t[i] \in ToSet(u)
      <3>1. i + Len(s) \in DOMAIN u /\ u[i + Len(s)] = t[i]
        BY <1>1, <1>2
      <3>2. QED
        BY <3>1 DEF ToSet
    <2>4. QED
      BY <2>1, <2>2, <2>3 DEF ToSet
  <1>5. ASSUME IsInjective(s), IsInjective(t), ToSet(s) \cap ToSet(t) = {} PROVE IsInjective(u)
    <2>1. \A i \in DOMAIN s, j \in DOMAIN t : s[i] # t[j]
      BY <1>5 DEF ToSet
    <2>2. SUFFICES ASSUME NEW i \in DOMAIN u, NEW j \in DOMAIN u, u[i] = u[j] PROVE i = j
      BY DEF IsInjective
    <2>3. QED
      BY <1>2, <1>3, <1>5, <2>1, <2>2 DEF IsInjective
  <1>6. QED
    BY <1>1, <1>4, <1>5 DEF u

\* A sequence without its i-th element.
LEMMA RemoveAtFacts ==
  ASSUME NEW S, NEW s \in Seq(S), NEW i \in 1 .. Len(s)
  PROVE  /\ RemoveAt(s, i) \in Seq(S)
         /\ Len(RemoveAt(s, i)) = Len(s) - 1
         /\ \A j \in 1 .. Len(s) - 1 : RemoveAt(s, i)[j] = IF j < i THEN s[j] ELSE s[j + 1]
         /\ IsInjective(s) => /\ ToSet(RemoveAt(s, i)) = ToSet(s) \ {s[i]}
                              /\ IsInjective(RemoveAt(s, i))
  <1> DEFINE t == RemoveAt(s, i)
  <1>1. /\ t \in Seq(S) /\ Len(t) = Len(s) - 1
        /\ \A j \in 1 .. Len(s) - 1 : t[j] = IF j < i THEN s[j] ELSE s[j + 1]
    <2> DEFINE a == SubSeq(s, 1, i - 1)
               b == SubSeq(s, i + 1, Len(s))
    <2>1. a \in Seq(S) /\ Len(a) = i - 1 /\ \A j \in 1 .. i - 1 : a[j] = s[j]
      OBVIOUS
    <2>2. /\ b \in Seq(S) /\ Len(b) = Len(s) - i
          /\ \A j \in 1 .. Len(s) - i : b[j] = s[i + j]
      OBVIOUS
    <2>3. t = a \o b
      BY DEF RemoveAt
    <2> HIDE DEF a, b, t
    <2>4. Len(t) = Len(s) - 1 /\ t \in Seq(S)
      BY <2>1, <2>2, <2>3
    <2>5. \A j \in 1 .. Len(s) - 1 : t[j] = IF j <= i - 1 THEN a[j] ELSE b[j - (i - 1)]
      BY <2>1, <2>2, <2>3
    <2>6. ASSUME NEW j \in 1 .. Len(s) - 1 PROVE t[j] = IF j < i THEN s[j] ELSE s[j + 1]
      <3>1. CASE j < i
        BY <3>1, <2>1, <2>5
      <3>2. CASE j >= i
        <4>1. j - (i - 1) \in 1 .. Len(s) - i /\ i + (j - (i - 1)) = j + 1
          BY <3>2
        <4>2. QED
          BY <3>2, <4>1, <2>2, <2>5
      <3>3. QED
        BY <3>1, <3>2
    <2>7. QED
      BY <2>4, <2>6
  <1> HIDE DEF t
  <1>2. DOMAIN t = 1 .. Len(s) - 1 /\ DOMAIN s = 1 .. Len(s) /\ Len(s) \in Nat
    BY <1>1
  <1>3. ASSUME IsInjective(s) PROVE IsInjective(t)
    BY <1>1, <1>2, <1>3 DEF IsInjective
  <1>4. ASSUME IsInjective(s) PROVE ToSet(t) = ToSet(s) \ {s[i]}
    <2>1. ASSUME NEW j \in DOMAIN t PROVE t[j] \in ToSet(s) \ {s[i]}
      <3>1. \E k \in DOMAIN s : k # i /\ t[j] = s[k]
        BY <1>1, <1>2
      <3>2. QED
        BY <1>2, <1>4, <3>1 DEF ToSet, IsInjective
    <2>2. ASSUME NEW k \in DOMAIN s, s[k] # s[i] PROVE \E j \in DOMAIN t : t[j] = s[k]
      <3>1. k < i => k \in DOMAIN t /\ t[k] = s[k]
        BY <1>1, <1>2
      <3>2. k > i => k - 1 \in DOMAIN t /\ t[k - 1] = s[k]
        BY <1>1, <1>2
      <3>3. QED
        BY <1>2, <2>2, <3>1, <3>2
    <2>3. QED
      BY <2>1, <2>2 DEF ToSet
  <1>5. QED
    BY <1>1, <1>3, <1>4 DEF t

\* An element put at the end of a sequence.
LEMMA AppendFacts ==
  ASSUME NEW S, NEW s \in Seq(S), NEW e \in S
  PROVE  /\ Append(s, e) \in Seq(S)
         /\ Len(Append(s, e)) = Len(s) + 1
         /\ Append(s, e)[Len(s) + 1] = e
         /\ \A i \in 1 .. Len(s) : Append(s, e)[i] = s[i]
         /\ ToSet(Append(s, e)) = ToSet(s) \cup {e}
         /\ IsInjective(s) /\ e \notin ToSet(s) => IsInjective(Append(s, e))
  <1> DEFINE t == <<e>>
  <1>1. t \in Seq(S) /\ ToSet(t) = {e} /\ IsInjective(t)
    BY DEF ToSet, IsInjective
  <1>2. Append(s, e) = s \o t
    BY AppendIsConcat
  <1> HIDE DEF t
  <1>3. /\ ToSet(s \o t) = ToSet(s) \cup {e}
        /\ IsInjective(s) /\ e \notin ToSet(s) => IsInjective(s \o t)
    BY <1>1, ConcatFacts
  <1>4. /\ Append(s, e) \in Seq(S)
        /\ Len(Append(s, e)) = Len(s) + 1
        /\ Append(s, e)[Len(s) + 1] = e
        /\ \A i \in 1 .. Len(s) : Append(s, e)[i] = s[i]
    BY AppendProperties
  <1>5. /\ ToSet(Append(s, e)) = ToSet(s) \cup {e}
        /\ IsInjective(s) /\ e \notin ToSet(s) => IsInjective(Append(s, e))
    BY <1>2, <1>3, Zenon
  <1>6. QED
    BY <1>4, <1>5, Zenon

\* A sequence from its end.
LEMMA ReverseFacts ==
  ASSUME NEW S, NEW s \in Seq(S)
  PROVE  /\ Reverse(s) \in Seq(S)
         /\ Len(Reverse(s)) = Len(s)
         /\ \A i \in 1 .. Len(s) : Reverse(s)[i] = s[Len(s) - i + 1]
         /\ ToSet(Reverse(s)) = ToSet(s)
         /\ IsInjective(s) => IsInjective(Reverse(s))
  <1> DEFINE t == Reverse(s)
  <1>1. Len(s) \in Nat /\ DOMAIN s = 1 .. Len(s)
    OBVIOUS
  <1>2. t = [i \in 1 .. Len(s) |-> s[Len(s) - i + 1]]
    BY DEF Reverse
  <1> HIDE DEF t
  <1>3. t \in Seq(S) /\ Len(t) = Len(s)
    BY <1>1, <1>2
  <1>4. DOMAIN t = 1 .. Len(s) /\ \A i \in 1 .. Len(s) : t[i] = s[Len(s) - i + 1] /\ Len(s) - i + 1 \in 1 .. Len(s)
    BY <1>1, <1>2
  <1>5. ToSet(t) = ToSet(s)
    <2>1. ToSet(t) \subseteq ToSet(s)
      BY <1>1, <1>4 DEF ToSet
    <2>2. ASSUME NEW i \in 1 .. Len(s) PROVE s[i] \in ToSet(t)
      <3>1. Len(s) - i + 1 \in 1 .. Len(s) /\ t[Len(s) - i + 1] = s[i]
        <4>1. Len(s) - i + 1 \in 1 .. Len(s) /\ Len(s) - (Len(s) - i + 1) + 1 = i
          BY <1>1
        <4>2. QED
          BY <1>4, <4>1
      <3>2. QED
        BY <1>4, <3>1 DEF ToSet
    <2>3. QED
      BY <1>1, <2>1, <2>2 DEF ToSet
  <1>6. ASSUME IsInjective(s) PROVE IsInjective(t)
    <2>1. SUFFICES ASSUME NEW i \in 1 .. Len(s), NEW j \in 1 .. Len(s), t[i] = t[j] PROVE i = j
      BY <1>4 DEF IsInjective
    <2>2. Len(s) - i + 1 = Len(s) - j + 1
      BY <1>1, <1>4, <1>6, <2>1 DEF IsInjective
    <2>3. QED
      BY <1>1, <2>2
  <1>7. QED
    BY <1>3, <1>4, <1>5, <1>6 DEF t

\* Reversing turns the front into the end and back.
LEMMA ReverseAppend ==
  ASSUME NEW S, NEW s \in Seq(S), NEW e \in S
  PROVE  /\ Reverse(Append(s, e)) = Cons(e, Reverse(s))
         /\ Reverse(Cons(e, s)) = Append(Reverse(s), e)
  <1> DEFINE r == Reverse(s)
             a == Append(s, e)
             c == Cons(e, s)
             ra == Reverse(a)
             rc == Reverse(c)
             x == Cons(e, r)
             y == Append(r, e)
  <1>1. Len(s) \in Nat
    OBVIOUS
  <1>2. r \in Seq(S) /\ Len(r) = Len(s) /\ \A i \in 1 .. Len(s) : r[i] = s[Len(s) - i + 1]
    BY ReverseFacts
  <1>3. /\ a \in Seq(S) /\ Len(a) = Len(s) + 1 /\ a[Len(s) + 1] = e
        /\ \A i \in 1 .. Len(s) : a[i] = s[i]
    BY AppendFacts
  <1>4. /\ c \in Seq(S) /\ Len(c) = Len(s) + 1 /\ c[1] = e
        /\ \A i \in 1 .. Len(s) : c[i + 1] = s[i]
    BY ConsFacts
  <1> HIDE DEF r, a, c
  <1>5. ra \in Seq(S) /\ Len(ra) = Len(a) /\ \A i \in 1 .. Len(a) : ra[i] = a[Len(a) - i + 1]
    BY <1>3, ReverseFacts
  <1>6. rc \in Seq(S) /\ Len(rc) = Len(c) /\ \A i \in 1 .. Len(c) : rc[i] = c[Len(c) - i + 1]
    BY <1>4, ReverseFacts
  <1>7. x \in Seq(S) /\ Len(x) = Len(r) + 1 /\ x[1] = e /\ \A i \in 1 .. Len(r) : x[i + 1] = r[i]
    BY <1>2, ConsFacts
  <1>8. y \in Seq(S) /\ Len(y) = Len(r) + 1 /\ y[Len(r) + 1] = e /\ \A i \in 1 .. Len(r) : y[i] = r[i]
    BY <1>2, AppendFacts
  <1> HIDE DEF ra, rc, x, y
  <1>9. ra = x
    <2>1. ASSUME NEW i \in 1 .. Len(s) + 1 PROVE ra[i] = x[i]
      <3>1. CASE i = 1
        BY <1>1, <1>2, <1>3, <1>5, <1>7, <3>1
      <3>2. CASE i # 1
        <4>1. i - 1 \in 1 .. Len(s) /\ (i - 1) + 1 = i /\ Len(s) - (i - 1) + 1 \in 1 .. Len(s)
              /\ Len(a) - i + 1 = Len(s) - (i - 1) + 1
          BY <1>1, <1>3, <3>2
        <4>2. x[i] = s[Len(s) - (i - 1) + 1]
          BY <1>2, <1>7, <4>1
        <4>3. ra[i] = s[Len(s) - (i - 1) + 1]
          BY <1>3, <1>5, <4>1
        <4>4. QED
          BY <4>2, <4>3
      <3>3. QED
        BY <3>1, <3>2
    <2>2. Len(ra) = Len(s) + 1 /\ Len(x) = Len(s) + 1
      BY <1>2, <1>3, <1>5, <1>7
    <2>3. QED
      BY <1>5, <1>7, <2>1, <2>2, SeqEqual
  <1>10. rc = y
    <2>1. ASSUME NEW i \in 1 .. Len(s) + 1 PROVE rc[i] = y[i]
      <3>1. CASE i = Len(s) + 1
        BY <1>1, <1>2, <1>4, <1>6, <1>8, <3>1
      <3>2. CASE i # Len(s) + 1
        <4>1. i \in 1 .. Len(s) /\ Len(s) - i + 1 \in 1 .. Len(s)
              /\ Len(c) - i + 1 = (Len(s) - i + 1) + 1
          BY <1>1, <1>4, <3>2
        <4>2. y[i] = s[Len(s) - i + 1]
          BY <1>2, <1>8, <4>1
        <4>3. rc[i] = s[Len(s) - i + 1]
          BY <1>4, <1>6, <4>1
        <4>4. QED
          BY <4>2, <4>3
      <3>3. QED
        BY <3>1, <3>2
    <2>2. Len(rc) = Len(s) + 1 /\ Len(y) = Len(s) + 1
      BY <1>2, <1>4, <1>6, <1>8
    <2>3. QED
      BY <1>6, <1>8, <2>1, <2>2, SeqEqual
  <1>11. QED
    BY <1>9, <1>10 DEF ra, rc, x, y, a, c, r

\* Reversing and removing an element commute.
LEMMA ReverseRemoveAt ==
  ASSUME NEW S, NEW s \in Seq(S), NEW i \in 1 .. Len(s)
  PROVE  Reverse(RemoveAt(s, i)) = RemoveAt(Reverse(s), Len(s) - i + 1)
  <1> DEFINE N == Len(s)
             k == N - i + 1
             r == Reverse(s)
             d == RemoveAt(s, i)
             x == Reverse(d)
             y == RemoveAt(r, k)
  <1>1. N \in Nat /\ k \in 1 .. N
    OBVIOUS
  <1>2. r \in Seq(S) /\ Len(r) = N /\ \A j \in 1 .. N : r[j] = s[N - j + 1]
    BY ReverseFacts
  <1>3. d \in Seq(S) /\ Len(d) = N - 1 /\ \A j \in 1 .. N - 1 : d[j] = IF j < i THEN s[j] ELSE s[j + 1]
    BY RemoveAtFacts
  <1> HIDE DEF r, d
  <1>4. x \in Seq(S) /\ Len(x) = Len(d) /\ \A j \in 1 .. Len(d) : x[j] = d[Len(d) - j + 1]
    BY <1>3, ReverseFacts
  <1>5. y \in Seq(S) /\ Len(y) = N - 1 /\ \A j \in 1 .. N - 1 : y[j] = IF j < k THEN r[j] ELSE r[j + 1]
    <2>1. k \in 1 .. Len(r)
      BY <1>1, <1>2
    <2> HIDE DEF k, N
    <2>2. QED
      BY <1>2, <2>1, RemoveAtFacts
  <1> HIDE DEF x, y
  <1>6. ASSUME NEW j \in 1 .. N - 1 PROVE x[j] = y[j]
    <2>1. /\ N - j \in 1 .. N - 1 /\ Len(d) - j + 1 = N - j
          /\ N - j + 1 \in 1 .. N /\ j \in 1 .. N /\ j + 1 \in 1 .. N
          /\ N - (j + 1) + 1 = N - j /\ (j < k <=> ~ (N - j < i))
      BY <1>1, <1>3
    <2>2. x[j] = IF N - j < i THEN s[N - j] ELSE s[N - j + 1]
      BY <1>3, <1>4, <2>1
    <2>3. y[j] = IF j < k THEN s[N - j + 1] ELSE s[N - (j + 1) + 1]
      BY <1>2, <1>5, <2>1
    <2>4. QED
      BY <2>1, <2>2, <2>3
  <1>7. QED
    <2>1. Len(x) = N - 1 /\ Len(y) = N - 1
      BY <1>3, <1>4, <1>5
    <2>2. x = y
      BY <1>4, <1>5, <1>6, <2>1, SeqEqual
    <2>3. QED
      BY <2>2 DEF x, y, d, r
-----------------------------------------------------------------------------
\* The place in a sequence of the first e, 0 when there is none.
PlaceOf(s, e) == SelectInSeq(s, LAMBDA m : m = e)

\* PlaceOf is the least place of the element.
LEMMA PlaceOfFirst ==
  ASSUME NEW S, NEW s \in Seq(S), NEW e, NEW i \in 1 .. Len(s), s[i] = e,
         \A j \in 1 .. Len(s) : j < i => s[j] # e
  PROVE  PlaceOf(s, e) = i
  <1> DEFINE I == {j \in 1 .. Len(s) : s[j] = e}
  <1>1. PlaceOf(s, e) = IF I # {} THEN Min(I) ELSE 0
    BY DEF SelectInSeq, PlaceOf
  <1>2. i \in I /\ I \subseteq Nat /\ \A j \in I : i <= j
    OBVIOUS
  <1> HIDE DEF I
  <1>3. Min(I) = i
    <2>1. Min(I) \in I /\ \A j \in I : Min(I) <= j
      BY <1>2 DEF Min
    <2> DEFINE m == Min(I)
    <2>2. m \in Nat /\ i \in Nat /\ m <= i /\ i <= m
      BY <1>2, <2>1
    <2> HIDE DEF m
    <2>3. m = i
      BY <2>2
    <2>4. QED
      BY <2>3 DEF m
  <1>4. QED
    BY <1>1, <1>2, <1>3

\* An element that occurs once is at its place.
LEMMA PlaceOfInjective ==
  ASSUME NEW S, NEW s \in Seq(S), IsInjective(s), NEW j \in 1 .. Len(s)
  PROVE  PlaceOf(s, s[j]) = j
  <1>1. DOMAIN s = 1 .. Len(s)
    OBVIOUS
  <1>2. \A i \in 1 .. Len(s) : i < j => s[i] # s[j]
    BY <1>1 DEF IsInjective
  <1>3. QED
    BY <1>2, PlaceOfFirst

\* RemoveFirst of an element that occurs once.
LEMMA RemoveFirstInjective ==
  ASSUME NEW S, NEW s \in Seq(S), IsInjective(s), NEW j \in 1 .. Len(s)
  PROVE  RemoveFirst(s, s[j]) = RemoveAt(s, j)
  <1>1. PlaceOf(s, s[j]) = j
    BY PlaceOfInjective
  <1>2. RemoveFirst(s, s[j]) = RemoveAt(s, PlaceOf(s, s[j]))
    BY DEF RemoveFirst, PlaceOf
  <1>3. QED
    BY <1>1, <1>2
-----------------------------------------------------------------------------
\* What FlattenSeq makes of the first lists of a sequence of lists.
IsFlatten(f, ls) ==
  f = [i \in 1 .. Len(ls) |-> IF i = 1 THEN ls[i] ELSE f[i - 1] \o ls[i]]

\* The recursion of FlattenSeq has a solution.
LEMMA FlattenExists ==
  ASSUME NEW S, NEW ls \in Seq(Seq(S))
  PROVE  \E f : IsFlatten(f, ls)
  <1> DEFINE Upto(f, n) == f = [i \in 1 .. n |-> IF i = 1 THEN ls[i] ELSE f[i - 1] \o ls[i]]
             T == {n \in 0 .. Len(ls) : \E f : Upto(f, n)}
  <1>1. 0 \in T
    <2>1. Upto(<<>>, 0)
      OBVIOUS
    <2> HIDE DEF Upto
    <2>2. QED
      BY <2>1
  <1>2. ASSUME NEW n \in 1 .. Len(ls), n - 1 \in T PROVE n \in T
    <2>1. PICK f : Upto(f, n - 1)
      BY <1>2
    <2> DEFINE g == [i \in 1 .. n |-> IF i < n THEN f[i] ELSE IF n = 1 THEN ls[1] ELSE f[n - 1] \o ls[n]]
    <2>2. \A i \in 1 .. n - 1 : f[i] = IF i = 1 THEN ls[i] ELSE f[i - 1] \o ls[i]
      BY <2>1
    <2>3. ASSUME NEW i \in 1 .. n PROVE g[i] = IF i = 1 THEN ls[i] ELSE g[i - 1] \o ls[i]
      <3>1. CASE i < n
        <4>1. g[i] = f[i] /\ (i # 1 => g[i - 1] = f[i - 1])
          BY <3>1
        <4> HIDE DEF g
        <4>2. QED
          BY <2>2, <3>1, <4>1
      <3>2. CASE i = n
        <4>1. i # 1 => g[i - 1] = f[i - 1]
          BY <3>2
        <4>2. g[i] = IF n = 1 THEN ls[1] ELSE f[n - 1] \o ls[n]
          BY <3>2
        <4> HIDE DEF g
        <4>3. QED
          BY <3>2, <4>1, <4>2
      <3>3. QED
        BY <3>1, <3>2
    <2>4. Upto(g, n)
      <3>1. g = [i \in 1 .. n |-> g[i]]
        OBVIOUS
      <3> HIDE DEF g
      <3>2. QED
        BY <2>3, <3>1
    <2> HIDE DEF Upto, g
    <2>5. QED
      BY <2>4
  <1>3. Len(ls) \in T
    <2>1. Len(ls) \in Nat
      OBVIOUS
    <2> HIDE DEF T
    <2>2. \A n \in 0 .. Len(ls) : n \in T
      BY <1>1, <1>2, <2>1, Induction
    <2>3. QED
      BY <2>1, <2>2
  <1>4. QED
    BY <1>3 DEF IsFlatten

\* The elements of all lists; none twice, if no list has one twice and no two
\* lists share one.
LEMMA FlattenFacts ==
  ASSUME NEW S, NEW ls \in Seq(Seq(S))
  PROVE  /\ FlattenSeq(ls) \in Seq(S)
         /\ ToSet(FlattenSeq(ls)) = UNION {ToSet(ls[p]) : p \in 1 .. Len(ls)}
         /\ (/\ \A p \in 1 .. Len(ls) : IsInjective(ls[p])
             /\ \A p, q \in 1 .. Len(ls) : p # q => ToSet(ls[p]) \cap ToSet(ls[q]) = {})
               => IsInjective(FlattenSeq(ls))
  <1>1. CASE Len(ls) = 0
    <2>1. FlattenSeq(ls) = <<>> /\ ls = <<>>
      BY <1>1 DEF FlattenSeq
    <2>2. ToSet(<<>>) = {} /\ IsInjective(<<>>)
      BY DEF ToSet, IsInjective
    <2>3. UNION {ToSet(ls[p]) : p \in 1 .. Len(ls)} = {}
      BY <1>1
    <2>4. QED
      BY <2>1, <2>2, <2>3
  <1>2. CASE Len(ls) # 0
    <2> DEFINE f == CHOOSE g : IsFlatten(g, ls)
               Apart == /\ \A p \in 1 .. Len(ls) : IsInjective(ls[p])
                        /\ \A p, q \in 1 .. Len(ls) : p # q => ToSet(ls[p]) \cap ToSet(ls[q]) = {}
    <2>1. FlattenSeq(ls) = f[Len(ls)]
      BY <1>2 DEF FlattenSeq, IsFlatten
    <2>2. IsFlatten(f, ls)
      BY FlattenExists
    <2> HIDE DEF f
    <2>3. \A i \in 1 .. Len(ls) : f[i] = IF i = 1 THEN ls[i] ELSE f[i - 1] \o ls[i]
      BY <2>2 DEF IsFlatten
    <2> DEFINE Good(i) == /\ f[i] \in Seq(S)
                          /\ ToSet(f[i]) = UNION {ToSet(ls[p]) : p \in 1 .. i}
                          /\ Apart => IsInjective(f[i])
               T == {0} \cup {i \in 1 .. Len(ls) : Good(i)}
    <2>4. ASSUME NEW i \in 1 .. Len(ls), i - 1 \in T PROVE i \in T
      <3>1. CASE i = 1
        <4>1. f[i] = ls[i] /\ 1 .. i = {1}
          BY <2>3, <3>1
        <4>2. UNION {ToSet(ls[p]) : p \in {1}} = ToSet(ls[1])
          OBVIOUS
        <4>3. ls[1] \in Seq(S) /\ (Apart => IsInjective(ls[1]))
          BY <3>1
        <4> HIDE DEF Apart
        <4>4. QED
          BY <3>1, <4>1, <4>2, <4>3
      <3>2. CASE i # 1
        <4>1. /\ f[i - 1] \in Seq(S)
              /\ ToSet(f[i - 1]) = UNION {ToSet(ls[p]) : p \in 1 .. i - 1}
              /\ Apart => IsInjective(f[i - 1])
              /\ f[i] = f[i - 1] \o ls[i] /\ ls[i] \in Seq(S)
          <5>1. i - 1 \in 1 .. Len(ls) /\ ls[i] \in Seq(S)
            BY <3>2
          <5>2. Good(i - 1)
            <6> HIDE DEF Good
            <6>1. QED
              BY <2>4, <3>2, <5>1
          <5>3. QED
            BY <2>3, <3>2, <5>1, <5>2
        <4> HIDE DEF Apart
        <4>2. /\ f[i] \in Seq(S) /\ ToSet(f[i]) = ToSet(f[i - 1]) \cup ToSet(ls[i])
              /\ IsInjective(f[i - 1]) /\ IsInjective(ls[i])
                   /\ ToSet(f[i - 1]) \cap ToSet(ls[i]) = {} => IsInjective(f[i])
          BY <4>1, ConcatFacts
        <4>3. ToSet(f[i]) = UNION {ToSet(ls[p]) : p \in 1 .. i}
          <5>1. 1 .. i = (1 .. i - 1) \cup {i}
            OBVIOUS
          <5>2. QED
            BY <4>1, <4>2, <5>1
        <4>4. Apart => IsInjective(ls[i]) /\ ToSet(f[i - 1]) \cap ToSet(ls[i]) = {}
          <5>1. \A p \in 1 .. i - 1 : p # i /\ p \in 1 .. Len(ls)
            OBVIOUS
          <5>2. Apart => \A p \in 1 .. i - 1 : ToSet(ls[p]) \cap ToSet(ls[i]) = {}
            BY <5>1 DEF Apart
          <5>3. Apart => IsInjective(ls[i])
            BY DEF Apart
          <5>4. QED
            BY <4>1, <5>2, <5>3
        <4>5. QED
          BY <4>1, <4>2, <4>3, <4>4
      <3>3. QED
        BY <3>1, <3>2
    <2>5. Len(ls) \in T
      <3>1. Len(ls) \in Nat /\ 0 \in T
        OBVIOUS
      <3> HIDE DEF T
      <3>2. \A i \in 0 .. Len(ls) : i \in T
        BY <2>4, <3>1, Induction
      <3>3. QED
        BY <3>1, <3>2
    <2>6. QED
      BY <1>2, <2>1, <2>5
  <1>3. QED
    BY <1>1, <1>2
-----------------------------------------------------------------------------
(***************************************************************************)
(* Sums: what MapThenSumSet of the community modules computes.  It is a    *)
(* recursive function on the subsets of a set; induction is an argument    *)
(* about a minimal subset of which the claim does not hold (LEMMA          *)
(* MinimalSubset).                                                         *)
(***************************************************************************)
Sum(f, S) == MapThenSumSet(LAMBDA x : f[x], S)

\* The element that the fold takes first.
Pick(s) == CHOOSE x \in s : TRUE

\* g is the recursive function of the fold.
IsTotal(g, f, S) ==
  g = [s \in SUBSET S |-> IF s = {} THEN 0 ELSE f[Pick(s)] + g[s \ {Pick(s)}]]
-----------------------------------------------------------------------------
\* A non-empty set of subsets of a finite set has a minimal element.
LEMMA MinimalSubset ==
  ASSUME NEW S, IsFiniteSet(S), NEW B, B \subseteq SUBSET S, B # {}
  PROVE  \E s \in B : \A u \in SUBSET s : u # s => u \notin B
  <1>1. FiniteSubsetsOf(S) = SUBSET S
    BY FS_FiniteSubsetsOfFinite
  <1>2. IsWellFoundedOn(StrictSubsetOrdering(S), SUBSET S)
    BY <1>1, FS_StrictSubsetOrderingWellFounded
  <1>3. PICK s \in B : \A y \in B : ~ (<<y, s>> \in StrictSubsetOrdering(S))
    BY <1>2, WFMin
  <1>4. ASSUME NEW u \in SUBSET s, u # s, u \in B PROVE FALSE
    <2>1. u \in SUBSET S /\ s \in SUBSET S
      BY <1>4
    <2>2. <<u, s>> \in StrictSubsetOrdering(S)
      BY <1>4, <2>1 DEF StrictSubsetOrdering
    <2>3. QED
      BY <1>3, <1>4, <2>2
  <1>5. QED
    BY <1>3, <1>4

\* A non-empty set holds the element picked from it.
LEMMA PickIn == ASSUME NEW s, s # {} PROVE Pick(s) \in s
  BY DEF Pick

\* One step of the recursion.
LEMMA TotalStep ==
  ASSUME NEW S, NEW f, NEW g, IsTotal(g, f, S), NEW s \in SUBSET S
  PROVE  /\ s = {} => g[s] = 0
         /\ s # {} => /\ Pick(s) \in s
                      /\ s \ {Pick(s)} \in SUBSET s
                      /\ s \ {Pick(s)} # s
                      /\ g[s] = f[Pick(s)] + g[s \ {Pick(s)}]
  <1>1. g[s] = IF s = {} THEN 0 ELSE f[Pick(s)] + g[s \ {Pick(s)}]
    BY DEF IsTotal
  <1>2. s # {} => Pick(s) \in s
    BY PickIn
  <1>3. QED
    BY <1>1, <1>2

\* The sum over nothing.
LEMMA TotalEmpty ==
  ASSUME NEW S, NEW f, NEW g, IsTotal(g, f, S)
  PROVE  g[{}] = 0
  <1>1. \A s \in SUBSET S : s = {} => g[s] = 0
    BY TotalStep
  <1> DEFINE e == {}
  <1>2. e \in SUBSET S /\ e = {}
    OBVIOUS
  <1> HIDE DEF e
  <1>3. g[e] = 0
    BY <1>1, <1>2
  <1>4. QED
    BY <1>3 DEF e

\* The recursion determines the function, whatever set it was started from.
LEMMA TotalUnique ==
  ASSUME NEW S, IsFiniteSet(S), NEW T \in SUBSET S, NEW f, NEW g, NEW h,
         IsTotal(g, f, S), IsTotal(h, f, T)
  PROVE  \A s \in SUBSET T : g[s] = h[s]
  <1> DEFINE B == {s \in SUBSET T : g[s] # h[s]}
  <1>1. SUFFICES ASSUME B # {} PROVE FALSE
    OBVIOUS
  <1>2. PICK s \in B : \A u \in SUBSET s : u # s => u \notin B
    <2>1. IsFiniteSet(T) /\ B \subseteq SUBSET T
      BY FS_Subset
    <2> HIDE DEF B
    <2>2. QED
      BY <1>1, <2>1, MinimalSubset
  <1>3. s \in SUBSET T /\ s \in SUBSET S /\ g[s] # h[s]
    OBVIOUS
  <1> DEFINE u == s \ {Pick(s)}
  <1>4. IF s = {} THEN g[s] = 0 ELSE u \in SUBSET s /\ u # s /\ g[s] = f[Pick(s)] + g[u]
    <2> HIDE DEF B
    <2>1. QED
      BY <1>3, TotalStep
  <1>5. IF s = {} THEN h[s] = 0 ELSE h[s] = f[Pick(s)] + h[u]
    <2> HIDE DEF B
    <2>1. QED
      BY <1>3, TotalStep
  <1>6. s # {} => g[u] = h[u]
    BY <1>2, <1>3, <1>4
  <1>7. QED
    BY <1>3, <1>4, <1>5, <1>6

\* There is such a function.
LEMMA TotalExists ==
  ASSUME NEW S, IsFiniteSet(S), NEW f
  PROVE  \E g : IsTotal(g, f, S)
  <1> DEFINE B == {T \in SUBSET S : \A g : ~ IsTotal(g, f, T)}
  <1>1. SUFFICES ASSUME B # {} PROVE FALSE
    OBVIOUS
  <1>2. PICK T \in B : \A u \in SUBSET T : u # T => u \notin B
    <2>1. B \subseteq SUBSET S
      OBVIOUS
    <2> HIDE DEF B
    <2>2. QED
      BY <1>1, <2>1, MinimalSubset
  <1>3. T \in SUBSET S /\ \A g : ~ IsTotal(g, f, T)
    OBVIOUS
  <1> DEFINE G(u) == CHOOSE g : IsTotal(g, f, u)
  <1>4. ASSUME NEW u \in SUBSET T, u # T PROVE IsTotal(G(u), f, u) /\ IsFiniteSet(u)
    <2>1. u \in SUBSET S /\ u \notin B
      BY <1>2, <1>3, <1>4
    <2>2. \E g : IsTotal(g, f, u)
      BY <2>1
    <2>3. QED
      BY <2>1, <2>2, FS_Subset
  <1> HIDE DEF G
  <1> DEFINE U == T \ {Pick(T)}
             g == [s \in SUBSET T |-> IF s # T THEN G(s)[s]
                                      ELSE IF T = {} THEN 0 ELSE f[Pick(T)] + G(U)[U]]
  <1>5. ASSUME NEW s \in SUBSET T
        PROVE  g[s] = IF s = {} THEN 0 ELSE f[Pick(s)] + g[s \ {Pick(s)}]
    <2>1. CASE s = T
      BY <2>1, PickIn
    <2>2. CASE s # T
      <3>1. IsTotal(G(s), f, s) /\ IsFiniteSet(s) /\ s \in SUBSET s /\ g[s] = G(s)[s]
        BY <1>4, <2>2
      <3>2. CASE s = {}
        BY <3>1, <3>2, TotalStep
      <3>3. CASE s # {}
        <4> DEFINE v == s \ {Pick(s)}
        <4>1. v \in SUBSET s /\ G(s)[s] = f[Pick(s)] + G(s)[v]
          BY <3>1, <3>3, TotalStep
        <4>2. v \in SUBSET T /\ v # T /\ IsTotal(G(v), f, v)
          BY <1>4, <2>2, <4>1
        <4>3. G(s)[v] = G(v)[v]
          BY <3>1, <4>1, <4>2, TotalUnique
        <4>4. g[v] = G(v)[v]
          BY <4>2
        <4>5. QED
          BY <3>1, <3>3, <4>1, <4>3, <4>4
      <3>4. QED
        BY <3>2, <3>3
    <2>3. QED
      BY <2>1, <2>2
  <1>6. IsTotal(g, f, T)
    BY <1>5 DEF IsTotal
  <1>7. QED
    BY <1>3, <1>6

\* The sum is the value of that function on the whole set.
LEMMA SumIsTotal ==
  ASSUME NEW S, IsFiniteSet(S), NEW f
  PROVE  \E g : IsTotal(g, f, S) /\ Sum(f, S) = g[S]
  <1> DEFINE tot == CHOOSE g : IsTotal(g, f, S)
  <1>1. IsTotal(tot, f, S)
    BY TotalExists
  <1>2. Sum(f, S) = tot[S]
    BY DEF Sum, MapThenSumSet, MapThenFoldSet, IsTotal, Pick
  <1>3. QED
    BY <1>1, <1>2

\* The sum of natural numbers is a natural number, 0 if they all are.
LEMMA SumType ==
  ASSUME NEW S, IsFiniteSet(S), NEW f \in [S -> Nat]
  PROVE  /\ Sum(f, S) \in Nat
         /\ (\A x \in S : f[x] = 0) => Sum(f, S) = 0
  <1>1. PICK g : IsTotal(g, f, S) /\ Sum(f, S) = g[S]
    BY SumIsTotal
  <1> DEFINE Good(s) == g[s] \in Nat /\ ((\A x \in s : f[x] = 0) => g[s] = 0)
             B == {s \in SUBSET S : ~ Good(s)}
  <1>2. ASSUME B # {} PROVE FALSE
    <2>1. PICK s \in B : \A u \in SUBSET s : u # s => u \notin B
      <3>1. B \subseteq SUBSET S
        OBVIOUS
      <3> HIDE DEF B
      <3>2. QED
        BY <1>2, <3>1, MinimalSubset
    <2>2. s \in SUBSET S /\ ~ Good(s)
      OBVIOUS
    <2> DEFINE u == s \ {Pick(s)}
    <2>3. /\ s = {} => g[s] = 0
          /\ s # {} => u \in SUBSET s /\ u # s /\ g[s] = f[Pick(s)] + g[u] /\ Pick(s) \in s
      <3> HIDE DEF B, Good
      <3>1. QED
        BY <1>1, <2>2, TotalStep
    <2>4. s # {}
      BY <2>2, <2>3
    <2>5. Good(u)
      BY <2>1, <2>2, <2>3, <2>4
    <2>6. f[Pick(s)] \in Nat
      BY <2>2, <2>3, <2>4
    <2> HIDE DEF u
    <2>7. QED
      BY <2>2, <2>3, <2>4, <2>5, <2>6
  <1>3. QED
    BY <1>1, <1>2

\* A sum changes by what one of its terms changes by.
LEMMA SumUpdate ==
  ASSUME NEW S, IsFiniteSet(S), NEW f \in [S -> Nat], NEW h \in [S -> Nat], NEW x \in S,
         \A y \in S : y # x => h[y] = f[y]
  PROVE  Sum(h, S) = Sum(f, S) + h[x] - f[x]
  <1>1. PICK g : IsTotal(g, f, S) /\ Sum(f, S) = g[S]
    BY SumIsTotal
  <1>2. PICK k : IsTotal(k, h, S) /\ Sum(h, S) = k[S]
    BY SumIsTotal
  <1> DEFINE Good(s) == /\ g[s] \in Int /\ k[s] \in Int
                        /\ k[s] = IF x \in s THEN g[s] + h[x] - f[x] ELSE g[s]
             B == {s \in SUBSET S : ~ Good(s)}
  <1>3. ASSUME B # {} PROVE FALSE
    <2>1. PICK s \in B : \A u \in SUBSET s : u # s => u \notin B
      <3>1. B \subseteq SUBSET S
        OBVIOUS
      <3> HIDE DEF B
      <3>2. QED
        BY <1>3, <3>1, MinimalSubset
    <2>2. s \in SUBSET S /\ ~ Good(s)
      OBVIOUS
    <2>3. s # {}
      <3>1. {} \in SUBSET S /\ x \notin {}
        OBVIOUS
      <3> HIDE DEF B, Good
      <3>2. g[{}] = 0 /\ k[{}] = 0
        <4>1. IsTotal(g, f, S) /\ IsTotal(k, h, S)
          BY <1>1, <1>2
        <4>2. QED
          BY <4>1, TotalEmpty
      <3>3. Good({})
        BY <3>1, <3>2 DEF Good
      <3>4. QED
        BY <2>2, <3>3
    <2> DEFINE u == s \ {Pick(s)}
    <2>4. u \in SUBSET s /\ u # s /\ g[s] = f[Pick(s)] + g[u] /\ Pick(s) \in s
      <3> HIDE DEF B, Good
      <3>1. QED
        BY <1>1, <2>2, <2>3, TotalStep
    <2>5. k[s] = h[Pick(s)] + k[u]
      BY <1>2, <2>2, <2>3, TotalStep
    <2>6. Good(u)
      BY <2>1, <2>2, <2>4
    <2>7. Pick(s) \in S /\ f[Pick(s)] \in Nat /\ h[Pick(s)] \in Nat /\ f[x] \in Nat /\ h[x] \in Nat
      BY <2>2, <2>4
    <2>8. x \in u <=> x \in s /\ x # Pick(s)
      OBVIOUS
    <2> HIDE DEF u
    <2>9. Good(s)
      <3>1. CASE x = Pick(s)
        BY <2>4, <2>5, <2>6, <2>7, <2>8, <3>1
      <3>2. CASE x # Pick(s)
        BY <2>4, <2>5, <2>6, <2>7, <2>8, <3>2
      <3>3. QED
        BY <3>1, <3>2
    <2>10. QED
      BY <2>2, <2>9
  <1>4. Good(S)
    BY <1>3
  <1>5. QED
    BY <1>1, <1>2, <1>4
=============================================================================
