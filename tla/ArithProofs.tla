---------------------------- MODULE ArithProofs ----------------------------
(***************************************************************************)
(* Proofs about the parts of the code that are arithmetic on words, sizes  *)
(* and addresses, for every width, page size and word size.  The parts     *)
(* share no state; each is an instance with variables of its own.          *)
(*                                                                         *)
(* The provers know 2^k only when k is a number, so the assumption of each *)
(* part spells out the recurrence of the powers it uses.                   *)
(***************************************************************************)
EXTENDS Arith, DataLemmas
-----------------------------------------------------------------------------
\* What quotient and remainder satisfy.
LEMMA DivMod ==
  ASSUME NEW a \in Int, NEW d \in Nat \ {0}
  PROVE  /\ a \div d \in Int /\ a % d \in 0 .. d - 1
         /\ a = (a \div d) * d + (a % d)
  OBVIOUS

\* They are determined by it.
LEMMA DivModUnique ==
  ASSUME NEW a \in Int, NEW d \in Nat \ {0}, NEW q \in Int, NEW r \in 0 .. d - 1, a = q * d + r
  PROVE  a \div d = q /\ a % d = r
  <1> DEFINE p == a \div d
             s == a % d
  <1>1. p \in Int /\ s \in 0 .. d - 1 /\ a = p * d + s
    BY DivMod
  <1> HIDE DEF p, s
  <1>2. (p - q) * d = r - s
    BY <1>1
  <1>3. p - q < 1
    <2>1. p - q >= 1 => (p - q) * d >= d
      BY <1>1
    <2>2. QED
      BY <1>1, <1>2, <2>1
  <1>4. p - q > -1
    <2>1. p - q <= -1 => (p - q) * d <= -d
      BY <1>1
    <2>2. QED
      BY <1>1, <1>2, <2>1
  <1>5. p = q
    BY <1>1, <1>3, <1>4
  <1>6. s = r
    BY <1>1, <1>5
  <1>7. QED
    BY <1>5, <1>6 DEF p, s

\* What the assumptions say of the powers of b up to a width.
Powers(b, n) == \A k \in 1 .. n : b^(k - 1) \in Nat \ {0} /\ b^k = b * b^(k - 1)

\* Powers are numbers, and not 0.
LEMMA PowerNat ==
  ASSUME NEW b \in Nat \ {0}, NEW n \in Nat \ {0}, Powers(b, n), NEW i \in 0 .. n
  PROVE  b^i \in Nat \ {0}
  <1>1. CASE i < n
    <2>1. i + 1 \in 1 .. n /\ (i + 1) - 1 = i
      BY <1>1
    <2>2. QED
      BY <2>1 DEF Powers
  <1>2. CASE i = n
    <2>1. n \in 1 .. n
      OBVIOUS
    <2> DEFINE p == b^(n - 1)
    <2>2. p \in Nat \ {0} /\ b^n = b * p
      BY <2>1 DEF Powers
    <2> HIDE DEF p
    <2>3. b * p \in Nat \ {0}
      BY <2>2
    <2>4. QED
      BY <1>2, <2>2, <2>3
  <1>3. QED
    BY <1>1, <1>2

\* A smaller power divides a larger one.
LEMMA PowerDivides ==
  ASSUME NEW b \in Nat \ {0}, NEW n \in Nat \ {0}, Powers(b, n), NEW j \in 0 .. n, NEW i \in j .. n
  PROVE  /\ \E m \in Nat \ {0} : b^i = m * b^j
         /\ b^j <= b^i
  <1> DEFINE d == b^j
             Good(x) == \E m \in Nat \ {0} : b^(j + x) = m * d
             T == {x \in 0 .. n - j : Good(x)}
  <1>1. d \in Nat \ {0}
    BY PowerNat
  <1>2. 0 \in T
    <2>1. j + 0 = j /\ d = 1 * d /\ 1 \in Nat \ {0} /\ 0 \in 0 .. n - j
      BY <1>1
    <2> HIDE DEF T
    <2>2. Good(0)
      BY <2>1
    <2> HIDE DEF Good
    <2>3. QED
      BY <2>1, <2>2 DEF T
  <1>3. ASSUME NEW x \in 1 .. n - j, x - 1 \in T PROVE x \in T
    <2>1. Good(x - 1)
      BY <1>3
    <2> HIDE DEF d
    <2>2. PICK m \in Nat \ {0} : b^(j + (x - 1)) = m * d
      BY <2>1
    <2>3. j + x \in 1 .. n /\ (j + x) - 1 = j + (x - 1)
      OBVIOUS
    <2>4. b^(j + x) = b * b^((j + x) - 1)
      BY <2>3 DEF Powers
    <2>5. b^(j + x) = b * (m * d)
      BY <2>2, <2>3, <2>4
    <2>6. b * (m * d) = (b * m) * d /\ b * m \in Nat \ {0}
      BY <1>1, <2>2
    <2>7. Good(x)
      BY <2>5, <2>6
    <2> HIDE DEF Good
    <2>8. QED
      BY <2>7
  <1> HIDE DEF T
  <1>4. \A x \in 0 .. n - j : x \in T
    <2>1. n - j \in Nat
      OBVIOUS
    <2>2. QED
      BY <1>2, <1>3, <2>1, Induction
  <1>5. PICK m \in Nat \ {0} : b^i = m * d
    <2>1. i - j \in 0 .. n - j /\ j + (i - j) = i
      OBVIOUS
    <2>2. Good(i - j)
      BY <1>4, <2>1 DEF T
    <2> HIDE DEF d
    <2>3. QED
      BY <2>1, <2>2
  <1> HIDE DEF d
  <1>6. d <= m * d
    BY <1>1, <1>5
  <1>7. QED
    BY <1>5, <1>6 DEF d
-----------------------------------------------------------------------------
\* gc_size_align: not below the size, and no overflow for sizes up to half of
\* the address space.
LEMMA AlignHolds ==
  ASSUME Buf!BufAssumption, NEW n \in Buf!Request
  PROVE  Buf!gc_size_align(n) \in Nat /\ n <= Buf!gc_size_align(n)
  <1> DEFINE W == BufWord
             P == 2^SizeBits
             H == 2^(SizeBits - 1)
             U == 2^UInt32Bits
             y == n + W - 1
             a == y \div W
  <1>1. W \in Nat \ {0} /\ SizeBits \in Nat \ {0} /\ UInt32Bits \in 0 .. SizeBits - 1 /\ W < U
    BY DEF Buf!BufAssumption
  <1>2. H \in Nat \ {0} /\ P = 2 * H
    BY <1>1 DEF Buf!BufAssumption
  <1>3. n \in Nat /\ n < H
    BY <1>2 DEF Buf!Request
  <1>4. U \in Nat /\ U <= H
    <2>1. Powers(2, SizeBits) /\ SizeBits - 1 \in UInt32Bits .. SizeBits /\ UInt32Bits \in 0 .. SizeBits
      BY <1>1 DEF Buf!BufAssumption, Powers
    <2>2. QED
      BY <1>1, <2>1, PowerNat, PowerDivides
  <1> HIDE DEF W, P, H, U
  <1>5. a \in Int /\ y % W \in 0 .. W - 1 /\ y = a * W + (y % W)
    <2>1. y \in Int
      BY <1>1, <1>3
    <2> HIDE DEF y
    <2>2. QED
      BY <1>1, <2>1, DivMod
  <1> DEFINE x == a * W
  <1>6. x \in Int /\ n <= x /\ x < P
    BY <1>1, <1>2, <1>3, <1>4, <1>5
  <1> HIDE DEF a, x
  <1>7. x = 0 * P + x /\ x \in 0 .. P - 1 /\ P \in Nat \ {0}
    BY <1>2, <1>3, <1>6
  <1>8. x % P = x
    BY <1>6, <1>7, DivModUnique
  <1>9. Buf!gc_size_align(n) = x % P
    BY DEF Buf!gc_size_align, x, a, y, W, P
  <1>10. QED
    BY <1>3, <1>6, <1>8, <1>9

\* What holds between any two calls of a buffer's owner.
BufInv ==
  /\ b_size \in Nat
  /\ block # NoBlock => block \in Nat /\ b_size <= block
  /\ \A n \in lost : n \in Nat /\ n % 2^UInt32Bits = 0

\* m_gc_buf.c: through any sequence of allocations and reallocations the block
\* is at least as long as the size its owner relies on, and only sizes that are
\* 0 in the 32 bits m_gc_free_buf takes are lost, for every width and word size.
THEOREM BuffersHold ==
  ASSUME Buf!BufAssumption
  PROVE  Buf!Spec => []BufferHolds
  <1>0. 2^UInt32Bits \in Nat \ {0} /\ 0 % 2^UInt32Bits = 0
    <2>1. SizeBits \in Nat \ {0} /\ Powers(2, SizeBits) /\ UInt32Bits \in 0 .. SizeBits
      BY DEF Buf!BufAssumption, Powers
    <2> DEFINE U == 2^UInt32Bits
    <2>2. U \in Nat \ {0}
      BY <2>1, PowerNat
    <2> HIDE DEF U
    <2>3. 0 % U = 0
      <3>1. 0 = 0 * U + 0 /\ 0 \in 0 .. U - 1
        BY <2>2
      <3>2. QED
        BY <2>2, <3>1, DivModUnique
    <2>4. QED
      BY <2>2, <2>3 DEF U
  <1>1. Buf!Init => BufInv
    BY DEF Buf!Init, BufInv
  <1>2. BufInv /\ [Buf!Next]_(Buf!vars) => BufInv'
    <2> SUFFICES ASSUME BufInv, [Buf!Next]_(Buf!vars) PROVE BufInv'
      OBVIOUS
    <2>1. Buf!Request \subseteq Nat
      BY DEF Buf!Request
    <2>2. ASSUME NEW n \in Buf!Request, Buf!Alloc(n)
          PROVE  b_size' \in Nat /\ (block' # NoBlock => block' \in Nat /\ b_size' <= block')
      BY <2>1, <2>2, AlignHolds DEF Buf!Alloc
    <2>3. \A n \in Buf!Lost : n \in Nat /\ n % 2^UInt32Bits = 0
      BY DEF BufInv, Buf!Lost, Buf!Released
    <2>4. ASSUME NEW n \in Buf!Request, Buf!m_gc_alloc_buf(n) PROVE BufInv'
      BY <2>2, <2>4 DEF Buf!m_gc_alloc_buf, BufInv
    <2>5. ASSUME Buf!m_gc_free_buf PROVE BufInv'
      BY <2>3, <2>5 DEF Buf!m_gc_free_buf, BufInv
    <2>6. ASSUME NEW n \in Buf!Request, Buf!m_gc_realloc_buf(n) PROVE BufInv'
      <3>1. CASE b_size = 0 /\ Buf!Alloc(n) /\ lost' = lost \cup {b_size}
        BY <1>0, <2>2, <3>1 DEF BufInv
      <3>2. CASE b_size # 0 /\ n = 0 /\ block' = NoBlock /\ b_size' = 0 /\ lost' = Buf!Lost
        BY <2>3, <3>2 DEF BufInv
      <3>3. CASE b_size # 0 /\ n # 0 /\ n <= b_size /\ b_size' = n /\ UNCHANGED <<block, lost>>
        BY <2>1, <2>6, <3>3 DEF BufInv
      <3>4. CASE b_size # 0 /\ n > b_size /\ block' = Buf!gc_size_align(n) /\ b_size' = n /\ UNCHANGED lost
        BY <2>1, <2>6, <3>4, AlignHolds DEF BufInv
      <3>5. CASE UNCHANGED Buf!vars
        BY <3>5 DEF BufInv, Buf!vars
      <3>6. QED
        BY <2>6, <3>1, <3>2, <3>3, <3>4, <3>5 DEF Buf!m_gc_realloc_buf
    <2>7. CASE UNCHANGED Buf!vars
      BY <2>7 DEF BufInv, Buf!vars
    <2>8. QED
      BY <2>4, <2>5, <2>6, <2>7 DEF Buf!Next
  <1>3. BufInv => BufferHolds
    BY DEF BufInv, BufferHolds, Buf!BufferHolds
  <1>4. QED
    BY <1>1, <1>2, <1>3, PTL DEF Buf!Spec
-----------------------------------------------------------------------------
\* Multiplying by a page size keeps the order.
LEMMA MulLess ==
  ASSUME NEW d \in Nat \ {0}, NEW a \in Int, NEW b \in Int
  PROVE  a * d < b * d <=> a < b
  <1>1. ASSUME a < b PROVE a * d < b * d
    <2>1. (b - a) * d >= d
      BY <1>1
    <2>2. (b - a) * d = b * d - a * d
      OBVIOUS
    <2>3. QED
      BY <2>1, <2>2
  <1>2. ASSUME ~ (a < b) PROVE ~ (a * d < b * d)
    <2>1. (a - b) * d >= 0
      BY <1>2
    <2>2. (a - b) * d = a * d - b * d
      OBVIOUS
    <2>3. QED
      BY <2>1, <2>2
  <1>3. QED
    BY <1>1, <1>2

\* The pages of a range that starts with page q.
LEMMA PagesFrom ==
  ASSUME Map!MapAssumption, NEW q \in Int, NEW n \in Int
  PROVE  Map!Pages(q * OSPage, n) = {p \in Space : q <= p /\ p * OSPage < q * OSPage + n}
  <1>1. OSPage \in Nat \ {0} /\ Space \subseteq Nat
    BY DEF Map!MapAssumption
  <1>2. ASSUME NEW p \in Space PROVE q * OSPage < (p + 1) * OSPage <=> q <= p
    <2>1. p \in Int /\ p + 1 \in Int /\ (q < p + 1 <=> q <= p)
      BY <1>1
    <2>2. QED
      BY <1>1, <2>1, MulLess
  <1>3. QED
    BY <1>2 DEF Map!Pages

\* The system pages from q up to e.
Between(q, e) == {p \in Space : q <= p /\ p < e}

\* A range of system pages, by its first page and the page after its last.
LEMMA PagesBetween ==
  ASSUME Map!MapAssumption, NEW q \in Int, NEW m \in Int, NEW a, NEW n, a = q * OSPage, n = m * OSPage
  PROVE  Map!Pages(a, n) = Between(q, q + m)
  <1>1. OSPage \in Nat \ {0} /\ Space \subseteq Nat
    BY DEF Map!MapAssumption
  <1>2. a \in Int /\ n \in Int /\ a + n = (q + m) * OSPage /\ q + m \in Int
    BY <1>1
  <1>3. ASSUME NEW p \in Space PROVE p * OSPage < a + n <=> p < q + m
    BY <1>1, <1>2, MulLess
  <1>4. Map!Pages(a, n) = {p \in Space : q <= p /\ p * OSPage < a + n}
    BY <1>2, PagesFrom
  <1>5. QED
    BY <1>3, <1>4 DEF Between

\* Where a system page lies in a page of MapPage.
LEMMA OffsetIs ==
  ASSUME NEW d \in Nat \ {0}, NEW c \in Nat \ {0}, NEW q \in Int
  PROVE  (q * d) % (c * d) = (q % c) * d
  <1> DEFINE r == q % c
             t == q \div c
  <1>1. r \in 0 .. c - 1 /\ t \in Int /\ q = t * c + r
    BY DivMod
  <1> HIDE DEF r, t
  <1>2. c * d \in Nat \ {0} /\ q * d \in Int
    OBVIOUS
  <1>3. q * d = t * (c * d) + r * d
    BY <1>1
  <1>4. r * d \in 0 .. c * d - 1
    <2>1. r * d < c * d /\ r * d \in Nat
      BY <1>1, MulLess
    <2>2. QED
      BY <1>2, <2>1
  <1>5. QED
    BY <1>1, <1>2, <1>3, <1>4, DivModUnique DEF r

\* The pages to a page, a range that starts at page q and its distance from the
\* page boundary before it, all in system pages.
Counts(a, n, q, c, r, t, s) ==
  /\ MapPage = c * OSPage /\ r < c /\ c <= s
  /\ a = q * OSPage /\ n = s * OSPage
  /\ Map!Offset(a) = r * OSPage
  /\ (Map!Offset(a) = 0 <=> r = 0)
  /\ q = t * c + r
  /\ \A x \in Int : Map!Offset((x * c) * OSPage) = 0

\* Every range gc_mmap asks for can be counted so.
LEMMA Counted ==
  ASSUME Map!MapAssumption, NEW q \in Space, NEW z \in Nat \ {0}
  PROVE  \E c \in Nat \ {0}, r \in Nat, t \in Nat \ {0}, s \in Nat :
           Counts(q * OSPage, z * MapPage, q, c, r, t, s)
  <1> DEFINE O == OSPage
             M == MapPage
             c == M \div O
             r == q % c
             t == q \div c
             s == z * c
  <1>1. O \in Nat \ {0} /\ M \in Nat \ {0} /\ M % O = 0 /\ q \in Nat /\ q * O >= M
    BY DEF Map!MapAssumption
  <1>2. c \in Nat \ {0} /\ M = c * O
    <2>1. c \in Int /\ M = c * O + 0
      BY <1>1, DivMod
    <2> HIDE DEF c, M, O
    <2>2. M = c * O
      BY <1>1, <2>1
    <2>3. c > 0
      BY <1>1, <2>1, <2>2
    <2>4. QED
      BY <2>1, <2>2, <2>3
  <1> HIDE DEF c, M, O
  <1>3. r \in 0 .. c - 1 /\ t \in Int /\ q = t * c + r
    BY <1>1, <1>2, DivMod
  <1> HIDE DEF r, t
  <1>4. t > 0
    <2>1. ~ (q < c)
      <3>1. q * O >= c * O
        BY <1>1, <1>2
      <3>2. QED
        BY <1>1, <1>2, <3>1, MulLess
    <2>2. t <= 0 => t * c <= 0
      BY <1>2, <1>3
    <2>3. QED
      BY <1>1, <1>2, <1>3, <2>1, <2>2
  <1>5. s \in Nat /\ c <= s /\ z * M = s * O
    BY <1>1, <1>2
  <1> HIDE DEF s
  <1>6. Map!Offset(q * O) = r * O
    <2>1. (q * O) % (c * O) = (q % c) * O
      <3>1. q \in Int
        BY <1>1
      <3>2. QED
        BY <1>1, <1>2, <3>1, OffsetIs
    <2>2. QED
      BY <1>2, <2>1 DEF Map!Offset, r, M
  <1>7. r * O = 0 <=> r = 0
    BY <1>1, <1>2, <1>3
  <1>8. ASSUME NEW x \in Int PROVE Map!Offset((x * c) * O) = 0
    <2>1. x * c \in Int /\ ((x * c) * O) % (c * O) = ((x * c) % c) * O
      <3>1. x * c \in Int
        BY <1>2
      <3>2. QED
        BY <1>1, <1>2, <3>1, OffsetIs
    <2>2. (x * c) % c = 0
      <3>1. x * c = x * c + 0 /\ 0 \in 0 .. c - 1
        BY <1>2
      <3>2. QED
        BY <1>2, <2>1, <3>1, DivModUnique
    <2>3. 0 * O = 0
      BY <1>1
    <2>4. QED
      BY <1>2, <2>1, <2>2, <2>3 DEF Map!Offset, M
  <1>9. r \in Nat /\ r < c /\ t \in Nat \ {0}
    BY <1>2, <1>3, <1>4
  <1>10. Counts(q * O, z * M, q, c, r, t, s)
    BY <1>2, <1>3, <1>5, <1>6, <1>7, <1>8, <1>9 DEF Counts, O, M
  <1>11. QED
    BY <1>2, <1>5, <1>9, <1>10 DEF O, M

\* A range of s pages moved up by k pages at its two ends.
LEMMA ShiftedUp ==
  ASSUME Space \subseteq Nat, NEW q \in Int, NEW s \in Nat, NEW k \in 0 .. s
  PROVE  /\ (Between(q, q + s) \cup Between(q + s, (q + s) + k)) \ Between(q, q + k)
              = Between(q + k, (q + k) + s)
         /\ Between(q, q + k) \subseteq Between(q, q + s)
  <1>1. ASSUME NEW p \in Space
        PROVE  /\ q <= p /\ p < q + k => p < q + s
               /\ (q + k <= p /\ p < (q + k) + s)
                    <=> /\ (q <= p /\ p < q + s) \/ (q + s <= p /\ p < (q + s) + k)
                        /\ ~ (q <= p /\ p < q + k)
    <2>1. p \in Int /\ k \in Int /\ s \in Int /\ 0 <= k /\ k <= s
      OBVIOUS
    <2>2. QED
      BY <2>1
  <1>2. QED
    BY <1>1, Zenon DEF Between

\* The same, down.
LEMMA ShiftedDown ==
  ASSUME Space \subseteq Nat, NEW q \in Int, NEW s \in Nat, NEW k \in 0 .. s
  PROVE  /\ (Between(q, q + s) \cup Between(q - k, (q - k) + k)) \ Between((q + s) - k, ((q + s) - k) + k)
              = Between(q - k, (q - k) + s)
         /\ Between((q + s) - k, ((q + s) - k) + k) \subseteq Between(q, q + s)
  <1>1. ASSUME NEW p \in Space
        PROVE  /\ (q + s) - k <= p /\ p < ((q + s) - k) + k => q <= p /\ p < q + s
               /\ (q - k <= p /\ p < (q - k) + s)
                    <=> /\ (q <= p /\ p < q + s) \/ (q - k <= p /\ p < (q - k) + k)
                        /\ ~ ((q + s) - k <= p /\ p < ((q + s) - k) + k)
    <2>1. p \in Int /\ k \in Int /\ s \in Int /\ 0 <= k /\ k <= s
      OBVIOUS
    <2>2. QED
      BY <2>1
  <1>2. QED
    BY <1>1, Zenon DEF Between

\* A request, rounded up, is a number of pages.
LEMMA AlignedIs ==
  ASSUME Map!MapAssumption, NEW n \in Sizes
  PROVE  \E z \in Nat \ {0} : Map!AlignedUp(n) = z * MapPage
  <1> DEFINE M == MapPage
             y == n + M - 1
             z == y \div M
  <1>1. n \in Nat \ {0} /\ M \in Nat \ {0} /\ y \in Int
    BY DEF Map!MapAssumption
  <1> HIDE DEF y
  <1>2. z \in Int /\ y % M \in 0 .. M - 1 /\ y = z * M + (y % M)
    BY <1>1, DivMod
  <1> HIDE DEF z, M
  <1>3. z * M >= 1
    BY <1>1, <1>2 DEF y
  <1>4. z > 0
    <2>1. z <= 0 => z * M <= 0
      BY <1>1, <1>2
    <2>2. QED
      BY <1>1, <1>2, <1>3, <2>1
  <1>5. Map!AlignedUp(n) = z * M
    BY DEF Map!AlignedUp, z, y, M
  <1>6. QED
    BY <1>2, <1>4, <1>5 DEF M

\* What mmap returns starts a system page.
LEMMA MappedIs ==
  ASSUME NEW n, NEW a \in Map!Mapped(0, n)
  PROVE  \E q \in Space : a = q * OSPage
  BY DEF Map!Mapped

\* What gc_mmap knows between its attempts.
Held(a, n) == (\E q \in Space : a = q * OSPage) /\ (\E z \in Nat \ {0} : n = z * MapPage)

\* The second attempt, above what is mapped.
LEMMA AfterMapped ==
  ASSUME Map!MapAssumption, NEW a, NEW n, Held(a, n), Map!Offset(a) # 0
  PROVE  LET diff == MapPage - Map!Offset(a)
         IN  /\ Map!Offset(a + diff) = 0 /\ a + diff # 0
             /\ Map!Pages(a, diff) \subseteq Map!Pages(a, n)
             /\ (Map!Pages(a, n) \cup Map!Pages(a + n, diff)) \ Map!Pages(a, diff) = Map!Pages(a + diff, n)
  <1> DEFINE O == OSPage
             M == MapPage
             diff == M - Map!Offset(a)
  <1>0. PICK q \in Space, z \in Nat \ {0} : a = q * OSPage /\ n = z * MapPage
    BY DEF Held
  <1>1. PICK c \in Nat \ {0}, r \in Nat, t \in Nat \ {0}, s \in Nat : Counts(a, n, q, c, r, t, s)
    BY <1>0, Counted
  <1>2. /\ MapPage = c * OSPage /\ r < c /\ c <= s
        /\ a = q * OSPage /\ n = s * OSPage
        /\ Map!Offset(a) = r * OSPage
        /\ (Map!Offset(a) = 0 <=> r = 0)
        /\ q = t * c + r
        /\ \A x \in Int : Map!Offset((x * c) * OSPage) = 0
    BY <1>1 DEF Counts
  <1>3. Space \subseteq Nat /\ q \in Int /\ O \in Nat \ {0}
    BY DEF Map!MapAssumption
  <1> DEFINE k == c - r
  <1>4. k \in 0 .. s /\ k > 0 /\ diff = k * O /\ a \in Int /\ n \in Int
    BY <1>2, <1>3
  <1>5. a + diff = (q + k) * O /\ q + k = (t + 1) * c /\ a + n = (q + s) * O
    BY <1>2, <1>3, <1>4
  <1> HIDE DEF k, diff, O
  <1>6. Map!Offset(a + diff) = 0
    <2>1. t + 1 \in Int /\ a + diff = ((t + 1) * c) * OSPage
      BY <1>2, <1>5 DEF O
    <2>2. Map!Offset(((t + 1) * c) * OSPage) = 0
      BY <1>2, <2>1
    <2>3. QED
      BY <2>1, <2>2
  <1>7. a + diff # 0
    <2>1. q + k > 0
      BY <1>2, <1>3, <1>4
    <2>2. (q + k) * O > 0
      BY <1>3, <1>4, <2>1
    <2>3. QED
      BY <1>5, <2>2
  <1>8. /\ Map!Pages(a, n) = Between(q, q + s)
        /\ Map!Pages(a, diff) = Between(q, q + k)
        /\ Map!Pages(a + n, diff) = Between(q + s, (q + s) + k)
        /\ Map!Pages(a + diff, n) = Between(q + k, (q + k) + s)
    <2>1. q \in Int /\ k \in Int /\ s \in Int /\ q + s \in Int /\ q + k \in Int
      BY <1>2, <1>3, <1>4
    <2>2. a = q * OSPage /\ n = s * OSPage /\ diff = k * OSPage
          /\ a + n = (q + s) * OSPage /\ a + diff = (q + k) * OSPage
      BY <1>2, <1>4, <1>5 DEF O
    <2>3. Map!Pages(a, n) = Between(q, q + s)
      BY <2>1, <2>2, PagesBetween
    <2>4. Map!Pages(a, diff) = Between(q, q + k)
      BY <2>1, <2>2, PagesBetween
    <2>5. Map!Pages(a + n, diff) = Between(q + s, (q + s) + k)
      BY <2>1, <2>2, PagesBetween
    <2>6. Map!Pages(a + diff, n) = Between(q + k, (q + k) + s)
      BY <2>1, <2>2, PagesBetween
    <2>7. QED
      BY <2>3, <2>4, <2>5, <2>6
  <1>9. /\ (Between(q, q + s) \cup Between(q + s, (q + s) + k)) \ Between(q, q + k) = Between(q + k, (q + k) + s)
        /\ Between(q, q + k) \subseteq Between(q, q + s)
    <2>1. Space \subseteq Nat /\ q \in Int /\ s \in Nat /\ k \in 0 .. s
      BY <1>2, <1>3, <1>4
    <2>2. QED
      BY <2>1, ShiftedUp, Zenon
  <1>10. QED
    BY <1>6, <1>7, <1>8, <1>9 DEF diff

\* The third attempt, below what is mapped.
LEMMA BeforeMapped ==
  ASSUME Map!MapAssumption, NEW a, NEW n, Held(a, n), Map!Offset(a) # 0
  PROVE  LET diff == Map!Offset(a)
         IN  /\ Map!Offset(a - diff) = 0 /\ a - diff # 0
             /\ Map!Pages(a + n - diff, diff) \subseteq Map!Pages(a, n)
             /\ (Map!Pages(a, n) \cup Map!Pages(a - diff, diff)) \ Map!Pages(a + n - diff, diff)
                  = Map!Pages(a - diff, n)
  <1> DEFINE O == OSPage
             diff == Map!Offset(a)
  <1>0. PICK q \in Space, z \in Nat \ {0} : a = q * OSPage /\ n = z * MapPage
    BY DEF Held
  <1>1. PICK c \in Nat \ {0}, r \in Nat, t \in Nat \ {0}, s \in Nat : Counts(a, n, q, c, r, t, s)
    BY <1>0, Counted
  <1>2. /\ MapPage = c * OSPage /\ r < c /\ c <= s
        /\ a = q * OSPage /\ n = s * OSPage
        /\ Map!Offset(a) = r * OSPage
        /\ (Map!Offset(a) = 0 <=> r = 0)
        /\ q = t * c + r
        /\ \A x \in Int : Map!Offset((x * c) * OSPage) = 0
    BY <1>1 DEF Counts
  <1>3. Space \subseteq Nat /\ q \in Int /\ O \in Nat \ {0}
    BY DEF Map!MapAssumption
  <1>4. r \in 0 .. s /\ diff = r * O /\ a \in Int /\ n \in Int
    BY <1>2, <1>3
  <1>5. a - diff = (q - r) * O /\ q - r = t * c /\ a + n - diff = ((q + s) - r) * O
    BY <1>2, <1>3, <1>4
  <1> HIDE DEF diff, O
  <1>6. Map!Offset(a - diff) = 0
    <2>1. t \in Int /\ a - diff = (t * c) * OSPage
      BY <1>2, <1>5 DEF O
    <2>2. Map!Offset((t * c) * OSPage) = 0
      BY <1>2, <2>1
    <2>3. QED
      BY <2>1, <2>2
  <1>7. a - diff # 0
    <2>1. q - r > 0
      <3>1. t * c > 0
        BY <1>2
      <3>2. QED
        BY <1>5, <3>1
    <2>2. (q - r) * O > 0
      BY <1>2, <1>3, <2>1
    <2>3. QED
      BY <1>5, <2>2
  <1>8. /\ Map!Pages(a, n) = Between(q, q + s)
        /\ Map!Pages(a - diff, diff) = Between(q - r, (q - r) + r)
        /\ Map!Pages(a + n - diff, diff) = Between((q + s) - r, ((q + s) - r) + r)
        /\ Map!Pages(a - diff, n) = Between(q - r, (q - r) + s)
    <2>1. q \in Int /\ r \in Int /\ s \in Int /\ (q + s) - r \in Int /\ q - r \in Int
      BY <1>2, <1>3, <1>4
    <2>2. a = q * OSPage /\ n = s * OSPage /\ diff = r * OSPage
          /\ a + n - diff = ((q + s) - r) * OSPage /\ a - diff = (q - r) * OSPage
      BY <1>2, <1>4, <1>5 DEF O
    <2>3. Map!Pages(a, n) = Between(q, q + s)
      BY <2>1, <2>2, PagesBetween
    <2>4. Map!Pages(a - diff, diff) = Between(q - r, (q - r) + r)
      BY <2>1, <2>2, PagesBetween
    <2>5. Map!Pages(a + n - diff, diff) = Between((q + s) - r, ((q + s) - r) + r)
      BY <2>1, <2>2, PagesBetween
    <2>6. Map!Pages(a - diff, n) = Between(q - r, (q - r) + s)
      BY <2>1, <2>2, PagesBetween
    <2>7. QED
      BY <2>3, <2>4, <2>5, <2>6
  <1>9. /\ (Between(q, q + s) \cup Between(q - r, (q - r) + r)) \ Between((q + s) - r, ((q + s) - r) + r)
             = Between(q - r, (q - r) + s)
        /\ Between((q + s) - r, ((q + s) - r) + r) \subseteq Between(q, q + s)
    <2>1. Space \subseteq Nat /\ q \in Int /\ s \in Nat /\ r \in 0 .. s
      BY <1>2, <1>3, <1>4
    <2>2. QED
      BY <2>1, ShiftedDown, Zenon
  <1>10. QED
    BY <1>6, <1>7, <1>8, <1>9 DEF diff

\* The last attempt: what is cut off the big buffer on both sides.
LEMMA BigMapped ==
  ASSUME Map!MapAssumption, NEW a, NEW n, Held(a, n)
  PROVE  LET big  == n + MapPage - 1
             head == IF Map!Offset(a) = 0 THEN 0 ELSE MapPage - Map!Offset(a)
             cut  == Map!Pages(a, head) \cup Map!Pages(a + head + n, Map!Tail(head))
         IN  /\ Map!Offset(a + head) = 0 /\ a + head # 0
             /\ cut \subseteq Map!Pages(a, big)
             /\ Map!Pages(a, big) \ cut = Map!Pages(a + head, n)
  <1> DEFINE O == OSPage
             M == MapPage
             big == n + M - 1
             head == IF Map!Offset(a) = 0 THEN 0 ELSE M - Map!Offset(a)
             tail == Map!Tail(head)
  <1>0. PICK q \in Space, z \in Nat \ {0} : a = q * OSPage /\ n = z * MapPage
    BY DEF Held
  <1>1. PICK c \in Nat \ {0}, r \in Nat, t \in Nat \ {0}, s \in Nat : Counts(a, n, q, c, r, t, s)
    BY <1>0, Counted
  <1>2. /\ MapPage = c * OSPage /\ r < c /\ c <= s
        /\ a = q * OSPage /\ n = s * OSPage
        /\ Map!Offset(a) = r * OSPage
        /\ (Map!Offset(a) = 0 <=> r = 0)
        /\ q = t * c + r
        /\ \A x \in Int : Map!Offset((x * c) * OSPage) = 0
    BY <1>1 DEF Counts
  <1>3. Space \subseteq Nat /\ q \in Int /\ q \in Nat /\ O \in Nat \ {0}
    BY DEF Map!MapAssumption
  <1> DEFINE h == IF r = 0 THEN 0 ELSE c - r
             u == IF r = 0 THEN t ELSE t + 1
  <1>4. /\ h \in 0 .. c - 1 /\ h \in Int /\ head = h * O /\ a \in Int /\ n \in Int /\ M \in Int
        /\ u \in Int /\ u > 0 /\ q + h = u * c
    <2>1. CASE r = 0
      BY <1>2, <1>3, <2>1
    <2>2. CASE r # 0
      BY <1>2, <1>3, <2>2
    <2>3. QED
      BY <2>1, <2>2
  <1>5. h * O <= M - 1
    <2>1. h * O < c * O
      BY <1>3, <1>4, MulLess
    <2>2. h * O \in Int /\ c * O \in Int /\ M = c * O
      BY <1>2, <1>3, <1>4
    <2>3. QED
      BY <1>4, <2>1, <2>2
  <1>6. tail = M - 1 - head
    BY DEF Map!Tail
  <1> HIDE DEF h, u, head, tail, O, M
  <1>7. /\ a + head = (q + h) * O /\ a + head + n = ((q + h) + s) * O
        /\ (a + head + n) + tail = a + big
        /\ ((q + h) + s) * O <= a + big /\ a + big \in Int /\ tail \in Int
    <2>1. a = q * O /\ n = s * O
      BY <1>2 DEF O
    <2>2. a + head = (q + h) * O /\ a + head + n = ((q + h) + s) * O
      BY <1>2, <1>3, <1>4, <2>1
    <2>3. head \in Int /\ head <= M - 1
      BY <1>3, <1>4, <1>5
    <2>4. QED
      BY <1>4, <1>6, <2>2, <2>3
  <1>8. Map!Offset(a + head) = 0
    <2>1. a + head = (u * c) * OSPage
      BY <1>4, <1>7 DEF O
    <2>2. QED
      BY <1>2, <1>4, <2>1
  <1>9. a + head # 0
    <2>1. q + h > 0
      <3>1. u * c > 0
        BY <1>2, <1>4
      <3>2. QED
        BY <1>4, <3>1
    <2>2. (q + h) * O > 0
      BY <1>3, <1>4, <2>1
    <2>3. QED
      BY <1>7, <2>2
  <1>10. Map!Pages(a, big) = {p \in Space : q <= p /\ p * O < a + big}
    <2>1. big \in Int
      BY <1>4
    <2>2. Map!Pages(q * OSPage, big) = {p \in Space : q <= p /\ p * OSPage < q * OSPage + big}
      BY <1>3, <2>1, PagesFrom
    <2>3. QED
      BY <1>2, <2>2 DEF O
  <1>11. Map!Pages(a, head) = Between(q, q + h)
    <2>1. q \in Int /\ h \in Int /\ a = q * OSPage /\ head = h * OSPage
      BY <1>2, <1>3, <1>4 DEF O
    <2>2. QED
      BY <2>1, PagesBetween
  <1>12. Map!Pages(a + head, n) = Between(q + h, (q + h) + s)
    <2>1. q + h \in Int /\ s \in Int /\ a + head = (q + h) * OSPage /\ n = s * OSPage
      BY <1>2, <1>3, <1>4, <1>7 DEF O
    <2>2. QED
      BY <2>1, PagesBetween
  <1>13. Map!Pages(a + head + n, tail) = {p \in Space : (q + h) + s <= p /\ p * O < a + big}
    <2>1. (q + h) + s \in Int /\ tail \in Int
      BY <1>2, <1>3, <1>4, <1>7
    <2> DEFINE e == (q + h) + s
    <2> HIDE DEF e
    <2>2. Map!Pages(e * OSPage, tail) = {p \in Space : e <= p /\ p * OSPage < e * OSPage + tail}
      BY <2>1, PagesFrom DEF e
    <2>3. a + head + n = e * OSPage /\ (a + head + n) + tail = a + big
      BY <1>7 DEF e, O
    <2>4. QED
      BY <2>2, <2>3 DEF e, O
  <1>14. ASSUME NEW p \in Space
         PROVE  /\ q <= p /\ p < q + h => p * O < a + big
                /\ q + h <= p /\ p < (q + h) + s => p * O < a + big
    <2>1. p < (q + h) + s => p * O < ((q + h) + s) * O
      <3>1. p \in Int /\ (q + h) + s \in Int
        BY <1>2, <1>3, <1>4
      <3>2. QED
        BY <1>3, <3>1, MulLess
    <2>2. p \in Int /\ p * O \in Int /\ ((q + h) + s) * O \in Int
      BY <1>2, <1>3, <1>4
    <2>3. p < q + h => p < (q + h) + s
      BY <1>2, <1>3, <1>4, <2>2
    <2>4. QED
      BY <1>7, <2>1, <2>2, <2>3
  <1> DEFINE cut == Map!Pages(a, head) \cup Map!Pages(a + head + n, tail)
  <1>15. ASSUME NEW p \in Space
         PROVE  /\ q <= p /\ p < q + h => ~ (q + h <= p)
                /\ q <= p /\ ~ (p < q + h) => q + h <= p
                /\ (q + h) + s <= p => q <= p /\ ~ (p < (q + h) + s)
                /\ q + h <= p => q <= p /\ ~ (p < q + h)
                /\ ~ ((q + h) + s <= p) => p < (q + h) + s
    BY <1>2, <1>3, <1>4
  <1>16. cut \subseteq Map!Pages(a, big)
    <2> HIDE DEF big
    <2>1. QED
      BY <1>10, <1>11, <1>13, <1>14, <1>15, Zenon DEF Between
  <1>17. Map!Pages(a, big) \ cut = Map!Pages(a + head, n)
    <2> HIDE DEF big
    <2>1. QED
      BY <1>10, <1>11, <1>12, <1>13, <1>14, <1>15, Zenon DEF Between
  <1>18. QED
    BY <1>8, <1>9, <1>16, <1>17 DEF head, tail, M

\* What gc_mmap has mapped before each of its attempts and after the last.
MapInv ==
  /\ stray = FALSE
  /\ pc \in {"idle", "after", "before", "big", "done"}
  /\ pc = "idle" => ours = {}
  /\ pc \in {"after", "before"} =>
       moved = FALSE /\ Held(pu8, m_size) /\ Map!Offset(pu8) # 0 /\ ours = Map!Pages(pu8, m_size)
  /\ pc = "big" => ours = {} /\ \E z \in Nat \ {0} : m_size = z * MapPage
  /\ pc = "done" =>
       IF mapped = 0 THEN ours = {}
       ELSE Map!Offset(mapped) = 0 /\ (moved = FALSE => ours = Map!Pages(mapped, m_size))

\* gc_mmap returns, whichever attempt it was.
LEMMA ReturnInv ==
  ASSUME MapInv, NEW r, NEW m, NEW u, Map!Return(r, m, u), u \subseteq ours \cup m,
         IF r = 0 THEN (ours \cup m) \ u = {}
         ELSE Map!Offset(r) = 0 /\ (moved' = FALSE => (ours \cup m) \ u = Map!Pages(r, m_size))
  PROVE  MapInv'
  <1>1. /\ mapped' = r /\ pc' = "done" /\ ours' = (ours \cup m) \ u /\ m_size' = m_size
        /\ stray' = (stray \/ ~(u \subseteq ours \cup m))
    BY DEF Map!Return
  <1>2. stray' = FALSE
    BY <1>1, Zenon DEF MapInv
  <1>3. QED
    BY <1>1, <1>2 DEF MapInv

\* m_gc_map.c: gc_mmap returns memory aligned to MapPage of which every page
\* and no other is mapped for the caller, whichever of its four attempts
\* succeeds and whatever the process maps meanwhile (unless the system puts an
\* addition elsewhere than asked), and unmaps nothing it has not mapped; for
\* every system page size, page size and address space.
THEOREM PoolsMapped ==
  ASSUME Map!MapAssumption
  PROVE  Map!Spec => []PoolMapped
  <1>1. Map!Init => MapInv
    BY DEF Map!Init, MapInv
  <1>2. MapInv /\ [Map!Next]_(Map!vars) => MapInv'
    <2> SUFFICES ASSUME MapInv, [Map!Next]_(Map!vars) PROVE MapInv'
      OBVIOUS
    <2>1. ASSUME NEW n \in Sizes, Map!gc_mmap(n) PROVE MapInv'
      <3>0. pc = "idle" /\ stray' = FALSE /\ moved' = FALSE /\ ours = {}
            /\ m_size' = Map!AlignedUp(n)
        BY <2>1 DEF Map!gc_mmap, MapInv
      <3>1. \E z \in Nat \ {0} : m_size' = z * MapPage
        BY <3>0, AlignedIs
      <3>2. CASE mapped' = 0 /\ pu8' = 0 /\ pc' = "done" /\ UNCHANGED ours
        BY <3>0, <3>2 DEF MapInv
      <3>3. ASSUME NEW a \in Map!Mapped(0, m_size'), pu8' = a, ours' = Map!Pages(a, m_size'),
                   IF Map!Offset(a) = 0 THEN mapped' = a /\ pc' = "done"
                   ELSE mapped' = 0 /\ pc' = "after"
            PROVE  MapInv'
        <4>1. \E q \in Space : a = q * OSPage
          BY MappedIs
        <4>2. a # 0
          <5>1. PICK q \in Space : a = q * OSPage
            BY <4>1
          <5>2. q * OSPage >= MapPage /\ MapPage \in Nat \ {0} /\ q \in Nat /\ OSPage \in Nat
            BY DEF Map!MapAssumption
          <5>3. QED
            BY <5>1, <5>2
        <4>3. CASE Map!Offset(a) = 0
          BY <3>0, <3>3, <4>2, <4>3 DEF MapInv
        <4>4. CASE Map!Offset(a) # 0
          <5>1. Held(pu8', m_size')
            BY <3>1, <3>3, <4>1 DEF Held
          <5>2. QED
            BY <3>0, <3>3, <4>4, <5>1 DEF MapInv, Held
        <4>5. QED
          BY <4>3, <4>4
      <3>4. QED
        BY <2>1, <3>2, <3>3 DEF Map!gc_mmap
    <2>2. ASSUME Map!map_after PROVE MapInv'
      <3> DEFINE diff == MapPage - Map!Offset(pu8)
                 hint == pu8 + m_size
      <3>1. pc = "after" /\ moved = FALSE /\ Held(pu8, m_size) /\ Map!Offset(pu8) # 0
            /\ ours = Map!Pages(pu8, m_size) /\ pu8' = pu8
        BY <2>2 DEF Map!map_after, MapInv
      <3>2. CASE pc' = "before" /\ UNCHANGED <<m_size, ours, others, mapped, moved, stray>>
        BY <3>1, <3>2 DEF MapInv, Held
      <3>3. ASSUME NEW a \in Map!Mapped(hint, diff),
                   Map!Return(pu8 + diff, Map!Pages(a, diff), Map!Pages(pu8, diff)),
                   moved' = (a # hint)
            PROVE  MapInv'
        <4>1. /\ Map!Offset(pu8 + diff) = 0 /\ pu8 + diff # 0
              /\ Map!Pages(pu8, diff) \subseteq Map!Pages(pu8, m_size)
              /\ (Map!Pages(pu8, m_size) \cup Map!Pages(hint, diff)) \ Map!Pages(pu8, diff)
                   = Map!Pages(pu8 + diff, m_size)
          BY <3>1, AfterMapped
        <4> HIDE DEF diff, hint
        <4>2. Map!Pages(pu8, diff) \subseteq ours \cup Map!Pages(a, diff)
          BY <3>1, <4>1
        <4>3. moved' = FALSE => a = hint
          BY <3>3, Zenon
        <4>4. moved' = FALSE => (ours \cup Map!Pages(a, diff)) \ Map!Pages(pu8, diff) = Map!Pages(pu8 + diff, m_size)
          BY <3>1, <4>1, <4>3
        <4>5. QED
          BY <3>3, <4>1, <4>2, <4>4, ReturnInv
      <3>4. QED
        BY <2>2, <3>2, <3>3 DEF Map!map_after
    <2>3. ASSUME Map!map_before PROVE MapInv'
      <3> DEFINE diff == Map!Offset(pu8)
                 hint == pu8 - diff
      <3>1. pc = "before" /\ moved = FALSE /\ Held(pu8, m_size) /\ Map!Offset(pu8) # 0
            /\ ours = Map!Pages(pu8, m_size) /\ pu8' = pu8
        BY <2>3 DEF Map!map_before, MapInv
      <3>2. CASE /\ pc' = "big" /\ ours' = ours \ Map!Pages(pu8, m_size)
                 /\ UNCHANGED <<m_size, others, mapped, moved, stray>>
        BY <3>1, <3>2 DEF MapInv, Held
      <3>3. ASSUME NEW a \in Map!Mapped(hint, diff),
                   Map!Return(hint, Map!Pages(a, diff), Map!Pages(pu8 + m_size - diff, diff)),
                   moved' = (a # hint)
            PROVE  MapInv'
        <4>1. /\ Map!Offset(hint) = 0 /\ hint # 0
              /\ Map!Pages(pu8 + m_size - diff, diff) \subseteq Map!Pages(pu8, m_size)
              /\ (Map!Pages(pu8, m_size) \cup Map!Pages(hint, diff)) \ Map!Pages(pu8 + m_size - diff, diff)
                   = Map!Pages(hint, m_size)
          BY <3>1, BeforeMapped
        <4> HIDE DEF diff, hint
        <4>2. Map!Pages(pu8 + m_size - diff, diff) \subseteq ours \cup Map!Pages(a, diff)
          BY <3>1, <4>1
        <4>3. moved' = FALSE => a = hint
          BY <3>3, Zenon
        <4>4. moved' = FALSE => (ours \cup Map!Pages(a, diff)) \ Map!Pages(pu8 + m_size - diff, diff) = Map!Pages(hint, m_size)
          BY <3>1, <4>1, <4>3
        <4>5. QED
          BY <3>3, <4>1, <4>2, <4>4, ReturnInv
      <3>4. QED
        BY <2>3, <3>2, <3>3 DEF Map!map_before
    <2>4. ASSUME Map!map_big PROVE MapInv'
      <3> DEFINE n == m_size + MapPage - 1
      <3>1. pc = "big" /\ ours = {} /\ \E z \in Nat \ {0} : m_size = z * MapPage
        BY <2>4 DEF Map!map_big, MapInv
      <3>2. CASE Map!Return(0, {}, {})
        BY <3>1, <3>2, ReturnInv
      <3>3. ASSUME NEW a \in Map!Mapped(0, n),
                   LET head == IF Map!Offset(a) = 0 THEN 0 ELSE MapPage - Map!Offset(a)
                   IN  Map!Return(a + head, Map!Pages(a, n),
                         Map!Pages(a, head) \cup Map!Pages(a + head + m_size, Map!Tail(head)))
            PROVE  MapInv'
        <4> DEFINE head == IF Map!Offset(a) = 0 THEN 0 ELSE MapPage - Map!Offset(a)
                   cut == Map!Pages(a, head) \cup Map!Pages(a + head + m_size, Map!Tail(head))
        <4>1. Held(a, m_size)
          BY <3>1, MappedIs DEF Held
        <4>2. /\ Map!Offset(a + head) = 0 /\ a + head # 0
              /\ cut \subseteq Map!Pages(a, n)
              /\ Map!Pages(a, n) \ cut = Map!Pages(a + head, m_size)
          BY <4>1, BigMapped
        <4>3. Map!Return(a + head, Map!Pages(a, n), cut)
          BY <3>3
        <4> HIDE DEF n, head, cut
        <4>4. cut \subseteq ours \cup Map!Pages(a, n) /\ (ours \cup Map!Pages(a, n)) \ cut = Map!Pages(a + head, m_size)
          BY <3>1, <4>2
        <4>5. QED
          BY <4>2, <4>3, <4>4, ReturnInv
      <3>4. QED
        BY <2>4, <3>2, <3>3 DEF Map!map_big
    <2>5. ASSUME Map!gc_munmap PROVE MapInv'
      BY <2>5 DEF Map!gc_munmap, MapInv
    <2>6. ASSUME Map!Others PROVE MapInv'
      BY <2>6 DEF Map!Others, MapInv, Held
    <2>7. CASE UNCHANGED Map!vars
      BY <2>7 DEF Map!vars, MapInv, Held
    <2>8. QED
      BY <2>1, <2>2, <2>3, <2>4, <2>5, <2>6, <2>7 DEF Map!Next
  <1>3. MapInv /\ (moved \in BOOLEAN) => PoolMapped
    BY DEF MapInv, PoolMapped, Map!PoolMapped
  <1>4. Map!Init => moved \in BOOLEAN
    BY DEF Map!Init
  <1>5. moved \in BOOLEAN /\ [Map!Next]_(Map!vars) => (moved \in BOOLEAN)'
    BY DEF Map!Next, Map!gc_mmap, Map!map_after, Map!map_before, Map!map_big, Map!gc_munmap, Map!Others, Map!vars
  <1>6. QED
    BY <1>1, <1>2, <1>3, <1>4, <1>5, PTL DEF Map!Spec
-----------------------------------------------------------------------------
\* A remainder of a remainder, when the smaller divisor divides the larger.
LEMMA ModMod ==
  ASSUME NEW x \in Int, NEW d \in Nat \ {0}, NEW m \in Nat \ {0}
  PROVE  (x % (m * d)) % d = x % d
  <1> DEFINE e == m * d
             y == x % e
             q == x \div e
             r == y % d
             p == y \div d
  <1>1. e \in Nat \ {0}
    OBVIOUS
  <1> HIDE DEF e
  <1>2. q \in Int /\ y \in Int /\ x = q * e + y
    BY <1>1, DivMod
  <1> HIDE DEF q, y
  <1>3. p \in Int /\ r \in 0 .. d - 1 /\ y = p * d + r
    BY <1>2, DivMod
  <1> HIDE DEF p, r
  <1>4. x = (q * m + p) * d + r /\ q * m + p \in Int
    BY <1>2, <1>3 DEF e
  <1>5. x % d = r
    BY <1>3, <1>4, DivModUnique
  <1>6. QED
    BY <1>5 DEF r, y, e

\* m_int_cmp_func: the low bits of the difference, with a sign.
LEMMA IntCmpIs ==
  ASSUME Compare!CmpAssumption, NEW k1 \in Int, NEW k2 \in Int
  PROVE  LET r == Compare!m_int_cmp_func(k1, k2)
         IN  /\ r \in Int
             /\ Compare!Near(k1, k2) => r = k1 - k2
             /\ r = 0 <=> (k1 - k2) % 2^CmpIntBits = 0
  <1> DEFINE x == k1 - k2
             S == 2^SizeBits
             I == 2^CmpIntBits
             H == 2^(CmpIntBits - 1)
             low == x % I
             r == IF low >= H THEN low - I ELSE low
  <1>1. SizeBits \in Nat \ {0} /\ CmpIntBits \in 1 .. SizeBits /\ Powers(2, SizeBits) /\ x \in Int
    BY DEF Compare!CmpAssumption, Powers
  <1>2. H \in Nat \ {0} /\ I = 2 * H
    BY <1>1 DEF Powers
  <1>3. PICK m \in Nat \ {0} : S = m * I
    <2>1. CmpIntBits \in 0 .. SizeBits /\ SizeBits \in CmpIntBits .. SizeBits
      BY <1>1
    <2>2. QED
      BY <1>1, <2>1, PowerDivides
  <1>4. Compare!m_int_cmp_func(k1, k2) = LET l == (x % S) % I IN IF l >= H THEN l - I ELSE l
    BY DEF Compare!m_int_cmp_func, Compare!ToInt
  <1>5. Compare!Near(k1, k2) <=> -H <= x /\ x < H
    BY DEF Compare!Near
  <1> HIDE DEF x, S, I, H
  <1>6. (x % S) % I = low
    <2>1. I \in Nat \ {0}
      BY <1>2
    <2>2. QED
      BY <1>1, <1>3, <2>1, ModMod
  <1>7. low \in 0 .. I - 1 /\ low \in Int
    <2>1. I \in Nat \ {0}
      BY <1>2
    <2>2. low \in 0 .. I - 1
      BY <1>1, <2>1, DivMod
    <2> HIDE DEF low
    <2>3. QED
      BY <2>1, <2>2
  <1>8. ASSUME -H <= x, x < H PROVE r = x
    <2>1. CASE x >= 0
      <3>1. x = 0 * I + x /\ x \in 0 .. I - 1 /\ I \in Nat \ {0}
        BY <1>1, <1>2, <1>8, <2>1
      <3>2. low = x
        BY <1>1, <3>1, DivModUnique
      <3> HIDE DEF low
      <3>3. QED
        BY <1>1, <1>2, <1>8, <3>2
    <2>2. CASE x < 0
      <3> DEFINE y == x + I
      <3>1. x = (-1) * I + y /\ y \in 0 .. I - 1 /\ I \in Nat \ {0} /\ -1 \in Int
        BY <1>1, <1>2, <1>8, <2>2
      <3> HIDE DEF y
      <3>2. low = y
        BY <1>1, <3>1, DivModUnique
      <3> HIDE DEF low
      <3>3. QED
        BY <1>1, <1>2, <1>8, <3>2 DEF y
    <2>3. QED
      BY <1>1, <2>1, <2>2
  <1>9. r \in Int /\ (r = 0 <=> low = 0)
    <2> HIDE DEF low
    <2>1. QED
      BY <1>2, <1>7
  <1>10. Compare!m_int_cmp_func(k1, k2) = r
    BY <1>4, <1>6
  <1> HIDE DEF r
  <1>11. QED
    BY <1>5, <1>8, <1>9, <1>10 DEF low, x, I

\* The strings in the order the comparison puts them in, NULL first.
Rank(f, k) == IF k = 0 THEN -1 ELSE IF f = "fold" THEN Text[k] \div 2 ELSE Text[k]

\* m_cstr_cmp_func and m_cstr_casecmp_func compare the ranks of the strings.
LEMMA StrCmpIs ==
  ASSUME Compare!CmpAssumption, NEW f \in {"text", "fold"}, NEW k1 \in 0 .. Len(Text), NEW k2 \in 0 .. Len(Text)
  PROVE  /\ Compare!Cmp(f, k1, k2) = Compare!Sign(Rank(f, k1) - Rank(f, k2))
         /\ Rank(f, k1) \in Int /\ (k1 # 0 => Rank(f, k1) >= 0)
  <1>1. \A k \in 1 .. Len(Text) : Text[k] \in Nat /\ Text[k] \div 2 \in Nat
    BY DEF Compare!CmpAssumption
  <1>2. \A k \in 0 .. Len(Text) : Rank(f, k) \in Int /\ (k # 0 => Rank(f, k) >= 0) /\ (k = 0 => Rank(f, k) = -1)
    BY <1>1 DEF Rank
  <1>3. k1 # 0 /\ k2 # 0 => Compare!StrCmp(f = "fold", k1, k2) = Compare!Sign(Rank(f, k1) - Rank(f, k2))
    BY DEF Compare!StrCmp, Compare!Fold, Rank
  <1>4. Compare!Cmp(f, k1, k2) = IF k1 = k2 THEN 0 ELSE IF k1 = 0 THEN -1 ELSE IF k2 = 0 THEN 1
                                 ELSE Compare!StrCmp(f = "fold", k1, k2)
    BY DEF Compare!Cmp, Compare!m_cstr_cmp_func
  <1>5. CASE k1 = k2
    <2>1. Compare!Cmp(f, k1, k2) = 0
      BY <1>4, <1>5
    <2>2. Compare!Sign(Rank(f, k1) - Rank(f, k2)) = 0
      BY <1>2, <1>5 DEF Compare!Sign
    <2>3. QED
      BY <1>2, <2>1, <2>2
  <1>6. CASE k1 # k2 /\ k1 = 0
    <2>1. Compare!Cmp(f, k1, k2) = -1
      BY <1>4, <1>6
    <2>2. Compare!Sign(Rank(f, k1) - Rank(f, k2)) = -1
      BY <1>2, <1>6 DEF Compare!Sign
    <2>3. QED
      BY <1>2, <2>1, <2>2
  <1>7. CASE k1 # 0 /\ k2 = 0
    <2>1. Compare!Cmp(f, k1, k2) = 1
      BY <1>4, <1>7
    <2>2. Compare!Sign(Rank(f, k1) - Rank(f, k2)) = 1
      BY <1>2, <1>7 DEF Compare!Sign
    <2>3. QED
      BY <1>2, <2>1, <2>2
  <1>8. CASE k1 # k2 /\ k1 # 0 /\ k2 # 0
    BY <1>2, <1>3, <1>4, <1>8
  <1>9. QED
    BY <1>5, <1>6, <1>7, <1>8

\* The keys that the last comparison was given.
CmpInv ==
  /\ func \in {"none", "size", "text", "fold"}
  /\ func # "none" => /\ key1 \in Compare!Key(func) /\ key2 \in Compare!Key(func)
                      /\ order = Compare!Cmp(func, key1, key2)

\* m_cmp.h: what trees and hash tables rely on, for every width and every set of
\* strings: m_cstr_cmp_func and m_cstr_casecmp_func are weak orders with NULL
\* first, m_int_cmp_func and m_ptr_cmp_func order keys that lie within half of
\* the range of int of each other.
THEOREM ComparisonOrders ==
  ASSUME Compare!CmpAssumption
  PROVE  Compare!Spec => []CmpIsOrder
  <1>1. Compare!Init => CmpInv
    BY DEF Compare!Init, CmpInv
  <1>2. CmpInv /\ [Compare!Next]_(Compare!vars) => CmpInv'
    <2> SUFFICES ASSUME CmpInv, [Compare!Next]_(Compare!vars) PROVE CmpInv'
      OBVIOUS
    <2>1. ASSUME NEW f \in {"size", "text", "fold"}, NEW k1 \in Compare!Key(f), NEW k2 \in Compare!Key(f),
                 Compare!compare(f, k1, k2)
          PROVE  CmpInv'
      <3>1. func' = f /\ key1' = k1 /\ key2' = k2 /\ order' = Compare!Cmp(f, k1, k2)
        BY <2>1 DEF Compare!compare
      <3>2. QED
        BY <3>1 DEF CmpInv
    <2>2. CASE Compare!return
      BY <2>2 DEF Compare!return, CmpInv
    <2>3. CASE UNCHANGED Compare!vars
      BY <2>3 DEF Compare!vars, CmpInv
    <2>4. QED
      BY <2>1, <2>2, <2>3 DEF Compare!Next
  <1>3. CmpInv => CmpIsOrder
    <2> SUFFICES ASSUME CmpInv PROVE Compare!CmpIsOrder
      BY DEF CmpIsOrder
    <2>1. ASSUME func = "size"
          PROVE  /\ Compare!Near(key1, key2) => Compare!Sign(order) = Compare!Sign(key1 - key2)
                 /\ order = 0 <=> (key1 - key2) % 2^CmpIntBits = 0
      <3>1. key1 \in Int /\ key2 \in Int /\ order = Compare!m_int_cmp_func(key1, key2)
        BY <2>1 DEF CmpInv, Compare!Key, Compare!Cmp
      <3>2. QED
        BY <3>1, IntCmpIs
    <2>2. ASSUME func \in {"text", "fold"}
          PROVE  /\ Compare!Sign(order) = - Compare!Sign(Compare!Cmp(func, key2, key1))
                 /\ (order = 0 /\ key1 # key2) => key1 # 0 /\ key2 # 0
                 /\ \A k \in Compare!Key(func) :
                      (order <= 0 /\ Compare!Cmp(func, key2, k) <= 0) => Compare!Cmp(func, key1, k) <= 0
      <3>1. Compare!Key(func) = 0 .. Len(Text) /\ func \in {"text", "fold"}
        BY <2>2 DEF Compare!Key
      <3>2. key1 \in 0 .. Len(Text) /\ key2 \in 0 .. Len(Text) /\ order = Compare!Cmp(func, key1, key2)
        BY <2>2, <3>1 DEF CmpInv
      <3> DEFINE a == Rank(func, key1)
                 b == Rank(func, key2)
      <3>3. /\ a \in Int /\ b \in Int /\ (key1 # 0 => a >= 0) /\ (key2 # 0 => b >= 0)
            /\ (key1 = 0 => a = -1) /\ (key2 = 0 => b = -1)
            /\ order = Compare!Sign(a - b) /\ Compare!Cmp(func, key2, key1) = Compare!Sign(b - a)
        <4>1. (key1 = 0 => a = -1) /\ (key2 = 0 => b = -1)
          BY DEF Rank
        <4>2. QED
          BY <3>1, <3>2, <4>1, StrCmpIs
      <3> HIDE DEF a, b
      <3>4. Compare!Sign(order) = - Compare!Sign(Compare!Cmp(func, key2, key1))
        BY <3>3 DEF Compare!Sign
      <3>5. (order = 0 /\ key1 # key2) => key1 # 0 /\ key2 # 0
        BY <3>2, <3>3 DEF Compare!Sign
      <3>6. ASSUME NEW k \in 0 .. Len(Text), order <= 0, Compare!Cmp(func, key2, k) <= 0
            PROVE  Compare!Cmp(func, key1, k) <= 0
        <4> DEFINE c == Rank(func, k)
        <4>1. c \in Int /\ Compare!Cmp(func, key2, k) = Compare!Sign(b - c) /\ Compare!Cmp(func, key1, k) = Compare!Sign(a - c)
          BY <3>1, <3>2, StrCmpIs DEF a, b
        <4> HIDE DEF c
        <4>2. QED
          BY <3>3, <3>6, <4>1 DEF Compare!Sign
      <3>7. QED
        BY <3>1, <3>4, <3>5, <3>6
    <2>3. QED
      BY <2>1, <2>2 DEF Compare!CmpIsOrder
  <1>4. QED
    BY <1>1, <1>2, <1>3, PTL DEF Compare!Spec
-----------------------------------------------------------------------------
\* Adding multiples of the divisor does not change a remainder.
LEMMA ModPlus ==
  ASSUME NEW a \in Int, NEW d \in Nat \ {0}, NEW n \in Int
  PROVE  (a + n * d) % d = a % d
  <1> DEFINE q == a \div d
             r == a % d
             b == a + n * d
  <1>1. q \in Int /\ r \in 0 .. d - 1 /\ a = q * d + r
    BY DivMod
  <1> HIDE DEF q, r
  <1>2. b = (q + n) * d + r /\ q + n \in Int /\ b \in Int
    BY <1>1
  <1> HIDE DEF b
  <1>3. b % d = r
    BY <1>1, <1>2, DivModUnique
  <1>4. QED
    BY <1>3 DEF b, r

\* A word differs from the number it holds by a multiple of 2^WordBits.
LEMMA WordIs ==
  ASSUME Value!ValueAssumption, NEW x \in Int
  PROVE  Value!Word(x) \in Int /\ \E n \in Int : Value!Word(x) = x + n * 2^WordBits
  <1> DEFINE W == 2^WordBits
             q == x \div W
             r == x % W
  <1>1. W \in Nat \ {0}
    <2>1. WordBits \in Nat \ {0} /\ Powers(2, WordBits) /\ WordBits \in 0 .. WordBits
      BY DEF Value!ValueAssumption, Powers
    <2>2. QED
      BY <2>1, PowerNat
  <1>2. Value!Word(x) = r
    BY DEF Value!Word
  <1> HIDE DEF W
  <1>3. q \in Int /\ r \in 0 .. W - 1 /\ x = q * W + r
    BY <1>1, DivMod
  <1> HIDE DEF q, r
  <1>4. r = x + (-q) * W /\ -q \in Int /\ r \in Int
    BY <1>1, <1>3
  <1>5. QED
    BY <1>2, <1>4 DEF W

\* An encoded integer is 8i + 3, up to a multiple of 2^WordBits.
LEMMA IntWordIs ==
  ASSUME Value!ValueAssumption, NEW i \in Int
  PROVE  Value!IntWord(i) \in Int /\ \E n \in Int : Value!IntWord(i) = 8 * i + 3 + n * 2^WordBits
  <1> DEFINE W == 2^WordBits
             w == Value!Word(i)
             x == Value!Word(w * 8)
  <1>1. W \in Nat \ {0}
    <2>1. WordBits \in Nat \ {0} /\ Powers(2, WordBits) /\ WordBits \in 0 .. WordBits
      BY DEF Value!ValueAssumption, Powers
    <2>2. QED
      BY <2>1, PowerNat
  <1>2. PICK a \in Int : w \in Int /\ w = i + a * W
    BY WordIs
  <1>3. w * 8 \in Int
    BY <1>2
  <1>4. PICK b \in Int : x \in Int /\ x = w * 8 + b * W
    BY <1>3, WordIs
  <1>5. Value!IntWord(i) = x + 3
    BY DEF Value!IntWord
  <1> HIDE DEF W, w, x
  <1>6. x + 3 = 8 * i + 3 + (8 * a + b) * W
    BY <1>1, <1>2, <1>4
  <1>7. 8 * a + b \in Int /\ x + 3 \in Int
    BY <1>2, <1>4
  <1>8. QED
    BY <1>5, <1>6, <1>7 DEF W

\* The widths: an int is 16 times the integers that are kept on either side of
\* 0, and a word is a multiple of an int and of the 8 types.
LEMMA Widths ==
  ASSUME Value!ValueAssumption
  PROVE  /\ 2^(IntBits - 4) \in Nat \ {0}
         /\ 2^(IntBits - 1) = 8 * 2^(IntBits - 4)
         /\ 2^IntBits = 16 * 2^(IntBits - 4)
         /\ \E m \in Nat : 2^WordBits = m * 2^IntBits
  <1> DEFINE K == 2^(IntBits - 4)
             K1 == 2^(IntBits - 3)
             K2 == 2^(IntBits - 2)
             H == 2^(IntBits - 1)
  <1>1. WordBits \in Nat \ {0} /\ Powers(2, WordBits) /\ IntBits \in 5 .. WordBits
    BY DEF Value!ValueAssumption, Powers
  <1>2. K \in Nat \ {0} /\ K1 = 2 * K
    <2>1. IntBits - 3 \in 1 .. WordBits /\ (IntBits - 3) - 1 = IntBits - 4
      BY <1>1
    <2>2. QED
      BY <1>1, <2>1 DEF Powers
  <1>3. K2 = 2 * K1
    <2>1. IntBits - 2 \in 1 .. WordBits /\ (IntBits - 2) - 1 = IntBits - 3
      BY <1>1
    <2>2. QED
      BY <1>1, <2>1 DEF Powers
  <1>4. H = 2 * K2
    <2>1. IntBits - 1 \in 1 .. WordBits /\ (IntBits - 1) - 1 = IntBits - 2
      BY <1>1
    <2>2. QED
      BY <1>1, <2>1 DEF Powers
  <1>5. 2^IntBits = 2 * H
    <2>1. IntBits \in 1 .. WordBits
      BY <1>1
    <2>2. QED
      BY <1>1, <2>1 DEF Powers
  <1>6. \E m \in Nat \ {0} : 2^WordBits = m * 2^IntBits
    <2>1. IntBits \in 0 .. WordBits /\ WordBits \in IntBits .. WordBits
      BY <1>1
    <2>2. QED
      BY <1>1, <2>1, PowerDivides
  <1> HIDE DEF K, K1, K2, H
  <1>7. H = 8 * K /\ 2 * H = 16 * K
    BY <1>2, <1>3, <1>4
  <1>8. QED
    BY <1>2, <1>5, <1>6, <1>7 DEF K, H

\* What m_value_get_int makes of a word.
GetInt(x) ==
  LET low    == x % 2^IntBits
      signed == IF low >= 2^(IntBits - 1) THEN low - 2^IntBits ELSE low
  IN  signed \div 8

\* An encoded integer has the type of an integer, and is got back exactly when
\* it fits in three bits less than an int.
LEMMA IntDecodes ==
  ASSUME Value!ValueAssumption, NEW i \in Int
  PROVE  /\ Value!IntWord(i) % 8 = 3
         /\ GetInt(Value!IntWord(i)) = i <=> Value!Kept(i)
  <1> DEFINE K == 2^(IntBits - 4)
             I == 2^IntBits
             H == 2^(IntBits - 1)
             W == 2^WordBits
             e == 8 * i + 3
             x == Value!IntWord(i)
             low == x % I
             signed == IF low >= H THEN low - I ELSE low
  <1>1. K \in Nat \ {0} /\ H = 8 * K /\ I = 16 * K /\ \E m \in Nat : W = m * I
    BY Widths
  <1>2. PICK m \in Nat : W = m * I
    BY <1>1
  <1>3. PICK n \in Int : x = e + n * W
    BY IntWordIs
  <1>4. GetInt(x) = signed \div 8
    BY DEF GetInt
  <1>5. Value!Kept(i) <=> -K <= i /\ i < K
    BY DEF Value!Kept
  <1> HIDE DEF K, I, H, W, x
  <1>6. x = e + (n * m) * I /\ n * m \in Int
    BY <1>1, <1>2, <1>3
  <1>7. x = e + ((n * m) * (2 * K)) * 8 /\ (n * m) * (2 * K) \in Int /\ e \in Int
    <2> DEFINE y == n * m
    <2>1. x = e + y * I /\ y \in Int
      BY <1>6
    <2> HIDE DEF y, e
    <2>2. y * I = (y * (2 * K)) * 8 /\ y * (2 * K) \in Int
      BY <1>1, <2>1
    <2>3. QED
      BY <2>1, <2>2 DEF y, e
  <1>8. I \in Nat \ {0} /\ 8 \in Nat \ {0}
    BY <1>1
  <1>9. x % 8 = 3
    <2>1. e = i * 8 + 3 /\ 3 \in 0 .. 8 - 1
      OBVIOUS
    <2>2. e % 8 = 3
      BY <1>7, <1>8, <2>1, DivModUnique
    <2>3. x % 8 = e % 8
      BY <1>7, <1>8, ModPlus
    <2>4. QED
      BY <2>2, <2>3
  <1>10. low = e % I
    <2> DEFINE j == n * m
    <2>1. x = e + j * I /\ j \in Int /\ e \in Int
      BY <1>6, <1>7
    <2> HIDE DEF j, e
    <2>2. (e + j * I) % I = e % I
      BY <1>8, <2>1, ModPlus
    <2>3. QED
      BY <2>1, <2>2
  <1>11. low \in 0 .. I - 1
    BY <1>7, <1>8, <1>10, DivMod
  <1> HIDE DEF low
  <1>12. signed \in Int /\ -H <= signed /\ signed < H
    BY <1>1, <1>11
  <1>13. ASSUME -K <= i, i < K PROVE signed = e
    <2>1. CASE e >= 0
      <3>1. e = 0 * I + e /\ e \in 0 .. I - 1
        BY <1>1, <1>13, <2>1
      <3>2. low = e
        <4> HIDE DEF e
        <4>1. 0 \in Int
          OBVIOUS
        <4>2. e % I = e
          BY <1>7, <1>8, <3>1, <4>1, DivModUnique
        <4>3. QED
          BY <1>10, <4>2
      <3>3. QED
        BY <1>1, <1>13, <3>2
    <2>2. CASE e < 0
      <3> DEFINE y == e + I
      <3>1. e = (-1) * I + y /\ y \in 0 .. I - 1 /\ -1 \in Int
        BY <1>1, <1>13, <2>2
      <3> HIDE DEF y
      <3>2. low = y
        BY <1>7, <1>8, <1>10, <3>1, DivModUnique
      <3>3. QED
        BY <1>1, <1>13, <2>2, <3>2 DEF y
    <2>3. QED
      BY <1>7, <2>1, <2>2
  <1> HIDE DEF signed
  <1>14. signed \div 8 = i <=> 8 * i <= signed /\ signed <= 8 * i + 7
    BY <1>12
  <1>15. signed \div 8 = i <=> -K <= i /\ i < K
    BY <1>1, <1>12, <1>13, <1>14
  <1>16. QED
    BY <1>4, <1>5, <1>9, <1>15 DEF x

\* The arguments of the encoding functions are numbers.
LEMMA Int32Is ==
  ASSUME Value!ValueAssumption, NEW i \in Value!Int32
  PROVE  i \in Int
  <1>1. 2^(IntBits - 4) \in Nat \ {0} /\ 2^(IntBits - 1) = 8 * 2^(IntBits - 4)
    BY Widths
  <1> DEFINE H == 2^(IntBits - 1)
  <1>2. H \in Int
    BY <1>1
  <1>3. i \in -H .. H - 1
    BY DEF Value!Int32
  <1> HIDE DEF H
  <1>4. QED
    BY <1>2, <1>3

\* Addresses are numbers, and multiples of 8.
LEMMA AddressIs ==
  ASSUME Value!ValueAssumption, NEW a \in Cells \cup Things
  PROVE  a \in Nat /\ a % 8 = 0
  <1> DEFINE W == 2^WordBits
  <1>1. W \in Nat \ {0}
    <2>1. WordBits \in Nat \ {0} /\ Powers(2, WordBits) /\ WordBits \in 0 .. WordBits
      BY DEF Value!ValueAssumption, Powers
    <2>2. QED
      BY <2>1, PowerNat
  <1>2. a \in 0 .. W - 1 /\ a % 8 = 0
    BY DEF Value!ValueAssumption
  <1> HIDE DEF W
  <1>3. QED
    BY <1>1, <1>2

\* m_value_from_number encodes as an integer exactly the integers of int.
LEMMA IsIntIs ==
  ASSUME Value!ValueAssumption, NEW d \in Doubles
  PROVE  /\ d.twice \div 2 \in Int
         /\ Value!IsInt(d) <=> d.twice \in {2 * i : i \in Value!Int32}
  <1> DEFINE t == d.twice
  <1>1. t \in Int
    BY DEF Value!ValueAssumption
  <1>2. Value!IsInt(d) <=> t % 2 = 0 /\ t \div 2 \in Value!Int32
    BY DEF Value!IsInt
  <1>3. \A i \in Value!Int32 : i \in Int
    BY Int32Is
  <1> HIDE DEF t
  <1>4. t % 2 = 0 => t = 2 * (t \div 2)
    BY <1>1
  <1>5. \A i \in Int : t = 2 * i => t % 2 = 0 /\ t \div 2 = i
    BY <1>1
  <1>6. QED
    BY <1>1, <1>2, <1>3, <1>4, <1>5 DEF t

\* DecodesAsMade is inductive once the cells are known to have a content.
ValueInv == mem \in [Cells -> Int] /\ Value!DecodesAsMade

\* A value decodes as what it was made from, in the bits it has: every kind is
\* told from every other, booleans, strings and pointers are returned by their
\* getters, an integer exactly when it fits in three bits less than an int; but a
\* value made from a double has no tag and is no number; for all widths,
\* addresses and representations of numbers.
THEOREM ValuesDecode ==
  ASSUME Value!ValueAssumption
  PROVE  Value!Spec => []DecodesAsMade
  <1> USE DEF Value!Make
  <1>1. Value!Init => ValueInv
    BY DEF Value!Init, Value!Nothing, ValueInv, Value!DecodesAsMade
  <1>2. ASSUME ValueInv, Value!Next PROVE ValueInv'
    <2>1. \A b \in BOOLEAN : Value!m_value_from_bool(b) => ValueInv'
      <3> SUFFICES ASSUME NEW b \in BOOLEAN, Value!m_value_from_bool(b) PROVE ValueInv'
        OBVIOUS
      <3>1. made' = [from |-> "bool", arg |-> b] /\ mem' = mem /\ v' = IF b THEN 12 ELSE 4
        BY DEF Value!m_value_from_bool, Value!M_VALUE_TRUE, Value!M_VALUE_FALSE
      <3>2. v' \in {4, 12} /\ v' # 0 /\ v' % 8 = 4 /\ (v' = 12 <=> b)
        BY <3>1
      <3>3. Value!Kinds' = {"bool"}
        <4>1. Value!m_value_is_bool'
          BY <3>2 DEF Value!m_value_is_bool, Value!M_VALUE_TRUE, Value!M_VALUE_FALSE
        <4>2. v' # 0 /\ v' % 8 = 4
          BY <3>2
        <4>3. QED
          BY <4>1, <4>2 DEF Value!Kinds, Value!TypeOf, Value!m_value_is_int,
            Value!m_value_is_double, Value!m_value_is_string, Value!m_value_is_null, Value!m_value_is_ptr,
            Value!m_value_is_object, Value!m_value_is_closure, Value!m_value_is_array
      <3>4. Value!m_value_get_bool' = b
        BY <3>2 DEF Value!m_value_get_bool, Value!M_VALUE_TRUE
      <3>5. mem' \in [Cells -> Int]
        BY <1>2, <3>1 DEF ValueInv
      <3>6. QED
        BY <3>1, <3>3, <3>4, <3>5 DEF ValueInv, Value!DecodesAsMade
    <2>2. \A i \in Int : v' = Value!IntWord(i) => Value!DecodesInt(i)'
      <3> SUFFICES ASSUME NEW i \in Int, v' = Value!IntWord(i) PROVE Value!DecodesInt(i)'
        OBVIOUS
      <3>1. v' % 8 = 3 /\ (GetInt(v') = i <=> Value!Kept(i))
        BY IntDecodes
      <3>2. Value!Kinds' = {"int"}
        <4>1. v' # 0 /\ v' # 4 /\ v' # 12
          BY <3>1
        <4>2. QED
          BY <3>1, <4>1 DEF Value!Kinds, Value!TypeOf, Value!m_value_is_bool, Value!m_value_is_int,
            Value!m_value_is_double, Value!m_value_is_string, Value!m_value_is_null, Value!m_value_is_ptr,
            Value!m_value_is_object, Value!m_value_is_closure, Value!m_value_is_array,
            Value!M_VALUE_TRUE, Value!M_VALUE_FALSE
      <3>3. Value!m_value_get_int' = GetInt(v')
        BY DEF Value!m_value_get_int, GetInt
      <3>4. Value!m_value_get_number' = Value!Converted(GetInt(v'))
        BY <3>1, <3>3, Zenon DEF Value!m_value_get_number, Value!m_value_is_int, Value!TypeOf, Value!Converted
      <3>5. Value!m_value_get_number' = Value!Converted(i) <=> GetInt(v') = i
        BY <3>4 DEF Value!Converted
      <3>6. QED
        BY <3>1, <3>2, <3>3, <3>5, Zenon DEF Value!DecodesInt, Value!Kept, Value!Converted
    <2>3. \A i \in Value!Int32 : Value!m_value_from_int(i) => ValueInv'
      <3> SUFFICES ASSUME NEW i \in Value!Int32, Value!m_value_from_int(i) PROVE ValueInv'
        OBVIOUS
      <3>1. made' = [from |-> "int", arg |-> i] /\ mem' = mem /\ v' = Value!IntWord(i)
        BY DEF Value!m_value_from_int
      <3>2. i \in Int
        BY Int32Is
      <3>3. Value!DecodesInt(i)'
        BY <2>2, <3>1, <3>2
      <3>4. mem' \in [Cells -> Int]
        BY <1>2, <3>1 DEF ValueInv
      <3>5. QED
        BY <3>1, <3>3, <3>4 DEF ValueInv, Value!DecodesAsMade
    <2>4. \A a \in Cells : v' = a => v' # 0 /\ v' % 8 = 0 /\ ~Value!m_value_is_number'
      <3> SUFFICES ASSUME NEW a \in Cells, v' = a PROVE v' # 0 /\ v' % 8 = 0 /\ ~Value!m_value_is_number'
        OBVIOUS
      <3>1. v' # 0 /\ v' % 8 = 0
        BY DEF Value!ValueAssumption
      <3>2. QED
        BY <3>1 DEF Value!m_value_is_number, Value!m_value_is_int, Value!m_value_is_double, Value!TypeOf
    <2>5. \A d \in Doubles, from \in {"number", "double"} :
            /\ Value!m_value_from_double(d, from)
            /\ from = "number" => ~Value!IsInt(d)
            => ValueInv'
      <3> SUFFICES ASSUME NEW d \in Doubles, NEW from \in {"number", "double"}, Value!m_value_from_double(d, from),
                          from = "number" => ~Value!IsInt(d)
                   PROVE  ValueInv'
        OBVIOUS
      <3>1. PICK a \in Cells : mem' = [mem EXCEPT ![a] = d.bits] /\ made' = [from |-> from, arg |-> d] /\ v' = a
        BY DEF Value!m_value_from_double
      <3>2. d.bits \in Int
        BY DEF Value!ValueAssumption
      <3>3. mem' \in [Cells -> Int]
        BY <1>2, <3>1, <3>2 DEF ValueInv
      <3>4. ~Value!m_value_is_number'
        BY <2>4, <3>1
      <3>5. from = "number" => d.twice \notin {2 * i : i \in Value!Int32}
        BY IsIntIs
      <3>6. Value!Int32' = Value!Int32
        BY DEF Value!Int32
      <3>7. Value!m_value_get_number' = Value!Stored(d.bits)
        <4>1. ~Value!m_value_is_int'
          BY <3>4 DEF Value!m_value_is_number
        <4>2. Value!Untagged(a) = a
          BY AddressIs DEF Value!Untagged
        <4>3. mem'[a] = d.bits
          BY <1>2, <3>1 DEF ValueInv
        <4>4. QED
          BY <3>1, <4>1, <4>2, <4>3, Zenon DEF Value!m_value_get_number, Value!m_value_get_double,
            Value!Stored, Value!Untagged
      <3>8. made'.from = from /\ made'.arg = d /\ from \notin {"bool", "int", "string", "object", "closure", "array"}
        BY <3>1
      <3>9. QED
        BY <3>3, <3>4, <3>5, <3>6, <3>7, <3>8, Zenon DEF ValueInv, Value!DecodesAsMade, Value!Stored
    <2>6. \A d \in Doubles : Value!m_value_from_number(d) => ValueInv'
      <3> SUFFICES ASSUME NEW d \in Doubles, Value!m_value_from_number(d) PROVE ValueInv'
        OBVIOUS
      <3>1. CASE ~Value!IsInt(d)
        BY <2>5, <3>1 DEF Value!m_value_from_number
      <3>2. CASE Value!IsInt(d)
        <4>1. made' = [from |-> "number", arg |-> d] /\ mem' = mem /\ v' = Value!IntWord(d.twice \div 2)
          BY <3>2 DEF Value!m_value_from_number
        <4>2. d.twice \div 2 \in Int /\ d.twice \in {2 * i : i \in Value!Int32}
          BY <3>2, IsIntIs
        <4>3. Value!DecodesInt(d.twice \div 2)'
          BY <2>2, <4>1, <4>2
        <4>4. mem' \in [Cells -> Int]
          BY <1>2, <4>1 DEF ValueInv
        <4>5. Value!Int32' = Value!Int32
          BY DEF Value!Int32
        <4>6. QED
          BY <4>1, <4>2, <4>3, <4>4, <4>5 DEF ValueInv, Value!DecodesAsMade
      <3>3. QED
        BY <3>1, <3>2
    <2>7. \A s \in Things : Value!m_value_from_string(s) => ValueInv'
      <3> SUFFICES ASSUME NEW s \in Things, Value!m_value_from_string(s) PROVE ValueInv'
        OBVIOUS
      <3>1. made' = [from |-> "string", arg |-> s] /\ mem' = mem /\ v' = s + 2
        BY DEF Value!m_value_from_string
      <3>2. s \in Int /\ s % 8 = 0
        BY AddressIs
      <3>3. v' % 8 = 2 /\ v' # 0 /\ v' # 4 /\ v' # 12 /\ v' - (v' % 8) = s
        BY <3>1, <3>2
      <3>4. Value!Kinds' = {"string"}
        BY <3>3 DEF Value!Kinds, Value!TypeOf, Value!m_value_is_bool, Value!m_value_is_int,
          Value!m_value_is_double, Value!m_value_is_string, Value!m_value_is_null, Value!m_value_is_ptr,
          Value!m_value_is_object, Value!m_value_is_closure, Value!m_value_is_array,
          Value!M_VALUE_TRUE, Value!M_VALUE_FALSE
      <3>5. Value!m_value_get_string' = s
        BY <3>3 DEF Value!m_value_get_string, Value!Untagged
      <3>6. mem' \in [Cells -> Int]
        BY <1>2, <3>1 DEF ValueInv
      <3>7. QED
        BY <3>1, <3>4, <3>5, <3>6 DEF ValueInv, Value!DecodesAsMade
    <2>8. \A from \in {"object", "closure", "array"}, p \in Things : Value!m_value_from_object(from, p) => ValueInv'
      <3> SUFFICES ASSUME NEW from \in {"object", "closure", "array"}, NEW p \in Things,
                          Value!m_value_from_object(from, p)
                   PROVE  ValueInv'
        OBVIOUS
      <3> DEFINE tag == Value!PtrTag(from)
                 c == p + tag
      <3>1. PICK a \in Cells : mem' = [mem EXCEPT ![a] = c] /\ made' = [from |-> from, arg |-> p] /\ v' = a
        BY DEF Value!m_value_from_object
      <3>2. /\ tag \in 0 .. 2 /\ (tag = 0 <=> from = "object")
            /\ (tag = 1 <=> from = "closure") /\ (tag = 2 <=> from = "array")
        BY DEF Value!PtrTag
      <3>3. p \in Nat /\ p % 8 = 0
        BY AddressIs
      <3> HIDE DEF tag
      <3>4. c \in Nat /\ c % 4 = tag /\ c - (c % 4) = p /\ (c = 0 <=> p = 0 /\ tag = 0)
        BY <3>2, <3>3
      <3> HIDE DEF c
      <3>5. mem' \in [Cells -> Int] /\ mem'[v'] = c
        BY <1>2, <3>1, <3>4 DEF ValueInv
      <3>6. v' # 0 /\ v' % 8 = 0
        BY <2>4, <3>1
      <3>7. v' # 4 /\ v' # 12
        BY <3>6
      <3>8. Value!Kinds' = IF c = 0 THEN {"null"} ELSE {from}
        BY <3>2, <3>4, <3>5, <3>6, <3>7 DEF Value!Kinds, Value!TypeOf, Value!PtrTypeOf, Value!m_value_is_bool,
          Value!m_value_is_int, Value!m_value_is_double, Value!m_value_is_string, Value!m_value_is_null,
          Value!m_value_is_ptr, Value!m_value_is_object, Value!m_value_is_closure, Value!m_value_is_array,
          Value!M_VALUE_TRUE, Value!M_VALUE_FALSE
      <3>9. Value!m_value_get_ptr' = p
        BY <3>4, <3>5 DEF Value!m_value_get_ptr
      <3>10. made.from' = from /\ made.arg' = p
        BY <3>1
      <3>11. c = 0 <=> from = "object" /\ p = 0
        BY <3>2, <3>4
      <3>12. QED
        BY <3>5, <3>8, <3>9, <3>10, <3>11 DEF ValueInv, Value!DecodesAsMade
    <2>9. Value!drop => ValueInv'
      <3> SUFFICES ASSUME Value!drop PROVE ValueInv'
        OBVIOUS
      <3>1. made' = [from |-> "none", arg |-> 0] /\ mem' = [a \in Cells |-> 0]
        BY DEF Value!drop, Value!Nothing
      <3>2. QED
        BY <3>1 DEF ValueInv, Value!DecodesAsMade
    <2>10. QED
      BY <1>2, <2>1, <2>3, <2>5, <2>6, <2>7, <2>8, <2>9 DEF Value!Next
  <1>3. ASSUME ValueInv, UNCHANGED Value!vars PROVE ValueInv'
    <2>1. v' = v /\ mem' = mem /\ made' = made
      BY <1>3 DEF Value!vars
    <2>2. /\ Value!Kinds' = Value!Kinds /\ Value!m_value_is_number' = Value!m_value_is_number
          /\ Value!m_value_get_bool' = Value!m_value_get_bool /\ Value!m_value_get_int' = Value!m_value_get_int
          /\ Value!m_value_get_number' = Value!m_value_get_number
          /\ Value!m_value_get_string' = Value!m_value_get_string /\ Value!m_value_get_ptr' = Value!m_value_get_ptr
      BY <2>1, Zenon DEF Value!Kinds, Value!TypeOf, Value!PtrTypeOf, Value!Untagged, Value!m_value_is_bool,
        Value!m_value_is_int, Value!m_value_is_double, Value!m_value_is_number, Value!m_value_is_string,
        Value!m_value_is_null, Value!m_value_is_ptr, Value!m_value_is_object, Value!m_value_is_closure,
        Value!m_value_is_array, Value!m_value_get_bool, Value!m_value_get_int, Value!m_value_get_string,
        Value!m_value_get_ptr, Value!m_value_get_number, Value!m_value_get_double, Value!Converted, Value!Stored
    <2>3. \A i : Value!DecodesInt(i)' <=> Value!DecodesInt(i)
      BY <2>2, Zenon DEF Value!DecodesInt, Value!Kept, Value!Converted
    <2>4. Value!DecodesAsMade' <=> Value!DecodesAsMade
      BY <2>1, <2>2, <2>3, Zenon DEF Value!DecodesAsMade, Value!Int32, Value!Stored
    <2>5. QED
      BY <1>3, <2>1, <2>4, Zenon DEF ValueInv
  <1>4. ValueInv => DecodesAsMade
    BY DEF ValueInv, DecodesAsMade
  <1>5. QED
    BY <1>1, <1>2, <1>3, <1>4, PTL DEF Value!Spec
-----------------------------------------------------------------------------
\* The constants of a pool.
LEMMA LayoutConstants ==
  ASSUME Layout!LayoutAssumption
  PROVE  /\ WordSize \in Nat \ {0} /\ WordSize >= 2 /\ LongBits \in Nat \ {0} /\ MarksPerWord \in Nat \ {0}
         /\ Powers(2, LongBits) /\ Powers(4, MarksPerWord)
         /\ M_PAGE_SIZE \in Nat \ {0} /\ HeaderSize \in Nat /\ HeaderSize < M_PAGE_SIZE
         /\ 2^LongBits \in Nat \ {0} /\ M_PAGE_SIZE * 2 <= 2^LongBits /\ WordSize <= M_PAGE_SIZE
         /\ 2^(IdBits - 1) \in Nat \ {0} /\ 2^IdBits = 2 * 2^(IdBits - 1)
  <1>1. /\ WordSize \in Nat \ {0} /\ WordSize >= 2 /\ LongBits \in Nat \ {0} /\ MarksPerWord \in Nat \ {0}
        /\ IdBits \in Nat \ {0} /\ Powers(2, LongBits) /\ Powers(2, IdBits) /\ Powers(4, MarksPerWord)
    <2>1. WordSize \in Nat \ {0} /\ WordSize >= 2 /\ MarksPerWord \in Nat \ {0}
      BY DEF Layout!LayoutAssumption
    <2>2. \A n \in {LongBits, IdBits} : n \in Nat \ {0} /\ Powers(2, n)
      BY Zenon DEF Layout!LayoutAssumption, Powers
    <2>3. Powers(4, MarksPerWord)
      BY Zenon DEF Layout!LayoutAssumption, Powers
    <2>4. QED
      BY <2>1, <2>2, <2>3
  <1>2. PICK k \in 0 .. LongBits - 2 : M_PAGE_SIZE = 2^k
    BY DEF Layout!LayoutAssumption
  <1>3. 2 \in Nat \ {0} /\ k \in 0 .. LongBits
    BY <1>1
  <1>4. M_PAGE_SIZE \in Nat \ {0}
    BY <1>1, <1>2, <1>3, PowerNat
  <1>5. HeaderSize \in 0 .. M_PAGE_SIZE - 1 /\ M_PAGE_SIZE % WordSize = 0
    BY DEF Layout!LayoutAssumption
  <1>6. M_PAGE_SIZE * 2 <= 2^LongBits /\ 2^LongBits \in Nat \ {0}
    <2> DEFINE e == k + 1
    <2>1. e \in 1 .. LongBits /\ e - 1 = k /\ e \in 0 .. LongBits /\ LongBits \in e .. LongBits /\ LongBits \in 0 .. LongBits
      BY <1>1
    <2>2. 2^e = 2 * 2^k
      BY <1>1, <2>1 DEF Powers
    <2> HIDE DEF e
    <2>3. 2^e <= 2^LongBits
      BY <1>1, <1>3, <2>1, PowerDivides
    <2>4. 2^LongBits \in Nat \ {0}
      BY <1>1, <1>3, <2>1, PowerNat
    <2> DEFINE y == 2^k
               z == 2^e
               t == 2^LongBits
    <2>5. M_PAGE_SIZE = y /\ z = 2 * y /\ z <= t /\ t \in Nat \ {0}
      BY <1>2, <2>2, <2>3, <2>4
    <2> HIDE DEF y, z, t
    <2>6. M_PAGE_SIZE * 2 <= t /\ t \in Nat \ {0}
      BY <1>4, <2>5
    <2>7. QED
      BY <2>6 DEF t
  <1>7. WordSize <= M_PAGE_SIZE
    <2> DEFINE q == M_PAGE_SIZE \div WordSize
    <2>1. q \in Int /\ M_PAGE_SIZE = q * WordSize + (M_PAGE_SIZE % WordSize)
      BY <1>1, <1>4, DivMod
    <2> HIDE DEF q
    <2>2. M_PAGE_SIZE = q * WordSize
      BY <1>1, <1>5, <2>1
    <2>3. q <= 0 => q * WordSize <= 0
      BY <1>1, <2>1
    <2>4. q >= 1 => q * WordSize >= WordSize
      BY <1>1, <2>1
    <2>5. q <= 0 \/ q >= 1
      BY <2>1
    <2>6. QED
      BY <1>1, <1>4, <2>2, <2>3, <2>4, <2>5
  <1>8. 2^(IdBits - 1) \in Nat \ {0} /\ 2^IdBits = 2 * 2^(IdBits - 1)
    <2>1. IdBits \in 1 .. IdBits
      BY <1>1
    <2>2. QED
      BY <1>1, <2>1 DEF Powers
  <1>9. HeaderSize \in Nat /\ HeaderSize < M_PAGE_SIZE
    BY <1>4, <1>5
  <1>10. QED
    BY <1>1, <1>4, <1>6, <1>7, <1>8, <1>9, Zenon

\* What gc_obj_startup makes of M_GC_CELL_POOL_SIZE.
LEMMA PoolSizeIs ==
  ASSUME Layout!LayoutAssumption, NEW n \in Int
  PROVE  LET P == Layout!PoolSizeOf(n)
         IN  P \in Nat \ {0} /\ P >= M_PAGE_SIZE /\ \E k \in 0 .. LongBits : P = 2^k
  <1> DEFINE U == Layout!Unsigned(n)
             A == {2^k : k \in 0 .. LongBits - 1}
             V == A \cap (U .. 2^LongBits)
             P == Layout!PoolSizeOf(n)
  <1>1. /\ LongBits \in Nat \ {0} /\ Powers(2, LongBits) /\ M_PAGE_SIZE \in Nat \ {0} /\ 2 \in Nat \ {0}
    BY LayoutConstants
  <1>2. \/ P = M_PAGE_SIZE
        \/ P = U /\ U > M_PAGE_SIZE /\ V # {} /\ U = Layout!Min(V)
    BY DEF Layout!PoolSizeOf
  <1>3. CASE P = M_PAGE_SIZE
    <2>1. PICK k \in 0 .. LongBits - 2 : M_PAGE_SIZE = 2^k
      BY DEF Layout!LayoutAssumption
    <2>2. k \in 0 .. LongBits
      BY <1>1
    <2>3. P \in Nat \ {0} /\ P >= M_PAGE_SIZE
      <3> HIDE DEF P
      <3>1. QED
        BY <1>1, <1>3
    <2>4. QED
      BY <1>3, <2>1, <2>2, <2>3, Zenon DEF P
  <1>4. CASE P = U /\ U > M_PAGE_SIZE /\ V # {} /\ U = Layout!Min(V)
    <2>1. \A k \in 0 .. LongBits - 1 : 2^k \in Nat
      <3>1. \A k \in 0 .. LongBits - 1 : k \in 0 .. LongBits
        BY <1>1
      <3>2. QED
        BY <1>1, <3>1, PowerNat
    <2>2. V \subseteq Nat
      BY <2>1
    <2>3. U \in V
      <3> HIDE DEF U, V
      <3>1. \E u \in V : \A w \in V : u <= w
        BY <1>4, <2>2, LeastElement
      <3>2. QED
        BY <1>4, <3>1 DEF Layout!Min
    <2>4. PICK k \in 0 .. LongBits - 1 : U = 2^k
      BY <2>3
    <2>5. k \in 0 .. LongBits /\ U \in Nat
      BY <1>1, <2>2, <2>3
    <2>6. P \in Nat \ {0} /\ P >= M_PAGE_SIZE /\ P = U
      <3> HIDE DEF P, U, V
      <3>1. QED
        BY <1>1, <1>4, <2>5
    <2>7. QED
      BY <2>4, <2>5, <2>6, Zenon DEF P
  <1>5. QED
    BY <1>2, <1>3, <1>4

\* A bitmap has whole words, and 2 bits for every cell.
LEMMA BitmapSizeIs ==
  ASSUME Layout!LayoutAssumption, NEW n \in Nat
  PROVE  LET b == Layout!BitmapSize(n)
         IN  /\ b \in Nat /\ b * 4 >= n /\ b * 4 <= n + WordSize * 4
             /\ \E q \in Nat : b = q * WordSize
             /\ n = 0 => b = 0
  <1> DEFINE a == WordSize * 8
             t == n * 2 + a - 1
             q == t \div a
             r == t % a
             b == Layout!BitmapSize(n)
  <1>1. WordSize \in Nat \ {0} /\ a \in Nat \ {0} /\ t \in Nat
    BY LayoutConstants
  <1>2. b = (q * a) \div 8
    BY DEF Layout!BitmapSize, Layout!M_ALIGN_UP
  <1> HIDE DEF b
  <1>3. q \in Int /\ r \in 0 .. a - 1 /\ t = q * a + r
    <2> HIDE DEF t, a
    <2>1. QED
      BY <1>1, DivMod
  <1> HIDE DEF q, r
  <1>4. q >= 0
    <2>1. q <= -1 => q * a <= -a
      BY <1>1, <1>3
    <2> HIDE DEF a
    <2>2. QED
      BY <1>1, <1>3, <2>1
  <1>5. q * a = (q * WordSize) * 8 /\ q * WordSize \in Nat
    BY <1>1, <1>3, <1>4
  <1>6. b = q * WordSize
    <2> DEFINE y == q * WordSize
    <2>1. y \in Nat /\ q * a = y * 8
      BY <1>5
    <2> HIDE DEF y, a
    <2>2. QED
      BY <1>2, <2>1 DEF y
  <1>7. q * a >= n * 2
    <2> DEFINE z == q * a
    <2>1. z \in Int
      BY <1>1, <1>3
    <2> HIDE DEF z, a
    <2>2. QED
      BY <1>1, <1>3, <2>1 DEF z
  <1>8. b * 4 >= n /\ b * 4 <= n + WordSize * 4
    <2> DEFINE z == q * a
    <2>1. z \in Int /\ z >= n * 2 /\ z = b * 8 /\ b \in Int /\ n * 2 + WordSize * 8 - 1 = z + r
      BY <1>1, <1>3, <1>5, <1>6, <1>7
    <2>2. r >= 0 /\ r \in Int
      BY <1>1, <1>3
    <2> HIDE DEF z, a
    <2>3. QED
      BY <1>1, <2>1, <2>2
  <1>9. n = 0 => q = 0
    <2>1. q >= 1 => q * a >= a
      BY <1>1, <1>3
    <2> HIDE DEF a
    <2>2. QED
      BY <1>1, <1>3, <1>4, <2>1
  <1>10. q \in Nat /\ b \in Nat /\ (n = 0 => b = 0)
    BY <1>1, <1>3, <1>4, <1>5, <1>6, <1>9
  <1>11. QED
    BY <1>6, <1>8, <1>10, Zenon DEF b

\* In the numbers the loop of gc_obj_startup tries, size_t does not wrap.
LEMMA NoWrap ==
  ASSUME Layout!LayoutAssumption, NEW c \in CellSizes, NEW k \in Nat, k * (c * 8 + 2) < 2^LongBits
  PROVE  /\ k * c + Layout!BitmapSize(k) \in Nat
         /\ Layout!Unsigned(k * c + Layout!BitmapSize(k)) = k * c + Layout!BitmapSize(k)
  <1> DEFINE x == k * c
             b == Layout!BitmapSize(k)
             s == x + b
             T == 2^LongBits
  <1>1. c \in Nat \ {0} /\ WordSize \in Nat /\ M_PAGE_SIZE \in Nat /\ T \in Nat \ {0}
        /\ M_PAGE_SIZE * 2 <= T /\ WordSize <= M_PAGE_SIZE
    BY LayoutConstants DEF Layout!LayoutAssumption
  <1>2. b \in Nat /\ b * 4 <= k + WordSize * 4
    BY BitmapSizeIs
  <1>3. x \in Nat /\ k * (c * 8 + 2) = x * 8 + k * 2
    BY <1>1
  <1>4. x * 8 + k * 2 < T
    BY <1>3
  <1> HIDE DEF x, b, T
  <1>5. s \in Nat /\ s < T
    BY <1>1, <1>2, <1>3, <1>4
  <1> HIDE DEF s
  <1>6. s % T = s
    BY <1>1, <1>5
  <1>7. QED
    BY <1>5, <1>6 DEF s, x, b, T, Layout!Unsigned

\* The loop of gc_obj_startup finds a number of cells that fits, and the largest
\* one where the bits of the pool fit into size_t.
LEMMA CellNumIs ==
  ASSUME Layout!LayoutAssumption, NEW c \in CellSizes, NEW P \in Nat, P >= M_PAGE_SIZE
  PROVE  LET num == Layout!CellNum(c, P)
         IN  /\ num \in Nat /\ num * c + Layout!BitmapSize(num) <= P - HeaderSize
             /\ (P - HeaderSize) * 8 < 2^LongBits =>
                  (num + 1) * c + Layout!BitmapSize(num + 1) > P - HeaderSize
  <1> DEFINE room == P - HeaderSize
             T == 2^LongBits
             bits == Layout!Unsigned(room * 8)
             e == c * 8 + 2
             first == bits \div e
             rest == bits % e
             S == {num \in 0 .. first : Layout!Fits(num, c, P)}
             num == Layout!CellNum(c, P)
             Need(k) == k * c + Layout!BitmapSize(k)
  <1>1. c \in Nat \ {0} /\ room \in Nat \ {0} /\ e \in Nat \ {0} /\ T \in Nat \ {0}
    BY LayoutConstants DEF Layout!LayoutAssumption
  <1>2. num = Layout!Max(S)
    BY DEF Layout!CellNum
  <1>3. \A k : Layout!Fits(k, c, P) <=> Layout!Unsigned(Need(k)) <= room
    BY DEF Layout!Fits
  <1>4. bits \in Int /\ bits >= 0 /\ bits < T /\ (room * 8 < T => bits = room * 8)
    <2> DEFINE y == room * 8
    <2>1. y \in Nat /\ bits = y % T
      BY <1>1 DEF Layout!Unsigned
    <2> HIDE DEF y, T, bits
    <2>2. QED
      BY <1>1, <2>1 DEF y
  <1> HIDE DEF bits, T
  <1>5. first \in Int /\ rest \in 0 .. e - 1 /\ bits = first * e + rest
    <2> HIDE DEF e
    <2>1. QED
      BY <1>1, <1>4, DivMod
  <1> HIDE DEF num, rest, room
  <1>6. first >= 0
    <2> HIDE DEF first, e
    <2>1. first <= -1 => first * e <= -e
      BY <1>1, <1>5
    <2>2. QED
      BY <1>1, <1>4, <1>5, <2>1
  <1> HIDE DEF first
  <1>7. ASSUME NEW k \in 0 .. first PROVE Need(k) \in Nat /\ Layout!Unsigned(Need(k)) = Need(k)
    <2>1. k \in Nat /\ k <= first
      BY <1>5
    <2>2. k * e <= first * e
      BY <1>1, <1>5, <2>1
    <2>3. k * e < T
      <3> DEFINE x == k * e
                 y == first * e
      <3>1. x \in Int /\ y \in Int /\ x <= y /\ bits = y + rest /\ rest \in Int /\ rest >= 0
        BY <1>1, <1>5, <2>1, <2>2
      <3> HIDE DEF x, y
      <3>2. x < T
        BY <1>1, <1>4, <3>1
      <3>3. QED
        BY <3>2 DEF x
    <2>4. QED
      BY <2>1, <2>3, NoWrap DEF T
  <1>8. 0 \in S
    <2>1. Layout!BitmapSize(0) = 0
      BY BitmapSizeIs
    <2>2. Need(0) = 0
      BY <1>1, <2>1
    <2>3. 0 \in 0 .. first
      BY <1>5, <1>6
    <2>4. Layout!Unsigned(Need(0)) = 0
      BY <1>7, <2>2, <2>3
    <2>5. QED
      BY <1>1, <1>3, <2>3, <2>4
  <1> HIDE DEF Need
  <1>9. \E x \in S : \A y \in S : x >= y
    <2>1. S \subseteq 0 .. first /\ S # {}
      BY <1>8
    <2> HIDE DEF S
    <2>2. QED
      BY <1>5, <2>1, GreatestElement
  <1>10. num \in S /\ \A y \in S : num >= y
    <2> HIDE DEF S
    <2>1. QED
      BY <1>2, <1>9 DEF Layout!Max
  <1>11. num \in Nat /\ num <= first /\ Need(num) <= room
    <2>1. num \in 0 .. first /\ Layout!Fits(num, c, P)
      BY <1>10
    <2>2. QED
      BY <1>3, <1>5, <1>7, <2>1
  <1>12. ASSUME room * 8 < T, ~(Need(num + 1) > room) PROVE FALSE
    <2> DEFINE f == num + 1
               b == Layout!BitmapSize(f)
    <2>1. f \in Nat
      BY <1>11
    <2>2. b \in Nat /\ b * 4 >= f
      BY <2>1, BitmapSizeIs
    <2>3. Need(f) = f * c + b /\ f * c \in Nat
      BY <1>1, <2>1 DEF Need
    <2>4. f * c + b <= room
      BY <1>1, <1>12, <2>2, <2>3
    <2>5. CASE num + 1 <= first
      <3>1. f \in 0 .. first
        BY <1>5, <2>1, <2>5
      <3>2. f \in S
        BY <1>3, <1>7, <2>3, <2>4, <3>1
      <3> HIDE DEF S
      <3>3. QED
        BY <1>10, <1>11, <3>2
    <2>6. CASE num = first
      <3>1. f = first + 1
        BY <1>11, <2>6
      <3> HIDE DEF f, b
      <3>2. f * e = first * e + e /\ f * e = 8 * (f * c) + 2 * f
        BY <1>1, <1>5, <2>1, <3>1
      <3> DEFINE x == f * c
                 y == first * e
      <3>3. y \in Int /\ y + e = 8 * x + 2 * f /\ x \in Int /\ e \in Int
        BY <1>1, <1>5, <2>3, <3>2
      <3>4. x + b <= room /\ room * 8 = y + rest
        BY <1>4, <1>5, <1>12, <2>4
      <3> HIDE DEF x, y, e
      <3>5. QED
        BY <1>1, <1>5, <2>1, <2>2, <3>3, <3>4
    <2>7. QED
      BY <1>5, <1>11, <2>5, <2>6
  <1>13. QED
    BY <1>11, <1>12 DEF num, Need, room, T

\* A number that becomes an int is kept exactly when it is an int.
LEMMA ToIntIs ==
  ASSUME Layout!LayoutAssumption, NEW n \in Nat
  PROVE  /\ Layout!ToInt(n) = n <=> n < 2^(IdBits - 1)
         /\ n < 2^IdBits /\ Layout!ToInt(n) >= 0 => n < 2^(IdBits - 1)
         /\ n < 2^(IdBits - 1) => ~(Layout!ToInt(n) < 0)
  <1> DEFINE H == 2^(IdBits - 1)
             T == 2^IdBits
             u == n % T
             i == Layout!ToInt(n)
  <1>1. H \in Nat \ {0} /\ T = 2 * H
    BY LayoutConstants
  <1>2. i = IF u < H THEN u ELSE u - T
    BY DEF Layout!ToInt
  <1> HIDE DEF H, T, i
  <1>3. T \in Nat \ {0}
    BY <1>1
  <1>4. u \in 0 .. T - 1 /\ (n < T => u = n)
    BY <1>3
  <1> HIDE DEF u
  <1>5. /\ i = n <=> n < H
        /\ n < T /\ i >= 0 => n < H
        /\ n < H => ~(i < 0)
    BY <1>1, <1>2, <1>4
  <1>6. QED
    BY <1>5 DEF H, T, i
-----------------------------------------------------------------------------
\* A mark of a word, by the position of its digit.
LEMMA DigitIs ==
  ASSUME NEW B \in Nat \ {0}, NEW w \in Int
  PROVE  \E h \in Int, d \in 0 .. 3, lo \in 0 .. B - 1 :
           w = (h * 4 + d) * B + lo /\ d = (w \div B) % 4 /\ h * 4 + d = w \div B
  <1> DEFINE q == w \div B
             lo == w % B
             h == q \div 4
             d == q % 4
  <1>1. q \in Int /\ lo \in 0 .. B - 1 /\ w = q * B + lo
    BY DivMod
  <1>2. h \in Int /\ d \in 0 .. 3 /\ q = h * 4 + d
    <2> HIDE DEF q
    <2>1. QED
      BY <1>1
  <1>3. w = (h * 4 + d) * B + lo
    <2> HIDE DEF q, lo, h, d
    <2>1. QED
      BY <1>1, <1>2
  <1>4. QED
    BY <1>1, <1>2, <1>3, Zenon DEF q, d

\* Dividing by a multiple is dividing twice.
LEMMA DivDiv ==
  ASSUME NEW a \in Int, NEW E \in Nat \ {0}, NEW m \in Nat \ {0}
  PROVE  a \div (m * E) = (a \div E) \div m
  <1> DEFINE q == a \div E
             r == a % E
             g == q \div m
             t == q % m
             C == m * E
             u == t * E + r
  <1>1. q \in Int /\ r \in 0 .. E - 1 /\ a = q * E + r
    BY DivMod
  <1>2. g \in Int /\ t \in 0 .. m - 1 /\ q = g * m + t
    <2> HIDE DEF q
    <2>1. QED
      BY <1>1, DivMod
  <1> HIDE DEF q, r, g, t
  <1>3. C \in Nat \ {0}
    OBVIOUS
  <1>4. a = g * C + u
    BY <1>1, <1>2
  <1>5. u \in 0 .. C - 1
    <2> DEFINE z == t * E
    <2>1. z \in Int /\ z >= 0 /\ z <= (m - 1) * E
      BY <1>2
    <2>2. (m - 1) * E = C - E
      OBVIOUS
    <2>3. u = z + r
      OBVIOUS
    <2> HIDE DEF z, C, u
    <2>4. QED
      BY <1>1, <1>3, <2>1, <2>2, <2>3
  <1> HIDE DEF C, u
  <1>6. a \div C = g
    BY <1>2, <1>3, <1>4, <1>5, DivModUnique
  <1>7. QED
    BY <1>6, Zenon DEF C, g, q

\* The value of a place is a multiple of 4 times the value of a lower place.
LEMMA PlacesDivide ==
  ASSUME Layout!LayoutAssumption, NEW i \in 0 .. MarksPerWord - 1, NEW j \in 0 .. MarksPerWord - 1, i < j
  PROVE  /\ 4^i \in Nat \ {0} /\ 4^j \in Nat \ {0}
         /\ \E m \in Nat \ {0} : 4^j = m * (4 * 4^i)
  <1> DEFINE e == i + 1
  <1>1. MarksPerWord \in Nat \ {0} /\ Powers(4, MarksPerWord) /\ 4 \in Nat \ {0}
    BY LayoutConstants
  <1>2. e \in 1 .. MarksPerWord /\ e - 1 = i /\ e \in 0 .. MarksPerWord /\ j \in e .. MarksPerWord
    BY <1>1
  <1>3. 4^e = 4 * 4^i
    BY <1>1, <1>2 DEF Powers
  <1>4. i \in 0 .. MarksPerWord /\ j \in 0 .. MarksPerWord
    BY <1>1
  <1>5. 4^i \in Nat \ {0} /\ 4^j \in Nat \ {0}
    BY <1>1, <1>4, PowerNat
  <1> HIDE DEF e
  <1>6. \E m \in Nat \ {0} : 4^j = m * 4^e
    BY <1>1, <1>2, PowerDivides
  <1>7. QED
    BY <1>3, <1>5, <1>6

\* Setting a mark of a word sets this mark and no other.
LEMMA SetMarkIs ==
  ASSUME Layout!LayoutAssumption, NEW w \in Int, NEW k \in 0 .. MarksPerWord - 1, NEW f \in 0 .. 3
  PROVE  LET x == Layout!SetMark(w, k, f)
         IN  /\ x \in Int
             /\ Layout!MarkIn(x, k) = f
             /\ \A j \in 0 .. MarksPerWord - 1 : j # k => Layout!MarkIn(x, j) = Layout!MarkIn(w, j)
  <1> DEFINE B == 4^k
             x == Layout!SetMark(w, k, f)
  <1>1. MarksPerWord \in Nat \ {0} /\ Powers(4, MarksPerWord) /\ 4 \in Nat \ {0}
    BY LayoutConstants
  <1>2. \A j \in 0 .. MarksPerWord - 1 : j \in 0 .. MarksPerWord
    BY <1>1
  <1>3. B \in Nat \ {0}
    BY <1>1, <1>2, PowerNat
  <1>4. x = w + (f - ((w \div B) % 4)) * B /\ Layout!MarkIn(x, k) = (x \div B) % 4
    BY DEF Layout!SetMark, Layout!MarkIn
  <1>5. \A j : Layout!MarkIn(x, j) = (x \div 4^j) % 4 /\ Layout!MarkIn(w, j) = (w \div 4^j) % 4
    BY DEF Layout!MarkIn
  <1> HIDE DEF x, B
  <1>6. PICK h \in Int, d \in 0 .. 3, lo \in 0 .. B - 1 : w = (h * 4 + d) * B + lo /\ d = (w \div B) % 4
    BY <1>3, DigitIs
  <1>7. x = w + (f - d) * B
    BY <1>4, <1>6
  <1>8. x = (h * 4 + f) * B + lo /\ x \in Int
    <2> DEFINE p == h * 4 + d
               g == f - d
    <2>1. p \in Int /\ g \in Int /\ p + g = h * 4 + f
      OBVIOUS
    <2>2. w = p * B + lo /\ x = w + g * B
      BY <1>6, <1>7
    <2> HIDE DEF p, g
    <2>3. x = (p + g) * B + lo /\ x \in Int
      BY <1>3, <2>1, <2>2
    <2>4. QED
      BY <2>1, <2>3
  <1>9. Layout!MarkIn(x, k) = f
    <2> DEFINE p == h * 4 + f
    <2>1. p \in Int /\ p % 4 = f /\ x = p * B + lo
      BY <1>8
    <2> HIDE DEF p
    <2>2. x \div B = p
      BY <1>3, <1>8, <2>1, DivModUnique
    <2>3. QED
      BY <1>4, <2>1, <2>2
  <1>10. ASSUME NEW j \in 0 .. MarksPerWord - 1, j < k PROVE (x \div 4^j) % 4 = (w \div 4^j) % 4
    <2> DEFINE C == 4^j
    <2>1. C \in Nat \ {0} /\ \E m \in Nat \ {0} : B = m * (4 * C)
      BY <1>10, PlacesDivide DEF B
    <2> HIDE DEF C
    <2>2. PICK m \in Nat \ {0} : B = m * (4 * C)
      BY <2>1
    <2> DEFINE q == w \div C
               r == w % C
               n == (f - d) * m
    <2>5. q \in Int /\ r \in 0 .. C - 1 /\ w = q * C + r
      BY <2>1, DivMod
    <2> HIDE DEF q, r
    <2>6. n \in Int
      BY <2>2
    <2>7. (f - d) * B = (n * 4) * C
      BY <2>1, <2>2
    <2> HIDE DEF n
    <2>8. x = (q + n * 4) * C + r /\ q + n * 4 \in Int
      BY <1>7, <2>1, <2>5, <2>6, <2>7
    <2>9. x \div C = q + n * 4
      BY <1>8, <2>1, <2>5, <2>8, DivModUnique
    <2>10. (q + n * 4) % 4 = q % 4
      BY <2>5, <2>6
    <2>11. QED
      BY <2>9, <2>10 DEF C, q
  <1>11. ASSUME NEW j \in 0 .. MarksPerWord - 1, j > k PROVE (x \div 4^j) % 4 = (w \div 4^j) % 4
    <2> DEFINE C == 4^j
    <2>1. C \in Nat \ {0} /\ \E m \in Nat \ {0} : C = m * (4 * B)
      BY <1>11, PlacesDivide DEF B
    <2> HIDE DEF C
    <2>2. PICK m \in Nat \ {0} : C = m * (4 * B)
      BY <2>1
    <2> DEFINE E == 4 * B
               lw == d * B + lo
               lx == f * B + lo
    <2>3. E \in Nat \ {0} /\ w = h * E + lw /\ lw \in 0 .. E - 1
      BY <1>3, <1>6
    <2>4. x \in Int /\ x = h * E + lx /\ lx \in 0 .. E - 1
      BY <1>3, <1>6, <1>8
    <2>5. C = m * E
      BY <2>2
    <2> HIDE DEF E, lw, lx
    <2>6. w \div E = h
      BY <2>3, DivModUnique
    <2>7. x \div E = h
      BY <2>3, <2>4, DivModUnique
    <2>8. w \div C = h \div m
      <3>1. E \in Nat \ {0}
        BY <2>3
      <3>2. w \div (m * E) = (w \div E) \div m
        BY <3>1, DivDiv
      <3>3. QED
        BY <2>5, <2>6, <3>2
    <2>9. x \div C = h \div m
      <3>1. x \in Int /\ E \in Nat \ {0}
        BY <2>3, <2>4
      <3>2. x \div (m * E) = (x \div E) \div m
        BY <3>1, DivDiv
      <3>3. QED
        BY <2>5, <2>7, <3>2
    <2>10. QED
      BY <2>8, <2>9 DEF C
  <1>12. \A j \in 0 .. MarksPerWord - 1 : j # k => Layout!MarkIn(x, j) = Layout!MarkIn(w, j)
    <2>1. \A j \in 0 .. MarksPerWord - 1 : j # k => j < k \/ j > k
      BY <1>1
    <2>2. QED
      BY <1>5, <1>10, <1>11, <2>1, Zenon
  <1>13. QED
    BY <1>8, <1>9, <1>12, Zenon DEF x

\* A mark is one of four.
LEMMA MarkInIs ==
  ASSUME Layout!LayoutAssumption, NEW w \in Int, NEW j \in 0 .. MarksPerWord - 1
  PROVE  Layout!MarkIn(w, j) \in 0 .. 3 /\ (w = 0 => Layout!MarkIn(w, j) = 0)
  <1> DEFINE C == 4^j
             q == w \div C
  <1>1. C \in Nat \ {0}
    <2>1. MarksPerWord \in Nat \ {0} /\ Powers(4, MarksPerWord) /\ 4 \in Nat \ {0}
      BY LayoutConstants
    <2>2. j \in 0 .. MarksPerWord
      BY <2>1
    <2>3. QED
      BY <2>1, <2>2, PowerNat
  <1>2. Layout!MarkIn(w, j) = q % 4
    BY DEF Layout!MarkIn
  <1> HIDE DEF C
  <1>3. q \in Int
    BY <1>1, DivMod
  <1>4. w = 0 => q = 0
    <2>1. 0 = 0 * C + 0 /\ 0 \in 0 .. C - 1 /\ 0 \in Int
      BY <1>1
    <2>2. 0 \div C = 0
      BY <1>1, <2>1, DivModUnique
    <2>3. QED
      BY <2>2
  <1> HIDE DEF q
  <1>5. QED
    BY <1>2, <1>3, <1>4

\* A mark that gc_sweep_pool does not look at is the mark of an unused cell.
LEMMA NotSwept ==
  ASSUME Layout!LayoutAssumption, NEW w \in Int, NEW j \in 0 .. MarksPerWord - 1, j \notin Layout!SweptIn(w)
  PROVE  Layout!MarkIn(w, j) = 0
  <1> DEFINE S == {k \in 0 .. MarksPerWord - 1 : Layout!MarkIn(w, k) # 0}
  <1>1. CASE w = 0
    BY <1>1, MarkInIs
  <1>2. CASE w # 0
    <2>1. SUFFICES ASSUME Layout!MarkIn(w, j) # 0 PROVE FALSE
      OBVIOUS
    <2>2. S \subseteq 0 .. MarksPerWord - 1 /\ S # {} /\ MarksPerWord - 1 \in Int
      BY <2>1, LayoutConstants
    <2>3. \E x \in S : \A y \in S : x >= y
      <3> DEFINE n == MarksPerWord - 1
      <3> HIDE DEF S, n
      <3>1. QED
        BY <2>2, GreatestElement DEF n
    <2>4. Layout!LastMark(w) = Layout!Max(S)
      BY DEF Layout!LastMark, Layout!GC_MARK_UNUSED
    <2>5. j \in S
      BY <2>1
    <2> HIDE DEF S
    <2>6. Layout!LastMark(w) \in S /\ Layout!LastMark(w) >= j
      BY <2>3, <2>4, <2>5 DEF Layout!Max
    <2>7. Layout!LastMark(w) \in Int
      <3>1. Layout!LastMark(w) \in 0 .. MarksPerWord - 1
        BY <2>2, <2>6
      <3> DEFINE l == Layout!LastMark(w)
      <3> HIDE DEF l
      <3>2. l \in 0 .. MarksPerWord - 1 => l \in Int
        BY <2>2
      <3>3. QED
        BY <3>1, <3>2 DEF l
    <2>8. j \in 0 .. Layout!LastMark(w)
      BY <2>6, <2>7
    <2>9. QED
      BY <1>2, <2>8 DEF Layout!SweptIn
  <1>3. QED
    BY <1>1, <1>2

\* One turn of the loop of gc_sweep_pool over the marks of w, when the word in
\* the bitmap is x.
SweepStep(w, k, x) ==
  IF k - 1 \in Layout!SweptIn(w)
    THEN Layout!SetMark(x, k - 1, Layout!SweptMark(Layout!MarkIn(w, k - 1)))
    ELSE x

\* g gives the word after each turn.
IsUpto(g, w) == g = [k \in 0 .. MarksPerWord |-> IF k = 0 THEN w ELSE SweepStep(w, k, g[k - 1])]

\* The recursion of SweptWord has a solution.
LEMMA UptoExists ==
  ASSUME Layout!LayoutAssumption, NEW w \in Int
  PROVE  \E g : IsUpto(g, w)
  <1> DEFINE M == MarksPerWord
             Upto(g, n) == g = [k \in 0 .. n |-> IF k = 0 THEN w ELSE SweepStep(w, k, g[k - 1])]
             T == {n \in 0 .. M : \E g : Upto(g, n)}
  <1>1. M \in Nat
    BY LayoutConstants
  <1>2. 0 \in T
    <2> DEFINE g == [k \in 0 .. 0 |-> w]
    <2>1. Upto(g, 0)
      OBVIOUS
    <2> HIDE DEF Upto
    <2>2. QED
      BY <1>1, <2>1
  <1>3. ASSUME NEW n \in 1 .. M, n - 1 \in T PROVE n \in T
    <2>1. PICK f : Upto(f, n - 1)
      BY <1>3
    <2> DEFINE g == [k \in 0 .. n |-> IF k < n THEN f[k] ELSE SweepStep(w, n, f[n - 1])]
    <2>2. \A k \in 0 .. n - 1 : f[k] = IF k = 0 THEN w ELSE SweepStep(w, k, f[k - 1])
      BY <2>1
    <2>3. ASSUME NEW k \in 0 .. n PROVE g[k] = IF k = 0 THEN w ELSE SweepStep(w, k, g[k - 1])
      <3>1. k # 0 => g[k - 1] = f[k - 1]
        OBVIOUS
      <3>2. k < n => g[k] = f[k]
        OBVIOUS
      <3>3. k = n => g[k] = SweepStep(w, k, f[k - 1])
        OBVIOUS
      <3> HIDE DEF g
      <3>4. k < n \/ (k = n /\ k # 0)
        OBVIOUS
      <3>5. k < n => f[k] = IF k = 0 THEN w ELSE SweepStep(w, k, f[k - 1])
        BY <2>2
      <3>6. QED
        BY <3>1, <3>2, <3>3, <3>4, <3>5
    <2>4. Upto(g, n)
      <3>1. g = [k \in 0 .. n |-> g[k]]
        OBVIOUS
      <3> HIDE DEF g
      <3>2. QED
        BY <2>3, <3>1
    <2> HIDE DEF Upto, g
    <2>5. QED
      BY <2>4
  <1>4. M \in T
    <2> HIDE DEF T, M
    <2>1. \A n \in 0 .. M : n \in T
      BY <1>1, <1>2, <1>3, Induction
    <2>2. QED
      BY <1>1, <2>1
  <1>5. QED
    BY <1>4 DEF IsUpto

\* Sweeping a word sweeps each of its marks: skipping a word that is 0 and
\* stopping after the last mark leave nothing out.
LEMMA SweptWordIs ==
  ASSUME Layout!LayoutAssumption, NEW w \in Int
  PROVE  /\ Layout!SweptWord(w) \in Int
         /\ \A j \in 0 .. MarksPerWord - 1 :
              Layout!MarkIn(Layout!SweptWord(w), j) = Layout!SweptMark(Layout!MarkIn(w, j))
  <1> DEFINE M == MarksPerWord
             g == CHOOSE f : IsUpto(f, w)
             In(x, j) == Layout!MarkIn(x, j)
             Swept(j) == Layout!SweptMark(Layout!MarkIn(w, j))
             Good(k) == /\ g[k] \in Int
                        /\ \A j \in 0 .. M - 1 : In(g[k], j) = IF j < k THEN Swept(j) ELSE In(w, j)
             T == {k \in 0 .. M : Good(k)}
  <1>1. Layout!SweptWord(w) = g[M]
    BY DEF Layout!SweptWord, IsUpto, SweepStep
  <1>2. IsUpto(g, w)
    BY UptoExists
  <1> HIDE DEF g
  <1>3. g[0] = w /\ \A k \in 1 .. M : g[k] = SweepStep(w, k, g[k - 1])
    <2>1. M \in Nat
      BY LayoutConstants
    <2>2. 0 \in 0 .. M /\ \A k \in 1 .. M : k \in 0 .. M /\ k # 0
      BY <2>1
    <2>3. QED
      BY <1>2, <2>2 DEF IsUpto
  <1>4. \A j \in 0 .. M - 1 : Swept(j) \in 0 .. 3 /\ (In(w, j) = 0 => Swept(j) = 0)
    BY MarkInIs DEF Layout!SweptMark, Layout!GC_MARK_WHITE, Layout!GC_MARK_BLACK, Layout!GC_MARK_UNUSED
  <1>5. M \in Nat
    BY LayoutConstants
  <1>6. \A j \in 0 .. M - 1 : j \notin Layout!SweptIn(w) => In(w, j) = 0
    BY NotSwept
  <1>7. \A x \in Int, k \in 0 .. M - 1, f \in 0 .. 3 :
          /\ Layout!SetMark(x, k, f) \in Int
          /\ In(Layout!SetMark(x, k, f), k) = f
          /\ \A j \in 0 .. M - 1 : j # k => In(Layout!SetMark(x, k, f), j) = In(x, j)
    BY SetMarkIs
  <1>8. 0 \in T
    <2>1. \A j \in 0 .. M - 1 : ~ (j < 0)
      BY <1>5
    <2> HIDE DEF In, Swept
    <2>2. QED
      BY <1>3, <1>5, <2>1
  <1>9. ASSUME NEW k \in 1 .. M, k - 1 \in T PROVE k \in T
    <2> DEFINE i == k - 1
               x == g[i]
    <2>1. i \in 0 .. M - 1 /\ i \in 0 .. M
      BY <1>5
    <2>2. x \in Int /\ \A j \in 0 .. M - 1 : In(x, j) = IF j < i THEN Swept(j) ELSE In(w, j)
      BY <1>9
    <2>3. g[k] = SweepStep(w, k, x)
      BY <1>3
    <2>4. \A j \in 0 .. M - 1 : j < k <=> j < i \/ j = i
      BY <1>5
    <2>5. CASE i \in Layout!SweptIn(w)
      <3> DEFINE f == Swept(i)
                 y == Layout!SetMark(x, i, f)
      <3>1. g[k] = y
        BY <2>3, <2>5 DEF SweepStep
      <3>2. f \in 0 .. 3
        BY <1>4, <2>1
      <3> HIDE DEF f, x, i, In
      <3>3. y \in Int /\ In(y, i) = f /\ \A j \in 0 .. M - 1 : j # i => In(y, j) = In(x, j)
        BY <1>7, <2>1, <2>2, <3>2, ZenonT(60)
      <3> HIDE DEF y, Swept
      <3>4. Good(k)
        BY <2>1, <2>2, <2>4, <3>1, <3>3 DEF f
      <3>5. QED
        BY <1>5, <3>4
    <2>6. CASE i \notin Layout!SweptIn(w)
      <3>1. g[k] = x
        BY <2>3, <2>6 DEF SweepStep
      <3>2. In(w, i) = 0 /\ Swept(i) = 0
        BY <1>4, <1>6, <2>1, <2>6
      <3> HIDE DEF x, i, In, Swept
      <3>3. Good(k)
        BY <2>1, <2>2, <2>4, <3>1, <3>2
      <3>4. QED
        BY <1>5, <3>3
    <2>7. QED
      BY <2>5, <2>6
  <1>10. Good(M)
    <2> HIDE DEF T, M
    <2>1. \A k \in 0 .. M : k \in T
      BY <1>5, <1>8, <1>9, Induction
    <2>2. M \in T
      BY <1>5, <2>1
    <2> HIDE DEF Good
    <2>3. QED
      BY <2>2 DEF T
  <1>11. \A j \in 0 .. M - 1 : j < M
    BY <1>5
  <1>12. g[M] \in Int /\ \A j \in 0 .. M - 1 : In(g[M], j) = Swept(j)
    <2> HIDE DEF In, Swept
    <2>1. QED
      BY <1>10, <1>11
  <1>13. QED
    BY <1>1, <1>12, Zenon
-----------------------------------------------------------------------------
\* The words of a bitmap.
WordsOf(size) == 0 .. (size * 4) \div MarksPerWord - 1

\* gc_obj_get_bitmap and gc_obj_set_bitmap, on a bitmap that is given.
MarkOf(words, id) == Layout!MarkIn(words[id \div MarksPerWord], id % MarksPerWord)
WithMark(words, id, mark) ==
  [words EXCEPT ![id \div MarksPerWord] = Layout!SetMark(@, id % MarksPerWord, mark)]

\* The bitmap has a place for the mark of every cell, and no two share one.
LEMMA PlaceOfMark ==
  ASSUME Layout!LayoutAssumption, NEW num \in Nat, NEW id \in 0 .. num - 1
  PROVE  /\ id \in Nat
         /\ id \div MarksPerWord \in WordsOf(Layout!BitmapSize(num))
         /\ id % MarksPerWord \in 0 .. MarksPerWord - 1
         /\ id = (id \div MarksPerWord) * MarksPerWord + (id % MarksPerWord)
  <1> DEFINE M == MarksPerWord
             b == Layout!BitmapSize(num)
             p == id \div M
             k == id % M
             e == M * 2
             z == (WordSize * 8) \div e
  <1>1. M \in Nat \ {0} /\ WordSize \in Nat \ {0} /\ id \in Nat /\ id \in Int /\ e \in Nat \ {0}
    BY LayoutConstants
  <1>2. b \in Nat /\ b * 4 >= num /\ \E q \in Nat : b = q * WordSize
    BY BitmapSizeIs
  <1>3. PICK q \in Nat : b = q * WordSize
    BY <1>2
  <1>4. p \in Int /\ k \in 0 .. M - 1 /\ id = p * M + k
    <2> HIDE DEF M
    <2>1. QED
      BY <1>1, DivMod
  <1>5. z \in Int /\ WordSize * 8 = z * e
    <2> DEFINE y == WordSize * 8
    <2>1. y \in Int /\ y % e = 0
      BY <1>1 DEF Layout!LayoutAssumption
    <2> HIDE DEF y, e
    <2>2. y \div e \in Int /\ y = (y \div e) * e + (y % e)
      BY <1>1, <2>1, DivMod
    <2>3. y = (y \div e) * e
      <3> DEFINE t == y \div e
      <3>1. t \in Int /\ y = t * e + 0
        BY <2>1, <2>2
      <3> HIDE DEF t
      <3>2. QED
        BY <1>1, <3>1 DEF t
    <2>4. QED
      BY <2>2, <2>3 DEF y
  <1> HIDE DEF b, p, k, z
  <1>6. WordSize * 4 = z * M
    <2>1. z * e = (z * M) * 2 /\ z * M \in Int
      BY <1>1, <1>5
    <2> DEFINE y == z * M
    <2> HIDE DEF y, e
    <2>2. QED
      BY <1>1, <1>5, <2>1 DEF y
  <1> DEFINE N == q * z
  <1>7. b * 4 = N * M /\ N \in Int
    <2>1. b * 4 = q * (WordSize * 4)
      BY <1>1, <1>3
    <2>2. q * (z * M) = (q * z) * M
      BY <1>1, <1>3, <1>5
    <2>3. QED
      BY <1>3, <1>5, <1>6, <2>1, <2>2
  <1> HIDE DEF N
  <1>8. (b * 4) \div M = N
    <2>1. b * 4 = N * M + 0 /\ 0 \in 0 .. M - 1 /\ b * 4 \in Int
      BY <1>1, <1>2, <1>7
    <2> DEFINE y == b * 4
    <2>2. y \in Int /\ y = N * M + 0
      BY <2>1
    <2> HIDE DEF y, M
    <2>3. QED
      BY <1>1, <1>7, <2>1, <2>2, DivModUnique DEF y
  <1>9. p >= 0
    <2>1. p <= -1 => p * M <= -M
      BY <1>1, <1>4
    <2> DEFINE y == p * M
    <2>2. y \in Int
      BY <1>1, <1>4
    <2> HIDE DEF y
    <2>3. QED
      BY <1>1, <1>4, <2>1, <2>2 DEF y
  <1>10. p <= N - 1
    <2>1. p >= N => p * M >= N * M
      BY <1>1, <1>4, <1>7
    <2> DEFINE y == p * M
    <2>2. y \in Int
      BY <1>1, <1>4
    <2> HIDE DEF y
    <2>3. QED
      BY <1>1, <1>2, <1>4, <1>7, <2>1, <2>2 DEF y
  <1>11. p \in 0 .. N - 1
    BY <1>4, <1>7, <1>9, <1>10
  <1>12. WordsOf(b) = 0 .. N - 1
    BY <1>8 DEF WordsOf
  <1>13. QED
    BY <1>1, <1>4, <1>11, <1>12, Zenon DEF b, p, k

\* Setting the mark of a cell sets the mark of this cell and of no other.
LEMMA WithMarkIs ==
  ASSUME Layout!LayoutAssumption, NEW num \in Nat, NEW words \in [WordsOf(Layout!BitmapSize(num)) -> Int],
         NEW id \in 0 .. num - 1, NEW mark \in 0 .. 3
  PROVE  /\ WithMark(words, id, mark) \in [WordsOf(Layout!BitmapSize(num)) -> Int]
         /\ \A i \in 0 .. num - 1 : MarkOf(WithMark(words, id, mark), i) = IF i = id THEN mark ELSE MarkOf(words, i)
  <1> DEFINE W == WordsOf(Layout!BitmapSize(num))
             P(i) == i \div MarksPerWord
             K(i) == i % MarksPerWord
             x == Layout!SetMark(words[P(id)], K(id), mark)
             new == WithMark(words, id, mark)
  <1>1. \A i \in 0 .. num - 1 : /\ P(i) \in W /\ K(i) \in 0 .. MarksPerWord - 1
                                /\ i = P(i) * MarksPerWord + K(i)
    BY PlaceOfMark
  <1>2. new = [words EXCEPT ![P(id)] = x]
    BY DEF WithMark
  <1>3. \A u, i : MarkOf(u, i) = Layout!MarkIn(u[P(i)], K(i))
    BY DEF MarkOf
  <1> HIDE DEF P, K, new, W
  <1>4. words \in [W -> Int]
    BY DEF W
  <1>5. /\ x \in Int /\ Layout!MarkIn(x, K(id)) = mark
        /\ \A j \in 0 .. MarksPerWord - 1 : j # K(id) => Layout!MarkIn(x, j) = Layout!MarkIn(words[P(id)], j)
    <2>1. words[P(id)] \in Int /\ K(id) \in 0 .. MarksPerWord - 1
      BY <1>1, <1>4
    <2>2. QED
      BY <2>1, SetMarkIs, ZenonT(60)
  <1> HIDE DEF x
  <1>6. new \in [W -> Int]
    BY <1>1, <1>2, <1>4, <1>5
  <1>7. ASSUME NEW i \in 0 .. num - 1 PROVE MarkOf(new, i) = IF i = id THEN mark ELSE MarkOf(words, i)
    <2>1. CASE i = id
      <3>1. new[P(id)] = x
        BY <1>1, <1>2, <1>4
      <3>2. QED
        BY <1>3, <1>5, <2>1, <3>1
    <2>2. CASE i # id /\ P(i) = P(id)
      <3>1. new[P(i)] = x
        BY <1>1, <1>2, <1>4, <2>2
      <3>2. K(i) # K(id)
        BY <1>1, <2>2
      <3>3. QED
        BY <1>1, <1>3, <1>5, <2>2, <3>1, <3>2
    <2>3. CASE P(i) # P(id)
      <3>1. new[P(i)] = words[P(i)]
        BY <1>1, <1>2, <1>4, <2>3
      <3>2. QED
        BY <1>3, <2>3, <3>1
    <2>4. QED
      BY <2>1, <2>2, <2>3
  <1>8. QED
    BY <1>6, <1>7, Zenon DEF new, W

\* The way from a byte of a cell back to the index of the cell.
LEMMA IndexIs ==
  ASSUME NEW c \in Nat \ {0}, NEW id \in Int, NEW b \in 0 .. c - 1
  PROVE  (id * c + b) \div c = id
  <1> DEFINE y == id * c + b
  <1>1. y \in Int /\ y = id * c + b
    OBVIOUS
  <1> HIDE DEF y
  <1>2. y \div c = id
    BY <1>1, DivModUnique
  <1>3. QED
    BY <1>2 DEF y

\* A number without a remainder is a multiple.
LEMMA Multiple ==
  ASSUME NEW a \in Int, NEW d \in Nat \ {0}, a % d = 0
  PROVE  \E m \in Int : a = m * d
  <1> DEFINE q == a \div d
  <1>1. q \in Int /\ a = q * d + (a % d)
    BY DivMod
  <1> HIDE DEF q
  <1>2. a = q * d
    BY <1>1
  <1>3. QED
    BY <1>1, <1>2

\* What gc_obj_startup leaves: a pool size, and the most cells that fit.
StubInv ==
  /\ gc_cell_pool_size \in Nat \ {0} /\ gc_cell_pool_size >= M_PAGE_SIZE
  /\ \E k \in 0 .. LongBits : gc_cell_pool_size = 2^k
  /\ cell \in CellSizes /\ cell_num \in Nat /\ bitmap_size = Layout!BitmapSize(cell_num)
  /\ cell_num * cell + bitmap_size <= gc_cell_pool_size - HeaderSize
  /\ (gc_cell_pool_size - HeaderSize) * 8 < 2^LongBits =>
       (cell_num + 1) * cell + Layout!BitmapSize(cell_num + 1) > gc_cell_pool_size - HeaderSize

\* A pool: where its cells begin.
PoolInv ==
  /\ gc_cell_pool_size # 0 /\ pool \in PoolAddrs
  /\ begin = pool + HeaderSize + bitmap_size

\* Its marks: a bitmap of whole words, each mark in its place; a cell in use is on
\* the list that gc_alloc_pool made, and its index is an int.
MarksInv ==
  /\ bitmap \in [WordsOf(bitmap_size) -> Int]
  /\ marks \in [Layout!Ids -> 0 .. 3]
  /\ \A id \in Layout!Ids : MarkOf(bitmap, id) = marks[id]
  /\ \A id \in Layout!Ids : marks[id] # 0 => id \in Layout!Listed /\ id < 2^(IdBits - 1)
  /\ free_cells = {begin + id * cell : id \in {i \in Layout!Listed : marks[i] = 0}}

\* The inductive invariant of PoolLayout.
LayoutInv ==
  /\ gc_cell_pool_size # 0 => StubInv
  /\ pool # 0 => PoolInv
  /\ pool # 0 /\ ~wild => MarksInv
  /\ wild => gc_cell_pool_size > 2^IdBits

\* In a pool whose size an int of the machine can hold as a uint32_t, every cell
\* is listed, has an index that is an int and an offset that does not wrap.
LEMMA SmallPool ==
  ASSUME Layout!LayoutAssumption, StubInv, gc_cell_pool_size <= 2^IdBits
  PROVE  /\ cell_num <= 2^(IdBits - 1) /\ Layout!Listed = Layout!Ids
         /\ \A i \in Nat : i < cell_num => (i * cell) % 2^IdBits = i * cell
  <1> DEFINE P == gc_cell_pool_size
             H == 2^(IdBits - 1)
             T == 2^IdBits
             n == cell_num
             c == cell
             x == n * c
  <1>1. H \in Nat \ {0} /\ T = 2 * H /\ WordSize \in Nat /\ WordSize >= 2 /\ HeaderSize \in Nat
    BY LayoutConstants
  <1>2. c \in Nat \ {0} /\ c % WordSize = 0 /\ n \in Nat /\ P \in Nat /\ P <= T
    BY DEF StubInv, Layout!LayoutAssumption
  <1>3. bitmap_size \in Nat
    BY <1>2, BitmapSizeIs DEF StubInv
  <1>4. x + bitmap_size <= P - HeaderSize
    BY DEF StubInv
  <1>5. c >= 2
    BY <1>1, <1>2
  <1>6. n * 2 <= x /\ x \in Nat
    <2> HIDE DEF n, c
    <2>1. QED
      BY <1>2, <1>5
  <1> HIDE DEF P, H, T, x
  <1>7. x <= T
    BY <1>1, <1>2, <1>3, <1>4, <1>6
  <1> HIDE DEF n, c
  <1>8. n <= H /\ n < T
    BY <1>1, <1>2, <1>6, <1>7
  <1>9. n % T = n
    BY <1>1, <1>2, <1>8
  <1>10. Layout!Listed = Layout!Ids
    BY <1>9 DEF Layout!Listed, Layout!Ids, n, T
  <1>11. ASSUME NEW i \in Nat, i < n PROVE (i * c) % T = i * c
    <2> DEFINE y == i * c
    <2>1. i + 1 <= n
      BY <1>2, <1>11
    <2>2. (i + 1) * c <= x
      BY <1>2, <2>1 DEF x
    <2>3. (i + 1) * c = y + c /\ y \in Nat
      BY <1>2
    <2> HIDE DEF y
    <2>4. y < T
      BY <1>1, <1>2, <1>6, <1>7, <2>2, <2>3
    <2>5. y % T = y
      BY <1>1, <2>3, <2>4
    <2>6. QED
      BY <2>5 DEF y
  <1>12. QED
    BY <1>8, <1>10, <1>11 DEF n, c, H, T

\* The listed cells are cells, and fewer than 2^IdBits.
LEMMA ListedIs ==
  ASSUME Layout!LayoutAssumption, StubInv
  PROVE  Layout!Listed \subseteq Layout!Ids /\ \A i \in Layout!Listed : i \in Nat /\ i < 2^IdBits
  <1> DEFINE T == 2^IdBits
             m == cell_num % T
  <1>1. T \in Nat \ {0}
    <2> DEFINE H == 2^(IdBits - 1)
    <2>1. H \in Nat \ {0} /\ T = 2 * H
      BY LayoutConstants
    <2> HIDE DEF H, T
    <2>2. QED
      BY <2>1
  <1>2. cell_num \in Nat
    BY DEF StubInv
  <1>3. Layout!Listed = 0 .. m - 1 /\ Layout!Ids = 0 .. cell_num - 1
    BY DEF Layout!Listed, Layout!Ids
  <1> HIDE DEF T
  <1>4. m \in Nat /\ m < T /\ m <= cell_num
    BY <1>1, <1>2
  <1> HIDE DEF m
  <1>5. QED
    BY <1>1, <1>2, <1>3, <1>4 DEF T

\* The layout of a pool, from its invariant.
LEMMA LayoutFound ==
  ASSUME Layout!LayoutAssumption, LayoutInv
  PROVE  Layout!CellsFound
  <1> DEFINE P == gc_cell_pool_size
             b == bitmap_size
             n == cell_num
             c == cell
             W == WordSize
  <1>1. SUFFICES ASSUME pool # 0 PROVE Layout!CellsFound
    BY DEF Layout!CellsFound
  <1>2. StubInv /\ PoolInv
    BY <1>1 DEF LayoutInv, PoolInv
  <1>3. /\ P \in Nat \ {0} /\ P >= M_PAGE_SIZE /\ \E k \in 0 .. LongBits : P = 2^k
        /\ n \in Nat /\ n * c + b <= P - HeaderSize
        /\ (P - HeaderSize) * 8 < 2^LongBits =>
             (n + 1) * c + Layout!BitmapSize(n + 1) > P - HeaderSize
        /\ P <= 2^IdBits => n <= 2^(IdBits - 1)
    BY <1>2, SmallPool DEF StubInv
  <1>4. c \in Nat \ {0} /\ c % W = 0 /\ pool \in Nat \ {0} /\ pool % M_PAGE_SIZE = 0 /\ pool \in Int
    BY <1>2 DEF StubInv, PoolInv, Layout!LayoutAssumption
  <1>5. b \in Nat /\ b * 4 >= n /\ \E q \in Nat : b = q * W
    BY <1>2, <1>3, BitmapSizeIs DEF StubInv
  <1>6. W \in Nat \ {0} /\ HeaderSize \in Nat /\ M_PAGE_SIZE \in Nat \ {0}
    BY LayoutConstants
  <1>7. begin = pool + HeaderSize + b /\ begin \in Int
    <2>1. begin = pool + HeaderSize + b
      BY <1>2 DEF PoolInv
    <2>2. QED
      BY <1>4, <1>5, <1>6, <2>1
  <1>8. M_PAGE_SIZE % W = 0 /\ HeaderSize % W = 0
    BY DEF Layout!LayoutAssumption
  <1> HIDE DEF P, b, n, c, W
  <1>9. n * c \in Int
    BY <1>3, <1>4
  <1>10. begin + n * c <= pool + P
    <2> DEFINE y == n * c
    <2> HIDE DEF y
    <2>1. y \in Int /\ y + b <= P - HeaderSize
      BY <1>3, <1>9 DEF y
    <2>2. begin + y <= pool + P
      BY <1>3, <1>4, <1>5, <1>6, <1>7, <2>1
    <2>3. QED
      BY <2>2 DEF y
  <1>11. ASSUME NEW id \in 0 .. n - 1
         PROVE  /\ (begin + id * c) % W = 0
                /\ \A y \in 0 .. c - 1 : (((begin + id * c) + y) - begin) \div c = id
                /\ (begin + id * c) - ((begin + id * c) % P) = pool <=> pool % P = 0
    <2> DEFINE x == id * c
               a == begin + id * c
    <2>1. id \in Nat /\ x \in Nat
      BY <1>3, <1>4
    <2>2. x + c <= n * c
      <3>1. (id + 1) * c <= n * c
        BY <1>3, <1>4
      <3>2. (id + 1) * c = x + c
        BY <1>4, <2>1
      <3>3. QED
        BY <3>1, <3>2
    <2>3. a = begin + x /\ a \in Int
      BY <1>7, <2>1
    <2>4. a % W = 0
      <3>1. PICK p \in Int : pool = p * M_PAGE_SIZE
        <4>1. pool \div M_PAGE_SIZE \in Int /\ pool = (pool \div M_PAGE_SIZE) * M_PAGE_SIZE + (pool % M_PAGE_SIZE)
          BY <1>4, <1>6, DivMod
        <4>2. pool = (pool \div M_PAGE_SIZE) * M_PAGE_SIZE
          BY <1>4, <1>6, <4>1
        <4>3. QED
          BY <4>1, <4>2
      <3>2. M_PAGE_SIZE \in Int /\ HeaderSize \in Int
        BY <1>6
      <3>3. PICK m \in Int, h \in Int : M_PAGE_SIZE = m * W /\ HeaderSize = h * W
        BY <1>6, <1>8, <3>2, Multiple
      <3>4. PICK q \in Nat : b = q * W
        BY <1>5
      <3>5. PICK e \in Int : c = e * W
        BY <1>4, <1>6, Multiple
      <3> DEFINE t == p * m + h + q + id * e
      <3>6. t \in Int
        BY <2>1, <3>1, <3>3, <3>4, <3>5
      <3>7. pool = (p * m) * W
        BY <1>6, <3>1, <3>3
      <3>8. x = (id * e) * W
        BY <1>6, <2>1, <3>5
      <3>9. a = t * W + 0
        <4> DEFINE u == p * m
                   z == id * e
        <4>1. u \in Int /\ z \in Int /\ pool = u * W /\ x = z * W /\ t = u + h + q + z
          BY <2>1, <3>1, <3>3, <3>5, <3>7, <3>8
        <4> HIDE DEF u, z, t, x, a
        <4>2. QED
          BY <1>6, <1>7, <2>3, <3>3, <3>4, <4>1
      <3>10. 0 \in 0 .. W - 1
        BY <1>6
      <3> HIDE DEF t, a
      <3>11. QED
        BY <1>6, <2>3, <3>6, <3>9, <3>10, DivModUnique
    <2>5. ASSUME NEW y \in 0 .. c - 1 PROVE (((begin + id * c) + y) - begin) \div c = id
      <3>1. ((begin + id * c) + y) - begin = id * c + y
        <4> DEFINE r == id * c
        <4>1. r \in Int
          BY <1>4, <2>1
        <4> HIDE DEF r
        <4>2. ((begin + r) + y) - begin = r + y
          BY <1>4, <1>7, <4>1
        <4>3. QED
          BY <4>2 DEF r
      <3>2. (id * c + y) \div c = id
        <4>1. id \in Int
          BY <2>1
        <4>2. QED
          BY <1>4, <4>1, IndexIs
      <3>3. QED
        BY <3>1, <3>2
    <2>6. a - (a % P) = pool <=> pool % P = 0
      <3> DEFINE off == HeaderSize + b + x
      <3> HIDE DEF x, a
      <3>1. off \in 0 .. P - 1 /\ a = pool + off
        <4> DEFINE y == n * c
        <4>1. y \in Int /\ y + b <= P - HeaderSize /\ x + c <= y
          BY <1>3, <1>9, <2>2
        <4> HIDE DEF y
        <4>2. QED
          BY <1>3, <1>4, <1>5, <1>6, <1>7, <2>1, <2>3, <4>1
      <3> HIDE DEF off
      <3>2. ASSUME pool % P = 0 PROVE a - (a % P) = pool
        <4>1. PICK p \in Int : pool = p * P
          BY <1>3, <1>4, <3>2, Multiple
        <4>2. a = p * P + off
          BY <3>1, <4>1
        <4>3. a % P = off
          BY <1>3, <2>3, <3>1, <4>2, DivModUnique
        <4>4. QED
          BY <1>3, <1>4, <3>1, <4>3
      <3>3. ASSUME a - (a % P) = pool PROVE pool % P = 0
        <4> DEFINE q == a \div P
                   r == a % P
        <4>1. q \in Int /\ r \in 0 .. P - 1 /\ a = q * P + r
          BY <1>3, <2>3, DivMod
        <4>2. pool = a - r
          BY <3>3
        <4> HIDE DEF q, r
        <4>3. pool = q * P + 0 /\ 0 \in 0 .. P - 1
          BY <1>3, <1>4, <4>1, <4>2
        <4>4. QED
          BY <1>3, <1>4, <4>1, <4>3, DivModUnique
      <3>4. QED
        BY <3>2, <3>3
    <2>7. QED
      BY <2>4, <2>5, <2>6, Zenon DEF a
  <1>12. \A id \in 0 .. n - 1 : /\ Layout!Addr(id) % W = 0
                                /\ \A y \in 0 .. c - 1 :
                                     Layout!gc_obj_get_id(Layout!Addr(id) + y) = Layout!ToInt(id)
                                /\ Layout!gc_obj_get_pool(Layout!Addr(id)) = pool <=> pool % P = 0
    BY <1>11, Zenon DEF Layout!Addr, Layout!gc_obj_get_id, Layout!gc_obj_get_pool, P, c
  <1>13. Layout!Addr(n) <= pool + P
    BY <1>10 DEF Layout!Addr, c
  <1>14. ASSUME NEW id \in 0 .. n - 1
         PROVE  (\A y \in 0 .. c - 1 : Layout!gc_obj_get_id(Layout!Addr(id) + y) = id) <=> id < 2^(IdBits - 1)
    <2>1. id \in Nat /\ 0 \in 0 .. c - 1
      BY <1>3, <1>4
    <2>2. Layout!ToInt(id) = id <=> id < 2^(IdBits - 1)
      BY <2>1, ToIntIs
    <2>3. QED
      BY <1>12, <2>1, <2>2, Zenon
  <1>15. QED
    BY <1>3, <1>5, <1>12, <1>13, <1>14, Zenon DEF Layout!CellsFound, Layout!Ids, P, b, n, c, W

\* The marks of the cells, from the same invariant.
LEMMA MarksFound ==
  ASSUME Layout!LayoutAssumption, LayoutInv
  PROVE  Layout!MarksUnpacked
  <1>1. ASSUME pool # 0, ~wild
        PROVE  /\ \A id \in Layout!Ids : Layout!gc_obj_get_bitmap(id) = marks[id]
               /\ free_cells = {Layout!Addr(id) : id \in {i \in Layout!Listed : marks[i] = Layout!GC_MARK_UNUSED}}
    <2>1. MarksInv
      BY <1>1 DEF LayoutInv
    <2>2. \A id \in Layout!Ids : Layout!gc_obj_get_bitmap(id) = marks[id]
      BY <2>1 DEF MarksInv, MarkOf, Layout!gc_obj_get_bitmap
    <2>3. free_cells = {Layout!Addr(id) : id \in {i \in Layout!Listed : marks[i] = Layout!GC_MARK_UNUSED}}
      BY <2>1, Zenon DEF MarksInv, Layout!Addr, Layout!GC_MARK_UNUSED
    <2>4. QED
      BY <2>2, <2>3, Zenon
  <1>2. wild => gc_cell_pool_size > 2^IdBits
    BY DEF LayoutInv
  <1>3. pool # 0 /\ gc_cell_pool_size <= 2^IdBits => Layout!Listed = Layout!Ids
    BY SmallPool DEF LayoutInv, PoolInv
  <1>4. QED
    BY <1>1, <1>2, <1>3, Zenon DEF Layout!MarksUnpacked

\* The address of a cell gives its index, and no other cell has it.
LEMMA CellIndex ==
  ASSUME Layout!LayoutAssumption, StubInv, PoolInv, NEW id \in Layout!Ids
  PROVE  /\ id \in Nat /\ Layout!gc_obj_get_id(Layout!Addr(id)) = Layout!ToInt(id)
         /\ \A i \in Layout!Ids : begin + i * cell = begin + id * cell => i = id
  <1>1. cell \in Nat \ {0} /\ pool \in Nat /\ cell_num \in Nat
    BY DEF StubInv, PoolInv, Layout!LayoutAssumption
  <1>2. begin \in Int
    <2>1. bitmap_size \in Nat /\ HeaderSize \in Nat
      BY <1>1, BitmapSizeIs, LayoutConstants DEF StubInv
    <2>2. QED
      BY <1>1, <2>1 DEF PoolInv
  <1>3. \A i \in Layout!Ids : i \in Int /\ i \in Nat
    BY <1>1 DEF Layout!Ids
  <1>4. ASSUME NEW i \in Layout!Ids PROVE ((begin + i * cell) - begin) \div cell = i
    <2> DEFINE x == i * cell
    <2>1. x \in Int
      BY <1>1, <1>3
    <2> HIDE DEF x
    <2>2. (begin + x) - begin = x + 0
      BY <1>2, <2>1
    <2>3. i \in Int /\ 0 \in 0 .. cell - 1
      BY <1>1, <1>3
    <2>4. (i * cell + 0) \div cell = i
      BY <1>1, <2>3, IndexIs
    <2>5. QED
      BY <2>2, <2>4 DEF x
  <1>5. QED
    BY <1>3, <1>4, Zenon DEF Layout!gc_obj_get_id, Layout!Addr

\* A step that sets the mark of one cell, in the bitmap and in the model.
LEMMA MarkStep ==
  ASSUME Layout!LayoutAssumption, StubInv, MarksInv, NEW id \in Layout!Ids, NEW mark \in 0 .. 3,
         bitmap' = WithMark(bitmap, id, mark), marks' = [marks EXCEPT ![id] = mark],
         UNCHANGED <<gc_cell_pool_size, cell, cell_num, bitmap_size, pool, begin>>
  PROVE  /\ bitmap' \in [WordsOf(bitmap_size)' -> Int]
         /\ marks' \in [Layout!Ids' -> 0 .. 3]
         /\ \A i \in Layout!Ids' : MarkOf(bitmap', i) = marks'[i]
         /\ \A i \in Layout!Ids : marks'[i] = IF i = id THEN mark ELSE marks[i]
  <1>1. Layout!Ids' = Layout!Ids /\ WordsOf(bitmap_size)' = WordsOf(bitmap_size)
    BY DEF Layout!Ids, WordsOf
  <1>2. Layout!Ids = 0 .. cell_num - 1
    BY DEF Layout!Ids
  <1>3. /\ cell_num \in Nat /\ bitmap \in [WordsOf(Layout!BitmapSize(cell_num)) -> Int]
        /\ bitmap_size = Layout!BitmapSize(cell_num)
    BY DEF StubInv, MarksInv
  <1>4. /\ WithMark(bitmap, id, mark) \in [WordsOf(Layout!BitmapSize(cell_num)) -> Int]
        /\ \A i \in 0 .. cell_num - 1 :
             MarkOf(WithMark(bitmap, id, mark), i) = IF i = id THEN mark ELSE MarkOf(bitmap, i)
    <2>1. \A n \in Nat : \A u \in [WordsOf(Layout!BitmapSize(n)) -> Int], j \in 0 .. n - 1, m \in 0 .. 3 :
            /\ WithMark(u, j, m) \in [WordsOf(Layout!BitmapSize(n)) -> Int]
            /\ \A i \in 0 .. n - 1 : MarkOf(WithMark(u, j, m), i) = IF i = j THEN m ELSE MarkOf(u, i)
      BY WithMarkIs
    <2>2. id \in 0 .. cell_num - 1
      BY <1>2
    <2>3. QED
      BY <1>3, <2>1, <2>2
  <1>5. marks \in [Layout!Ids -> 0 .. 3] /\ \A i \in Layout!Ids : MarkOf(bitmap, i) = marks[i]
    BY DEF MarksInv
  <1>6. marks' \in [Layout!Ids -> 0 .. 3] /\ \A i \in Layout!Ids : marks'[i] = IF i = id THEN mark ELSE marks[i]
    BY <1>5
  <1>7. \A i \in Layout!Ids : MarkOf(bitmap', i) = marks'[i]
    BY <1>2, <1>4, <1>5, <1>6
  <1>8. QED
    BY <1>1, <1>3, <1>4, <1>6, <1>7

\* The largest long is a number.
LEMMA LongMaxIs ==
  ASSUME Layout!LayoutAssumption
  PROVE  Layout!LongMax \in Int
  <1> DEFINE H == 2^(LongBits - 1)
  <1>1. LongBits \in Nat \ {0} /\ Powers(2, LongBits) /\ 2 \in Nat \ {0}
    BY LayoutConstants
  <1>2. LongBits - 1 \in 0 .. LongBits
    BY <1>1
  <1>3. H \in Nat \ {0}
    BY <1>1, <1>2, PowerNat
  <1>4. Layout!LongMax = H - 1
    BY DEF Layout!LongMax
  <1> HIDE DEF H
  <1>5. QED
    BY <1>3, <1>4

\* A step that leaves a pool as it is keeps the invariant.
LEMMA LayoutStutter ==
  ASSUME LayoutInv, UNCHANGED Layout!vars
  PROVE  LayoutInv'
  <1>1. /\ gc_cell_pool_size' = gc_cell_pool_size /\ cell' = cell /\ cell_num' = cell_num
        /\ bitmap_size' = bitmap_size /\ pool' = pool /\ begin' = begin /\ bitmap' = bitmap
        /\ free_cells' = free_cells /\ marks' = marks /\ wild' = wild
    BY DEF Layout!vars, Layout!stubVars
  <1>2. Layout!Ids' = Layout!Ids /\ Layout!Listed' = Layout!Listed /\ WordsOf(bitmap_size)' = WordsOf(bitmap_size)
    BY <1>1 DEF Layout!Ids, Layout!Listed, WordsOf
  <1>3. QED
    BY <1>1, <1>2, Zenon DEF LayoutInv, StubInv, PoolInv, MarksInv

\* Every step of the pool keeps the invariant.
LEMMA LayoutStep ==
  ASSUME Layout!LayoutAssumption, LayoutInv, Layout!Next
  PROVE  LayoutInv'
  <1>1. ASSUME ~wild, NEW n \in -Layout!LongMax - 1 .. Layout!LongMax, Layout!gc_obj_startup(n) PROVE LayoutInv'
    <2>1. n \in Int
      <3>1. Layout!LongMax \in Int
        BY LongMaxIs
      <3> DEFINE L == Layout!LongMax
      <3>2. L \in Int /\ n \in -L - 1 .. L
        BY <3>1
      <3> HIDE DEF L
      <3>3. QED
        BY <3>2
    <2> DEFINE P == Layout!PoolSizeOf(n)
    <2>2. /\ gc_cell_pool_size = 0 /\ gc_cell_pool_size' = P /\ cell' \in CellSizes
          /\ cell_num' = Layout!CellNum(cell', P) /\ bitmap_size' = Layout!BitmapSize(cell_num') /\ pool' = pool
          /\ wild' = wild
      BY <1>1 DEF Layout!gc_obj_startup
    <2>3. P \in Nat \ {0} /\ P >= M_PAGE_SIZE /\ \E k \in 0 .. LongBits : P = 2^k
      BY <2>1, PoolSizeIs
    <2> HIDE DEF P
    <2>4. P \in Nat
      BY <2>3
    <2>5. /\ cell_num' \in Nat /\ cell_num' * cell' + Layout!BitmapSize(cell_num') <= P - HeaderSize
          /\ (P - HeaderSize) * 8 < 2^LongBits =>
               (cell_num' + 1) * cell' + Layout!BitmapSize(cell_num' + 1) > P - HeaderSize
      BY <2>2, <2>3, <2>4, CellNumIs
    <2>6. StubInv'
      BY <2>2, <2>3, <2>5 DEF StubInv
    <2>7. pool' = 0 /\ ~wild'
      BY <1>1, <2>2 DEF LayoutInv, PoolInv
    <2>8. QED
      BY <2>6, <2>7 DEF LayoutInv
  <1>2. ASSUME UNCHANGED Layout!stubVars PROVE (gc_cell_pool_size # 0 => StubInv)'
    BY <1>2 DEF LayoutInv, StubInv, Layout!stubVars
  <1>3. ASSUME ~wild, Layout!gc_alloc_pool PROVE LayoutInv'
    <2>1. /\ gc_cell_pool_size # 0 /\ pool' \in PoolAddrs /\ UNCHANGED Layout!stubVars
          /\ bitmap' = [w \in WordsOf(bitmap_size) |-> 0]
          /\ begin' = pool' + HeaderSize + bitmap_size
          /\ free_cells' = {begin' + id * cell : id \in Layout!Listed}
          /\ marks' = [id \in Layout!Ids |-> 0] /\ wild' = wild
      BY <1>3 DEF Layout!gc_alloc_pool, WordsOf, Layout!GC_MARK_UNUSED
    <2>2. /\ gc_cell_pool_size' = gc_cell_pool_size /\ cell' = cell /\ cell_num' = cell_num
          /\ bitmap_size' = bitmap_size
      BY <2>1 DEF Layout!stubVars
    <2>3. /\ Layout!Ids' = Layout!Ids /\ Layout!Listed' = Layout!Listed
          /\ WordsOf(bitmap_size)' = WordsOf(bitmap_size)
      BY <2>2 DEF Layout!Ids, Layout!Listed, WordsOf
    <2>4. ASSUME NEW id \in Layout!Ids PROVE MarkOf(bitmap', id) = marks'[id]
      <3>1. cell_num \in Nat /\ bitmap_size = Layout!BitmapSize(cell_num) /\ id \in 0 .. cell_num - 1
        BY <2>1 DEF LayoutInv, StubInv, Layout!Ids
      <3>2. id \div MarksPerWord \in WordsOf(bitmap_size) /\ id % MarksPerWord \in 0 .. MarksPerWord - 1
        BY <3>1, PlaceOfMark
      <3>3. MarkOf(bitmap', id) = Layout!MarkIn(0, id % MarksPerWord)
        BY <2>1, <3>2 DEF MarkOf
      <3>4. Layout!MarkIn(0, id % MarksPerWord) = 0
        BY <3>2, MarkInIs
      <3>5. QED
        BY <2>1, <3>3, <3>4
    <2>5. bitmap' \in [WordsOf(bitmap_size)' -> Int] /\ marks' \in [Layout!Ids' -> 0 .. 3]
      BY <2>1, <2>3
    <2>6. free_cells' = {begin' + id * cell' : id \in {i \in Layout!Listed' : marks'[i] = 0}}
      <3>1. Layout!Listed \subseteq Layout!Ids
        BY <2>1, ListedIs DEF LayoutInv
      <3>2. {i \in Layout!Listed' : marks'[i] = 0} = Layout!Listed
        BY <2>1, <2>3, <3>1
      <3>3. QED
        BY <2>1, <2>2, <3>2
    <2>7. PoolInv'
      BY <2>1, <2>2 DEF PoolInv
    <2>8. MarksInv'
      BY <2>1, <2>3, <2>4, <2>5, <2>6 DEF MarksInv
    <2>9. QED
      BY <1>2, <1>3, <2>1, <2>7, <2>8 DEF LayoutInv
  <1>4. ASSUME ~wild, NEW id \in DOMAIN marks, Layout!gc_alloc_obj(id) PROVE LayoutInv'
    <2> DEFINE idx == Layout!gc_obj_get_id(Layout!Addr(id))
    <2>1. /\ pool # 0 /\ begin + id * cell \in free_cells /\ free_cells' = free_cells \ {begin + id * cell}
          /\ wild' = (idx < 0)
          /\ bitmap' = IF wild' THEN bitmap ELSE Layout!gc_obj_set_bitmap(idx, 1)
          /\ marks' = [marks EXCEPT ![id] = 1]
          /\ UNCHANGED <<Layout!stubVars, pool, begin>>
      BY <1>4 DEF Layout!gc_alloc_obj, Layout!GC_MARK_WHITE, Layout!Addr
    <2>2. PoolInv /\ StubInv /\ MarksInv
      BY <1>4, <2>1 DEF LayoutInv, PoolInv
    <2>3. id \in Layout!Ids
      BY <2>2 DEF MarksInv
    <2>4. /\ id \in Nat /\ idx = Layout!ToInt(id)
          /\ \A i \in Layout!Ids : begin + i * cell = begin + id * cell => i = id
      BY <2>2, <2>3, CellIndex
    <2>5. UNCHANGED <<gc_cell_pool_size, cell, cell_num, bitmap_size, pool, begin>>
      BY <2>1 DEF Layout!stubVars
    <2>6. PoolInv'
      BY <2>2, <2>5 DEF PoolInv
    <2>7. /\ Layout!Listed \subseteq Layout!Ids /\ id \in Layout!Listed /\ id < 2^IdBits
          /\ Layout!Listed' = Layout!Listed
      <3>1. Layout!Listed \subseteq Layout!Ids /\ \A i \in Layout!Listed : i < 2^IdBits
        BY <2>2, ListedIs
      <3>2. id \in Layout!Listed
        BY <2>1, <2>2, <2>4, <3>1 DEF MarksInv
      <3>3. QED
        BY <2>5, <3>1, <3>2 DEF Layout!Listed
    <2>8. CASE idx < 0
      <3>1. wild'
        BY <2>1, <2>8
      <3>2. ~(id < 2^(IdBits - 1))
        BY <2>4, <2>8, ToIntIs
      <3>3. ~(gc_cell_pool_size <= 2^IdBits)
        <4>1. SUFFICES ASSUME gc_cell_pool_size <= 2^IdBits PROVE FALSE
          OBVIOUS
        <4> DEFINE H == 2^(IdBits - 1)
        <4>2. cell_num <= H /\ H \in Nat /\ cell_num \in Nat /\ id \in 0 .. cell_num - 1 /\ ~(id < H)
          BY <2>2, <2>3, <3>2, <4>1, SmallPool, LayoutConstants DEF StubInv, Layout!Ids
        <4> HIDE DEF H
        <4>3. QED
          BY <4>2
      <3>4. gc_cell_pool_size' > 2^IdBits
        <4> DEFINE T == 2^IdBits
                   H == 2^(IdBits - 1)
        <4>1. H \in Nat /\ T = 2 * H /\ gc_cell_pool_size \in Nat
          BY <2>2, LayoutConstants DEF StubInv
        <4> HIDE DEF H
        <4>2. T \in Nat
          BY <4>1
        <4> HIDE DEF T
        <4>3. ~(gc_cell_pool_size <= T)
          BY <3>3 DEF T
        <4>4. gc_cell_pool_size > T
          BY <4>1, <4>2, <4>3
        <4>5. QED
          BY <2>5, <4>4 DEF T
      <3>5. QED
        BY <1>2, <2>1, <2>6, <3>1, <3>4 DEF LayoutInv
    <2>9. CASE ~(idx < 0)
      <3>1. ~wild'
        BY <2>1, <2>9
      <3>2. id < 2^(IdBits - 1) /\ idx = id
        <4>1. idx \in Int
          <5> DEFINE T == 2^IdBits
                     H == 2^(IdBits - 1)
          <5>1. H \in Nat \ {0} /\ T = 2 * H
            BY LayoutConstants
          <5>2. idx = IF id % T < H THEN id % T ELSE (id % T) - T
            BY <2>4 DEF Layout!ToInt
          <5> HIDE DEF H, T, idx
          <5>3. T \in Nat \ {0}
            BY <5>1
          <5>4. id % T \in Int
            BY <2>4, <5>3
          <5>5. QED
            BY <5>2, <5>3, <5>4
        <4>2. Layout!ToInt(id) >= 0
          <5> HIDE DEF idx
          <5>1. idx >= 0
            BY <2>9, <4>1
          <5>2. QED
            BY <2>4, <5>1
        <4>3. QED
          BY <2>4, <2>7, <4>2, ToIntIs
      <3>3. bitmap' = WithMark(bitmap, id, 1)
        BY <2>1, <3>1, <3>2 DEF Layout!gc_obj_set_bitmap, WithMark
      <3>4. /\ bitmap' \in [WordsOf(bitmap_size)' -> Int]
            /\ marks' \in [Layout!Ids' -> 0 .. 3]
            /\ \A i \in Layout!Ids' : MarkOf(bitmap', i) = marks'[i]
            /\ \A i \in Layout!Ids : marks'[i] = IF i = id THEN 1 ELSE marks[i]
        <4>1. 1 \in 0 .. 3
          OBVIOUS
        <4>2. QED
          BY <2>1, <2>2, <2>3, <2>5, <3>3, <4>1, MarkStep
      <3>5. Layout!Ids' = Layout!Ids
        BY <2>5 DEF Layout!Ids
      <3>6. free_cells' = {begin' + i * cell' : i \in {k \in Layout!Listed' : marks'[k] = 0}}
        <4> DEFINE A(i) == begin + i * cell
                   Old == {k \in Layout!Listed : marks[k] = 0}
                   New == {k \in Layout!Listed : marks'[k] = 0}
        <4>1. New = Old \ {id}
          BY <2>7, <3>4
        <4>2. free_cells = {A(i) : i \in Old}
          BY <2>2 DEF MarksInv
        <4>3. \A i \in Layout!Ids : A(i) = A(id) => i = id
          BY <2>4
        <4>4. free_cells' = free_cells \ {A(id)}
          BY <2>1
        <4>5. Old \subseteq Layout!Ids
          BY <2>7
        <4> HIDE DEF A, Old, New
        <4>6. free_cells' = {A(i) : i \in New}
          BY <4>1, <4>2, <4>3, <4>4, <4>5
        <4>7. QED
          BY <2>5, <2>7, <4>6 DEF A, New
      <3>7. \A i \in Layout!Ids' : marks'[i] # 0 => i \in Layout!Listed' /\ i < 2^(IdBits - 1)
        BY <2>2, <2>7, <3>2, <3>4, <3>5 DEF MarksInv
      <3>8. MarksInv'
        BY <3>4, <3>6, <3>7 DEF MarksInv
      <3>9. QED
        BY <1>2, <2>1, <2>6, <3>1, <3>8 DEF LayoutInv
    <2>10. QED
      BY <2>8, <2>9
  <1>5. ASSUME ~wild, NEW id \in DOMAIN marks, Layout!gc_mark(id) PROVE LayoutInv'
    <2>1. /\ pool # 0 /\ marks[id] # 0 /\ free_cells' = free_cells /\ wild' = wild
          /\ bitmap' = Layout!gc_obj_set_bitmap(Layout!gc_obj_get_id(Layout!Addr(id)), 3)
          /\ marks' = [marks EXCEPT ![id] = 3]
          /\ UNCHANGED <<Layout!stubVars, pool, begin>>
      BY <1>5 DEF Layout!gc_mark, Layout!GC_MARK_BLACK, Layout!GC_MARK_UNUSED
    <2>2. PoolInv /\ StubInv /\ MarksInv
      BY <1>5, <2>1 DEF LayoutInv, PoolInv
    <2>3. id \in Layout!Ids
      BY <2>2 DEF MarksInv
    <2>4. Layout!gc_obj_get_id(Layout!Addr(id)) = id
      <3>1. id \in Nat /\ Layout!gc_obj_get_id(Layout!Addr(id)) = Layout!ToInt(id)
        BY <2>2, <2>3, CellIndex
      <3>2. id < 2^(IdBits - 1)
        BY <2>1, <2>2, <2>3 DEF MarksInv
      <3>3. QED
        BY <3>1, <3>2, ToIntIs
    <2>5. UNCHANGED <<gc_cell_pool_size, cell, cell_num, bitmap_size, pool, begin>>
      BY <2>1 DEF Layout!stubVars
    <2>6. bitmap' = WithMark(bitmap, id, 3)
      BY <2>1, <2>4 DEF Layout!gc_obj_set_bitmap, WithMark
    <2>7. /\ bitmap' \in [WordsOf(bitmap_size)' -> Int]
          /\ marks' \in [Layout!Ids' -> 0 .. 3]
          /\ \A i \in Layout!Ids' : MarkOf(bitmap', i) = marks'[i]
          /\ \A i \in Layout!Ids : marks'[i] = IF i = id THEN 3 ELSE marks[i]
      <3>1. 3 \in 0 .. 3
        OBVIOUS
      <3>2. QED
        BY <2>1, <2>2, <2>3, <2>5, <2>6, <3>1, MarkStep
    <2>8. /\ Layout!Listed \subseteq Layout!Ids /\ Layout!Listed' = Layout!Listed /\ Layout!Ids' = Layout!Ids
      BY <2>2, <2>5, ListedIs DEF Layout!Listed, Layout!Ids
    <2>9. free_cells' = {begin' + i * cell' : i \in {k \in Layout!Listed' : marks'[k] = 0}}
      <3>1. {k \in Layout!Listed' : marks'[k] = 0} = {k \in Layout!Listed : marks[k] = 0}
        BY <2>1, <2>7, <2>8
      <3>2. QED
        BY <2>1, <2>2, <2>5, <3>1 DEF MarksInv
    <2>10. \A i \in Layout!Ids' : marks'[i] # 0 => i \in Layout!Listed' /\ i < 2^(IdBits - 1)
      BY <2>1, <2>2, <2>3, <2>7, <2>8 DEF MarksInv
    <2>11. PoolInv' /\ MarksInv'
      BY <2>2, <2>5, <2>7, <2>9, <2>10 DEF PoolInv, MarksInv
    <2>12. QED
      BY <1>2, <1>5, <2>1, <2>11 DEF LayoutInv
  <1>6. ASSUME ~wild, Layout!gc_sweep_pool PROVE LayoutInv'
    <2>1. /\ pool # 0 /\ UNCHANGED Layout!stubVars
          /\ wild' = (\E id \in Layout!SweptIds : Layout!SweptAddr(id) # Layout!Addr(id))
      BY <1>6 DEF Layout!gc_sweep_pool
    <2>2. PoolInv /\ StubInv /\ MarksInv
      BY <1>6, <2>1 DEF LayoutInv, PoolInv
    <2>3. /\ gc_cell_pool_size' = gc_cell_pool_size /\ cell' = cell /\ cell_num' = cell_num
          /\ bitmap_size' = bitmap_size
      BY <2>1 DEF Layout!stubVars
    <2>4. \A id \in Layout!Ids : /\ id \div MarksPerWord \in WordsOf(bitmap_size)
                                 /\ id % MarksPerWord \in 0 .. MarksPerWord - 1
                                 /\ id = (id \div MarksPerWord) * MarksPerWord + (id % MarksPerWord)
      <3>1. cell_num \in Nat /\ bitmap_size = Layout!BitmapSize(cell_num) /\ Layout!Ids = 0 .. cell_num - 1
        BY <2>2 DEF StubInv, Layout!Ids
      <3>2. QED
        BY <3>1, PlaceOfMark
    <2>5. wild' => gc_cell_pool_size' > 2^IdBits
      <3>1. ASSUME gc_cell_pool_size <= 2^IdBits, NEW id \in Layout!Ids
            PROVE  Layout!SweptAddr(id) = Layout!Addr(id)
        <4> DEFINE p == (id \div MarksPerWord) * MarksPerWord
                   k == id % MarksPerWord
        <4>1. MarksPerWord \in Nat /\ cell_num \in Nat /\ id \in 0 .. cell_num - 1 /\ WordsOf(bitmap_size) \subseteq Nat
          BY <2>2, LayoutConstants DEF StubInv, Layout!Ids, WordsOf
        <4>2. id = p + k /\ k \in Nat /\ p \in Nat
          BY <2>4, <4>1
        <4>3. Layout!SweptAddr(id) = begin + ((p * cell) % 2^IdBits) + k * cell
          BY Zenon DEF Layout!SweptAddr
        <4> HIDE DEF p, k
        <4>4. p < cell_num
          BY <4>1, <4>2
        <4>5. (p * cell) % 2^IdBits = p * cell
          BY <2>2, <3>1, <4>2, <4>4, SmallPool
        <4>6. cell \in Nat /\ begin \in Int
          <5>1. cell \in Nat /\ pool \in Nat /\ HeaderSize \in Nat /\ bitmap_size \in Nat
            BY <2>2, <4>1, BitmapSizeIs, LayoutConstants DEF StubInv, PoolInv, Layout!LayoutAssumption
          <5>2. QED
            BY <2>2, <5>1 DEF PoolInv
        <4>7. (p + k) * cell = p * cell + k * cell
          BY <4>2, <4>6
        <4> DEFINE y == p * cell
                   z == k * cell
        <4>8. y \in Int /\ z \in Int /\ id * cell = y + z
          BY <4>2, <4>6, <4>7
        <4>9. Layout!SweptAddr(id) = begin + y + z
          BY <4>3, <4>5
        <4> HIDE DEF y, z
        <4>10. begin + y + z = begin + (y + z)
          BY <4>6, <4>8
        <4>11. QED
          BY <4>8, <4>9, <4>10 DEF Layout!Addr
      <3>2. Layout!SweptIds \subseteq Layout!Ids
        BY DEF Layout!SweptIds
      <3>3. wild' => ~(gc_cell_pool_size <= 2^IdBits)
        BY <2>1, <3>1, <3>2
      <3> DEFINE T == 2^IdBits
                 H == 2^(IdBits - 1)
      <3>4. H \in Nat /\ T = 2 * H /\ gc_cell_pool_size \in Nat
        BY <2>2, LayoutConstants DEF StubInv
      <3> HIDE DEF H
      <3>5. T \in Nat
        BY <3>4
      <3>6. wild' => ~(gc_cell_pool_size <= T)
        BY <3>3
      <3> HIDE DEF T
      <3>7. wild' => gc_cell_pool_size > T
        BY <3>4, <3>5, <3>6
      <3>8. QED
        BY <2>3, <3>7 DEF T
    <2>6. CASE ~Layout!HaveBlack
      <3>1. pool' = 0
        BY <1>6, <2>6 DEF Layout!gc_sweep_pool
      <3>2. QED
        BY <1>2, <2>1, <2>5, <3>1 DEF LayoutInv
    <2>7. CASE Layout!HaveBlack
      <3>1. /\ bitmap' = [n \in DOMAIN bitmap |-> Layout!SweptWord(bitmap[n])]
            /\ free_cells' = free_cells \cup {Layout!SweptAddr(id) : id \in Layout!SweptIds}
            /\ marks' = [id \in Layout!Ids |-> Layout!SweptMark(marks[id])]
            /\ pool' = pool /\ begin' = begin
        BY <1>6, <2>7 DEF Layout!gc_sweep_pool
      <3>2. PoolInv'
        BY <2>2, <2>3, <3>1 DEF PoolInv
      <3>3. CASE wild'
        BY <1>2, <2>1, <2>5, <3>2, <3>3 DEF LayoutInv
      <3>4. CASE ~wild'
        <4>1. \A id \in Layout!SweptIds : Layout!SweptAddr(id) = Layout!Addr(id)
          BY <2>1, <3>4
        <4>2. /\ Layout!Ids' = Layout!Ids /\ Layout!Listed' = Layout!Listed
              /\ WordsOf(bitmap_size)' = WordsOf(bitmap_size) /\ Layout!Listed \subseteq Layout!Ids
          BY <2>2, <2>3, ListedIs DEF Layout!Ids, Layout!Listed, WordsOf
        <4>3. /\ bitmap \in [WordsOf(bitmap_size) -> Int] /\ marks \in [Layout!Ids -> 0 .. 3]
              /\ \A id \in Layout!Ids : MarkOf(bitmap, id) = marks[id]
          BY <2>2 DEF MarksInv
        <4>4. \A m \in 0 .. 3 : Layout!SweptMark(m) \in 0 .. 3 /\ (Layout!SweptMark(m) = 0 <=> m \in {0, 1})
          BY DEF Layout!SweptMark, Layout!GC_MARK_WHITE, Layout!GC_MARK_BLACK, Layout!GC_MARK_UNUSED
        <4>5. bitmap' \in [WordsOf(bitmap_size) -> Int]
          BY <3>1, <4>3, SweptWordIs
        <4>6. marks' \in [Layout!Ids -> 0 .. 3]
          BY <3>1, <4>3, <4>4
        <4>7. ASSUME NEW id \in Layout!Ids PROVE MarkOf(bitmap', id) = marks'[id]
          <5> DEFINE p == id \div MarksPerWord
                     k == id % MarksPerWord
          <5>1. p \in WordsOf(bitmap_size) /\ k \in 0 .. MarksPerWord - 1
            BY <2>4
          <5>2. bitmap'[p] = Layout!SweptWord(bitmap[p]) /\ bitmap[p] \in Int
            BY <3>1, <4>3, <5>1
          <5>3. MarkOf(bitmap', id) = Layout!MarkIn(bitmap'[p], k) /\ MarkOf(bitmap, id) = Layout!MarkIn(bitmap[p], k)
            BY DEF MarkOf
          <5> HIDE DEF p, k
          <5>4. Layout!MarkIn(Layout!SweptWord(bitmap[p]), k) = Layout!SweptMark(Layout!MarkIn(bitmap[p], k))
            BY <5>1, <5>2, SweptWordIs
          <5>5. QED
            BY <3>1, <4>3, <5>2, <5>3, <5>4
        <4>8. Layout!SweptIds = {k \in Layout!Ids : marks[k] = 1}
          <5>1. Layout!SweptIds = {i \in Layout!Ids :
                                     /\ i % MarksPerWord \in Layout!SweptIn(bitmap[i \div MarksPerWord])
                                     /\ MarkOf(bitmap, i) = 1}
            BY Zenon DEF Layout!SweptIds, Layout!gc_obj_get_bitmap, MarkOf, Layout!GC_MARK_WHITE
          <5>2. ASSUME NEW i \in Layout!Ids, marks[i] = 1
                PROVE  i % MarksPerWord \in Layout!SweptIn(bitmap[i \div MarksPerWord])
            <6> DEFINE p == i \div MarksPerWord
                       k == i % MarksPerWord
            <6>1. bitmap[p] \in Int /\ k \in 0 .. MarksPerWord - 1
              BY <2>4, <4>3
            <6>2. Layout!MarkIn(bitmap[p], k) = 1
              BY <4>3, <5>2 DEF MarkOf
            <6> HIDE DEF p, k
            <6>3. k \in Layout!SweptIn(bitmap[p])
              BY <6>1, <6>2, NotSwept
            <6>4. QED
              BY <6>3 DEF p, k
          <5>3. QED
            BY <4>3, <5>1, <5>2
        <4>9. \A i \in Layout!Ids : marks[i] # 0 => i \in Layout!Listed /\ i < 2^(IdBits - 1)
          BY <2>2 DEF MarksInv
        <4>10. free_cells' = {begin' + i * cell' : i \in {k \in Layout!Listed' : marks'[k] = 0}}
          <5> DEFINE A(i) == begin + i * cell
                     Old == {k \in Layout!Listed : marks[k] = 0}
                     White == {k \in Layout!Ids : marks[k] = 1}
                     New == {k \in Layout!Listed : marks'[k] = 0}
          <5>1. New = Old \cup White
            BY <3>1, <4>2, <4>3, <4>4, <4>9
          <5>2. free_cells = {A(i) : i \in Old}
            BY <2>2 DEF MarksInv
          <5>3. free_cells' = free_cells \cup {A(i) : i \in White}
            <6>1. \A i \in White : Layout!SweptAddr(i) = A(i)
              BY <4>1, <4>8 DEF Layout!Addr
            <6>2. Layout!SweptIds = White
              BY <4>8
            <6> HIDE DEF A, White
            <6>3. QED
              BY <3>1, <6>1, <6>2
          <5> HIDE DEF A, Old, White, New
          <5>4. free_cells' = {A(i) : i \in New}
            BY <5>1, <5>2, <5>3
          <5>5. QED
            BY <2>3, <3>1, <4>2, <5>4 DEF A, New
        <4>11. \A i \in Layout!Ids' : marks'[i] # 0 => i \in Layout!Listed' /\ i < 2^(IdBits - 1)
          BY <3>1, <4>2, <4>3, <4>4, <4>9
        <4>12. MarksInv'
          BY <4>2, <4>5, <4>6, <4>7, <4>10, <4>11 DEF MarksInv
        <4>13. QED
          BY <1>2, <2>1, <2>5, <3>2, <4>12 DEF LayoutInv
      <3>5. QED
        BY <3>3, <3>4
    <2>8. QED
      BY <2>6, <2>7
  <1>7. ASSUME UNCHANGED Layout!vars PROVE LayoutInv'
    BY <1>7, LayoutStutter
  <1>8. QED
    BY <1>1, <1>3, <1>4, <1>5, <1>6, <1>7, Zenon DEF Layout!Next

\* Init and steps that leave the pool alone.
LEMMA LayoutAlways ==
  ASSUME Layout!LayoutAssumption
  PROVE  Layout!Spec => []LayoutInv
  <1>1. Layout!Init => LayoutInv
    BY DEF Layout!Init, LayoutInv
  <1>2. ASSUME LayoutInv, Layout!Next PROVE LayoutInv'
    BY <1>2, LayoutStep
  <1>3. ASSUME LayoutInv, UNCHANGED Layout!vars PROVE LayoutInv'
    BY <1>3, LayoutStutter
  <1>4. QED
    BY <1>1, <1>2, <1>3, PTL DEF Layout!Spec

\* Whatever M_GC_CELL_POOL_SIZE says, header, bitmap and cells share a pool
\* without overlap, and without room for one more where size_t holds the bits of
\* the pool; the address of a cell gives its index exactly when this is an int,
\* which it is in pools of at most 2^IdBits bytes, and its pool exactly when the
\* pool lies at a multiple of its size; for every page, header, word and cell
\* size, and every width of size_t and int.
THEOREM PoolsLaidOut ==
  ASSUME Layout!LayoutAssumption
  PROVE  Layout!Spec => []CellsFound
  <1>1. LayoutInv => CellsFound
    BY LayoutFound DEF CellsFound
  <1>2. QED
    BY <1>1, LayoutAlways, PTL

\* The packed bitmap is the function from cells to marks that GcObj works with,
\* and the free list holds the unused cells, through any sequence of
\* allocations, marks and sweeps, as long as nothing is written where it was not
\* meant, and in pools of at most 2^IdBits bytes nothing ever is; for every
\* number of marks in a word.
THEOREM MarksPacked ==
  ASSUME Layout!LayoutAssumption
  PROVE  Layout!Spec => []MarksUnpacked
  <1>1. LayoutInv => MarksUnpacked
    BY MarksFound DEF MarksUnpacked
  <1>2. QED
    BY <1>1, LayoutAlways, PTL
=============================================================================
