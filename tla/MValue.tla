------------------------------- MODULE MValue -------------------------------
(***************************************************************************)
(* The value encoding of include/m_value.h for 64 bit builds, with scaled  *)
(* widths: a word of WordBits bits whose low 3 bits are the type, an int   *)
(* of IntBits bits.  Values that refer to an object point to a heap cell,  *)
(* whose content carries the kind of pointer in its low 2 bits.            *)
(*                                                                         *)
(* A state is a value that some m_value_from_ function has just made.      *)
(***************************************************************************)
EXTENDS Integers

CONSTANTS
  WordBits,   \* 64 in the code
  IntBits,    \* 32 in the code
  Cells,      \* addresses m_gc_alloc_obj may return, aligned to 8
  Things,     \* addresses of strings, objects, closures and arrays, and NULL (0)
  Doubles     \* numbers: [twice |-> twice the number, bits |-> its representation]

ValueAssumption ==
  /\ IntBits \in Nat /\ IntBits > 4 /\ WordBits \in Nat /\ WordBits >= IntBits + 3
  /\ \A k \in 1 .. WordBits : 2^(k - 1) \in Nat \ {0} /\ 2^k = 2 * 2^(k - 1)
  /\ \A a \in Cells \cup Things : a \in 0 .. 2^WordBits - 1 /\ a % 8 = 0
  /\ 0 \notin Cells
  /\ \A d \in Doubles : d.twice \in Int /\ d.bits \in 0 .. 2^WordBits - 1

VARIABLES
  v,       \* the value
  mem,     \* content of the cells
  made     \* what it was made from: [from, arg], from = "none" before

vars == <<v, mem, made>>

Int32 == -(2^(IntBits - 1)) .. 2^(IntBits - 1) - 1
Word(x) == x % 2^WordBits

TypeOf(x) == x % 8
Untagged(x) == x - (x % 8)
PtrTypeOf(x) == mem[x] % 4

M_VALUE_TRUE  == 12
M_VALUE_FALSE == 4
-----------------------------------------------------------------------------
m_value_is_bool == v \in {M_VALUE_TRUE, M_VALUE_FALSE}
m_value_is_int == TypeOf(v) = 3
m_value_is_double == TypeOf(v) = 1
m_value_is_number == m_value_is_int \/ m_value_is_double
m_value_is_string == TypeOf(v) = 2
m_value_is_null == v = 0 \/ (TypeOf(v) = 0 /\ mem[v] = 0)
m_value_is_ptr == v # 0 /\ TypeOf(v) = 0 /\ mem[v] # 0
m_value_is_object == m_value_is_ptr /\ PtrTypeOf(v) = 0
m_value_is_closure == m_value_is_ptr /\ PtrTypeOf(v) = 1
m_value_is_array == m_value_is_ptr /\ PtrTypeOf(v) = 2

\* The kinds whose test the value passes.
Kinds ==
  {k \in {"bool", "int", "double", "string", "null", "object", "closure", "array"} :
     \/ k = "bool" /\ m_value_is_bool
     \/ k = "int" /\ m_value_is_int
     \/ k = "double" /\ m_value_is_double
     \/ k = "string" /\ m_value_is_string
     \/ k = "null" /\ m_value_is_null
     \/ k = "object" /\ m_value_is_object
     \/ k = "closure" /\ m_value_is_closure
     \/ k = "array" /\ m_value_is_array}

m_value_get_bool == v = M_VALUE_TRUE

\* ((int32_t)v) >> M_VALUE_TYPE_SHIFT: the cast comes first.
m_value_get_int ==
  LET low    == v % 2^IntBits
      signed == IF low >= 2^(IntBits - 1) THEN low - 2^IntBits ELSE low
  IN  signed \div 8

\* A number of the code's type double: an int that was converted, or the one
\* that the bits of a cell represent.
Converted(i) == [from |-> "int", number |-> i]
Stored(bits) == [from |-> "bits", number |-> bits]

m_value_get_double == Stored(mem[Untagged(v)])
m_value_get_number ==
  IF m_value_is_int THEN Converted(m_value_get_int) ELSE m_value_get_double

m_value_get_string == Untagged(v)
m_value_get_ptr == mem[v] - (mem[v] % 4)
-----------------------------------------------------------------------------
Make(from, arg, word) == made' = [from |-> from, arg |-> arg] /\ v' = word

m_value_from_bool(b) ==
  /\ Make("bool", b, IF b THEN M_VALUE_TRUE ELSE M_VALUE_FALSE)
  /\ UNCHANGED mem

\* (((M_Value)i) << M_VALUE_TYPE_SHIFT) | M_VALUE_TYPE_INT, i sign extended.
IntWord(i) == Word(Word(i) * 8) + 3

m_value_from_int(i) ==
  /\ Make("int", i, IntWord(i))
  /\ UNCHANGED mem

\* A cell of type M_GC_OBJ_DOUBLE, whose address is returned without a tag.
m_value_from_double(d, from) ==
  \E a \in Cells :
    /\ mem' = [mem EXCEPT ![a] = d.bits]
    /\ Make(from, d, a)

\* (double)(int)d == d; a number outside the range of int converts to some int,
\* which is another number.
IsInt(d) == d.twice % 2 = 0 /\ d.twice \div 2 \in Int32

m_value_from_number(d) ==
  IF IsInt(d)
    THEN Make("number", d, IntWord(d.twice \div 2)) /\ UNCHANGED mem
    ELSE m_value_from_double(d, "number")

m_value_from_string(s) ==
  /\ Make("string", s, s + 2)
  /\ UNCHANGED mem

\* Mutant: the kind of the pointer is not stored.
PtrTagNone(from) == 0

PtrTag(from) == CASE from = "object" -> 0 [] from = "closure" -> 1 [] from = "array" -> 2

\* m_value_from_object, m_value_from_closure and m_value_from_array: a cell of
\* type M_GC_OBJ_PTR with the tagged pointer, its address the value.
m_value_from_object(from, p) ==
  \E a \in Cells :
    /\ mem' = [mem EXCEPT ![a] = p + PtrTag(from)]
    /\ Make(from, p, a)

Nothing == [from |-> "none", arg |-> 0]

\* The value is dropped, the cell is free again.
drop ==
  /\ made.from # "none"
  /\ made' = Nothing /\ v' = 0 /\ mem' = [a \in Cells |-> 0]

Init == v = 0 /\ mem = [a \in Cells |-> 0] /\ made = Nothing

Next ==
  \/ /\ made.from = "none"
     /\ \/ \E b \in BOOLEAN : m_value_from_bool(b)
        \/ \E i \in Int32 : m_value_from_int(i)
        \/ \E d \in Doubles : m_value_from_number(d) \/ m_value_from_double(d, "double")
        \/ \E s \in Things : m_value_from_string(s)
        \/ \E from \in {"object", "closure", "array"}, p \in Things : m_value_from_object(from, p)
  \/ drop

Spec == Init /\ [][Next]_vars
-----------------------------------------------------------------------------
\* Integers that m_value_get_int returns as they were: 3 bits less than an int.
Kept(i) == -(2^(IntBits - 4)) <= i /\ i < 2^(IntBits - 4)

DecodesInt(i) ==
  /\ Kinds = {"int"}
  /\ m_value_get_int = i <=> Kept(i)
  /\ m_value_get_number = Converted(i) <=> Kept(i)

\* A value passes the test of the kind it was made as and of no other kind, and
\* its getter returns what it was made from: booleans, strings and pointers
\* always (a value made from a NULL object is null), integers, also those given
\* as a number, exactly when they fit in three bits less than an int.  A value
\* made from any other number is no number, as it has no tag, and its kind
\* depends on the bits of the number; m_value_get_number, whose assertion it
\* fails, would still find them.
DecodesAsMade ==
  /\ made.from = "bool" => Kinds = {"bool"} /\ m_value_get_bool = made.arg
  /\ made.from = "int" => DecodesInt(made.arg)
  /\ made.from = "string" => Kinds = {"string"} /\ m_value_get_string = made.arg
  /\ made.from \in {"object", "closure", "array"} =>
       IF made.from = "object" /\ made.arg = 0
         THEN Kinds = {"null"}
         ELSE Kinds = {made.from} /\ m_value_get_ptr = made.arg
  /\ made.from \in {"number", "double"} =>
       IF made.from = "number" /\ made.arg.twice \in {2 * i : i \in Int32}
         THEN DecodesInt(made.arg.twice \div 2)
         ELSE ~m_value_is_number /\ m_value_get_number = Stored(made.arg.bits)
=============================================================================
