-------------------------------- MODULE MCmp --------------------------------
(***************************************************************************)
(* The comparison functions of include/m_cmp.h, with scaled widths: a key  *)
(* that is an integer or a pointer has SizeBits bits, the result is an int *)
(* of IntBits bits.  A key that is a string is an address, 0 for NULL, of  *)
(* a text in Text; strcmp compares the texts, strcasecmp what Fold makes   *)
(* of them.                                                                *)
(***************************************************************************)
EXTENDS Integers, Sequences

CONSTANTS
  SizeBits,   \* 64 in the code
  IntBits,    \* 32 in the code
  Text        \* the texts at the addresses 1, 2, ..., as their rank

CmpAssumption ==
  /\ IntBits \in Nat \ {0} /\ SizeBits \in Nat /\ IntBits <= SizeBits
  /\ Text \in Seq(Nat)
  /\ \A k \in 1 .. SizeBits : 2^(k - 1) \in Nat \ {0} /\ 2^k = 2 * 2^(k - 1)

VARIABLES key1, key2, func, result

vars == <<key1, key2, func, result>>

Key(f) == IF f = "size" THEN 0 .. 2^SizeBits - 1 ELSE 0 .. Len(Text)
Fold(t) == t \div 2
Sign(n) == IF n < 0 THEN -1 ELSE IF n > 0 THEN 1 ELSE 0

\* Mutant: the difference is not cut to an int but taken as unsigned.
ToIntUnsigned(n) == n % 2^IntBits

\* The conversion of a size_t to int keeps the low bits, with a sign.
ToInt(n) ==
  LET low == n % 2^IntBits
  IN  IF low >= 2^(IntBits - 1) THEN low - 2^IntBits ELSE low

\* m_int_cmp_func and m_ptr_cmp_func: the unsigned difference, as an int.
m_int_cmp_func(k1, k2) == ToInt((k1 - k2) % 2^SizeBits)

StrCmp(fold, k1, k2) ==
  IF fold THEN Sign(Fold(Text[k1]) - Fold(Text[k2])) ELSE Sign(Text[k1] - Text[k2])

\* m_cstr_cmp_func, and m_cstr_casecmp_func when fold.
m_cstr_cmp_func(fold, k1, k2) ==
  IF k1 = k2 THEN 0
  ELSE IF k1 = 0 THEN -1
  ELSE IF k2 = 0 THEN 1
  ELSE StrCmp(fold, k1, k2)

Cmp(f, k1, k2) == IF f = "size" THEN m_int_cmp_func(k1, k2) ELSE m_cstr_cmp_func(f = "fold", k1, k2)

compare(f, k1, k2) ==
  /\ func = "none"
  /\ func' = f /\ key1' = k1 /\ key2' = k2
  /\ result' = Cmp(f, k1, k2)

return ==
  /\ func # "none"
  /\ func' = "none" /\ key1' = 0 /\ key2' = 0 /\ result' = 0

Init == func = "none" /\ key1 = 0 /\ key2 = 0 /\ result = 0

Next == return \/ \E f \in {"size", "text", "fold"} : \E k1, k2 \in Key(f) : compare(f, k1, k2)

Spec == Init /\ [][Next]_vars
-----------------------------------------------------------------------------
\* How far apart two keys may be for the sign to be right.
Near(k1, k2) == -(2^(IntBits - 1)) <= k1 - k2 /\ k1 - k2 < 2^(IntBits - 1)

\* What a tree or a hash table needs of its comparison.  For strings, NULL
\* included, it is a weak order.  For integers and pointers it orders any keys
\* that lie within half of the range of int of each other; beyond that the sign
\* may be wrong, and keys whose difference is a multiple of 2^IntBits are
\* taken for the same key.
CmpIsOrder ==
  /\ func = "size" =>
       /\ Near(key1, key2) => Sign(result) = Sign(key1 - key2)
       /\ result = 0 <=> (key1 - key2) % 2^IntBits = 0
  /\ func \in {"text", "fold"} =>
       /\ Sign(result) = - Sign(Cmp(func, key2, key1))
       /\ (result = 0 /\ key1 # key2) => key1 # 0 /\ key2 # 0
       /\ \A k \in Key(func) : (result <= 0 /\ Cmp(func, key2, k) <= 0) => Cmp(func, key1, k) <= 0
=============================================================================
