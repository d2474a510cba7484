------------------------------ MODULE MCArith ------------------------------
(***************************************************************************)
(* The parts of the code that are arithmetic on words, sizes and addresses,*)
(* each with its client, on scaled widths.  They share no state, so a      *)
(* behaviour exercises one of them, chosen at the start.                   *)
(*                                                                         *)
(* Values: words of 16 bits, ints of 8.  Comparison: keys of 6 bits, ints  *)
(* of 3.  Pools: pages of 16 bytes, a header of 8, words of 2, long of 10  *)
(* bits and int of 5, so that pools of 1 to 32 pages occur: up to 2 pages  *)
(* every number fits, with 4 the offset of a cell and its index do not fit *)
(* into an int, with 8 their number neither, with 16 and 32 the bits of a  *)
(* pool do not fit into size_t; one of the two pool addresses is a         *)
(* multiple of every pool size, the other of the page only.                *)
(* Mapping: 4 system pages to a page, room for the largest request.        *)
(* Buffers: size_t of 6 bits, uint32_t of 4.                               *)
(***************************************************************************)
EXTENDS Arith

VARIABLE which

valueVars  == <<v, mem, made>>
cmpVars    == <<key1, key2, func, order>>
layoutVars == <<gc_cell_pool_size, cell, cell_num, bitmap_size, pool, begin, bitmap, free_cells, marks, wild>>
mapVars    == <<pc, m_size, pu8, ours, others, mapped, moved, stray>>
bufVars    == <<block, b_size, lost>>
mcVars     == <<which, valueVars, cmpVars, layoutVars, mapVars, bufVars>>

\* Halves, integers inside and outside int, and zero.
MCDoubles ==
  {[twice |-> n, bits |-> (n * 7) % 256] : n \in {-300, -257, -256, -255, -31, -1, 0, 1, 2, 33, 254, 255, 256}}

MCText  == <<0, 1, 1, 2, 3>>
MCSpace == 4 .. 15
MCNoBlock == -1

ASSUME Value!ValueAssumption
ASSUME Compare!CmpAssumption
ASSUME Layout!LayoutAssumption
ASSUME Map!MapAssumption
ASSUME Buf!BufAssumption

MCInit ==
  /\ which \in {"value", "compare", "layout", "map", "buf"}
  /\ Value!Init /\ Compare!Init /\ Layout!Init /\ Map!Init /\ Buf!Init

MCNext ==
  /\ UNCHANGED which
  /\ \/ /\ which = "value" /\ Value!Next
        /\ UNCHANGED <<cmpVars, layoutVars, mapVars, bufVars>>
     \/ /\ which = "compare" /\ Compare!Next
        /\ UNCHANGED <<valueVars, layoutVars, mapVars, bufVars>>
     \/ /\ which = "layout" /\ Layout!Next
        /\ UNCHANGED <<valueVars, cmpVars, mapVars, bufVars>>
     \/ /\ which = "map" /\ Map!Next
        /\ UNCHANGED <<valueVars, cmpVars, layoutVars, bufVars>>
     \/ /\ which = "buf" /\ Buf!Next
        /\ UNCHANGED <<valueVars, cmpVars, layoutVars, mapVars>>

MCSpec == MCInit /\ [][MCNext]_mcVars
=============================================================================
