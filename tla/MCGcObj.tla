------------------------------ MODULE MCGcObj ------------------------------
(* Small heaps for the object collector. *)
EXTENDS GcObj, TLC

CONSTANTS t1, t2, p1, p2, c1, c2, double, string

Threads == {t1, t2}
OneThread == {t1}
Pools   == {p1, p2}
Cells   == {c1, c2}
Types   == {double, string}
Sizes   == double :> 1 @@ string :> 2
Strings == {string}
Doubles == {double}

\* Threads, pool addresses and cells are interchangeable.
Symmetry == Permutations(Threads) \cup Permutations(Pools) \cup Permutations(Cells)
=============================================================================
