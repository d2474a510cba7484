------------------------------ MODULE MCThread ------------------------------
(* Model values for the stop-the-world protocol. *)
EXTENDS MThread, TLC

CONSTANTS t1, t2

Threads3 == {Main, t1, t2}
Exiting  == {t1, t2}
OneExits == {t1}

\* The main thread is named in Init; the others are interchangeable.
Symmetry == Permutations({t1, t2})
=============================================================================
