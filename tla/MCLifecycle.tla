---------------------------- MODULE MCLifecycle ----------------------------
(* Two application threads and two actors. *)
EXTENDS Lifecycle

CONSTANTS w1, w2, a1, a2

Workers == {w1, w2}
Actors  == {a1, a2}
OnlyMain == {Main}
TwoCreate == {Main, w1}
=============================================================================
