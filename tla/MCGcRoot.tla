------------------------------ MODULE MCGcRoot ------------------------------
(* Two objects and five nodes at addresses that fall on different lists. *)
EXTENDS GcRoot

Objects == {16, 21}
Addrs   == {32, 33, 34, 35, 36}
=============================================================================
