--------------------------- MODULE MCHydraEngine ---------------------------
(* Instances of HydraEngine for TLC: keys and values of one and two bytes. *)
EXTENDS HydraEngine

MCKeys == {<<1>>, <<1, 2>>}
MCValues == {<<2>>, <<1, 0>>}
=============================================================================
