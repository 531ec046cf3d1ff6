--------------------------- MODULE MCGnomeBackend ---------------------------
(* Apps of two sizes, on displays of two rates.                              *)
EXTENDS GnomeBackend

CONSTANTS small, large, r60, r120

MCScreens == {[size |-> small, rate |-> r60], [size |-> large, rate |-> r120]}
=============================================================================
