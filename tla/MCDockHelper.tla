---------------------------- MODULE MCDockHelper ----------------------------
(* A small instance of DockHelper for TLC: the screens are alike.          *)
EXTENDS DockHelper, TLC
Symmetry == Permutations(Screen)
=============================================================================
