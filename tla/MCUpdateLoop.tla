---------------------------- MODULE MCUpdateLoop ----------------------------
(* UpdateLoop on small instances: screens of one or two tiles. *)
EXTENDS UpdateLoop

CONSTANTS c1, c2

OneClient == {c1}
TwoClients == {c1, c2}
OnePixel == {0}
TwoPixels == {0, 1}
SmallScreen == {<<0>>}
LargeScreen == {<<0, 0>>}
BothScreens == SmallScreen \union LargeScreen
=============================================================================
