------------------------------ MODULE MCRGBLed ------------------------------
(* A small instance of RGBLed: two colours, the default pins and another   *)
(* choice, the lowest valid intensity and the lowest invalid one.          *)
EXTENDS RGBLed

MCColors == {0, 5}
MCIntensities == {0, 101}
=============================================================================
