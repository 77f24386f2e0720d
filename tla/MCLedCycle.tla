----------------------------- MODULE MCLedCycle -----------------------------
(* Small instances of LedCycle: duty cycles near both bounds and one in    *)
(* between that is no multiple of ten.                                     *)
EXTENDS LedCycle

MCDutyCycles == {0, 45, 95}
=============================================================================
