----------------------------- MODULE MCWs2812 ------------------------------
(* Unsigned ints of 10 bits, and counts at the ends of the ring, negative, *)
(* and large enough to overflow.                                           *)
EXTENDS Ws2812

MCCounts == {-1, 0, 1, 16, 43, 511}
AnyStatus == {FRAME_BYTES, 0, -5}   \* sent, nothing sent, -EIO
=============================================================================
