--------------------------- MODULE MCResourceClaim ---------------------------
(* ResourceClaim for TLC: two hardware ports and a PIO port on a pool that is   *)
(* just enough for them, as that of an RP2040 is.  Channels are              *)
(* interchangeable.                                                          *)
EXTENDS ResourceClaim, TLC

CONSTANTS h1, h2, p1, c1, c2, c3, c4, c5, c6, s1, s2

MCTxSm     == p1 :> s1
MCRxSm     == p1 :> s2
MCSymmetry == Permutations(Channels)
=============================================================================
