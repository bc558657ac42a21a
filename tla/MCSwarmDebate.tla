--------------------------- MODULE MCSwarmDebate ---------------------------
(* A small instance of SwarmDebate.                                        *)
EXTENDS SwarmDebate, TLC

CONSTANTS s1, s2, p1, p2, r1, r2
=============================================================================
