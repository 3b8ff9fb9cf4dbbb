------------------------- MODULE MCReliableChannel ---------------------------
(* Three packets, one of them larger than any threshold.                    *)
EXTENDS ReliableChannel

CONSTANTS c1, c2, c3
MCSize == [c \in Call |-> IF c = c3 THEN 2 ELSE 1]
=============================================================================
