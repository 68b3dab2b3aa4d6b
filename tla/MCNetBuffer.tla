----------------------------- MODULE MCNetBuffer -----------------------------
(* Values for TLC: five bytes, each other than 0 once, 0 the line feed anywhere. *)
EXTENDS NetBuffer

MCStreams == {[i \in 1..5 |-> IF i \in ends THEN 0 ELSE i] : ends \in SUBSET (1..5)}
=============================================================================
