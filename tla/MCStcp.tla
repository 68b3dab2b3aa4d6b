------------------------------- MODULE MCStcp -------------------------------
(* Values for model-checking Stcp. *)
EXTENDS Stcp

\* A FIN|ACK that the receiver of an earlier connection still resends: sender
\* and receiver use the same pair of ports on every run.
OldPackets == {[type |-> "FINACK", ackNo |-> 9, win |-> 2]}
=============================================================================
