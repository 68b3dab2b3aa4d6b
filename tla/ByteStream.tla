----------------------------- MODULE ByteStream -----------------------------
(***************************************************************************)
(* What a user of stcp_send (assignment 4) is promised: the bytes handed   *)
(* to successful calls come out at the far end in order, without gaps,     *)
(* repetitions or substitutions.  How many bytes are still on the way is   *)
(* left open.                                                              *)
(***************************************************************************)
EXTENDS Naturals, Sequences

VARIABLES
    accepted,   \* the bytes of the stcp_send calls that returned STCP_SUCCESS
    delivered   \* the bytes the receiver has written to its output file

streamVars == <<accepted, delivered>>

\* s is an initial part of t.
Begins(s, t) == Len(s) <= Len(t) /\ \A i \in 1..Len(s) : s[i] = t[i]

Init == accepted = <<>> /\ delivered = <<>>

\* A call to stcp_send takes the caller's bytes.
Accept == Begins(accepted, accepted') /\ UNCHANGED delivered

\* The receiver consumes some more of the bytes that were accepted.
Deliver ==
    /\ Begins(delivered, delivered')
    /\ Begins(delivered', accepted)
    /\ UNCHANGED accepted

Next == Accept \/ Deliver

Spec == Init /\ [][Next]_streamVars
=============================================================================
