----------------------------- MODULE LineReader -----------------------------
(***************************************************************************)
(* What the comments of netbuffer.c (assignment 3) promise: the bytes of a *)
(* connection are handed out in order, each call getting its line or its   *)
(* number of bytes in full, unless that is more than Max or the connection *)
(* ends within it.  In which portions bytes arrive makes no difference.    *)
(***************************************************************************)
EXTENDS Naturals, Sequences

CONSTANTS LF, Max, NoCall, Calls

VARIABLES
  rest,     \* the bytes not handed out yet, those still to come included
  call,     \* the call in progress
  out       \* what the last call handed out

readerVars == <<rest, call, out>>

\* The first n bytes are what c asks for.
Satisfied(c, n) == IF c.line THEN n > 0 /\ rest[n] = LF ELSE n = c.num

\* The first n bytes are what c gets: no more than it asks for, and less only
\* at the limit or at the end.
Portion(c, n) ==
  /\ n <= Max /\ n <= Len(rest)
  /\ \A m \in 0..(n - 1) : ~ Satisfied(c, m)
  /\ Satisfied(c, n) \/ n = Max \/ n = Len(rest)

Ask == call = NoCall /\ call' \in Calls /\ UNCHANGED <<rest, out>>

Answer == \E n \in 0..Max :
  /\ call # NoCall /\ Portion(call, n)
  /\ out' = SubSeq(rest, 1, n)
  /\ rest' = SubSeq(rest, n + 1, Len(rest))
  /\ call' = NoCall

\* A connection that fails may lose what has not arrived.
Fail ==
  /\ call # NoCall /\ call' = NoCall
  /\ \E n \in 0..Len(rest) : rest' = SubSeq(rest, 1, n)
  /\ UNCHANGED out

Next == Ask \/ Answer \/ Fail

Init == call = NoCall /\ out = <<>>

Spec == Init /\ [][Next]_readerVars
=============================================================================
