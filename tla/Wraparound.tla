----------------------------- MODULE Wraparound -----------------------------
(***************************************************************************)
(* Sequence numbers that wrap (assignment 4, stcp/wraparound.c): functions *)
(* of unsigned ints, without a state.  What testwraparound.c tries for     *)
(* some numbers, StcpProofs shows for all of them.                         *)
(***************************************************************************)
EXTENDS Integers

CONSTANT Word       \* how many values an unsigned int has: 2^32 in the code

UInt == 0..(Word - 1)

maxVal == (Word - 1) \div 2 + 1

plus32(x, y) == (x + y) % Word

minus32(x, y) == (x - y) % Word

\* Is x > y?  The differences are those of signed longs: they do not wrap.
greater32(x, y) ==
  /\ ~ (x - y > maxVal)
  /\ y - x > maxVal \/ x > y
=============================================================================
