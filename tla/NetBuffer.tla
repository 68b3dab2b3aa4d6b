------------------------------ MODULE NetBuffer ------------------------------
(***************************************************************************)
(* The buffer between a socket and the lines of a protocol (assignment 3,  *)
(* POP3/netbuffer.c): nb_read_line and nb_read_bytes on one connection.    *)
(* recv yields the bytes on the wire in any portions, and may fail.        *)
(***************************************************************************)
EXTENDS Integers, Sequences

CONSTANTS
  Byte,       \* values of a char
  LF,         \* the one that ends a line
  Streams,    \* what a peer may send
  Max,        \* max_buffer_size: MAX_LINE_LENGTH
  Nums        \* numbers of bytes that callers ask for

ASSUME NetBufferAssumption ==
  /\ LF \in Byte /\ Streams \subseteq Seq(Byte)
  /\ Max \in Nat \ {0} /\ Nums \subseteq Nat

LineCall == [line |-> TRUE, num |-> 0]
BytesCall(n) == [line |-> FALSE, num |-> n]
Calls == {LineCall} \cup {BytesCall(n) : n \in Nums}
NoCall == [line |-> FALSE, num |-> -1]

VARIABLES
  wire,     \* sent by the peer, or to be sent, and not received yet
  buf,      \* nb->buf[0 .. nb->avail_data - 1]
  call,     \* the call in progress
  out       \* what the last call copied to its caller

nbVars == <<wire, buf, call, out>>

nb_create == wire \in Streams /\ buf = <<>> /\ call = NoCall /\ out = <<>>

Enter ==
  /\ call = NoCall /\ call' \in Calls
  /\ UNCHANGED <<wire, buf, out>>

Has(n) == IF call.line THEN n > 0 /\ buf[n] = LF ELSE n = call.num

\* memchr finds a line, or the number of bytes is there.
Ready == \E n \in 0..Len(buf) : Has(n)

\* recv is called, with the rest of the buffer to fill.
Receiving == call # NoCall /\ ~ Ready /\ Len(buf) < Max

\* Mutant: recv may fill max_bytes, whatever is in the buffer.
recvOver == \E n \in 1..Len(wire) :
  /\ Receiving /\ n <= Max
  /\ buf' = buf \o SubSeq(wire, 1, n)
  /\ wire' = SubSeq(wire, n + 1, Len(wire))
  /\ UNCHANGED <<call, out>>

recv == \E n \in 1..Len(wire) :
  /\ Receiving /\ Len(buf) + n <= Max
  /\ buf' = buf \o SubSeq(wire, 1, n)
  /\ wire' = SubSeq(wire, n + 1, Len(wire))
  /\ UNCHANGED <<call, out>>

\* Mutant: the bytes after those copied stay where they are.
ReturnUnmoved(n) ==
  /\ out' = SubSeq(buf, 1, n)
  /\ buf' = SubSeq(buf, 1, Len(buf) - n)
  /\ call' = NoCall
  /\ UNCHANGED wire

\* n bytes are copied, the others moved to the start.
Return(n) ==
  /\ out' = SubSeq(buf, 1, n)
  /\ buf' = SubSeq(buf, n + 1, Len(buf))
  /\ call' = NoCall
  /\ UNCHANGED wire

\* The first line feed counts.
ReturnReady == \E n \in 0..Len(buf) :
  /\ call # NoCall /\ Has(n) /\ \A m \in 0..(n - 1) : ~ Has(m)
  /\ Return(n)

ReturnFull == call # NoCall /\ ~ Ready /\ Len(buf) = Max /\ Return(Max)

\* Mutant: a recv of 0 bytes is added to avail_data, and the loop goes on.
RepeatAtEnd == Receiving /\ wire = <<>> /\ UNCHANGED nbVars

ReturnAtEnd == Receiving /\ wire = <<>> /\ Return(Len(buf))

\* What has arrived stays in the buffer; what has not may be lost.
ReturnError ==
  /\ Receiving /\ call' = NoCall
  /\ wire' \in {wire, <<>>}
  /\ UNCHANGED <<buf, out>>

Serve == recv \/ ReturnReady \/ ReturnFull \/ ReturnAtEnd

nbNext == Enter \/ Serve \/ ReturnError

nbSpec == nb_create /\ [][nbNext]_nbVars

\* The peer sends on, or ends the connection; no error need come to the rescue.
nbFairSpec == nbSpec /\ WF_nbVars(Serve)

-----------------------------------------------------------------------------

\* The buffer and what is copied out of it stay within max_bytes, on which the
\* caller's array of that size plus one relies.
BufferFits ==
  /\ wire \in Seq(Byte) /\ buf \in Seq(Byte) /\ Len(buf) <= Max
  /\ call \in Calls \cup {NoCall}
  /\ out \in Seq(Byte) /\ Len(out) <= Max

Reader == INSTANCE LineReader WITH rest <- buf \o wire

\* Calls get their lines and bytes in order, whatever the portions in which the
\* socket yields them (netbuffer.c:58-85).
ReaderSpec == Reader!Spec

\* A call comes back: the loop ends with the buffer full or the connection at
\* its end, and a line feed is never waited for that cannot come.
CallReturns == call # NoCall ~> call = NoCall
=============================================================================
