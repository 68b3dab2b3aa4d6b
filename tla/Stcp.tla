-------------------------------- MODULE Stcp --------------------------------
(***************************************************************************)
(* The STCP sender of assignment 4 (sender.c), the UDP path it talks over  *)
(* and the receiver at the other end.  The receiver is shipped as a binary *)
(* only: it is external, and modelled as the cumulative acknowledger that  *)
(* the sender is written for.                                              *)
(*                                                                         *)
(* The sender is a single thread that blocks in readWithTimeout; pc says   *)
(* in which of the five read loops it is blocked, and one action is one    *)
(* turn of such a loop: a packet arrives, the timer runs out, or the read  *)
(* is refused.  Sequence numbers start at ISS and count payload bytes.     *)
(***************************************************************************)
EXTENDS Integers, Sequences, FiniteSets

CONSTANTS
    ISS,       \* initial sequence number, rand() % 1000
    FileLen,   \* bytes in the file main() sends
    MSS,       \* STCP_MSS: bytes main() hands to one stcp_send call
    HDR,       \* sizeof(tcpheader)
    W,         \* number_of_bytes_in_flight wraps at W (2^16)
    RepW,      \* repeat_acknowledgements wraps at RepW (2^8)
    Windows,   \* window sizes the receiver may advertise
    Strays,    \* packets of an earlier connection that may still arrive
    Refusals,  \* bound: reads that may fail with ECONNREFUSED
    NetCap     \* bound: packets under way in each direction

Byte == Nat            \* byte k of the file is k; 0 is memory outside the chunk

SndPkt == [type : {"SYNACK", "ACK", "FINACK"}, ackNo : Nat, win : Nat]

ASSUME ConstAssumption ==
    /\ ISS \in Nat /\ FileLen \in Nat /\ Refusals \in Nat /\ NetCap \in Nat
    /\ MSS \in Nat \ {0} /\ HDR \in Nat \ {0} /\ W \in Nat \ {0}
    /\ RepW \in Nat /\ RepW > 3
    /\ Windows \subseteq 0..(W - 1)
    /\ Strays \subseteq SndPkt /\ \A p \in Strays : p.win < W

DataPkt == [type : {"DATA"}, seq : Nat, data : Seq(Byte)]
CtlPkt == [type : {"SYN", "FIN", "ACK"}, seq : Nat]

VARIABLES
    pc,          \* the read loop, or where main() stands
    offset,      \* bytes of the file main() has read
    length,      \* argument of the stcp_send call in progress, 0 outside
    state,       \* cb->state
    seq,         \* cb->current_sequence_Number
    lastAck,     \* cb->last_acknowledgement_number
    rep,         \* cb->repeat_acknowledgements
    flight,      \* cb->number_of_bytes_in_flight before it wraps
    maxWin,      \* cb->maximum_window_size
    window,      \* cb->window_head .. window_tail
    refused,     \* refused reads so far
    toRcv, toSnd,     \* packets under way, each way
    nbe, delivered,   \* receiver: next byte expected (0: LISTEN), output
    \* history, read by the properties only
    accepted,    \* bytes of the stcp_send calls that returned success
    popped,      \* nodes moveWindow has freed
    uncounted    \* payload queued without being added to flight

cbVars   == <<state, seq, lastAck, rep, flight, maxWin, window>>
mainVars == <<offset, length>>
rcvVars  == <<nbe, delivered>>
history  == <<accepted, popped, uncounted>>
vars     == <<pc, mainVars, cbVars, refused, toRcv, toSnd, rcvVars, history>>

-----------------------------------------------------------------------------
Syn     == [type |-> "SYN", seq |-> ISS]
Ack     == [type |-> "ACK", seq |-> 0]
Fin(s)  == [type |-> "FIN", seq |-> s]
Data(s, d) == [type |-> "DATA", seq |-> s, data |-> d]

\* What the unsigned short holds: subtracting more than it holds wraps.
InFlight == flight % W

\* A send on a full path is lost.  A second copy of a packet that is under
\* way is not distinguished from the first.
Put(path, p) == IF Cardinality(path) < NetCap THEN path \cup {p} ELSE path

Transmit(p) == toRcv' = Put(toRcv, p)

\* A read returns a packet whose checksum is right.
Read(p) == p \in toSnd /\ toSnd' = toSnd \ {p}

\* A read fails because an earlier send met a closed port.
ReadRefused == refused < Refusals /\ refused' = refused + 1

\* Sequence number of the first queued byte of w, given that s comes next.
HeadSeq(w, s) == IF w = <<>> THEN s ELSE w[1].seq

\* Mutant: the node that the acknowledgement names is freed as well.
MoveWindowOneMore(ack) ==
    \E n \in 0..Len(window) :
        /\ \A i \in 1..(n - 1) : window[i].seq # ack
        /\ n = 0 <=> window = <<>>
        /\ n < Len(window) => window[n].seq = ack
        /\ window' = SubSeq(window, n + 1, Len(window))
        /\ flight' = flight - (HeadSeq(window', seq) - HeadSeq(window, seq)) - HDR * n
        /\ popped' = popped + n

\* moveWindow: free nodes until the head starts at ack -- all of them when no
\* node does.  Each takes payload and header off the count; the queue has no
\* gaps (WindowContiguous), so the payload is a distance of sequence numbers.
MoveWindow(ack) ==
    \E n \in 0..Len(window) :
        /\ \A i \in 1..n : window[i].seq # ack
        /\ n < Len(window) => window[n + 1].seq = ack
        /\ window' = SubSeq(window, n + 1, Len(window))
        /\ flight' = flight - (HeadSeq(window', seq) - HeadSeq(window, seq)) - HDR * n
        /\ popped' = popped + n

CountRepeat(ack) == IF ack = lastAck THEN (rep + 1) % RepW ELSE 1

\* Mutant: waits for an acknowledgement also when it found nothing to resend.
RetransmitUnchecked(ack, here, there) ==
    /\ IF window' = <<>> THEN UNCHANGED toRcv ELSE Transmit(window'[1])
    /\ pc' = there

\* First half of retransmitWindow, on the queue moveWindow has just left: find
\* the packet the receiver is missing, resend it and wait in loop `there`;
\* when no packet starts there, go on in loop `here`.
Retransmit(ack, here, there) ==
    IF \E i \in 1..Len(window') : window'[i].seq = ack
    THEN /\ \E i \in 1..Len(window') :
                /\ window'[i].seq = ack
                /\ \A j \in 1..(i - 1) : window'[j].seq # ack
                /\ Transmit(window'[i])
         /\ pc' = there
    ELSE pc' = here /\ UNCHANGED toRcv

-----------------------------------------------------------------------------
(* stcp_open                                                               *)

Init ==
    /\ pc = "open" /\ offset = 0 /\ length = 0
    /\ state = "CLOSED" /\ seq = ISS /\ lastAck = 0 /\ rep = 0
    /\ flight = 0 /\ maxWin = W - 1 /\ window = <<>>
    /\ refused = 0
    /\ toRcv = {Syn} /\ toSnd \in SUBSET Strays
    /\ nbe = 0 /\ delivered = <<>>
    /\ accepted = <<>> /\ popped = 0 /\ uncounted = 0

OpenTimeout ==
    /\ pc = "open"
    /\ Transmit(Syn)
    /\ UNCHANGED <<pc, mainVars, cbVars, refused, toSnd, rcvVars, history>>

\* stcp_open returns NULL; main() notices and goes on.
OpenRefused ==
    /\ pc = "open" /\ ReadRefused
    /\ pc' = "nocb"
    /\ UNCHANGED <<mainVars, cbVars, toRcv, toSnd, rcvVars, history>>

Acceptable(p) == p.type = "SYNACK" /\ p.ackNo = seq + 1

OpenSynAck(p) ==
    /\ pc = "open" /\ Read(p) /\ Acceptable(p)
    /\ state' = "ESTABLISHED"
    /\ seq' = p.ackNo
    /\ lastAck' = 1
    /\ maxWin' = p.win
    /\ Transmit(Ack)
    /\ pc' = "main"
    /\ UNCHANGED <<mainVars, rep, flight, window, refused, rcvVars, history>>

\* Any other packet ends the loop too: its length is what the loop tests.
OpenOther(p) ==
    /\ pc = "open" /\ Read(p) /\ ~Acceptable(p)
    /\ pc' = "main"
    /\ UNCHANGED <<mainVars, cbVars, refused, toRcv, rcvVars, history>>

-----------------------------------------------------------------------------
(* main: the file, one MSS at a time                                       *)

MainNoControlBlock ==
    /\ pc = "nocb"
    /\ pc' = "crashed"
    /\ UNCHANGED <<mainVars, cbVars, refused, toRcv, toSnd, rcvVars, history>>

\* Mutant: a read is taken to fill the buffer.
MainReadFull ==
    /\ pc = "main" /\ offset < FileLen
    /\ length' = MSS
    /\ offset' = offset + MSS
    /\ pc' = "send"
    /\ UNCHANGED <<cbVars, refused, toRcv, toSnd, rcvVars, history>>

\* Mutant: a read may return less than there is, as it does on a pipe.
MainReadShort ==
    /\ pc = "main" /\ offset < FileLen
    /\ length' \in 1..MSS /\ length' <= FileLen - offset
    /\ offset' = offset + length'
    /\ pc' = "send"
    /\ UNCHANGED <<cbVars, refused, toRcv, toSnd, rcvVars, history>>

MainRead ==
    /\ pc = "main" /\ offset < FileLen
    /\ length' = IF FileLen - offset < MSS THEN FileLen - offset ELSE MSS
    /\ offset' = offset + length'
    /\ pc' = "send"
    /\ UNCHANGED <<cbVars, refused, toRcv, toSnd, rcvVars, history>>

MainEof ==
    /\ pc = "main" /\ offset = FileLen
    /\ state' = "CLOSING"
    /\ pc' = "close"
    /\ UNCHANGED <<mainVars, seq, lastAck, rep, flight, maxWin, window,
                   refused, toRcv, toSnd, rcvVars, history>>

-----------------------------------------------------------------------------
(* stcp_send: wait while the window is full, then queue the data           *)

\* Mutant: off by one.
WindowPassed == InFlight > maxWin

WindowFull == InFlight >= maxWin

\* Mutant: the packet is given the current sequence number when it is resent.
SendTimeoutRenumbered ==
    /\ pc = "send" /\ WindowFull
    /\ IF window = <<>>
       THEN pc' = "crashed" /\ UNCHANGED toRcv
       ELSE Transmit(Data(seq, window[1].data)) /\ UNCHANGED pc
    /\ UNCHANGED <<mainVars, cbVars, refused, toSnd, rcvVars, history>>

\* Mutant: a packet that is resent is counted again.
SendTimeoutRecounted ==
    /\ pc = "send" /\ WindowFull /\ window # <<>>
    /\ Transmit(window[1])
    /\ flight' = flight + Len(window[1].data)
    /\ UNCHANGED <<pc, mainVars, state, seq, lastAck, rep, maxWin, window,
                   refused, toSnd, rcvVars, history>>

\* The timer resends the head of the queue without asking whether there is one.
SendTimeout ==
    /\ pc = "send" /\ WindowFull
    /\ IF window = <<>>
       THEN pc' = "crashed" /\ UNCHANGED toRcv
       ELSE Transmit(window[1]) /\ UNCHANGED pc
    /\ UNCHANGED <<mainVars, cbVars, refused, toSnd, rcvVars, history>>

\* stcp_send returns STCP_ERROR; main() ignores it and reads on.
SendRefused ==
    /\ pc = "send" /\ WindowFull /\ ReadRefused
    /\ length' = 0
    /\ pc' = "main"
    /\ UNCHANGED <<offset, cbVars, toRcv, toSnd, rcvVars, history>>

\* last_acknowledgement_number is compared here and left alone.
SendAck(p) ==
    /\ pc = "send" /\ WindowFull /\ Read(p)
    /\ maxWin' = p.win
    /\ MoveWindow(p.ackNo)
    /\ rep' = CountRepeat(p.ackNo)
    /\ IF rep' = 3
       THEN Retransmit(lastAck, "send", "rexmit_send")
       ELSE UNCHANGED <<pc, toRcv>>
    /\ UNCHANGED <<mainVars, state, seq, lastAck, refused, rcvVars,
                   accepted, uncounted>>

Chunk == [j \in 1..length |-> offset - length + j]

\* Mutant: sequence numbers count packets.
SendOnePerPacket ==
    /\ pc = "send" /\ ~WindowFull /\ ~(maxWin # 0 /\ length > maxWin)
    /\ flight' = flight + length
    /\ seq' = seq + 1
    /\ Transmit(Data(seq, Chunk))
    /\ window' = Append(window, Data(seq, Chunk))
    /\ accepted' = accepted \o Chunk
    /\ length' = 0
    /\ pc' = "main"
    /\ UNCHANGED <<offset, state, lastAck, rep, maxWin, refused, toSnd,
                   rcvVars, popped, uncounted>>

\* The ordinary branch: one packet, sent and queued.
SendOne ==
    /\ pc = "send" /\ ~WindowFull /\ ~(maxWin # 0 /\ length > maxWin)
    /\ flight' = flight + length
    /\ seq' = seq + length
    /\ Transmit(Data(seq, Chunk))
    /\ window' = Append(window, Data(seq, Chunk))
    /\ accepted' = accepted \o Chunk
    /\ length' = 0
    /\ pc' = "main"
    /\ UNCHANGED <<offset, state, lastAck, rep, maxWin, refused, toSnd,
                   rcvVars, popped, uncounted>>

\* The data is longer than the window.  Every piece gets the full length; the
\* pointer advances by the window size, and by less at the last piece.
Pieces == (length + maxWin - 1) \div maxWin

Shift(k) == IF k < Pieces THEN (k - 1) * maxWin ELSE length - maxWin

\* Mutant: sequence numbers advance by the window instead of the payload.
PieceByWindow(k) ==
    Data(seq + (k - 1) * maxWin,
         [j \in 1..length |-> IF Shift(k) + j <= length THEN Chunk[Shift(k) + j] ELSE 0])

Piece(k) ==
    Data(seq + (k - 1) * length,
         [j \in 1..length |-> IF Shift(k) + j <= length THEN Chunk[Shift(k) + j] ELSE 0])

\* The pieces are queued; the loop that would send and count them starts at
\* the head, which never fits (SplitHeadTooLarge), and gives up at once.
SendSplit ==
    /\ pc = "send" /\ ~WindowFull /\ maxWin # 0 /\ length > maxWin
    /\ window' = window \o [k \in 1..Pieces |-> Piece(k)]
    /\ seq' = seq + Pieces * length
    /\ uncounted' = uncounted + Pieces * length
    /\ accepted' = accepted \o Chunk
    /\ length' = 0
    /\ pc' = "main"
    /\ UNCHANGED <<offset, state, lastAck, rep, flight, maxWin, refused,
                   toRcv, toSnd, rcvVars, popped>>

-----------------------------------------------------------------------------
(* retransmitWindow: wait for one acknowledgement, for either caller       *)

InRexmit == pc \in {"rexmit_send", "rexmit_close"}

Caller == IF pc = "rexmit_send" THEN "send" ELSE "close"

RexmitTimeout ==
    /\ InRexmit
    /\ Transmit(window[1])
    /\ UNCHANGED <<pc, mainVars, cbVars, refused, toSnd, rcvVars, history>>

RexmitRefused ==
    /\ InRexmit /\ ReadRefused
    /\ pc' = Caller
    /\ UNCHANGED <<mainVars, cbVars, toRcv, toSnd, rcvVars, history>>

\* stcp_close then puts back its own acknowledgement number, which was
\* last_acknowledgement_number when it called.
RexmitAck(p) ==
    /\ InRexmit /\ Read(p)
    /\ maxWin' = p.win
    /\ MoveWindow(p.ackNo)
    /\ rep' = IF p.ackNo = lastAck THEN rep ELSE 1
    /\ lastAck' = IF Caller = "send" THEN p.ackNo ELSE lastAck
    /\ pc' = Caller
    /\ UNCHANGED <<mainVars, state, seq, refused, toRcv, rcvVars,
                   accepted, uncounted>>

-----------------------------------------------------------------------------
(* stcp_close: drain the window, then exchange FINs                        *)

\* Mutant: waits, like stcp_send, only until the window opens.
DrainingToWindow == pc = "close" /\ InFlight >= maxWin

Draining == pc = "close" /\ InFlight > 0

\* With an empty queue the count is cleared, and the -3 of the time-out is
\* used as a copy length: the process dies or goes on.
CloseTimeout ==
    /\ Draining
    /\ IF window = <<>>
       THEN flight' = 0 /\ pc' \in {"close", "crashed"} /\ UNCHANGED toRcv
       ELSE Transmit(window[1]) /\ UNCHANGED <<flight, pc>>
    /\ UNCHANGED <<mainVars, state, seq, lastAck, rep, maxWin, window,
                   refused, toSnd, rcvVars, history>>

CloseRefused ==
    /\ Draining /\ ReadRefused
    /\ pc' = "error"
    /\ UNCHANGED <<mainVars, cbVars, toRcv, toSnd, rcvVars, history>>

CloseAck(p) ==
    /\ Draining /\ Read(p)
    /\ MoveWindow(p.ackNo)
    /\ IF window' = <<>>
       THEN UNCHANGED <<pc, toRcv, rep, lastAck>>
       ELSE /\ rep' = CountRepeat(p.ackNo)
            /\ lastAck' = p.ackNo
            /\ IF rep' = 3
               THEN Retransmit(lastAck, "close", "rexmit_close")
               ELSE UNCHANGED <<pc, toRcv>>
    /\ UNCHANGED <<mainVars, state, seq, maxWin, refused, rcvVars,
                   accepted, uncounted>>

CloseFin ==
    /\ pc = "close" /\ ~Draining
    /\ Transmit(Fin(seq))
    /\ state' = "FIN_WAIT"
    /\ pc' = "fin"
    /\ UNCHANGED <<mainVars, seq, lastAck, rep, flight, maxWin, window,
                   refused, toSnd, rcvVars, history>>

\* Mutant: the FIN is not sent again.
FinTimeoutSilent ==
    /\ pc = "fin"
    /\ UNCHANGED vars

FinTimeout ==
    /\ pc = "fin"
    /\ Transmit(Fin(seq))
    /\ UNCHANGED <<pc, mainVars, cbVars, refused, toSnd, rcvVars, history>>

FinRefused ==
    /\ pc = "fin" /\ ReadRefused
    /\ pc' = "success"
    /\ UNCHANGED <<mainVars, cbVars, toRcv, toSnd, rcvVars, history>>

FinAck(p) ==
    /\ pc = "fin" /\ Read(p) /\ p.type = "FINACK"
    /\ seq' = p.ackNo + 1
    /\ state' = "CLOSED"
    /\ Transmit(Ack)
    /\ pc' = "success"
    /\ UNCHANGED <<mainVars, lastAck, rep, flight, maxWin, window,
                   refused, rcvVars, history>>

\* Any other packet ends the loop as well.
FinOther(p) ==
    /\ pc = "fin" /\ Read(p) /\ p.type # "FINACK"
    /\ pc' = "success"
    /\ UNCHANGED <<mainVars, cbVars, refused, toRcv, rcvVars, history>>

-----------------------------------------------------------------------------
(* The path and the receiver (external)                                    *)

sndVars == <<pc, mainVars, cbVars, refused, history>>

\* Dropped on the way, or damaged and rejected by its checksum.
Lose ==
    /\ \/ \E p \in toRcv : toRcv' = toRcv \ {p} /\ UNCHANGED toSnd
       \/ \E p \in toSnd : toSnd' = toSnd \ {p} /\ UNCHANGED toRcv
    /\ UNCHANGED <<sndVars, rcvVars>>

Reply(t, a) == \E w \in Windows :
    toSnd' = Put(toSnd, [type |-> t, ackNo |-> a, win |-> w])

\* A SYN opens the connection; repeats are answered until data arrives.
RcvSyn ==
    /\ Syn \in toRcv /\ toRcv' = toRcv \ {Syn}
    /\ IF nbe \in {0, ISS + 1}
       THEN nbe' = ISS + 1 /\ Reply("SYNACK", ISS + 1)
       ELSE UNCHANGED <<nbe, toSnd>>
    /\ UNCHANGED <<sndVars, delivered>>

\* The next bytes are written out; every data packet is answered with the
\* cumulative acknowledgement.
RcvInOrder(p) ==
    /\ p.type = "DATA" /\ nbe # 0 /\ p.seq = nbe
    /\ toRcv' = toRcv \ {p}
    /\ delivered' = delivered \o p.data
    /\ nbe' = nbe + Len(p.data)
    /\ Reply("ACK", nbe')
    /\ UNCHANGED sndVars

\* A duplicate is discarded; a packet beyond a gap is ignored, or kept until
\* the gap closes, which is the same as leaving it under way.
RcvOutOfOrder(p) ==
    /\ p.type = "DATA" /\ nbe # 0 /\ p.seq # nbe
    /\ \/ toRcv' = toRcv \ {p}
       \/ p.seq > nbe /\ UNCHANGED toRcv
    /\ Reply("ACK", nbe)
    /\ UNCHANGED <<sndVars, rcvVars>>

\* A FIN that is not the next thing expected is ignored.
RcvFin(p) ==
    /\ p.type = "FIN" /\ toRcv' = toRcv \ {p}
    /\ IF p.seq = nbe THEN Reply("FINACK", nbe + 1) ELSE UNCHANGED toSnd
    /\ UNCHANGED <<sndVars, rcvVars>>

RcvAck ==
    /\ Ack \in toRcv /\ toRcv' = toRcv \ {Ack}
    /\ UNCHANGED <<sndVars, toSnd, rcvVars>>

-----------------------------------------------------------------------------
TimerStep == OpenTimeout \/ SendTimeout \/ RexmitTimeout \/ CloseTimeout \/ FinTimeout

RefusedStep == OpenRefused \/ SendRefused \/ RexmitRefused \/ CloseRefused \/ FinRefused

ReadStep == \E p \in toSnd :
    \/ OpenSynAck(p) \/ OpenOther(p) \/ SendAck(p) \/ RexmitAck(p)
    \/ CloseAck(p) \/ FinAck(p) \/ FinOther(p)

LocalStep ==
    \/ MainNoControlBlock \/ MainRead \/ MainEof
    \/ SendOne \/ SendSplit \/ CloseFin

ReceiverStep ==
    \/ RcvSyn \/ RcvAck
    \/ \E p \in toRcv : RcvInOrder(p) \/ RcvOutOfOrder(p) \/ RcvFin(p)

Finished == pc \in {"success", "error", "crashed"}

Stopped == Finished /\ UNCHANGED vars

Next ==
    \/ TimerStep \/ RefusedStep \/ ReadStep \/ LocalStep
    \/ ReceiverStep \/ Lose \/ Stopped

Spec == Init /\ [][Next]_vars

\* The timer fires when nothing else happens (select is given a limit), a
\* packet that is sent again and again is in the end received, and the receiver
\* keeps no packet forever.
Fairness ==
    /\ WF_vars(LocalStep) /\ WF_vars(TimerStep)
    /\ SF_vars(ReadStep)
    /\ SF_vars(RcvSyn) /\ SF_vars(RcvAck)
    /\ SF_vars(\E p \in toRcv : RcvInOrder(p))
    /\ SF_vars(\E p \in toRcv : RcvOutOfOrder(p) /\ p \notin toRcv')
    /\ SF_vars(\E p \in toRcv : RcvFin(p))

FairSpec == Spec /\ Fairness

-----------------------------------------------------------------------------
(* Properties                                                              *)

Stages == {"open", "nocb", "main", "send", "rexmit_send", "rexmit_close",
           "close", "fin", "success", "error", "crashed"}

\* Every variable holds a value of its kind.
TypeOK ==
    /\ pc \in Stages
    /\ offset \in 0..FileLen /\ length \in 0..MSS /\ length <= offset
    /\ state \in {"CLOSED", "ESTABLISHED", "CLOSING", "FIN_WAIT"}
    /\ seq \in Nat /\ lastAck \in Nat /\ rep \in 0..(RepW - 1)
    /\ flight \in Int /\ maxWin \in 0..(W - 1)
    /\ window \in Seq(DataPkt)
    /\ refused \in 0..Refusals
    /\ toRcv \subseteq DataPkt \cup CtlPkt
    /\ toSnd \subseteq SndPkt /\ \A p \in toSnd : p.win < W
    /\ nbe \in Nat /\ delivered \in Seq(Byte)
    /\ accepted \in Seq(Byte) /\ popped \in Nat /\ uncounted \in Nat

End(p) == p.seq + Len(p.data)

\* The queue of unacknowledged packets has no gaps and no overlaps, and ends
\* where the next packet will start, through every mix of acknowledgements,
\* resends, failed calls and split chunks (moveWindow, appendPacketToWindow).
WindowContiguous ==
    pc # "success" =>
        \A i \in 1..Len(window) :
            /\ window[i].data # <<>>
            /\ End(window[i]) = IF i = Len(window) THEN seq ELSE window[i + 1].seq

DataPackets == {window[i] : i \in 1..Len(window)} \cup {p \in toRcv : p.type = "DATA"}

\* A sequence number is never reused for other bytes: any two data packets,
\* queued or under way, are copies of each other or do not overlap, although
\* packets are resent by three different loops.
SegmentsDisjoint ==
    \A p, q \in DataPackets : p = q \/ End(p) <= q.seq \/ End(q) <= p.seq

\* While retransmitWindow waits, the packet it looked for is the head of the
\* queue.  So its time-out never resends through a NULL head, and its search
\* never leaves the header of an earlier node in host byte order.
RexmitHead == InRexmit => window # <<>> /\ window[1].seq = lastAck

Outstanding == seq - HeadSeq(window, seq)

\* number_of_bytes_in_flight is not the number of bytes in flight: it falls
\* short by one header for each packet freed and by the whole of a split
\* chunk, until stcp_close clears it over an empty queue.
DriftLaw ==
    pc # "success" =>
        \/ flight = Outstanding - uncounted - HDR * popped
        \/ flight = 0 /\ window = <<>> /\ pc \in {"close", "fin", "crashed"}

\* What the drift allows: the data outstanding exceeds the largest window ever
\* advertised by less than a chunk, plus one header per packet freed and the
\* split chunks -- and by no more.
Overshoot ==
    pc # "success" =>
        \E w \in Windows : Outstanding < w + MSS + uncounted + HDR * popped

\* stcp_send's split branch finds a head of queue that does not fit, so that
\* the loop after it never sends anything (lines 323-335).
SplitHeadTooLarge ==
    pc = "send" /\ ~WindowFull /\ maxWin # 0 /\ length > maxWin =>
        InFlight + HDR + (IF window = <<>> THEN length ELSE Len(window[1].data)) > maxWin

\* A packet of an earlier connection is taken for an acknowledgement, or has ended
\* stcp_open, so that the data begins with the number of the SYN.
Misled == window[1].seq = ISS \/ \E p \in toSnd \ toSnd' : p \in Strays

\* However acknowledgements overtake each other, moveWindow frees packets that have not
\* arrived for one reason only: the acknowledgement is older than the whole queue, it is
\* found at no node, and all of them are freed.
FreedIsAcked ==
    [][popped' > popped /\ ~Misled =>
        \/ \A i \in 1..(popped' - popped) : End(window[i]) <= nbe
        \/ window' = <<>> /\ \E p \in toSnd \ toSnd' : p.ackNo < window[1].seq]_vars

\* "wait for ACKs before moving window" (sender.c:261): a packet leaves the queue when it
\* has been acknowledged, on any path.
MovedByAcks ==
    [][\A i \in 1..(popped' - popped) : End(window[i]) <= nbe]_vars

\* The bytes of successful stcp_send calls reach the receiver's file in order,
\* as long as no chunk is longer than the window it meets.
Stream == INSTANCE ByteStream WITH accepted <- accepted, delivered <- delivered
StreamSpec == Stream!Spec

\* On a path of one packet each way, a FIN goes out early for one reason only:
\* the headers subtracted so far cancel the bytes that are outstanding and counted.
EarlyFin ==
    pc = "fin" /\ nbe # seq =>
        window # <<>> /\ (Outstanding - uncounted) % W = (HDR * popped) % W

\* On a path that does not reorder, the sender comes to an end (it succeeds,
\* returns an error or crashes) or has sent its FIN early: no read loop waits
\* for good for an acknowledgement that nothing will make the receiver repeat.
Terminates == <>(Finished \/ (pc = "fin" /\ nbe # seq))

\* While stcp_send waits for the window to open there is something it waits for.
WaitsForSomething == pc = "send" /\ WindowFull => window # <<>>

\* "Chop up the file into pieces [...] and transmit those pieces" (sender.c:637-639): what
\* stcp_send has taken is the beginning of the file.
SendsTheFile == \A i \in DOMAIN accepted : accepted[i] = i

=============================================================================
