----------------------------- MODULE StcpProofs -----------------------------
(* Theorems about Stcp, and about the functions of Wraparound, for every *)
(* value of their constants.                                              *)
EXTENDS Stcp, Wraparound, FiniteSetTheorems, TLAPS

-----------------------------------------------------------------------------
(* Facts about the operators Stcp is built from.                           *)

\* A send adds at most the packet sent.
LEMMA PutAdds == \A path, p : path \subseteq Put(path, p) /\ Put(path, p) \subseteq path \cup {p}
BY DEF Put

\* Dropping n elements from the front of a sequence.
LEMMA TailFrom ==
    ASSUME NEW S, NEW s \in Seq(S), NEW n \in 0..Len(s)
    PROVE  /\ SubSeq(s, n + 1, Len(s)) \in Seq(S)
           /\ Len(SubSeq(s, n + 1, Len(s))) = Len(s) - n
           /\ \A i \in 1..(Len(s) - n) : SubSeq(s, n + 1, Len(s))[i] = s[n + i]
OBVIOUS

\* The queue's first sequence number is a number, and exists.
LEMMA HeadSeqIsNat ==
    ASSUME NEW w \in Seq(DataPkt), NEW s \in Nat
    PROVE  HeadSeq(w, s) \in Nat /\ (w # <<>> => w[1] \in DataPkt /\ w[1].seq \in Nat)
<1>1. CASE w = <<>>
    BY <1>1 DEF HeadSeq
<1>2. CASE w # <<>>
    <2>1. 1 \in 1..Len(w)
        BY <1>2
    <2>2. w[1] \in DataPkt
        BY <2>1
    <2>3. w[1].seq \in Nat
        BY <2>2 DEF DataPkt
    <2>4. QED BY <1>2, <2>2, <2>3 DEF HeadSeq
<1>3. QED BY <1>1, <1>2

\* moveWindow leaves a tail of the queue, which starts at the acknowledged
\* sequence number unless it is empty.
LEMMA MoveWindowTail ==
    ASSUME window \in Seq(DataPkt), seq \in Nat, flight \in Int, popped \in Nat,
           NEW ack \in Nat, MoveWindow(ack)
    PROVE  /\ window' \in Seq(DataPkt) /\ flight' \in Int /\ popped' \in Nat
           /\ window' # <<>> => window'[1].seq = ack
           /\ \E n \in 0..Len(window) :
                /\ Len(window') = Len(window) - n
                /\ \A i \in 1..Len(window') : window'[i] = window[n + i]
                /\ popped' = popped + n
                /\ flight' = flight - (HeadSeq(window', seq) - HeadSeq(window, seq)) - HDR * n
<1>1. PICK n \in 0..Len(window) :
        /\ n < Len(window) => window[n + 1].seq = ack
        /\ window' = SubSeq(window, n + 1, Len(window))
        /\ flight' = flight - (HeadSeq(window', seq) - HeadSeq(window, seq)) - HDR * n
        /\ popped' = popped + n
    BY DEF MoveWindow
<1>2. /\ window' \in Seq(DataPkt)
      /\ Len(window') = Len(window) - n
      /\ \A i \in 1..Len(window') : window'[i] = window[n + i]
    BY <1>1, TailFrom
<1>3. HeadSeq(window, seq) \in Nat /\ HeadSeq(window', seq) \in Nat
    BY <1>2, HeadSeqIsNat
<1>4. HDR * n \in Int
    BY ConstAssumption
<1>5. flight' \in Int /\ popped' \in Nat
    <2>1. PICK k \in Int : k = HDR * n
        BY <1>4
    <2>2. PICK d \in Int : d = HeadSeq(window', seq) - HeadSeq(window, seq)
        BY <1>3
    <2>3. flight' = flight - d - k
        BY <1>1, <2>1, <2>2
    <2>4. flight' \in Int
        BY <2>3
    <2>5. popped' \in Nat
        BY <1>1
    <2>6. QED BY <2>4, <2>5
<1>6. ASSUME window' # <<>> PROVE window'[1].seq = ack
    <2>1. Len(window') >= 1
        BY <1>2, <1>6
    <2>2. PICK k \in Nat : k = Len(window)
        OBVIOUS
    <2>3. n < Len(window)
        BY <1>2, <2>1, <2>2
    <2>4. window'[1] = window[n + 1]
        BY <1>2, <2>1
    <2>5. QED BY <1>1, <2>3, <2>4
<1>7. QED BY <1>1, <1>2, <1>5, <1>6

\* The packets the sender makes are packets.
LEMMA PacketTypes ==
    ASSUME TypeOK
    PROVE  /\ Syn \in CtlPkt /\ Ack \in CtlPkt /\ Fin(seq) \in CtlPkt
           /\ Chunk \in Seq(Byte) /\ Len(Chunk) = length
           /\ Data(seq, Chunk) \in DataPkt
<1>1. Syn \in CtlPkt /\ Ack \in CtlPkt /\ Fin(seq) \in CtlPkt
    BY ConstAssumption DEF TypeOK, Syn, Ack, Fin, CtlPkt
<1>2. length \in Nat /\ Chunk \in [1..length -> Byte]
    BY ConstAssumption DEF TypeOK, Chunk, Byte
<1>3. Chunk \in Seq(Byte) /\ Len(Chunk) = length
    BY <1>2
<1>4. Data(seq, Chunk) \in DataPkt
    BY <1>3 DEF TypeOK, Data, DataPkt
<1>5. QED BY <1>1, <1>3, <1>4

\* The pieces of a split chunk are packets, as long as the chunk, at
\* consecutive sequence numbers.
LEMMA PieceTypes ==
    ASSUME TypeOK, length > maxWin, maxWin # 0
    PROVE  /\ Pieces \in Nat
           /\ \A k \in 1..Pieces : /\ Piece(k) \in DataPkt
                                   /\ Piece(k).seq = seq + (k - 1) * length
                                   /\ Len(Piece(k).data) = length
<1>1. maxWin \in Nat \ {0} /\ length \in Nat /\ seq \in Nat /\ offset \in Nat
      /\ length <= offset
    BY ConstAssumption DEF TypeOK
<1>2. Pieces \in Nat
    BY <1>1 DEF Pieces
<1>3. ASSUME NEW k \in 1..Pieces
      PROVE  /\ Piece(k) \in DataPkt
             /\ Piece(k).seq = seq + (k - 1) * length
             /\ Len(Piece(k).data) = length
    <2>1. Shift(k) \in Nat
        <3>1. (k - 1) * maxWin \in Nat
            BY <1>1, <1>2
        <3>2. QED BY <3>1, <1>1 DEF Shift
    <2>2. (k - 1) * length \in Nat
        BY <1>1, <1>2
    <2> DEFINE bytes == [j \in 1..length |->
                            IF Shift(k) + j <= length THEN Chunk[Shift(k) + j] ELSE 0]
    <2>3. ASSUME NEW j \in 1..length, Shift(k) + j <= length
          PROVE  Chunk[Shift(k) + j] \in Byte
        BY <1>1, <2>1, <2>3 DEF Chunk, Byte
    <2>4. bytes \in [1..length -> Byte]
        BY <2>3 DEF Byte
    <2>5. bytes \in Seq(Byte) /\ Len(bytes) = length
        <3> HIDE DEF bytes
        <3>1. QED BY <2>4, <1>1
    <2>6. Piece(k) = [type |-> "DATA", seq |-> seq + (k - 1) * length, data |-> bytes]
        BY DEF Piece, Data
    <2> HIDE DEF bytes
    <2>7. QED BY <2>2, <2>5, <2>6, <1>1 DEF DataPkt
<1>4. QED BY <1>2, <1>3

-----------------------------------------------------------------------------
(* Types, together with what makes a time-out in retransmitWindow safe.    *)

\* A call to stcp_send has something to send.
ChunkPending == pc \in {"send", "rexmit_send"} => length > 0

\* Before the connection is open nothing has been queued.
Fresh ==
    pc \in {"open", "nocb"} =>
        /\ window = <<>> /\ flight = 0 /\ popped = 0 /\ uncounted = 0
        /\ accepted = <<>> /\ seq = ISS /\ state = "CLOSED"

TypeInv == TypeOK /\ RexmitHead /\ ChunkPending /\ Fresh

\* A send of a packet leaves only packets on the path.
LEMMA TransmitType ==
    ASSUME toRcv \subseteq DataPkt \cup CtlPkt, NEW p \in DataPkt \cup CtlPkt, Transmit(p)
    PROVE  toRcv' \subseteq DataPkt \cup CtlPkt
BY PutAdds DEF Transmit

\* A reply of the receiver leaves only packets on the path.
LEMMA ReplyType ==
    ASSUME TypeOK, NEW t \in {"SYNACK", "ACK", "FINACK"}, NEW a \in Nat, Reply(t, a)
    PROVE  toSnd' \subseteq SndPkt /\ \A p \in toSnd' : p.win < W
<1>1. PICK w \in Windows : toSnd' = Put(toSnd, [type |-> t, ackNo |-> a, win |-> w])
    BY DEF Reply
<1>2. [type |-> t, ackNo |-> a, win |-> w] \in SndPkt /\ w < W
    BY ConstAssumption DEF SndPkt
<1>3. QED BY <1>1, <1>2, PutAdds DEF TypeOK

\* Once the resent packet is found it is the head, because moveWindow has
\* just left the queue starting at the acknowledgement that was repeated.
LEMMA RetransmitHead ==
    ASSUME TypeOK, NEW ack \in Nat, MoveWindow(ack), NEW here, NEW there,
           Retransmit(ack, here, there)
    PROVE  /\ toRcv' \subseteq DataPkt \cup CtlPkt
           /\ \/ pc' = here /\ toRcv' = toRcv
              \/ pc' = there /\ window' # <<>> /\ window'[1].seq = ack /\ Transmit(window'[1])
<1>1. window' \in Seq(DataPkt) /\ (window' # <<>> => window'[1].seq = ack)
    BY MoveWindowTail DEF TypeOK
<1>2. CASE \E i \in 1..Len(window') : window'[i].seq = ack
    <2>1. PICK i \in 1..Len(window') :
            /\ \A j \in 1..(i - 1) : window'[j].seq # ack
            /\ Transmit(window'[i])
        BY <1>2 DEF Retransmit
    <2>2. window' # <<>> /\ i = 1
        BY <1>1, <2>1
    <2>3. window'[1] \in DataPkt
        BY <1>1, <2>2
    <2>4. toRcv' \subseteq DataPkt \cup CtlPkt
        BY <2>1, <2>2, <2>3, TransmitType DEF TypeOK
    <2>5. QED BY <1>1, <1>2, <2>1, <2>2, <2>4 DEF Retransmit
<1>3. CASE ~ \E i \in 1..Len(window') : window'[i].seq = ack
    BY <1>3 DEF Retransmit, TypeOK
<1>4. QED BY <1>2, <1>3

\* Types and RexmitHead hold initially.
LEMMA TypeInvInit == Init => TypeInv
<1>1. Syn \in CtlPkt
    BY ConstAssumption DEF Syn, CtlPkt
<1>2. QED
    BY <1>1, ConstAssumption
    DEF Init, TypeInv, TypeOK, RexmitHead, ChunkPending, Fresh, InRexmit, Stages, SndPkt

\* Every action keeps the types and RexmitHead.
LEMMA TypeInvStep == TypeInv /\ [Next]_vars => TypeInv'
<1> SUFFICES ASSUME TypeInv, [Next]_vars PROVE TypeInv'
    OBVIOUS
<1> USE ConstAssumption DEF ChunkPending, Fresh
<1>0. TypeOK /\ RexmitHead /\ ChunkPending /\ Fresh
    BY DEF TypeInv
<1>a. /\ Syn \in CtlPkt /\ Ack \in CtlPkt /\ Fin(seq) \in CtlPkt
      /\ Chunk \in Seq(Byte) /\ Len(Chunk) = length /\ Data(seq, Chunk) \in DataPkt
    BY <1>0, PacketTypes
<1>b. window # <<>> => window[1] \in DataPkt
    BY <1>0, HeadSeqIsNat DEF TypeOK
<1>1. CASE OpenTimeout
    <2>1. toRcv' \subseteq DataPkt \cup CtlPkt
        BY <1>0, <1>1, <1>a, TransmitType DEF OpenTimeout, TypeOK
    <2>2. QED
        BY <1>0, <1>1, <2>1 DEF OpenTimeout, TypeInv, TypeOK, RexmitHead, InRexmit,
            mainVars, cbVars, rcvVars, history
<1>2. CASE SendTimeout
    <2>1. toRcv' \subseteq DataPkt \cup CtlPkt /\ pc' \in {"send", "crashed"}
        BY <1>0, <1>2, <1>b, TransmitType DEF SendTimeout, TypeOK
    <2>2. QED
        BY <1>0, <1>2, <2>1 DEF SendTimeout, TypeInv, TypeOK, RexmitHead, InRexmit, Stages,
            mainVars, cbVars, rcvVars, history
<1>3. CASE RexmitTimeout
    <2>1. toRcv' \subseteq DataPkt \cup CtlPkt
        BY <1>0, <1>3, <1>b, TransmitType DEF RexmitTimeout, TypeOK, RexmitHead
    <2>2. QED
        BY <1>0, <1>3, <2>1 DEF RexmitTimeout, TypeInv, TypeOK, RexmitHead, InRexmit,
            mainVars, cbVars, rcvVars, history
<1>4. CASE CloseTimeout
    <2>1. /\ toRcv' \subseteq DataPkt \cup CtlPkt /\ flight' \in Int
          /\ pc' \in {"close", "crashed"}
        BY <1>0, <1>4, <1>b, TransmitType DEF CloseTimeout, Draining, TypeOK
    <2>2. QED
        BY <1>0, <1>4, <2>1 DEF CloseTimeout, TypeInv, TypeOK, RexmitHead, InRexmit, Stages,
            mainVars, rcvVars, history
<1>5. CASE FinTimeout
    <2>1. toRcv' \subseteq DataPkt \cup CtlPkt
        BY <1>0, <1>5, <1>a, TransmitType DEF FinTimeout, TypeOK
    <2>2. QED
        BY <1>0, <1>5, <2>1 DEF FinTimeout, TypeInv, TypeOK, RexmitHead, InRexmit,
            mainVars, cbVars, rcvVars, history
<1>6. CASE RefusedStep
    <2> USE <1>0 DEF ReadRefused, TypeInv, TypeOK, RexmitHead, InRexmit, Stages,
        mainVars, cbVars, rcvVars, history
    <2>1. CASE OpenRefused
        BY <2>1 DEF OpenRefused
    <2>2. CASE SendRefused
        BY <2>2 DEF SendRefused
    <2>3. CASE RexmitRefused
        BY <2>3 DEF RexmitRefused, Caller
    <2>4. CASE CloseRefused
        BY <2>4 DEF CloseRefused
    <2>5. CASE FinRefused
        BY <2>5 DEF FinRefused
    <2>6. QED BY <1>6, <2>1, <2>2, <2>3, <2>4, <2>5 DEF RefusedStep
<1>7. ASSUME NEW p \in toSnd, OpenSynAck(p) PROVE TypeInv'
    <2>1. toRcv' \subseteq DataPkt \cup CtlPkt
        BY <1>0, <1>7, <1>a, TransmitType DEF OpenSynAck, TypeOK
    <2>2. p \in SndPkt /\ p.ackNo \in Nat /\ p.win \in 0..(W - 1)
        BY <1>0 DEF TypeOK, SndPkt
    <2>3. QED
        BY <1>0, <1>7, <2>1, <2>2 DEF OpenSynAck, Read, TypeInv, TypeOK, RexmitHead,
            InRexmit, Stages, mainVars, rcvVars, history
<1>8. ASSUME NEW p \in toSnd, OpenOther(p) PROVE TypeInv'
    BY <1>0, <1>8 DEF OpenOther, Read, TypeInv, TypeOK, RexmitHead, InRexmit, Stages,
        mainVars, cbVars, rcvVars, history
<1>9. ASSUME NEW p \in toSnd, SendAck(p) PROVE TypeInv'
    <2>1. p.ackNo \in Nat /\ p.win \in 0..(W - 1)
        BY <1>0 DEF TypeOK, SndPkt
    <2>2. window' \in Seq(DataPkt) /\ flight' \in Int /\ popped' \in Nat
        BY <1>0, <1>9, <2>1, MoveWindowTail DEF SendAck, TypeOK
    <2>3. rep' \in 0..(RepW - 1) /\ (rep' = 3 => p.ackNo = lastAck)
        BY <1>0, <1>9 DEF SendAck, CountRepeat, TypeOK
    <2>4. /\ toRcv' \subseteq DataPkt \cup CtlPkt
          /\ \/ pc' = "send"
             \/ pc' = "rexmit_send" /\ window' # <<>> /\ window'[1].seq = lastAck
        <3>1. CASE rep' = 3
            BY <1>0, <1>9, <2>1, <2>3, <3>1, RetransmitHead DEF SendAck
        <3>2. CASE rep' # 3
            BY <1>0, <1>9, <3>2 DEF SendAck, TypeOK
        <3>3. QED BY <3>1, <3>2
    <2>5. QED
        BY <1>0, <1>9, <2>1, <2>2, <2>3, <2>4 DEF SendAck, Read, TypeInv, TypeOK,
            RexmitHead, InRexmit, Stages, mainVars, rcvVars
<1>10. ASSUME NEW p \in toSnd, RexmitAck(p) PROVE TypeInv'
    <2>1. p.ackNo \in Nat /\ p.win \in 0..(W - 1)
        BY <1>0 DEF TypeOK, SndPkt
    <2>2. window' \in Seq(DataPkt) /\ flight' \in Int /\ popped' \in Nat
        BY <1>0, <1>10, <2>1, MoveWindowTail DEF RexmitAck, TypeOK
    <2>3. QED
        BY <1>0, <1>10, <2>1, <2>2 DEF RexmitAck, Read, Caller, TypeInv, TypeOK,
            RexmitHead, InRexmit, Stages, mainVars, rcvVars
<1>11. ASSUME NEW p \in toSnd, CloseAck(p) PROVE TypeInv'
    <2>1. p.ackNo \in Nat
        BY <1>0 DEF TypeOK, SndPkt
    <2>2. window' \in Seq(DataPkt) /\ flight' \in Int /\ popped' \in Nat
        BY <1>0, <1>11, <2>1, MoveWindowTail DEF CloseAck, TypeOK
    <2>3. /\ rep' \in 0..(RepW - 1) /\ lastAck' \in Nat
          /\ toRcv' \subseteq DataPkt \cup CtlPkt
          /\ \/ pc' = "close"
             \/ pc' = "rexmit_close" /\ window' # <<>> /\ window'[1].seq = lastAck'
        <3>1. CASE window' = <<>>
            BY <1>0, <1>11, <3>1 DEF CloseAck, Draining, TypeOK
        <3>2. CASE window' # <<>> /\ rep' # 3
            BY <1>0, <1>11, <2>1, <3>2 DEF CloseAck, Draining, CountRepeat, TypeOK
        <3>3. CASE window' # <<>> /\ rep' = 3
            <4>1. lastAck = p.ackNo /\ lastAck' = p.ackNo
                  /\ Retransmit(p.ackNo, "close", "rexmit_close")
                BY <1>11, <3>3 DEF CloseAck, CountRepeat
            <4>2. QED BY <1>0, <1>11, <2>1, <3>3, <4>1, RetransmitHead DEF CloseAck
        <3>4. QED BY <3>1, <3>2, <3>3
    <2>4. QED
        BY <1>0, <1>11, <2>2, <2>3 DEF CloseAck, Read, TypeInv, TypeOK,
            RexmitHead, InRexmit, Stages, mainVars, rcvVars
<1>12. ASSUME NEW p \in toSnd, FinAck(p) PROVE TypeInv'
    <2>1. toRcv' \subseteq DataPkt \cup CtlPkt
        BY <1>0, <1>12, <1>a, TransmitType DEF FinAck, TypeOK
    <2>2. p.ackNo \in Nat
        BY <1>0 DEF TypeOK, SndPkt
    <2>3. QED
        BY <1>0, <1>12, <2>1, <2>2 DEF FinAck, Read, TypeInv, TypeOK, RexmitHead,
            InRexmit, Stages, mainVars, rcvVars, history
<1>13. ASSUME NEW p \in toSnd, FinOther(p) PROVE TypeInv'
    BY <1>0, <1>13 DEF FinOther, Read, TypeInv, TypeOK, RexmitHead, InRexmit, Stages,
        mainVars, cbVars, rcvVars, history
<1>14. CASE MainNoControlBlock \/ MainRead \/ MainEof
    <2> USE <1>0 DEF TypeInv, TypeOK, RexmitHead, InRexmit, Stages,
        mainVars, cbVars, rcvVars, history
    <2>1. CASE MainNoControlBlock
        BY <2>1 DEF MainNoControlBlock
    <2>2. CASE MainRead
        <3>1. /\ offset' \in 0..FileLen /\ length' \in 0..MSS /\ length' <= offset'
            BY <2>2 DEF MainRead
        <3>2. QED BY <2>2, <3>1 DEF MainRead
    <2>3. CASE MainEof
        BY <2>3 DEF MainEof
    <2>4. QED BY <1>14, <2>1, <2>2, <2>3
<1>15. CASE SendOne
    <2>1. toRcv' \subseteq DataPkt \cup CtlPkt
        BY <1>0, <1>15, <1>a, TransmitType DEF SendOne, TypeOK
    <2>2. window' \in Seq(DataPkt) /\ accepted' \in Seq(Byte)
        BY <1>0, <1>15, <1>a DEF SendOne, TypeOK
    <2>3. /\ length' \in 0..MSS /\ length' <= offset' /\ offset' = offset
          /\ seq' \in Nat /\ flight' \in Int /\ pc' = "main"
        BY <1>0, <1>15 DEF SendOne, TypeOK
    <2>4. QED
        BY <1>0, <1>15, <2>1, <2>2, <2>3 DEF SendOne, TypeInv, TypeOK, RexmitHead,
            InRexmit, Stages, rcvVars
<1>16. CASE SendSplit
    <2>1. /\ Pieces \in Nat
          /\ [k \in 1..Pieces |-> Piece(k)] \in Seq(DataPkt)
        BY <1>0, <1>16, PieceTypes DEF SendSplit
    <2>2. window' \in Seq(DataPkt) /\ accepted' \in Seq(Byte)
        BY <1>0, <1>16, <1>a, <2>1 DEF SendSplit, TypeOK
    <2>3. Pieces * length \in Nat
        BY <1>0, <2>1 DEF TypeOK
    <2>4. QED
        BY <1>0, <1>16, <2>2, <2>3 DEF SendSplit, TypeInv, TypeOK, RexmitHead,
            InRexmit, Stages, rcvVars
<1>17. CASE CloseFin
    <2>1. toRcv' \subseteq DataPkt \cup CtlPkt
        BY <1>0, <1>17, <1>a, TransmitType DEF CloseFin, TypeOK
    <2>2. QED
        BY <1>0, <1>17, <2>1 DEF CloseFin, TypeInv, TypeOK, RexmitHead, InRexmit, Stages,
            mainVars, rcvVars, history
<1>18. CASE RcvSyn
    <2>1. toSnd' \subseteq SndPkt /\ \A p \in toSnd' : p.win < W
        BY <1>0, <1>18, ReplyType DEF RcvSyn, TypeOK
    <2>2. QED
        BY <1>0, <1>18, <2>1 DEF RcvSyn, sndVars, TypeInv, TypeOK, RexmitHead, InRexmit,
            mainVars, cbVars, history
<1>19. CASE RcvAck \/ Lose
    BY <1>0, <1>19 DEF RcvAck, Lose, sndVars, TypeInv, TypeOK, RexmitHead, InRexmit,
        mainVars, cbVars, rcvVars, history
<1>20. ASSUME NEW p \in toRcv, RcvInOrder(p) PROVE TypeInv'
    <2>1. p \in DataPkt /\ p.data \in Seq(Byte)
        BY <1>0, <1>20 DEF RcvInOrder, TypeOK, CtlPkt, DataPkt
    <2>2. nbe' \in Nat /\ delivered' \in Seq(Byte)
        BY <1>0, <1>20, <2>1 DEF RcvInOrder, TypeOK
    <2>3. toSnd' \subseteq SndPkt /\ \A q \in toSnd' : q.win < W
        BY <1>0, <1>20, <2>2, ReplyType DEF RcvInOrder
    <2>4. QED
        BY <1>0, <1>20, <2>2, <2>3 DEF RcvInOrder, sndVars, TypeInv, TypeOK, RexmitHead,
            InRexmit, mainVars, cbVars, history
<1>21. ASSUME NEW p \in toRcv, RcvOutOfOrder(p) PROVE TypeInv'
    <2>1. toSnd' \subseteq SndPkt /\ \A q \in toSnd' : q.win < W
        BY <1>0, <1>21, ReplyType DEF RcvOutOfOrder, TypeOK
    <2>2. QED
        BY <1>0, <1>21, <2>1 DEF RcvOutOfOrder, sndVars, TypeInv, TypeOK, RexmitHead,
            InRexmit, mainVars, cbVars, rcvVars, history
<1>22. ASSUME NEW p \in toRcv, RcvFin(p) PROVE TypeInv'
    <2>1. toSnd' \subseteq SndPkt /\ \A q \in toSnd' : q.win < W
        BY <1>0, <1>22, ReplyType DEF RcvFin, TypeOK
    <2>2. QED
        BY <1>0, <1>22, <2>1 DEF RcvFin, sndVars, TypeInv, TypeOK, RexmitHead,
            InRexmit, mainVars, cbVars, rcvVars, history
<1>23. CASE UNCHANGED vars
    BY <1>0, <1>23 DEF vars, TypeInv, TypeOK, RexmitHead, InRexmit,
        mainVars, cbVars, rcvVars, history
<1>24. QED
    BY <1>1, <1>2, <1>3, <1>4, <1>5, <1>6, <1>7, <1>8, <1>9, <1>10, <1>11, <1>12, <1>13,
       <1>14, <1>15, <1>16, <1>17, <1>18, <1>19, <1>20, <1>21, <1>22, <1>23
    DEF Next, TimerStep, ReadStep, LocalStep, ReceiverStep, Stopped

\* Every variable keeps its type (the declarations of stcp_send_ctrl_blk).
THEOREM TypeCorrect == Spec => []TypeOK
<1>1. TypeInv => TypeOK
    BY DEF TypeInv
<1>2. QED BY <1>1, TypeInvInit, TypeInvStep, PTL DEF Spec

\* retransmitWindow waits only on a packet that is the head of the queue: the
\* head it resends on a time-out exists, and its search passed over no node.
THEOREM RetransmitsHead == Spec => []RexmitHead
<1>1. TypeInv => RexmitHead
    BY DEF TypeInv
<1>2. QED BY <1>1, TypeInvInit, TypeInvStep, PTL DEF Spec

-----------------------------------------------------------------------------
(* What a step can do to the queue and to the data under way.              *)

\* Data under way after the step was queued or under way before it.
NothingNew == \A p \in toRcv' : p.type = "DATA" => p \in DataPackets

Keeps ==
    /\ UNCHANGED <<seq, window, flight, popped, uncounted, accepted>>
    /\ NothingNew
    /\ \/ pc' = pc
       \/ pc' = "success" /\ pc # "success"
       \/ pc' = "fin" /\ pc = "close"
       \/ /\ pc' # "success" /\ pc \notin {"success", "fin", "crashed"}
          /\ ~(pc = "close" /\ InFlight = 0)

Frees ==
    /\ \E ack \in Nat : MoveWindow(ack)
    /\ UNCHANGED <<seq, uncounted, accepted>>
    /\ NothingNew
    /\ \/ pc = "send" \/ InRexmit \/ Draining
    /\ pc' # "success"

Clears ==
    /\ window = <<>> /\ flight' = 0 /\ pc = "close" /\ pc' \in {"close", "crashed"}
    /\ UNCHANGED <<seq, window, popped, uncounted, accepted>>
    /\ NothingNew

\* A send of anything but new data.
LEMMA TransmitOld ==
    ASSUME NEW p, p.type = "DATA" => p \in DataPackets, Transmit(p)
    PROVE  NothingNew
BY PutAdds DEF Transmit, NothingNew, DataPackets

\* A resend after moveWindow.
LEMMA RetransmitOld ==
    ASSUME TypeOK, NEW ack \in Nat, MoveWindow(ack), NEW here, NEW there,
           Retransmit(ack, here, there)
    PROVE  NothingNew /\ pc' \in {here, there}
<1>1. PICK n \in 0..Len(window) :
        /\ Len(window') = Len(window) - n
        /\ \A i \in 1..Len(window') : window'[i] = window[n + i]
    BY MoveWindowTail DEF TypeOK
<1>2. window' \in Seq(DataPkt)
    BY MoveWindowTail DEF TypeOK
<1>3. CASE pc' = here /\ toRcv' = toRcv
    BY <1>3 DEF NothingNew, DataPackets
<1>4. CASE pc' = there /\ window' # <<>> /\ Transmit(window'[1])
    <2>1. 1 \in 1..Len(window') /\ n + 1 \in 1..Len(window)
        BY <1>1, <1>2, <1>4 DEF TypeOK
    <2>2. window'[1] = window[n + 1]
        BY <1>1, <2>1
    <2>3. window'[1] \in DataPackets
        BY <2>1, <2>2 DEF DataPackets
    <2>4. QED BY <1>4, <2>3, TransmitOld
<1>5. QED BY <1>3, <1>4, RetransmitHead

\* What a step can do to the queue: nothing, free a prefix of it, become
\* irrelevant at the end, or queue new data.
LEMMA QueueSteps ==
    ASSUME TypeInv, [Next]_vars
    PROVE  \/ Keeps \/ Frees \/ Clears \/ SendOne \/ SendSplit
           \/ \E p \in toSnd : OpenSynAck(p) \/ FinAck(p)
<1> USE DEF history, cbVars
<1>0. TypeOK /\ RexmitHead
    BY DEF TypeInv
<1>a. Syn.type = "SYN" /\ Ack.type = "ACK" /\ Fin(seq).type = "FIN"
    BY DEF Syn, Ack, Fin
<1>b. window # <<>> => window[1] \in DataPackets
    BY <1>0 DEF TypeOK, DataPackets
<1>c. UNCHANGED toRcv => NothingNew
    BY DEF NothingNew, DataPackets
<1>d. \A p \in toSnd : p.ackNo \in Nat
    BY <1>0 DEF TypeOK, SndPkt
<1>1. CASE OpenTimeout
    BY <1>1, <1>a, TransmitOld DEF OpenTimeout, Keeps
<1>2. CASE SendTimeout
    BY <1>2, <1>b, <1>c, TransmitOld DEF SendTimeout, Keeps
<1>3. CASE RexmitTimeout
    BY <1>0, <1>3, <1>b, TransmitOld DEF RexmitTimeout, RexmitHead, Keeps
<1>4. CASE CloseTimeout
    <2>1. CASE window = <<>>
        BY <1>4, <1>c, <2>1 DEF CloseTimeout, Draining, Clears
    <2>2. CASE window # <<>>
        BY <1>4, <1>b, <2>2, TransmitOld DEF CloseTimeout, Keeps
    <2>3. QED BY <2>1, <2>2
<1>5. CASE FinTimeout
    BY <1>5, <1>a, TransmitOld DEF FinTimeout, Keeps
<1>6. CASE RefusedStep
    <2>1. \/ pc' = "success" /\ pc # "success"
          \/ /\ pc' # "success" /\ pc \notin {"success", "fin", "crashed"}
             /\ ~(pc = "close" /\ InFlight = 0)
        BY <1>6 DEF RefusedStep, OpenRefused, SendRefused, RexmitRefused, CloseRefused,
            FinRefused, InRexmit, Caller, Draining
    <2>2. UNCHANGED <<cbVars, toRcv, history>>
        BY <1>6 DEF RefusedStep, OpenRefused, SendRefused, RexmitRefused, CloseRefused,
            FinRefused
    <2>3. QED BY <1>c, <2>1, <2>2 DEF Keeps
<1>7. ASSUME NEW p \in toSnd, OpenOther(p) \/ FinOther(p) PROVE Keeps
    BY <1>7, <1>c DEF OpenOther, FinOther, Keeps
<1>8. ASSUME NEW p \in toSnd, SendAck(p) PROVE Frees
    <2>1. NothingNew /\ pc' # "success"
        <3>1. CASE rep' = 3
            <4>1. p.ackNo = lastAck
                BY <1>8, <3>1 DEF SendAck, CountRepeat
            <4>2. QED BY <1>0, <1>8, <1>d, <3>1, <4>1, RetransmitOld DEF SendAck
        <3>2. CASE rep' # 3
            BY <1>8, <1>c, <3>2 DEF SendAck
        <3>3. QED BY <3>1, <3>2
    <2>2. QED BY <1>8, <1>d, <2>1 DEF SendAck, Frees
<1>9. ASSUME NEW p \in toSnd, RexmitAck(p) PROVE Frees
    BY <1>9, <1>c, <1>d DEF RexmitAck, Caller, Frees
<1>10. ASSUME NEW p \in toSnd, CloseAck(p) PROVE Frees
    <2>1. NothingNew /\ pc' # "success"
        <3>1. CASE window' # <<>> /\ rep' = 3
            <4>1. p.ackNo = lastAck
                BY <1>10, <3>1 DEF CloseAck, CountRepeat
            <4>2. QED BY <1>0, <1>10, <1>d, <3>1, <4>1, RetransmitOld DEF CloseAck
        <3>2. CASE window' = <<>> \/ rep' # 3
            BY <1>10, <1>c, <3>2 DEF CloseAck, Draining
        <3>3. QED BY <3>1, <3>2
    <2>2. QED BY <1>10, <1>d, <2>1 DEF CloseAck, Frees
<1>11. CASE MainNoControlBlock \/ MainRead \/ MainEof
    BY <1>11, <1>c DEF MainNoControlBlock, MainRead, MainEof, Keeps
<1>12. CASE CloseFin
    BY <1>12, <1>a, TransmitOld DEF CloseFin, Keeps
<1>13. CASE RcvSyn \/ RcvAck
    BY <1>13 DEF RcvSyn, RcvAck, sndVars, Keeps, NothingNew, DataPackets
<1>14. CASE Lose
    BY <1>14 DEF Lose, sndVars, Keeps, NothingNew, DataPackets
<1>15. ASSUME NEW p \in toRcv, RcvInOrder(p) \/ RcvOutOfOrder(p) \/ RcvFin(p)
       PROVE  Keeps
    BY <1>15 DEF RcvInOrder, RcvOutOfOrder, RcvFin, sndVars, Keeps, NothingNew, DataPackets
<1>16. CASE UNCHANGED vars
    BY <1>16, <1>c DEF vars, Keeps
<1>17. QED
    BY <1>1, <1>2, <1>3, <1>4, <1>5, <1>6, <1>7, <1>8, <1>9, <1>10, <1>11, <1>12,
       <1>13, <1>14, <1>15, <1>16
    DEF Next, TimerStep, ReadStep, LocalStep, ReceiverStep, Stopped

-----------------------------------------------------------------------------
(* The queue and the segments.                                             *)

\* The inductive form of SegmentsDisjoint: new data starts where the last of
\* the old data ends.
SegmentInv ==
    /\ \A p \in DataPackets : p.data # <<>> /\ (pc # "success" => End(p) <= seq)
    /\ SegmentsDisjoint

QueueInv == WindowContiguous /\ SegmentInv

\* The fields of a data packet are numbers and bytes.
LEMMA DataPacketTypes ==
    ASSUME TypeOK, NEW p \in DataPackets
    PROVE  p \in DataPkt /\ p.seq \in Nat /\ p.data \in Seq(Byte) /\ Len(p.data) \in Nat
           /\ (p.data # <<>> => Len(p.data) >= 1)
<1>0. window \in Seq(DataPkt) /\ toRcv \subseteq DataPkt \cup CtlPkt
    BY DEF TypeOK
<1>1. ASSUME NEW i \in 1..Len(window), p = window[i] PROVE p \in DataPkt
    BY <1>0, <1>1
<1>2. ASSUME p \in toRcv, p.type = "DATA" PROVE p \in DataPkt
    <2>1. p \notin CtlPkt
        BY <1>2 DEF CtlPkt
    <2>2. QED BY <1>0, <1>2, <2>1
<1>3. p \in DataPkt
    BY <1>1, <1>2 DEF DataPackets
<1>4. QED BY <1>3 DEF DataPkt

\* Freeing nodes leaves no data that was not there.
LEMMA FreesNothingNew ==
    ASSUME TypeOK, Frees
    PROVE  /\ DataPackets' \subseteq DataPackets
           /\ \E n \in 0..Len(window) :
                /\ window' \in Seq(DataPkt)
                /\ Len(window') = Len(window) - n
                /\ \A i \in 1..Len(window') : window'[i] = window[n + i]
                /\ popped' = popped + n
                /\ flight' = flight - (HeadSeq(window', seq) - HeadSeq(window, seq)) - HDR * n
<1>1. PICK n \in 0..Len(window) :
        /\ window' \in Seq(DataPkt)
        /\ Len(window') = Len(window) - n
        /\ \A i \in 1..Len(window') : window'[i] = window[n + i]
        /\ popped' = popped + n
        /\ flight' = flight - (HeadSeq(window', seq) - HeadSeq(window, seq)) - HDR * n
    BY MoveWindowTail DEF Frees, TypeOK
<1>2. ASSUME NEW i \in 1..Len(window') PROVE window'[i] \in DataPackets
    <2>1. PICK l \in Nat : l = Len(window)
        BY DEF TypeOK
    <2>2. i \in 1..(l - n) /\ n \in 0..l
        BY <1>1, <1>2, <2>1
    <2>3. n + i \in 1..Len(window)
        BY <2>1, <2>2
    <2>4. window'[i] = window[n + i]
        BY <1>1
    <2>5. QED BY <2>3, <2>4 DEF DataPackets
<1>3. DataPackets' \subseteq DataPackets
    BY <1>2 DEF DataPackets, Frees, NothingNew
<1>4. QED BY <1>1, <1>3

\* A step that adds no data keeps the segments apart.
LEMMA SegmentsKept ==
    ASSUME TypeOK, SegmentInv, DataPackets' \subseteq DataPackets,
           pc' # "success" => pc # "success" /\ seq' \in Nat /\ seq <= seq'
    PROVE  SegmentInv'
<1>1. ASSUME NEW p \in DataPackets', pc' # "success" PROVE End(p) <= seq'
    <2>1. p \in DataPackets /\ End(p) <= seq
        BY <1>1 DEF SegmentInv
    <2>2. QED BY <1>1, <2>1, DataPacketTypes DEF End, TypeOK
<1>2. QED BY <1>1 DEF SegmentInv, SegmentsDisjoint

\* The queue invariant holds of the empty queue.
LEMMA QueueInvInit == Init => QueueInv
<1>1. Syn.type = "SYN"
    BY DEF Syn
<1>2. QED
    BY <1>1 DEF Init, QueueInv, WindowContiguous, SegmentInv, SegmentsDisjoint, DataPackets

\* Multiplication by a natural number is monotone.
LEMMA TimesMonotone ==
    ASSUME NEW a \in Nat, NEW b \in Nat, NEW c \in Nat, a <= b
    PROVE  a * c <= b * c
<1>1. (b - a) * c \in Nat
    OBVIOUS
<1>2. b * c = a * c + (b - a) * c
    OBVIOUS
<1>3. QED BY <1>1, <1>2

\* So is adding one.
LEMMA AddMonotone ==
    ASSUME NEW a \in Nat, NEW b \in Nat, NEW c \in Nat, a <= b
    PROVE  c + a <= c + b
OBVIOUS

\* Queueing one packet at the end keeps the queue and the segments in order.
LEMMA QueueInvSendOne ==
    ASSUME TypeInv, QueueInv, SendOne
    PROVE  QueueInv'
<1>0. window \in Seq(DataPkt) /\ Len(window) \in Nat /\ TypeOK
    BY DEF TypeInv, TypeOK
<1> DEFINE new == Data(seq, Chunk)
<1>a. length \in Nat /\ length >= 1 /\ seq \in Nat /\ seq' = seq + length
    BY ConstAssumption DEF TypeInv, TypeOK, ChunkPending, SendOne
<1>b. new \in DataPkt /\ new.seq = seq /\ new.data = Chunk /\ Len(Chunk) = length
    BY <1>0, PacketTypes DEF Data
<1>1. new \in DataPkt /\ new.seq = seq /\ new.data # <<>>
      /\ End(new) = seq' /\ seq \in Nat /\ seq' \in Nat /\ seq <= seq'
    BY <1>a, <1>b DEF End
<1>2. /\ Len(window') = Len(window) + 1 /\ window'[Len(window) + 1] = new
      /\ \A i \in 1..Len(window) : window'[i] = window[i]
    BY <1>1, <1>0 DEF SendOne
<1>3. pc # "success" /\ pc' # "success"
    BY DEF SendOne
<1>5. DataPackets' \subseteq DataPackets \cup {new}
    BY <1>2, PutAdds DEF SendOne, Transmit, DataPackets
<1> HIDE DEF new
<1>c. \A i \in 1..Len(window) :
        /\ window[i].data # <<>>
        /\ End(window[i]) = IF i = Len(window) THEN seq ELSE window[i + 1].seq
    BY <1>3 DEF WindowContiguous, QueueInv
<1>4. WindowContiguous'
    <2>1. ASSUME NEW i \in 1..Len(window')
          PROVE  /\ window'[i].data # <<>>
                 /\ End(window'[i]) = IF i = Len(window') THEN seq' ELSE window'[i + 1].seq
        <3>1. CASE i < Len(window)
            BY <1>0, <1>2, <1>c, <3>1
        <3>2. CASE i = Len(window)
            BY <1>0, <1>1, <1>2, <1>c, <3>2
        <3>3. CASE i = Len(window) + 1
            BY <1>0, <1>1, <1>2, <3>3
        <3>4. QED BY <1>0, <1>2, <3>1, <3>2, <3>3
    <2>2. QED BY <2>1 DEF WindowContiguous
<1>6. ASSUME NEW p \in DataPackets' PROVE p.data # <<>> /\ End(p) <= seq'
    <2>1. CASE p = new
        BY <1>1, <2>1
    <2>2. CASE p \in DataPackets
        BY <1>1, <1>3, <2>2, <1>0, DataPacketTypes DEF QueueInv, SegmentInv, End
    <2>3. QED BY <1>5, <2>1, <2>2
<1>7. ASSUME NEW p \in DataPackets', NEW q \in DataPackets'
      PROVE  p = q \/ End(p) <= q.seq \/ End(q) <= p.seq
    <2>1. CASE p \in DataPackets /\ q \in DataPackets
        BY <2>1 DEF QueueInv, SegmentInv, SegmentsDisjoint
    <2>2. CASE p = new /\ q \in DataPackets
        BY <1>1, <1>3, <2>2 DEF QueueInv, SegmentInv
    <2>3. CASE p \in DataPackets /\ q = new
        BY <1>1, <1>3, <2>3 DEF QueueInv, SegmentInv
    <2>4. QED BY <1>5, <2>1, <2>2, <2>3
<1>8. QED BY <1>3, <1>4, <1>6, <1>7 DEF QueueInv, SegmentInv, SegmentsDisjoint

\* So does queueing the pieces of a split chunk.
LEMMA QueueInvSendSplit ==
    ASSUME TypeInv, QueueInv, SendSplit
    PROVE  QueueInv'
<1>0. window \in Seq(DataPkt) /\ Len(window) \in Nat /\ TypeOK
    BY DEF TypeInv, TypeOK
<1> DEFINE n == Pieces
<1>1. /\ n \in Nat /\ length >= 1 /\ length \in Nat /\ seq \in Nat
      /\ \A k \in 1..n : /\ Piece(k) \in DataPkt
                         /\ Piece(k).seq = seq + (k - 1) * length
                         /\ Len(Piece(k).data) = length
    BY PieceTypes, ConstAssumption DEF TypeInv, TypeOK, ChunkPending, SendSplit
<1>2. /\ Len(window') = Len(window) + n
      /\ \A i \in 1..Len(window) : window'[i] = window[i]
      /\ \A k \in 1..n : window'[Len(window) + k] = Piece(k)
    <2>1. [k \in 1..n |-> Piece(k)] \in Seq(DataPkt)
        BY <1>1
    <2>2. QED BY <1>1, <2>1, <1>0 DEF SendSplit
<1>3. pc # "success" /\ pc' # "success" /\ seq' = seq + n * length
    BY DEF SendSplit
<1> HIDE DEF n
<1>4. ASSUME NEW k \in 1..n
      PROVE  /\ Piece(k).data # <<>> /\ seq <= Piece(k).seq /\ Piece(k).seq \in Nat
             /\ End(Piece(k)) = seq + k * length
             /\ End(Piece(k)) <= seq'
    <2>1. (k - 1) * length + length = k * length /\ (k - 1) * length \in Nat
        BY <1>1
    <2>2. k * length <= n * length
        BY <1>1, TimesMonotone
    <2>3. k * length \in Nat /\ n * length \in Nat
        BY <1>1
    <2>4. Piece(k).data # <<>>
        BY <1>1
    <2>5. End(Piece(k)) = seq + ((k - 1) * length + length)
        BY <1>1, <2>1 DEF End
    <2>6. Piece(k).seq \in Nat /\ seq <= Piece(k).seq
        <3>1. Piece(k).seq = seq + (k - 1) * length /\ seq \in Nat
            BY <1>1
        <3>2. \A a \in Nat : seq + a \in Nat /\ seq <= seq + a
            BY <3>1
        <3>3. QED BY <2>1, <3>1, <3>2
    <2>7. End(Piece(k)) = seq + k * length
        BY <2>1, <2>5
    <2>8. seq + k * length <= seq + n * length
        BY <1>1, <2>2, <2>3
    <2>9. QED BY <1>3, <2>4, <2>6, <2>7, <2>8
<1>5. ASSUME NEW k \in 1..n, NEW m \in 1..n, k < m
      PROVE  End(Piece(k)) <= Piece(m).seq
    <2>1. k * length <= (m - 1) * length
        BY <1>1, <1>5, TimesMonotone
    <2>2. k * length \in Nat /\ (m - 1) * length \in Nat
        BY <1>1
    <2>3. End(Piece(k)) = seq + k * length /\ Piece(m).seq = seq + (m - 1) * length
        BY <1>1, <1>4
    <2>4. seq + k * length <= seq + (m - 1) * length
        BY <1>1, <2>1, <2>2, AddMonotone
    <2>5. QED BY <2>3, <2>4
<1>c. \A i \in 1..Len(window) :
        /\ window[i].data # <<>>
        /\ End(window[i]) = IF i = Len(window) THEN seq ELSE window[i + 1].seq
    BY <1>3 DEF WindowContiguous, QueueInv
<1>6. WindowContiguous'
    <2>1. ASSUME NEW i \in 1..Len(window')
          PROVE  /\ window'[i].data # <<>>
                 /\ End(window'[i]) = IF i = Len(window') THEN seq' ELSE window'[i + 1].seq
        <3>1. CASE i < Len(window)
            <4>1. n \in Nat
                BY <1>1
            <4>2. i \in 1..Len(window) /\ i + 1 \in 1..Len(window)
                  /\ i # Len(window') /\ i # Len(window)
                BY <1>0, <1>2, <3>1, <4>1
            <4>3. window'[i] = window[i] /\ window'[i + 1] = window[i + 1]
                BY <1>2, <4>2
            <4>4. QED BY <1>c, <4>2, <4>3
        <3>2. CASE i = Len(window)
            <4>1. /\ window'[i] = window[i] /\ window[i].data # <<>> /\ End(window[i]) = seq
                BY <1>0, <1>2, <1>c, <3>2
            <4>2. CASE n = 0
                BY <1>0, <1>1, <1>2, <1>3, <3>2, <4>1, <4>2, <1>0
            <4>3. CASE n >= 1
                <5>1. window'[i + 1] = Piece(1) /\ Piece(1).seq = seq + 0 * length
                    BY <1>1, <1>2, <3>2, <4>3
                <5>2. QED BY <1>1, <1>2, <3>2, <4>1, <4>3, <5>1, <1>0
            <4>4. QED BY <1>1, <4>2, <4>3
        <3>3. CASE i > Len(window)
            <4>1. PICK k \in 1..n : i = Len(window) + k
                <5>1. i - Len(window) \in 1..n /\ i = Len(window) + (i - Len(window))
                    BY <1>0, <1>1, <1>2, <3>3
                <5>2. QED BY <5>1
            <4>2. window'[i] = Piece(k) /\ End(Piece(k)) = seq + k * length
                BY <1>2, <1>4, <4>1
            <4>3. CASE k = n
                BY <1>1, <1>2, <1>3, <1>4, <4>1, <4>2, <4>3, <1>0
            <4>4. CASE k < n
                <5>1. window'[i + 1] = Piece(k + 1) /\ Piece(k + 1).seq = seq + k * length
                    <6>1. k + 1 \in 1..n /\ (k + 1) - 1 = k
                        BY <1>1, <4>1, <4>4
                    <6>2. i + 1 = Len(window) + (k + 1)
                        BY <1>0, <4>1
                    <6>3. Piece(k + 1).seq = seq + k * length
                        BY <1>1, <6>1
                    <6>4. window'[i + 1] = Piece(k + 1)
                        BY <1>2, <6>1, <6>2
                    <6>5. QED BY <6>3, <6>4
                <5>2. QED BY <1>1, <1>2, <1>4, <4>1, <4>2, <4>4, <5>1, <1>0
            <4>5. QED BY <1>1, <4>3, <4>4
        <3>4. QED BY <1>1, <1>2, <3>1, <3>2, <3>3, <1>0
    <2>2. QED BY <2>1 DEF WindowContiguous
<1>7. ASSUME NEW p \in DataPackets'
      PROVE  p \in DataPackets \/ \E k \in 1..n : p = Piece(k)
    <2>1. CASE p \in toRcv /\ p.type = "DATA"
        BY <1>7, <2>1 DEF DataPackets
    <2>2. CASE \E i \in 1..Len(window') : p = window'[i]
        <3>1. PICK i \in 1..Len(window') : p = window'[i]
            BY <2>2
        <3>2. CASE i <= Len(window)
            BY <1>2, <3>1, <3>2 DEF DataPackets, TypeInv, TypeOK
        <3>3. CASE i > Len(window)
            <4>1. PICK k \in 1..n : i = Len(window) + k
                <5>1. i - Len(window) \in 1..n /\ i = Len(window) + (i - Len(window))
                    BY <1>0, <1>1, <1>2, <3>3
                <5>2. QED BY <5>1
            <4>2. QED BY <1>2, <3>1, <4>1
        <3>4. QED BY <1>1, <1>2, <3>2, <3>3, <1>0
    <2>3. QED BY <1>7, <2>1, <2>2 DEF DataPackets, SendSplit
<1>8. seq <= seq' /\ seq' \in Nat
    BY <1>1, <1>3
<1>9. ASSUME NEW p \in DataPackets' PROVE p.data # <<>> /\ End(p) <= seq'
    <2>1. CASE p \in DataPackets
        <3>1. p.data # <<>> /\ End(p) <= seq
            BY <1>3, <2>1 DEF QueueInv, SegmentInv
        <3>2. End(p) \in Nat
            BY <1>0, <2>1, DataPacketTypes DEF End
        <3>3. QED BY <1>1, <1>8, <3>1, <3>2
    <2>2. QED BY <1>4, <1>7, <2>1
<1>10. ASSUME NEW p \in DataPackets', NEW q \in DataPackets'
       PROVE  p = q \/ End(p) <= q.seq \/ End(q) <= p.seq
    <2>1. CASE p \in DataPackets /\ q \in DataPackets
        BY <2>1 DEF QueueInv, SegmentInv, SegmentsDisjoint
    <2>2. ASSUME NEW a \in DataPackets, NEW k \in 1..n PROVE End(a) <= Piece(k).seq
        BY <1>1, <1>3, <1>4, <1>0, DataPacketTypes DEF QueueInv, SegmentInv, End
    <2>3. CASE \E k, m \in 1..n : p = Piece(k) /\ q = Piece(m)
        <3>1. PICK k \in 1..n, m \in 1..n : p = Piece(k) /\ q = Piece(m)
            BY <2>3
        <3>2. k = m \/ k < m \/ m < k
            BY <1>1
        <3>3. QED BY <1>5, <3>1, <3>2
    <2>4. QED BY <1>7, <2>1, <2>2, <2>3
<1>11. QED BY <1>3, <1>6, <1>9, <1>10 DEF QueueInv, SegmentInv, SegmentsDisjoint

\* Every step keeps the queue contiguous and the segments apart.
LEMMA QueueInvStep == TypeInv /\ QueueInv /\ [Next]_vars => QueueInv'
<1> SUFFICES ASSUME TypeInv, QueueInv, [Next]_vars PROVE QueueInv'
    OBVIOUS
<1>a. TypeOK /\ TypeOK'
    BY TypeInvStep DEF TypeInv
<1>b. window \in Seq(DataPkt) /\ seq \in Nat
    BY <1>a DEF TypeOK
<1>c. seq' \in Nat /\ window' \in Seq(DataPkt)
    BY <1>a DEF TypeOK
<1>0. /\ TypeOK /\ TypeOK' /\ window \in Seq(DataPkt) /\ Len(window) \in Nat
      /\ seq \in Nat /\ seq' \in Nat
    BY <1>a, <1>b, <1>c
<1>w. pc # "success" =>
        \A i \in 1..Len(window) :
            /\ window[i].data # <<>>
            /\ End(window[i]) = IF i = Len(window) THEN seq ELSE window[i + 1].seq
    BY DEF QueueInv, WindowContiguous
<1>1. CASE Keeps
    <2>1. pc' # "success" => pc # "success"
        BY <1>1 DEF Keeps
    <2>2. WindowContiguous'
        BY <1>1, <1>w, <2>1 DEF Keeps, WindowContiguous, End
    <2>3. DataPackets' \subseteq DataPackets
        BY <1>1 DEF Keeps, NothingNew, DataPackets
    <2>4. QED BY <1>0, <1>1, <2>1, <2>2, <2>3, SegmentsKept DEF Keeps, QueueInv
<1>2. CASE Frees
    <2>1. pc # "success" /\ seq' = seq
        BY <1>2 DEF Frees, InRexmit, Draining
    <2>2. PICK n \in 0..Len(window) :
            /\ window' \in Seq(DataPkt)
            /\ Len(window') = Len(window) - n
            /\ \A i \in 1..Len(window') : window'[i] = window[n + i]
        BY <1>0, <1>2, FreesNothingNew
    <2>3. WindowContiguous'
        <3>1. ASSUME NEW i \in 1..Len(window')
              PROVE  /\ window'[i].data # <<>>
                     /\ End(window'[i]) = IF i = Len(window') THEN seq' ELSE window'[i + 1].seq
            <4>1. n + i \in 1..Len(window) /\ window'[i] = window[n + i]
                BY <1>0, <2>2
            <4>2. i # Len(window') => window'[i + 1] = window[(n + i) + 1]
                <5>1. SUFFICES ASSUME i # Len(window')
                               PROVE  window'[i + 1] = window[(n + i) + 1]
                    OBVIOUS
                <5>2. i + 1 \in 1..Len(window') /\ n + (i + 1) = (n + i) + 1
                    <6>1. Len(window') \in Nat /\ n \in Nat
                        BY <1>0, <2>2
                    <6>2. QED BY <5>1, <6>1
                <5>3. window'[i + 1] = window[n + (i + 1)]
                    BY <2>2, <5>2
                <5>4. QED BY <5>2, <5>3
            <4>3. (i = Len(window')) <=> (n + i = Len(window))
                BY <1>0, <2>2
            <4>4. QED BY <1>w, <2>1, <4>1, <4>2, <4>3
        <3>2. QED BY <3>1 DEF WindowContiguous
    <2>4. DataPackets' \subseteq DataPackets
        BY <1>0, <1>2, FreesNothingNew
    <2>5. QED BY <1>0, <2>1, <2>3, <2>4, SegmentsKept DEF QueueInv
<1>3. CASE Clears
    <2>1. WindowContiguous' /\ pc # "success"
        BY <1>3 DEF Clears, WindowContiguous
    <2>2. DataPackets' \subseteq DataPackets
        BY <1>3 DEF Clears, NothingNew, DataPackets
    <2>3. QED BY <1>0, <1>3, <2>1, <2>2, SegmentsKept DEF Clears, QueueInv
<1>4. CASE SendOne
    BY <1>4, QueueInvSendOne
<1>5. CASE SendSplit
    BY <1>5, QueueInvSendSplit
<1>6. ASSUME NEW p \in toSnd, OpenSynAck(p) PROVE QueueInv'
    <2>1. window = <<>> /\ window' = window /\ pc = "open" /\ seq' = seq + 1
        BY <1>6 DEF OpenSynAck, Acceptable, TypeInv, Fresh
    <2>2. WindowContiguous'
        BY <2>1 DEF WindowContiguous
    <2>3. DataPackets' \subseteq DataPackets
        BY <1>6, <2>1, PutAdds DEF OpenSynAck, Transmit, Ack, DataPackets
    <2>4. QED BY <1>0, <2>1, <2>2, <2>3, SegmentsKept DEF QueueInv
<1>7. ASSUME NEW p \in toSnd, FinAck(p) PROVE QueueInv'
    <2>1. pc' = "success" /\ window' = window
        BY <1>7 DEF FinAck
    <2>2. DataPackets' \subseteq DataPackets
        BY <1>7, <2>1, PutAdds DEF FinAck, Transmit, Ack, DataPackets
    <2>3. QED BY <1>0, <2>1, <2>2, SegmentsKept DEF QueueInv, WindowContiguous
<1>8. QED BY <1>1, <1>2, <1>3, <1>4, <1>5, <1>6, <1>7, QueueSteps

\* The sender's queue covers the sequence numbers from the oldest packet it
\* holds to the next one it will use, without gap or overlap.
THEOREM QueueContiguous == Spec => []WindowContiguous
<1>1. QueueInv => WindowContiguous
    BY DEF QueueInv
<1>2. QED
    BY <1>1, TypeInvInit, TypeInvStep, QueueInvInit, QueueInvStep, PTL DEF Spec

\* Whatever is resent, by whichever loop, a sequence number stands for one
\* byte only: the receiver cannot tell an original from a copy.
THEOREM SequenceNumbersUnique == Spec => []SegmentsDisjoint
<1>1. QueueInv => SegmentsDisjoint
    BY DEF QueueInv, SegmentInv
<1>2. QED
    BY <1>1, TypeInvInit, TypeInvStep, QueueInvInit, QueueInvStep, PTL DEF Spec

-----------------------------------------------------------------------------
(* The count of bytes in flight.                                           *)

\* The arithmetic of one call to moveWindow.
LEMMA Rearrange ==
    \A h, g, s, u, a, b \in Int :
        ((s - h) - u - a) - (g - h) - b = (s - g) - u - (a + b)
OBVIOUS

\* Multiplication distributes over addition.
LEMMA Distribute ==
    ASSUME NEW a \in Nat, NEW b \in Nat, NEW c \in Nat
    PROVE  /\ a * (b + c) = a * b + a * c
           /\ a * b \in Nat /\ a * c \in Nat
OBVIOUS

\* The law of the count holds initially.
LEMMA DriftInit == Init => DriftLaw
BY ConstAssumption DEF Init, DriftLaw, Outstanding, HeadSeq

\* Every action keeps the law of the count.
LEMMA DriftStep == TypeInv /\ DriftLaw /\ [Next]_vars => DriftLaw'
<1> SUFFICES ASSUME TypeInv, DriftLaw, [Next]_vars PROVE DriftLaw'
    OBVIOUS
<1>0. /\ TypeOK /\ window \in Seq(DataPkt) /\ seq \in Nat /\ flight \in Int
      /\ popped \in Nat /\ uncounted \in Nat /\ HDR \in Nat /\ W \in Nat \ {0}
      /\ HeadSeq(window, seq) \in Nat
    BY ConstAssumption, HeadSeqIsNat DEF TypeInv, TypeOK
<1>1. CASE Keeps
    <2>1. flight = 0 => InFlight = 0
        BY <1>0 DEF InFlight
    <2>2. QED BY <1>1, <2>1 DEF Keeps, DriftLaw, Outstanding
<1>2. CASE Frees
    <2>1. PICK n \in 0..Len(window) :
            /\ window' \in Seq(DataPkt)
            /\ popped' = popped + n
            /\ flight' = flight - (HeadSeq(window', seq) - HeadSeq(window, seq)) - HDR * n
        BY <1>0, <1>2, FreesNothingNew
    <2>2. /\ pc # "success" /\ seq' = seq /\ uncounted' = uncounted
          /\ ~(flight = 0 /\ window = <<>> /\ pc \in {"close", "fin", "crashed"})
        <3>1. flight = 0 => InFlight = 0
            BY <1>0 DEF InFlight
        <3>2. QED BY <1>2, <3>1 DEF Frees, InRexmit, Draining
    <2>3. flight = (seq - HeadSeq(window, seq)) - uncounted - HDR * popped
        BY <2>2 DEF DriftLaw, Outstanding
    <2>4. HeadSeq(window', seq) \in Nat /\ n \in Nat
        BY <1>0, <2>1, HeadSeqIsNat
    <2>5. HDR * (popped + n) = HDR * popped + HDR * n /\ HDR * popped \in Nat /\ HDR * n \in Nat
        BY <1>0, <2>4, Distribute
    <2>6. flight' = (seq' - HeadSeq(window', seq')) - uncounted' - HDR * popped'
        <3> DEFINE a == HDR * popped
                   b == HDR * n
        <3>1. a \in Nat /\ b \in Nat /\ HDR * (popped + n) = a + b
            BY <2>5
        <3> HIDE DEF a, b
        <3>2. flight = (seq - HeadSeq(window, seq)) - uncounted - a
            BY <2>3 DEF a
        <3>3. flight' = flight - (HeadSeq(window', seq) - HeadSeq(window, seq)) - b
            BY <2>1 DEF b
        <3>4. HDR * popped' = a + b
            BY <2>1, <3>1
        <3>5. flight' = (seq - HeadSeq(window', seq)) - uncounted - (a + b)
            <4> DEFINE h == HeadSeq(window, seq)
                       k == HeadSeq(window', seq)
            <4>1. h \in Int /\ k \in Int /\ seq \in Int /\ uncounted \in Int /\ a \in Int /\ b \in Int
                BY <1>0, <2>4, <3>1
            <4>2. flight = (seq - h) - uncounted - a /\ flight' = flight - (k - h) - b
                BY <3>2, <3>3
            <4> HIDE DEF h, k
            <4>3. flight' = (seq - k) - uncounted - (a + b)
                BY <4>1, <4>2, Rearrange
            <4>4. QED BY <4>3 DEF k
        <3>6. QED BY <2>2, <3>4, <3>5
    <2>7. QED BY <2>6 DEF DriftLaw, Outstanding
<1>3. CASE Clears
    BY <1>3 DEF Clears, DriftLaw
<1>4. CASE SendOne
    <2>1. /\ flight' = flight + length /\ seq' = seq + length /\ length \in Nat
          /\ UNCHANGED <<popped, uncounted>> /\ pc = "send"
        BY <1>4, ConstAssumption DEF SendOne, TypeInv, TypeOK
    <2>2. HeadSeq(window', seq') = HeadSeq(window, seq)
        BY <1>0, <1>4, PacketTypes DEF SendOne, HeadSeq, Data
    <2>3. HDR * popped \in Nat
        BY <1>0
    <2>4. QED BY <1>0, <2>1, <2>2, <2>3 DEF DriftLaw, Outstanding
<1>5. CASE SendSplit
    <2>1. /\ flight' = flight /\ seq' = seq + Pieces * length
          /\ uncounted' = uncounted + Pieces * length
          /\ popped' = popped /\ pc = "send" /\ Pieces * length \in Nat
        BY <1>5, <1>0, PieceTypes, ConstAssumption DEF SendSplit, TypeOK
    <2>2. HeadSeq(window', seq') = HeadSeq(window, seq)
        <3>a. /\ Pieces \in Nat
              /\ \A k \in 1..Pieces : Piece(k) \in DataPkt
                                     /\ Piece(k).seq = seq + (k - 1) * length
            BY <1>0, <1>5, PieceTypes DEF SendSplit
        <3>b. window' = window \o [k \in 1..Pieces |-> Piece(k)] /\ seq' = seq + Pieces * length
            BY <1>5 DEF SendSplit
        <3> DEFINE new == [k \in 1..Pieces |-> Piece(k)]
        <3>c. new \in Seq(DataPkt) /\ Len(new) = Pieces /\ \A k \in 1..Pieces : new[k] = Piece(k)
            BY <3>a
        <3>d. window' = window \o new
            BY <3>b
        <3>1. Pieces >= 1 => Piece(1).seq = seq + 0 * length
            BY <3>a
        <3> HIDE DEF new
        <3>2. CASE window # <<>>
            BY <1>0, <3>c, <3>d, <3>2 DEF HeadSeq
        <3>3. CASE window = <<>> /\ Pieces >= 1
            <4>1. window' # <<>> /\ window'[1] = Piece(1)
                BY <3>a, <3>c, <3>d, <3>3
            <4>2. 0 * length = 0
                BY <1>0, ConstAssumption DEF TypeOK
            <4>3. QED BY <1>0, <3>1, <3>3, <4>1, <4>2 DEF HeadSeq
        <3>4. CASE window = <<>> /\ Pieces = 0
            <4>1. window' = <<>> /\ 0 * length = 0
                BY <1>0, <3>c, <3>d, <3>4, ConstAssumption DEF TypeOK
            <4>2. QED BY <1>0, <3>b, <3>4, <4>1 DEF HeadSeq
        <3>5. QED BY <3>a, <3>2, <3>3, <3>4
    <2>3. HDR * popped \in Nat
        BY <1>0
    <2>4. QED BY <1>0, <2>1, <2>2, <2>3 DEF DriftLaw, Outstanding
<1>6. ASSUME NEW p \in toSnd, OpenSynAck(p) PROVE DriftLaw'
    <2>1. /\ window' = <<>> /\ flight' = 0 /\ popped' = 0 /\ uncounted' = 0
          /\ seq' = seq + 1
        BY <1>6 DEF OpenSynAck, Acceptable, TypeInv, Fresh, history
    <2>2. HDR * popped' = 0
        BY <1>0, <2>1
    <2>3. QED BY <1>0, <2>1, <2>2 DEF DriftLaw, Outstanding, HeadSeq
<1>7. ASSUME NEW p \in toSnd, FinAck(p) PROVE DriftLaw'
    BY <1>7 DEF FinAck, DriftLaw
<1>8. QED BY <1>1, <1>2, <1>3, <1>4, <1>5, <1>6, <1>7, QueueSteps

\* The exact error of number_of_bytes_in_flight, for every file, window
\* sequence and loss pattern.
THEOREM CountDrifts == Spec => []DriftLaw
<1>1. QED BY TypeInvInit, TypeInvStep, DriftInit, DriftStep, PTL DEF Spec

-----------------------------------------------------------------------------
(* Full packets.                                                           *)

\* main() has still something to hand to stcp_send.
Reading == pc \in {"send", "rexmit_send"} \/ (pc = "main" /\ offset < FileLen)

\* Only the last chunk of the file is shorter than MSS.
FullPackets ==
    /\ pc \in {"send", "rexmit_send"} => length = MSS \/ offset = FileLen
    /\ Reading => \A i \in 1..Len(window) : Len(window[i].data) = MSS
    /\ Reading => Len(accepted) = 0 \/ Len(accepted) >= MSS

-----------------------------------------------------------------------------
(* What the further invariants say.                                        *)

\* The queue is in order of sequence numbers.
Ordered == \A i, j \in 1..Len(window) : i < j => End(window[i]) <= window[j].seq

\* The windows the sender may see, from the receiver, from stray packets and at first.
Sizes == Windows \cup {p.win : p \in Strays} \cup {W - 1}

SizesInv == maxWin \in Sizes /\ \A p \in toSnd : p.win \in Sizes

\* Nothing but the handshake is under way while stcp_open waits.
Handshake ==
    pc = "open" =>
        /\ nbe \in {0, ISS + 1} /\ toRcv \subseteq {Syn}
        /\ \A p \in toSnd : Acceptable(p) /\ nbe = ISS + 1

\* A window in force after the handshake is one the receiver advertises.
WindowsInv ==
    /\ \A p \in toSnd : p.win \in Windows
    /\ pc \notin {"open", "nocb", "crashed"} => maxWin \in Windows

\* The count stays less than a chunk above some window the receiver advertises.
Bounded == \E w \in Windows : flight < w + MSS

\* Packet p carries bytes of accepted, the first of which has number b.
CarriesFrom(b, p) ==
    /\ b <= p.seq /\ End(p) <= b + Len(accepted)
    /\ \A j \in 1..Len(p.data) : p.data[j] = accepted[p.seq - b + j]

\* What is queued and under way, if the first byte accepted has number b.
Carried(b) ==
    /\ pc # "success" => seq = b + Len(accepted)
    /\ \A p \in DataPackets : CarriesFrom(b, p)
    /\ b = ISS => \A p \in DataPackets : p.seq # ISS + 1

\* What has arrived: nothing at all, if the sender counts from ISS.
Received(b) ==
    /\ Stream!Begins(delivered, accepted)
    /\ nbe = ISS + 1 + Len(delivered) \/ (nbe = 0 /\ delivered = <<>>)
    /\ b = ISS => delivered = <<>>

\* The sender counts from the number after its SYN, or from ISS itself when a stray
\* packet has ended stcp_open.
StreamInv == \E b \in {ISS, ISS + 1} : Carried(b) /\ Received(b)

\* The number a is the start of a queued packet, or where the next one will start, and
\* the receiver has come that far.
Boundary(a) ==
    /\ HeadSeq(window, seq) <= a /\ a <= nbe
    /\ a = seq \/ \E i \in 1..Len(window) : window[i].seq = a

\* stcp_open has returned and stcp_close has not.
Connected == pc \in {"main", "send", "rexmit_send", "rexmit_close", "close", "fin"}

\* A path of one packet: whatever is acknowledged on it is a boundary of the queue.
AckInv ==
    /\ toSnd = {} \/ \E q : toSnd = {q}
    /\ \A p \in toRcv : p.type = "FIN" => pc \in {"fin", "success"}
    /\ Connected => nbe # 0 /\ Boundary(nbe)
    /\ Connected /\ pc # "fin" => \A p \in toSnd : Boundary(p.ackNo)
    /\ pc = "fin" => InFlight = 0

-----------------------------------------------------------------------------
\* stcp_send is called with a full chunk, or with the last of the file.
LEMMA ReadingSteps ==
    ASSUME TypeInv, [Next]_vars
    PROVE  /\ Reading' => Reading \/ (window' = <<>> /\ accepted' = <<>>)
           /\ pc' \in {"send", "rexmit_send"} =>
                \/ pc \in {"send", "rexmit_send"} /\ UNCHANGED <<length, offset>>
                \/ length' = MSS \/ offset' = FileLen
<1> USE DEF TypeInv, Fresh, Reading, mainVars, cbVars, history
<1>1. CASE TimerStep
    BY <1>1 DEF TimerStep, OpenTimeout, SendTimeout, RexmitTimeout, CloseTimeout, Draining, FinTimeout
<1>2. CASE RefusedStep
    BY <1>2 DEF RefusedStep, OpenRefused, SendRefused, RexmitRefused, CloseRefused, FinRefused,
                InRexmit, Caller, Draining
<1>3. ASSUME NEW p \in toSnd, OpenSynAck(p) \/ OpenOther(p) \/ FinAck(p) \/ FinOther(p)
      PROVE  pc' \notin {"send", "rexmit_send"} /\ (Reading' => window' = <<>> /\ accepted' = <<>>)
    BY <1>3 DEF OpenSynAck, OpenOther, FinAck, FinOther
<1>4. ASSUME NEW p \in toSnd, SendAck(p) \/ RexmitAck(p) \/ CloseAck(p)
      PROVE  /\ UNCHANGED <<length, offset>>
             /\ pc' \in {"send", "rexmit_send", "close", "rexmit_close"}
             /\ pc' \in {"send", "rexmit_send"} => pc \in {"send", "rexmit_send"}
    BY <1>4 DEF SendAck, RexmitAck, CloseAck, InRexmit, Caller, Draining, Retransmit
<1>5. CASE MainRead
    BY <1>5, ConstAssumption DEF MainRead, TypeOK
<1>6. CASE MainNoControlBlock \/ MainEof \/ SendOne \/ SendSplit \/ CloseFin
    BY <1>6 DEF MainNoControlBlock, MainEof, SendOne, SendSplit, CloseFin
<1>7. CASE ReceiverStep \/ Lose
    BY <1>7 DEF ReceiverStep, RcvSyn, RcvAck, RcvInOrder, RcvOutOfOrder, RcvFin, Lose, sndVars
<1>8. CASE UNCHANGED vars
    BY <1>8 DEF vars
<1>9. QED
    BY <1>1, <1>2, <1>3, <1>4, <1>5, <1>6, <1>7, <1>8
    DEF Next, ReadStep, LocalStep, Stopped

\* Nothing is queued at first.
LEMMA FullInit == Init => FullPackets
BY DEF Init, FullPackets, Reading

\* Packets stay full while more of the file is to come.
LEMMA FullStep == TypeInv /\ FullPackets /\ [Next]_vars => FullPackets'
<1> SUFFICES ASSUME TypeInv, FullPackets, [Next]_vars PROVE FullPackets'
    OBVIOUS
<1>0. /\ TypeOK /\ window \in Seq(DataPkt) /\ Len(window) \in Nat
      /\ accepted \in Seq(Byte) /\ offset \in Nat
    BY ConstAssumption DEF TypeInv, TypeOK
<1>1. pc' \in {"send", "rexmit_send"} => length' = MSS \/ offset' = FileLen
    BY ReadingSteps DEF FullPackets
<1>2. SUFFICES ASSUME Reading' , Reading
               PROVE  /\ \A i \in 1..Len(window') : Len(window'[i].data) = MSS
                      /\ Len(accepted') = 0 \/ Len(accepted') >= MSS
    <2>1. CASE window' = <<>> /\ accepted' = <<>>
        BY <1>1, <2>1 DEF FullPackets
    <2>2. QED BY <1>1, <1>2, <2>1, ReadingSteps DEF FullPackets
<1>3. /\ \A i \in 1..Len(window) : Len(window[i].data) = MSS
      /\ Len(accepted) = 0 \/ Len(accepted) >= MSS
    BY <1>2 DEF FullPackets
<1>4. CASE Keeps \/ Clears
    BY <1>3, <1>4 DEF Keeps, Clears
<1>5. CASE Frees
    <2>1. PICK n \in 0..Len(window) :
            /\ Len(window') = Len(window) - n
            /\ \A i \in 1..Len(window') : window'[i] = window[n + i]
        BY <1>0, <1>5, FreesNothingNew
    <2>2. ASSUME NEW i \in 1..Len(window') PROVE Len(window'[i].data) = MSS
        <3>1. n + i \in 1..Len(window) /\ window'[i] = window[n + i]
            BY <1>0, <2>1
        <3>2. QED BY <1>3, <3>1
    <2>3. QED BY <1>3, <1>5, <2>2 DEF Frees
<1>6. CASE SendOne \/ SendSplit
    <2>1. length = MSS /\ accepted' = accepted \o Chunk /\ Len(Chunk) = MSS /\ Chunk \in Seq(Byte)
        <3>1. pc = "send" /\ pc' = "main" /\ offset' = offset /\ accepted' = accepted \o Chunk
            BY <1>6 DEF SendOne, SendSplit
        <3>2. offset # FileLen
            BY <1>0, <1>2, <3>1, ConstAssumption DEF Reading
        <3>3. length = MSS
            BY <3>1, <3>2 DEF FullPackets
        <3>4. QED BY <1>0, <3>1, <3>3, PacketTypes
    <2>2. Len(accepted') >= MSS
        BY <1>0, <2>1, ConstAssumption
    <2>3. CASE SendOne
        <3>1. Data(seq, Chunk) \in DataPkt /\ Len(Data(seq, Chunk).data) = MSS
            BY <1>0, <2>1, PacketTypes DEF Data
        <3>2. window' = Append(window, Data(seq, Chunk))
            BY <2>3 DEF SendOne
        <3>3. QED BY <1>0, <1>3, <2>2, <3>1, <3>2
    <2>4. CASE SendSplit
        <3>1. /\ Pieces \in Nat
              /\ \A k \in 1..Pieces : Piece(k) \in DataPkt /\ Len(Piece(k).data) = MSS
            BY <1>0, <2>1, <2>4, PieceTypes DEF SendSplit
        <3> DEFINE new == [k \in 1..Pieces |-> Piece(k)]
        <3>2. new \in Seq(DataPkt) /\ \A k \in 1..Len(new) : Len(new[k].data) = MSS
            BY <3>1
        <3>3. window' = window \o new
            BY <2>4 DEF SendSplit
        <3> HIDE DEF new
        <3>4. QED BY <1>0, <1>3, <2>2, <3>2, <3>3
    <2>5. QED BY <1>6, <2>3, <2>4
<1>7. ASSUME NEW p \in toSnd, OpenSynAck(p) \/ FinAck(p) PROVE FALSE
    BY <1>2, <1>7 DEF OpenSynAck, FinAck, Reading
<1>8. QED BY <1>4, <1>5, <1>6, <1>7, QueueSteps

\* stcp_send's split branch finds a head of queue that does not fit, so that
\* the loop after it never sends anything (sender.c:323-335).
THEOREM SplitHeads == Spec => []SplitHeadTooLarge
<1>1. ASSUME TypeInv, FullPackets PROVE SplitHeadTooLarge
    <2>1. SUFFICES ASSUME pc = "send", maxWin # 0, length > maxWin
                   PROVE  InFlight + HDR + (IF window = <<>> THEN length ELSE Len(window[1].data)) > maxWin
        BY DEF SplitHeadTooLarge
    <2>2. /\ length \in Nat /\ length <= MSS /\ maxWin \in Nat /\ InFlight \in Nat /\ HDR \in Nat
          /\ window \in Seq(DataPkt)
        BY <1>1, ConstAssumption DEF TypeInv, TypeOK, InFlight
    <2>3. CASE window = <<>>
        BY <2>1, <2>2, <2>3
    <2>4. CASE window # <<>>
        <3>1. Len(window[1].data) = MSS
            BY <1>1, <2>1, <2>2, <2>4 DEF FullPackets, Reading
        <3>2. QED BY <2>1, <2>2, <2>4, <3>1, ConstAssumption
    <2>5. QED BY <2>3, <2>4
<1>2. QED
    BY <1>1, TypeInvInit, TypeInvStep, FullInit, FullStep, PTL DEF Spec

-----------------------------------------------------------------------------
(* What goes to the sender, and the windows it learns from it.             *)

\* What the receiver answers, and to what.
Answers(t, a) ==
    /\ Reply(t, a) /\ UNCHANGED sndVars
    /\ \/ t = "SYNACK" /\ a = ISS + 1 /\ nbe \in {0, ISS + 1} /\ nbe' = ISS + 1
       \/ t = "ACK" /\ a = nbe' /\ nbe # 0 /\ \E p \in toRcv : p.type = "DATA"
       \/ t = "FINACK" /\ UNCHANGED nbe /\ \E p \in toRcv : p.type = "FIN"

\* Packets for the sender are taken or lost, or the receiver answers.
LEMMA SndSteps ==
    ASSUME [Next]_vars
    PROVE  toSnd' \subseteq toSnd \/ \E t, a : Answers(t, a)
<1>1. CASE TimerStep \/ RefusedStep \/ LocalStep
    BY <1>1 DEF TimerStep, OpenTimeout, SendTimeout, RexmitTimeout, CloseTimeout, FinTimeout,
                RefusedStep, OpenRefused, SendRefused, RexmitRefused, CloseRefused, FinRefused,
                LocalStep, MainNoControlBlock, MainRead, MainEof, SendOne, SendSplit, CloseFin
<1>2. CASE ReadStep \/ Lose
    BY <1>2 DEF ReadStep, Read, OpenSynAck, OpenOther, SendAck, RexmitAck, CloseAck, FinAck, FinOther,
                Lose
<1>3. CASE RcvSyn
    BY <1>3 DEF RcvSyn, Answers
<1>4. CASE RcvAck
    BY <1>4 DEF RcvAck
<1>5. ASSUME NEW p \in toRcv, RcvInOrder(p) PROVE Answers("ACK", nbe')
    BY <1>5 DEF RcvInOrder, Answers
<1>6. ASSUME NEW p \in toRcv, RcvOutOfOrder(p) PROVE Answers("ACK", nbe')
    BY <1>6 DEF RcvOutOfOrder, Answers, rcvVars
<1>7. ASSUME NEW p \in toRcv, RcvFin(p)
      PROVE  toSnd' \subseteq toSnd \/ Answers("FINACK", nbe + 1)
    BY <1>7 DEF RcvFin, Answers, rcvVars
<1>8. CASE UNCHANGED vars
    BY <1>8 DEF vars
<1>9. QED
    BY <1>1, <1>2, <1>3, <1>4, <1>5, <1>6, <1>7, <1>8 DEF Next, ReceiverStep, Stopped

\* The sender learns its window from packets only.
LEMMA MaxWinSteps ==
    ASSUME [Next]_vars
    PROVE  maxWin' = maxWin \/ \E p \in toSnd : maxWin' = p.win
<1> USE DEF cbVars
<1>1. CASE TimerStep \/ RefusedStep \/ LocalStep
    BY <1>1 DEF TimerStep, OpenTimeout, SendTimeout, RexmitTimeout, CloseTimeout, FinTimeout,
                RefusedStep, OpenRefused, SendRefused, RexmitRefused, CloseRefused, FinRefused,
                LocalStep, MainNoControlBlock, MainRead, MainEof, SendOne, SendSplit, CloseFin
<1>2. CASE ReadStep
    BY <1>2 DEF ReadStep, OpenSynAck, OpenOther, SendAck, RexmitAck, CloseAck, FinAck, FinOther
<1>3. CASE ReceiverStep \/ Lose
    BY <1>3 DEF ReceiverStep, RcvSyn, RcvAck, RcvInOrder, RcvOutOfOrder, RcvFin, Lose, sndVars
<1>4. CASE UNCHANGED vars
    BY <1>4 DEF vars
<1>5. QED BY <1>1, <1>2, <1>3, <1>4 DEF Next, Stopped

\* While stcp_open waits the sender sends nothing but its SYN.
LEMMA OpenSteps ==
    ASSUME TypeInv, pc = "open", [Next]_vars
    PROVE  \/ pc' = "nocb" /\ UNCHANGED nbe
           \/ pc' = "main" /\ UNCHANGED nbe
              /\ \E p \in toSnd : OpenSynAck(p) \/ OpenOther(p)
           \/ pc' = "open" /\ seq' = seq /\ toRcv' \subseteq toRcv \cup {Syn}
<1> USE DEF cbVars, rcvVars
<1>1. CASE OpenTimeout
    BY <1>1, PutAdds DEF OpenTimeout, Transmit
<1>2. CASE OpenRefused
    BY <1>2 DEF OpenRefused
<1>3. ASSUME NEW p \in toSnd, OpenSynAck(p) \/ OpenOther(p) PROVE pc' = "main" /\ UNCHANGED nbe
    BY <1>3 DEF OpenSynAck, OpenOther
<1>4. CASE ReceiverStep \/ Lose
    BY <1>4 DEF ReceiverStep, RcvSyn, RcvAck, RcvInOrder, RcvOutOfOrder, RcvFin, Lose, sndVars
<1>5. CASE UNCHANGED vars
    BY <1>5 DEF vars
<1>6. QED
    BY <1>1, <1>2, <1>3, <1>4, <1>5
    DEF Next, TimerStep, SendTimeout, RexmitTimeout, CloseTimeout, FinTimeout,
        RefusedStep, SendRefused, RexmitRefused, CloseRefused, FinRefused,
        LocalStep, MainNoControlBlock, MainRead, MainEof, SendOne, SendSplit, CloseFin,
        ReadStep, SendAck, RexmitAck, CloseAck, FinAck, FinOther, InRexmit, Draining, Stopped

\* The windows in sight are those of the receiver, of stray packets and the initial one.
LEMMA SizesInit == Init => SizesInv
BY DEF Init, SizesInv, Sizes

\* Every step keeps the windows in sight among them.
LEMMA SizesStep == TypeInv /\ SizesInv /\ [Next]_vars => SizesInv'
<1> SUFFICES ASSUME SizesInv, [Next]_vars PROVE SizesInv'
    OBVIOUS
<1>1. maxWin' \in Sizes
    BY MaxWinSteps DEF SizesInv
<1>2. ASSUME NEW q \in toSnd', q \notin toSnd PROVE q.win \in Windows
    <2>1. PICK t, a : Reply(t, a)
        BY <1>2, SndSteps DEF Answers
    <2>2. PICK w \in Windows : toSnd' = Put(toSnd, [type |-> t, ackNo |-> a, win |-> w])
        BY <2>1 DEF Reply
    <2>3. q = [type |-> t, ackNo |-> a, win |-> w]
        BY <1>2, <2>2, PutAdds
    <2>4. QED BY <2>3
<1>3. QED BY <1>1, <1>2 DEF SizesInv, Sizes

\* What changes the receiver.
LEMMA RcvSteps ==
    ASSUME [Next]_vars
    PROVE  UNCHANGED rcvVars \/ RcvSyn \/ \E p \in toRcv : RcvInOrder(p)
<1>1. CASE TimerStep \/ RefusedStep \/ LocalStep
    BY <1>1 DEF TimerStep, OpenTimeout, SendTimeout, RexmitTimeout, CloseTimeout, FinTimeout,
                RefusedStep, OpenRefused, SendRefused, RexmitRefused, CloseRefused, FinRefused,
                LocalStep, MainNoControlBlock, MainRead, MainEof, SendOne, SendSplit, CloseFin
<1>2. CASE ReadStep
    BY <1>2 DEF ReadStep, OpenSynAck, OpenOther, SendAck, RexmitAck, CloseAck, FinAck, FinOther
<1>3. CASE ReceiverStep \/ Lose
    BY <1>3 DEF ReceiverStep, RcvAck, RcvOutOfOrder, RcvFin, Lose
<1>4. CASE UNCHANGED vars
    BY <1>4 DEF vars
<1>5. QED BY <1>1, <1>2, <1>3, <1>4 DEF Next, Stopped

\* The sender does not come back to stcp_open, to nothing or from a crash.
LEMMA PcSteps ==
    ASSUME [Next]_vars
    PROVE  /\ pc' = "open" => pc = "open"
           /\ pc = "nocb" => pc' \in {"nocb", "crashed"}
           /\ pc = "crashed" => pc' = "crashed"
           /\ pc = "success" => pc' = "success"
           /\ pc' = "fin" => pc \in {"fin", "close"}
           /\ pc = "fin" => pc' \in {"fin", "success"}
<1>1. CASE TimerStep \/ RefusedStep \/ LocalStep
    BY <1>1 DEF TimerStep, OpenTimeout, SendTimeout, RexmitTimeout, CloseTimeout, FinTimeout,
                RefusedStep, OpenRefused, SendRefused, RexmitRefused, CloseRefused, FinRefused,
                LocalStep, MainNoControlBlock, MainRead, MainEof, SendOne, SendSplit, CloseFin,
                InRexmit, Caller, Draining
<1>2. CASE ReadStep
    BY <1>2 DEF ReadStep, OpenSynAck, OpenOther, SendAck, RexmitAck, CloseAck, FinAck, FinOther,
                InRexmit, Caller, Draining, Retransmit
<1>3. CASE ReceiverStep \/ Lose
    BY <1>3 DEF ReceiverStep, RcvSyn, RcvAck, RcvInOrder, RcvOutOfOrder, RcvFin, Lose, sndVars
<1>4. CASE UNCHANGED vars
    BY <1>4 DEF vars
<1>5. QED BY <1>1, <1>2, <1>3, <1>4 DEF Next, Stopped

\* Without stray packets nothing has arrived at first.
LEMMA HandshakeInit == Strays = {} /\ Init => Handshake /\ WindowsInv
BY DEF Init, Handshake, WindowsInv

\* Until stcp_open returns only SYNs and their answers are under way.
LEMMA HandshakeStep ==
    ASSUME TypeInv, Handshake, [Next]_vars
    PROVE  Handshake'
<1> SUFFICES ASSUME pc' = "open" PROVE Handshake'
    BY DEF Handshake
<1>1. /\ pc = "open" /\ toRcv \subseteq {Syn} /\ nbe \in {0, ISS + 1} /\ seq = ISS /\ ISS \in Nat
      /\ \A p \in toSnd : Acceptable(p) /\ nbe = ISS + 1
    BY PcSteps, ConstAssumption DEF Handshake, TypeInv, Fresh
<1>2. seq' = seq /\ toRcv' \subseteq {Syn}
    BY <1>1, OpenSteps
<1>3. Syn.type = "SYN"
    BY DEF Syn
<1>4. nbe' = nbe \/ nbe' = ISS + 1
    BY <1>1, <1>3, RcvSteps DEF RcvSyn, RcvInOrder, rcvVars
<1>5. ASSUME NEW q \in toSnd' PROVE Acceptable(q)' /\ nbe' = ISS + 1
    <2>1. CASE q \in toSnd
        BY <1>1, <1>2, <1>4, <2>1 DEF Acceptable
    <2>2. CASE q \notin toSnd
        <3>1. PICK t, a : Answers(t, a)
            BY <1>5, <2>2, SndSteps
        <3>2. t = "SYNACK" /\ a = ISS + 1 /\ nbe' = ISS + 1
            BY <1>1, <1>3, <3>1 DEF Answers
        <3>3. PICK w \in Windows : toSnd' = Put(toSnd, [type |-> t, ackNo |-> a, win |-> w])
            BY <3>1 DEF Answers, Reply
        <3>4. q = [type |-> t, ackNo |-> a, win |-> w]
            BY <1>5, <2>2, <3>3, PutAdds
        <3>5. QED BY <1>1, <1>2, <3>2, <3>4 DEF Acceptable
    <2>3. QED BY <2>1, <2>2
<1>6. QED BY <1>1, <1>2, <1>4, <1>5 DEF Handshake

\* After the handshake the window in force is one the receiver has advertised.
LEMMA WindowsStep ==
    ASSUME TypeInv, Handshake, WindowsInv, [Next]_vars
    PROVE  WindowsInv'
<1>1. ASSUME NEW q \in toSnd', q \notin toSnd PROVE q.win \in Windows
    <2>1. PICK t, a : Reply(t, a)
        BY <1>1, SndSteps DEF Answers
    <2>2. PICK w \in Windows : toSnd' = Put(toSnd, [type |-> t, ackNo |-> a, win |-> w])
        BY <2>1 DEF Reply
    <2>3. q = [type |-> t, ackNo |-> a, win |-> w]
        BY <1>1, <2>2, PutAdds
    <2>4. QED BY <2>3
<1>2. ASSUME pc' \notin {"open", "nocb", "crashed"} PROVE maxWin' \in Windows
    <2>1. CASE pc # "open"
        <3>1. pc \notin {"open", "nocb", "crashed"}
            BY <1>2, <2>1, PcSteps
        <3>2. QED BY <3>1, MaxWinSteps DEF WindowsInv
    <2>2. CASE pc = "open"
        <3>1. PICK p \in toSnd : OpenSynAck(p) \/ OpenOther(p)
            BY <1>2, <2>2, OpenSteps
        <3>2. OpenSynAck(p)
            BY <2>2, <3>1 DEF OpenOther, Handshake
        <3>3. QED BY <3>2 DEF OpenSynAck, WindowsInv
    <2>3. QED BY <2>1, <2>2
<1>3. QED BY <1>1, <1>2 DEF WindowsInv

-----------------------------------------------------------------------------
(* The count against the window.                                           *)

\* The pieces of a split chunk follow each other.
LEMMA PieceOrder ==
    ASSUME TypeOK, length > maxWin, maxWin # 0, NEW k \in 1..Pieces
    PROVE  /\ seq <= Piece(k).seq
           /\ \A m \in 1..Pieces : k < m => End(Piece(k)) <= Piece(m).seq
<1>1. /\ Pieces \in Nat /\ length \in Nat /\ seq \in Nat
      /\ \A m \in 1..Pieces : Piece(m).seq = seq + (m - 1) * length /\ Len(Piece(m).data) = length
    BY PieceTypes DEF TypeOK
<1>2. seq <= Piece(k).seq
    <2>1. (k - 1) * length \in Nat
        BY <1>1
    <2>2. \A a \in Nat : seq <= seq + a
        BY <1>1
    <2>3. QED BY <1>1, <2>1, <2>2
<1>3. ASSUME NEW m \in 1..Pieces, k < m PROVE End(Piece(k)) <= Piece(m).seq
    <2>1. k * length <= (m - 1) * length
        BY <1>1, <1>3, TimesMonotone
    <2>2. k * length \in Nat /\ (m - 1) * length \in Nat /\ (k - 1) * length + length = k * length
        BY <1>1
    <2>3. End(Piece(k)) = seq + k * length
        BY <1>1, <2>2 DEF End
    <2>4. seq + k * length <= seq + (m - 1) * length
        BY <1>1, <2>1, <2>2, AddMonotone
    <2>5. QED BY <1>1, <2>3, <2>4
<1>4. QED BY <1>2, <1>3

\* The empty queue is in order.
LEMMA OrderedInit == Init => Ordered
BY DEF Init, Ordered

\* Every step keeps the queue in order of sequence numbers.
LEMMA OrderedStep ==
    ASSUME TypeInv, QueueInv, Ordered, [Next]_vars
    PROVE  Ordered'
<1>0. TypeOK /\ window \in Seq(DataPkt) /\ Len(window) \in Nat /\ seq \in Nat
    BY DEF TypeInv, TypeOK
<1>1. CASE UNCHANGED window
    BY <1>1 DEF Ordered, End
<1>2. CASE Frees
    <2>1. PICK n \in 0..Len(window) :
            /\ Len(window') = Len(window) - n
            /\ \A i \in 1..Len(window') : window'[i] = window[n + i]
        BY <1>0, <1>2, FreesNothingNew
    <2>2. ASSUME NEW i \in 1..Len(window'), NEW j \in 1..Len(window'), i < j
          PROVE  End(window'[i]) <= window'[j].seq
        <3>1. /\ n + i \in 1..Len(window) /\ n + j \in 1..Len(window) /\ n + i < n + j
              /\ window'[i] = window[n + i] /\ window'[j] = window[n + j]
            BY <1>0, <2>1, <2>2
        <3>2. QED BY <3>1 DEF Ordered
    <2>3. QED BY <2>2 DEF Ordered, End
<1>3. ASSUME NEW i \in 1..Len(window), pc = "send" PROVE End(window[i]) <= seq
    BY <1>3 DEF QueueInv, SegmentInv, DataPackets
<1>4. CASE SendOne
    <2> DEFINE new == Data(seq, Chunk)
    <2>1. new \in DataPkt /\ new.seq = seq
        BY <1>0, PacketTypes DEF Data
    <2>2. window' = Append(window, new) /\ pc = "send"
        BY <1>4 DEF SendOne
    <2> HIDE DEF new
    <2>3. /\ Len(window') = Len(window) + 1 /\ window'[Len(window) + 1] = new
          /\ \A i \in 1..Len(window) : window'[i] = window[i]
        BY <1>0, <2>1, <2>2
    <2>4. ASSUME NEW i \in 1..Len(window'), NEW j \in 1..Len(window'), i < j
          PROVE  End(window'[i]) <= window'[j].seq
        <3>1. i \in 1..Len(window) /\ window'[i] = window[i]
            BY <1>0, <2>3, <2>4
        <3>2. CASE j \in 1..Len(window)
            BY <2>3, <2>4, <3>1, <3>2 DEF Ordered
        <3>3. CASE j = Len(window) + 1
            BY <1>3, <2>1, <2>2, <2>3, <3>1, <3>3
        <3>4. QED BY <1>0, <2>3, <3>2, <3>3
    <2>5. QED BY <2>4 DEF Ordered, End
<1>5. CASE SendSplit
    <2>1. /\ Pieces \in Nat /\ pc = "send" /\ length > maxWin /\ maxWin # 0
          /\ \A k \in 1..Pieces : Piece(k) \in DataPkt
        BY <1>0, <1>5, PieceTypes DEF SendSplit
    <2> DEFINE new == [k \in 1..Pieces |-> Piece(k)]
    <2>2. new \in Seq(DataPkt) /\ Len(new) = Pieces /\ \A k \in 1..Pieces : new[k] = Piece(k)
        BY <2>1
    <2>3. window' = window \o new
        BY <1>5 DEF SendSplit
    <2> HIDE DEF new
    <2>4. /\ Len(window') = Len(window) + Pieces
          /\ \A i \in 1..Len(window) : window'[i] = window[i]
          /\ \A i \in (Len(window) + 1)..(Len(window) + Pieces) :
                i - Len(window) \in 1..Pieces /\ window'[i] = Piece(i - Len(window))
        BY <1>0, <2>1, <2>2, <2>3
    <2>5. ASSUME NEW i \in 1..Len(window'), NEW j \in 1..Len(window'), i < j
          PROVE  End(window'[i]) <= window'[j].seq
        <3>1. CASE j \in 1..Len(window)
            <4>1. i \in 1..Len(window)
                BY <1>0, <2>5, <3>1
            <4>2. QED BY <2>4, <2>5, <3>1, <4>1 DEF Ordered
        <3>2. CASE i \in 1..Len(window) /\ j \in (Len(window) + 1)..(Len(window) + Pieces)
            <4>1. j - Len(window) \in 1..Pieces /\ window'[j] = Piece(j - Len(window))
                BY <2>4, <3>2
            <4>2. window'[i] = window[i] /\ End(window[i]) <= seq
                BY <1>3, <2>1, <2>4, <3>2
            <4>3. seq <= Piece(j - Len(window)).seq
                BY <1>0, <2>1, <4>1, PieceOrder
            <4>4. window[i] \in DataPackets /\ window[i] \in DataPkt
                BY <1>0, <3>2 DEF DataPackets
            <4>5. End(window[i]) \in Nat /\ seq \in Nat
                <5>1. window[i].seq \in Nat /\ Len(window[i].data) \in Nat
                    BY <1>0, <4>4, DataPacketTypes
                <5>2. QED BY <1>0, <5>1 DEF End
            <4>6. Piece(j - Len(window)) \in DataPkt
                BY <2>1, <4>1
            <4>7. Piece(j - Len(window)).seq \in Nat
                BY <4>6 DEF DataPkt
            <4>8. QED BY <4>1, <4>2, <4>3, <4>5, <4>7
        <3>3. CASE /\ i \in (Len(window) + 1)..(Len(window) + Pieces)
                   /\ j \in (Len(window) + 1)..(Len(window) + Pieces)
            <4>1. /\ i - Len(window) \in 1..Pieces /\ window'[i] = Piece(i - Len(window))
                  /\ j - Len(window) \in 1..Pieces /\ window'[j] = Piece(j - Len(window))
                BY <2>4, <3>3
            <4>2. i - Len(window) < j - Len(window)
                BY <1>0, <2>5, <3>3
            <4>3. QED BY <1>0, <2>1, <4>1, <4>2, PieceOrder
        <3>4. QED BY <1>0, <2>1, <2>4, <2>5, <3>1, <3>2, <3>3
    <2>6. QED BY <2>5 DEF Ordered, End
<1>6. QED
    BY <1>1, <1>2, <1>4, <1>5, QueueSteps DEF Keeps, Clears, OpenSynAck, FinAck

\* moveWindow moves the head of the queue ahead.
LEMMA HeadMoves ==
    ASSUME TypeInv, QueueInv, Ordered, Frees
    PROVE  HeadSeq(window, seq) <= HeadSeq(window', seq)
<1>0. TypeOK /\ window \in Seq(DataPkt) /\ Len(window) \in Nat /\ seq \in Nat
    BY DEF TypeInv, TypeOK
<1>1. PICK n \in 0..Len(window) :
        /\ window' \in Seq(DataPkt)
        /\ Len(window') = Len(window) - n
        /\ \A i \in 1..Len(window') : window'[i] = window[n + i]
    BY <1>0, FreesNothingNew, Zenon
<1>2. pc # "success"
    BY DEF Frees, InRexmit, Draining
<1>3. CASE window = <<>>
    <2>1. window' = <<>>
        BY <1>0, <1>1, <1>3
    <2>2. QED BY <1>0, <1>3, <2>1 DEF HeadSeq
<1>4. CASE window # <<>>
    <2>1. 1 \in 1..Len(window) /\ window[1] \in DataPackets /\ window[1] \in DataPkt
        BY <1>0, <1>4 DEF DataPackets
    <2>2. /\ window[1].seq \in Nat /\ Len(window[1].data) \in Nat
          /\ window[1].seq <= End(window[1]) /\ End(window[1]) \in Nat
        BY <2>1 DEF DataPkt, End
    <2>3. CASE window' = <<>>
        <3>1. End(window[1]) <= seq
            BY <1>2, <2>1 DEF QueueInv, SegmentInv
        <3>2. QED BY <1>0, <1>4, <2>2, <2>3, <3>1 DEF HeadSeq
    <2>4. CASE window' # <<>>
        <3>1. n + 1 \in 1..Len(window) /\ window'[1] = window[n + 1]
            BY <1>0, <1>1, <2>4
        <3>2. window[n + 1].seq \in Nat
            <4>1. window[n + 1] \in DataPkt
                BY <1>0, <3>1
            <4>2. QED BY <4>1 DEF DataPkt
        <3>3. n = 0 \/ End(window[1]) <= window[n + 1].seq
            BY <2>1, <3>1 DEF Ordered
        <3>4. window[1].seq <= window[n + 1].seq
            BY <2>2, <3>2, <3>3
        <3>5. QED BY <1>4, <2>4, <3>1, <3>4 DEF HeadSeq
    <2>5. QED BY <2>3, <2>4
<1>5. QED BY <1>3, <1>4

\* The receiver advertises some window, and the count does not wrap at any that it
\* advertises when a chunk is added: what stcp_send needs for its test to mean anything.
WindowsFit == Windows # {} /\ \A w \in Windows : w + MSS <= W

\* The count is zero at first.
LEMMA BoundedInit == WindowsFit /\ Init => Bounded
<1>1. \A w \in Windows : 0 < w + MSS
    BY ConstAssumption
<1>2. QED BY <1>1 DEF WindowsFit, Init, Bounded

\* The count stays less than a chunk above some window the receiver advertises.
LEMMA BoundedStep ==
    ASSUME WindowsFit, TypeInv, QueueInv, Ordered, WindowsInv, Bounded, [Next]_vars
    PROVE  Bounded'
<1>0. /\ TypeOK /\ flight \in Int /\ MSS \in Nat \ {0} /\ W \in Nat \ {0} /\ HDR \in Nat
      /\ Windows \subseteq Nat
    BY ConstAssumption DEF TypeInv, TypeOK
<1>1. CASE UNCHANGED flight
    BY <1>1 DEF Bounded
<1>2. CASE Frees
    <2>1. PICK n \in 0..Len(window) :
            /\ window' \in Seq(DataPkt)
            /\ flight' = flight - (HeadSeq(window', seq) - HeadSeq(window, seq)) - HDR * n
        BY <1>0, <1>2, FreesNothingNew
    <2>2. HeadSeq(window, seq) <= HeadSeq(window', seq)
        BY <1>2, HeadMoves
    <2>3. HeadSeq(window, seq) \in Nat /\ HeadSeq(window', seq) \in Nat /\ HDR * n \in Nat
        BY <1>0, <2>1, HeadSeqIsNat DEF TypeOK
    <2>4. flight' <= flight /\ flight' \in Int
        BY <1>0, <2>1, <2>2, <2>3
    <2>5. QED BY <1>0, <2>4 DEF Bounded
<1>3. CASE Clears
    BY <1>0, <1>3 DEF WindowsFit, Clears, Bounded
<1>4. CASE SendOne
    <2>1. maxWin \in Windows /\ flight % W < maxWin /\ flight' = flight + length
        <3>1. pc = "send" /\ ~(flight % W >= maxWin) /\ flight' = flight + length
            BY <1>4 DEF SendOne, WindowFull, InFlight
        <3>2. maxWin \in Windows /\ maxWin \in Nat
            BY <1>0, <3>1 DEF WindowsInv
        <3>3. flight % W \in Nat
            BY <1>0
        <3>4. QED BY <3>1, <3>2, <3>3
    <2>2. length \in Nat /\ length <= MSS
        BY <1>0 DEF TypeOK
    <2>3. PICK w \in Windows : flight < w + MSS
        BY DEF Bounded
    <2>4. flight < W
        BY <1>0, <2>3 DEF WindowsFit
    <2>5. flight < maxWin
        <3>1. CASE flight >= 0
            BY <1>0, <2>1, <2>4, <3>1
        <3>2. CASE flight < 0
            BY <1>0, <2>1, <3>2
        <3>3. QED BY <1>0, <3>1, <3>2
    <2>6. flight' < maxWin + MSS
        BY <1>0, <2>1, <2>2, <2>5
    <2>7. QED BY <2>1, <2>6 DEF Bounded
<1>5. QED
    BY <1>1, <1>2, <1>3, <1>4, QueueSteps DEF Keeps, SendSplit, OpenSynAck, FinAck, history

\* The data outstanding exceeds the largest window ever advertised by less than a
\* chunk, plus one header for each packet freed, plus the chunks that were split --
\* when no packet of an earlier connection ends stcp_open, and the count of bytes
\* in flight has room for a chunk above the window (sender.c:265-365).
THEOREM OvershootBound == ASSUME Strays = {}, WindowsFit PROVE Spec => []Overshoot
<1>1. ASSUME TypeInv, DriftLaw, Bounded PROVE Overshoot
    <2>1. PICK w \in Windows : flight < w + MSS
        BY <1>1 DEF Bounded
    <2>2. SUFFICES ASSUME pc # "success" PROVE Outstanding < w + MSS + uncounted + HDR * popped
        BY DEF Overshoot
    <2>3. /\ flight \in Int /\ seq \in Nat /\ HeadSeq(window, seq) \in Nat /\ uncounted \in Nat
          /\ popped \in Nat /\ HDR \in Nat /\ w \in Nat /\ MSS \in Nat \ {0}
        <3>1. /\ flight \in Int /\ seq \in Nat /\ window \in Seq(DataPkt) /\ uncounted \in Nat
              /\ popped \in Nat
            BY <1>1 DEF TypeInv, TypeOK
        <3>2. QED BY <3>1, HeadSeqIsNat, ConstAssumption
    <2>4. HDR * popped \in Nat /\ Outstanding \in Int
        BY <2>3 DEF Outstanding
    <2>5. CASE flight = Outstanding - uncounted - HDR * popped
        BY <2>1, <2>3, <2>4, <2>5
    <2>6. CASE window = <<>>
        BY <2>3, <2>4, <2>6 DEF Outstanding, HeadSeq
    <2>7. QED BY <1>1, <2>2, <2>5, <2>6 DEF DriftLaw
<1> DEFINE I == TypeInv /\ QueueInv /\ Ordered /\ Handshake /\ WindowsInv /\ Bounded /\ DriftLaw
<1>2. Init => I
    BY TypeInvInit, QueueInvInit, OrderedInit, HandshakeInit, BoundedInit, DriftInit
<1>3. I /\ [Next]_vars => I'
    <2>1. ASSUME I, [Next]_vars PROVE TypeInv' /\ QueueInv' /\ DriftLaw'
        BY <2>1, TypeInvStep, QueueInvStep, DriftStep
    <2>2. ASSUME I, [Next]_vars PROVE Ordered' /\ Handshake' /\ WindowsInv' /\ Bounded'
        BY <2>2, OrderedStep, HandshakeStep, WindowsStep, BoundedStep
    <2>3. QED BY <2>1, <2>2
<1>4. I => Overshoot
    BY <1>1
<1> HIDE DEF I
<1>5. QED BY <1>2, <1>3, <1>4, PTL DEF Spec

-----------------------------------------------------------------------------
(* The stream of bytes.                                                    *)

\* Every window that can be in force is closed or holds a whole chunk, and a chunk is
\* more than a byte.
ChunksFit == MSS > 1 /\ \A w \in Sizes : w = 0 \/ w >= MSS

\* No chunk is split.
LEMMA NoSplit == ASSUME ChunksFit, TypeInv, SizesInv PROVE ~SendSplit
BY ConstAssumption DEF ChunksFit, TypeInv, TypeOK, SizesInv, SendSplit

\* A sequence with another one behind it.
LEMMA Joined ==
    ASSUME NEW S, NEW s \in Seq(S), NEW t \in Seq(S)
    PROVE  /\ s \o t \in Seq(S) /\ Len(s \o t) = Len(s) + Len(t)
           /\ \A i \in 1..Len(s) : (s \o t)[i] = s[i]
           /\ \A i \in 1..Len(t) : (s \o t)[Len(s) + i] = t[i]
OBVIOUS

\* Nothing has been accepted or has arrived at first.
LEMMA StreamInvInit == Init => StreamInv
<1>1. Syn.type = "SYN"
    BY DEF Syn
<1>2. ASSUME Init PROVE Carried(ISS) /\ Received(ISS)
    BY <1>1, <1>2, ConstAssumption DEF Init, Carried, Received, DataPackets, Stream!Begins
<1>3. QED BY <1>2 DEF StreamInv

\* A step that adds no data and accepts none.
LEMMA CarriedKept ==
    ASSUME NEW b, Carried(b), DataPackets' \subseteq DataPackets, accepted' = accepted,
           pc' # "success" => pc # "success" /\ seq' = seq
    PROVE  Carried(b)'
BY DEF Carried, CarriesFrom, End

\* A packet carries the bytes that stcp_send accepts with it.
LEMMA CarriedSendOne ==
    ASSUME ChunksFit, TypeInv, FullPackets, NEW b \in {ISS, ISS + 1}, Carried(b), SendOne
    PROVE  Carried(b)'
<1> PICK new : new = Data(seq, Chunk)
    OBVIOUS
<1>0. TypeOK /\ accepted \in Seq(Byte)
    BY DEF TypeInv, TypeOK
<1>n. b \in Nat /\ ISS \in Nat /\ length \in Nat /\ Len(accepted) \in Nat
    BY <1>0, ConstAssumption DEF TypeOK
<1>1. /\ pc = "send" /\ pc' = "main" /\ seq' = seq + length /\ accepted' = accepted \o Chunk
      /\ DataPackets' \subseteq DataPackets \cup {new}
    <2>1. pc = "send" /\ pc' = "main" /\ seq' = seq + length /\ accepted' = accepted \o Chunk
        BY DEF SendOne
    <2>2. window' = Append(window, new) /\ window \in Seq(DataPkt) /\ new \in DataPkt
        BY <1>0, PacketTypes DEF SendOne, TypeOK
    <2>3. /\ Len(window') = Len(window) + 1 /\ window'[Len(window) + 1] = new
          /\ \A i \in 1..Len(window) : window'[i] = window[i]
        BY <2>2
    <2>4. toRcv' \subseteq toRcv \cup {new}
        BY PutAdds DEF SendOne, Transmit
    <2>5. QED BY <2>1, <2>2, <2>3, <2>4 DEF DataPackets
<1>2. /\ Chunk \in Seq(Byte) /\ Len(Chunk) = length /\ new.seq = seq /\ new.data = Chunk
      /\ seq = b + Len(accepted)
    BY <1>0, <1>1, PacketTypes DEF Data, Carried
<1>3. /\ Len(accepted') = Len(accepted) + length
      /\ \A i \in 1..Len(accepted) : accepted'[i] = accepted[i]
      /\ \A i \in 1..length : accepted'[Len(accepted) + i] = Chunk[i]
    <2>1. /\ Len(accepted \o Chunk) = Len(accepted) + Len(Chunk)
          /\ \A i \in 1..Len(accepted) : (accepted \o Chunk)[i] = accepted[i]
          /\ \A i \in 1..Len(Chunk) : (accepted \o Chunk)[Len(accepted) + i] = Chunk[i]
        <3>1. accepted \in Seq(Byte) /\ Chunk \in Seq(Byte)
            BY <1>0, <1>2
        <3>2. QED BY <3>1, Joined
    <2>2. QED BY <1>1, <1>2, <2>1
<1>4. CarriesFrom(b, new)'
    <2>1. b <= new.seq /\ End(new) <= b + Len(accepted')
        BY <1>n, <1>2, <1>3 DEF End
    <2>2. ASSUME NEW j \in 1..Len(new.data) PROVE new.data[j] = accepted'[new.seq - b + j]
        <3>1. j \in 1..length /\ new.seq - b + j = Len(accepted) + j
            BY <1>n, <1>2
        <3>2. new.data[j] = Chunk[j] /\ accepted'[Len(accepted) + j] = Chunk[j]
            BY <1>2, <1>3, <3>1
        <3>3. QED BY <3>1, <3>2
    <2>3. QED BY <2>1, <2>2 DEF CarriesFrom, End
<1>5. ASSUME NEW p \in DataPackets PROVE CarriesFrom(b, p)'
    <2>1. p.seq \in Nat /\ Len(p.data) \in Nat
        BY <1>0, DataPacketTypes
    <2>2. /\ b <= p.seq /\ p.seq + Len(p.data) <= b + Len(accepted)
          /\ \A j \in 1..Len(p.data) : p.data[j] = accepted[p.seq - b + j]
        BY DEF Carried, CarriesFrom, End
    <2>3. ASSUME NEW j \in 1..Len(p.data) PROVE p.data[j] = accepted'[p.seq - b + j]
        <3>1. p.seq - b + j \in 1..Len(accepted)
            BY <1>n, <2>1, <2>2
        <3>2. QED BY <1>3, <2>2, <3>1
    <2>4. p.seq + Len(p.data) <= b + Len(accepted')
        BY <1>n, <1>3, <2>1, <2>2
    <2>5. QED BY <2>2, <2>3, <2>4 DEF CarriesFrom, End
<1>6. ASSUME b = ISS PROVE new.seq # ISS + 1
    <2>1. Len(accepted) = 0 \/ Len(accepted) >= MSS
        BY <1>1 DEF FullPackets, Reading
    <2>2. MSS \in Nat /\ MSS > 1
        BY ConstAssumption DEF ChunksFit
    <2>3. PICK n \in Nat : n = Len(accepted)
        BY <1>n
    <2>4. n # 1
        BY <2>1, <2>2, <2>3
    <2>5. new.seq = ISS + n
        BY <1>2, <1>6, <2>3
    <2>6. QED BY <1>n, <2>4, <2>5
<1>7. seq' = b + Len(accepted')
    <2>1. seq = b + Len(accepted) /\ seq' = seq + length /\ Len(accepted') = Len(accepted) + length
        BY <1>1, <1>2, <1>3
    <2>2. QED BY <1>n, <2>1
<1>8. QED BY <1>1, <1>4, <1>5, <1>6, <1>7 DEF Carried

\* Before the connection is open no data is under way.
LEMMA NothingCarried ==
    ASSUME TypeInv, QueueInv, NEW b \in Nat, Carried(b), accepted = <<>>
    PROVE  DataPackets = {}
<1>1. ASSUME NEW p \in DataPackets PROVE FALSE
    <2>1. p.seq \in Nat /\ Len(p.data) \in Nat /\ Len(p.data) >= 1
        BY DataPacketTypes DEF TypeInv, QueueInv, SegmentInv
    <2>2. b <= p.seq /\ p.seq + Len(p.data) <= b + Len(accepted)
        BY DEF Carried, CarriesFrom, End
    <2>3. QED BY <2>1, <2>2
<1>2. QED BY <1>1

\* What the receiver takes from the path is what comes next.
LEMMA ReceivedInOrder ==
    ASSUME TypeInv, NEW b \in {ISS, ISS + 1}, Carried(b), Received(b),
           NEW p \in toRcv, RcvInOrder(p)
    PROVE  Received(b)' /\ Stream!Begins(delivered, delivered')
<1>0. TypeOK /\ accepted \in Seq(Byte) /\ delivered \in Seq(Byte)
    BY DEF TypeInv, TypeOK
<1>n. ISS \in Nat /\ Len(accepted) \in Nat /\ Len(delivered) \in Nat
    BY <1>0, ConstAssumption
<1>1. /\ p \in DataPackets /\ p.seq = nbe /\ nbe # 0 /\ delivered' = delivered \o p.data
      /\ nbe' = nbe + Len(p.data) /\ accepted' = accepted
    BY DEF RcvInOrder, DataPackets, sndVars, history
<1>2. p.data \in Seq(Byte) /\ Len(p.data) \in Nat
    BY <1>0, <1>1, DataPacketTypes
<1>3. nbe = ISS + 1 + Len(delivered)
    BY <1>1 DEF Received
<1>4. b = ISS + 1
    <2>1. CASE b = ISS
        <3>1. Len(delivered) = 0 /\ p.seq # ISS + 1
            BY <1>1, <2>1 DEF Received, Carried
        <3>2. QED BY <1>n, <1>1, <1>3, <3>1
    <2>2. QED BY <2>1
<1>5. /\ p.seq + Len(p.data) <= b + Len(accepted)
      /\ \A j \in 1..Len(p.data) : p.data[j] = accepted[p.seq - b + j]
    BY <1>1 DEF Carried, CarriesFrom, End
<1>6. /\ Len(delivered') = Len(delivered) + Len(p.data)
      /\ \A i \in 1..Len(delivered) : delivered'[i] = delivered[i]
      /\ \A i \in 1..Len(p.data) : delivered'[Len(delivered) + i] = p.data[i]
    BY <1>0, <1>1, <1>2, Joined
<1>7. Stream!Begins(delivered, delivered')
    BY <1>0, <1>2, <1>6 DEF Stream!Begins
<1>8. ASSUME NEW i \in 1..Len(delivered') PROVE delivered'[i] = accepted[i]
    <2>1. CASE i \in 1..Len(delivered)
        BY <1>6, <2>1 DEF Received, Stream!Begins
    <2>2. CASE i \notin 1..Len(delivered)
        <3>1. /\ i - Len(delivered) \in 1..Len(p.data)
              /\ Len(delivered) + (i - Len(delivered)) = i
              /\ p.seq - b + (i - Len(delivered)) = i
            BY <1>n, <1>1, <1>2, <1>3, <1>4, <1>6, <2>2
        <3>2. QED BY <1>5, <1>6, <3>1
    <2>3. QED BY <2>1, <2>2
<1>9. PICK la, ld, lp \in Nat : la = Len(accepted) /\ ld = Len(delivered) /\ lp = Len(p.data)
    BY <1>n, <1>2
<1>10. /\ p.seq = ISS + 1 + ld /\ p.seq + lp <= ISS + 1 + la
       /\ Len(delivered') = ld + lp /\ nbe' = p.seq + lp
    BY <1>1, <1>3, <1>4, <1>5, <1>6, <1>9
<1>13. ld + lp <= la /\ nbe' = ISS + 1 + (ld + lp)
    BY <1>n, <1>10
<1>14. Len(delivered') <= Len(accepted) /\ nbe' = ISS + 1 + Len(delivered')
    BY <1>9, <1>10, <1>13
<1>11. b # ISS
    BY <1>n, <1>4
<1>12. QED BY <1>1, <1>7, <1>8, <1>11, <1>14 DEF Received, Stream!Begins
\* A step of the sender that adds no data and accepts none keeps the stream.
LEMMA StreamKept ==
    ASSUME NEW b \in {ISS, ISS + 1}, Carried(b), Received(b), UNCHANGED rcvVars,
           DataPackets' \subseteq DataPackets, accepted' = accepted,
           pc' # "success" => pc # "success" /\ seq' = seq
    PROVE  StreamInv' /\ UNCHANGED <<accepted, delivered>>
<1>1. Carried(b)'
    BY CarriedKept
<1>2. Received(b)'
    BY DEF Received, Stream!Begins, rcvVars
<1>3. ISS' = ISS /\ delivered' = delivered
    BY DEF rcvVars
<1>4. QED BY <1>1, <1>2, <1>3 DEF StreamInv

\* Every step keeps the stream, and is a step of ByteStream or none.
LEMMA StreamStep ==
    ASSUME ChunksFit, TypeInv, QueueInv, SizesInv, FullPackets, StreamInv, [Next]_vars
    PROVE  StreamInv' /\ [Stream!Next]_<<accepted, delivered>>
<1>0. TypeOK /\ accepted \in Seq(Byte) /\ delivered \in Seq(Byte) /\ ISS \in Nat
    BY ConstAssumption DEF TypeInv, TypeOK
<1>1. PICK b \in {ISS, ISS + 1} : Carried(b) /\ Received(b)
    BY DEF StreamInv
<1>2. CASE RcvSyn
    <2>1. DataPackets' \subseteq DataPackets /\ accepted' = accepted /\ pc' = pc /\ seq' = seq
          /\ delivered' = delivered
        BY <1>2 DEF RcvSyn, sndVars, history, cbVars, DataPackets
    <2>2. Carried(b)'
        BY <1>1, <2>1, CarriedKept
    <2>3. Received(b)'
        <3>1. Stream!Begins(delivered, accepted)' /\ (b = ISS => delivered' = <<>>)
            BY <1>1, <2>1 DEF Received, Stream!Begins
        <3>2. PICK n \in Nat : n = Len(delivered)
            BY <1>0
        <3>3. nbe \in {0, ISS + 1} => nbe = 0 \/ n = 0
            BY <1>0, <1>1, <3>2 DEF Received
        <3>4. nbe' = nbe \/ (nbe \in {0, ISS + 1} /\ nbe' = ISS + 1)
            BY <1>2 DEF RcvSyn
        <3>5. nbe = 0 => n = 0
            BY <1>0, <1>1, <3>2 DEF Received
        <3>6. nbe' = nbe \/ nbe' = ISS + 1 + n
            BY <1>0, <3>3, <3>4, <3>5
        <3>7. QED BY <1>1, <2>1, <3>1, <3>2, <3>6 DEF Received
    <2>4. QED BY <2>1, <2>2, <2>3 DEF StreamInv
<1>3. ASSUME NEW p \in toRcv, RcvInOrder(p)
      PROVE  StreamInv' /\ [Stream!Next]_<<accepted, delivered>>
    <2>1. DataPackets' \subseteq DataPackets /\ accepted' = accepted /\ pc' = pc /\ seq' = seq
        BY <1>3 DEF RcvInOrder, sndVars, history, cbVars, DataPackets
    <2>2. Carried(b)'
        BY <1>1, <2>1, CarriedKept
    <2>3. Received(b)' /\ Stream!Begins(delivered, delivered')
        BY <1>1, <1>3, ReceivedInOrder
    <2>4. Stream!Begins(delivered', accepted)
        BY <2>1, <2>3 DEF Received, Stream!Begins
    <2>5. QED BY <2>1, <2>2, <2>3, <2>4 DEF StreamInv, Stream!Next, Stream!Deliver
<1>4. CASE UNCHANGED rcvVars
    <2>1. CASE Keeps \/ Clears
        <3>1. DataPackets' \subseteq DataPackets
            BY <2>1 DEF Keeps, Clears, NothingNew, DataPackets
        <3>2. accepted' = accepted /\ (pc' # "success" => pc # "success" /\ seq' = seq)
            BY <2>1 DEF Keeps, Clears
        <3>3. QED BY <1>1, <1>4, <3>1, <3>2, StreamKept
    <2>2. CASE Frees
        <3>1. DataPackets' \subseteq DataPackets
            BY <1>0, <2>2, FreesNothingNew
        <3>2. accepted' = accepted /\ pc # "success" /\ seq' = seq
            BY <2>2 DEF Frees, InRexmit, Draining
        <3>3. QED BY <1>1, <1>4, <3>1, <3>2, StreamKept
    <2>3. CASE SendOne
        <3>1. Carried(b)'
            BY <1>1, <2>3, CarriedSendOne
        <3>2. delivered' = delivered /\ nbe' = nbe
            BY <1>4 DEF rcvVars
        <3>3. accepted' = accepted \o Chunk /\ Chunk \in Seq(Byte)
            BY <1>0, <2>3, PacketTypes DEF SendOne
        <3>4. /\ Len(accepted') = Len(accepted) + Len(Chunk)
              /\ \A i \in 1..Len(accepted) : accepted'[i] = accepted[i]
            BY <1>0, <3>3, Joined
        <3>5. Stream!Begins(accepted, accepted')
            BY <1>0, <3>3, <3>4 DEF Stream!Begins
        <3>6. Stream!Begins(delivered, accepted')
            <4>1. Len(delivered) <= Len(accepted) /\ \A i \in 1..Len(delivered) : delivered[i] = accepted[i]
                BY <1>1 DEF Received, Stream!Begins
            <4>2. \A i \in 1..Len(delivered) : i \in 1..Len(accepted)
                BY <1>0, <4>1
            <4>3. Len(delivered) <= Len(accepted')
                BY <1>0, <3>3, <3>4, <4>1
            <4>4. QED BY <3>4, <4>1, <4>2, <4>3 DEF Stream!Begins
        <3>7. Received(b)'
            BY <1>1, <3>2, <3>6 DEF Received, Stream!Begins
        <3>8. QED BY <3>1, <3>2, <3>5, <3>7 DEF StreamInv, Stream!Next, Stream!Accept
    <2>4. CASE SendSplit
        BY <2>4, NoSplit
    <2>5. ASSUME NEW p \in toSnd, OpenSynAck(p)
          PROVE  StreamInv' /\ UNCHANGED <<accepted, delivered>>
        <3>1. /\ accepted = <<>> /\ accepted' = accepted /\ pc = "open" /\ pc' = "main"
              /\ seq = ISS /\ seq' = seq + 1 /\ DataPackets' \subseteq DataPackets
            BY <2>5, PutAdds
            DEF OpenSynAck, Acceptable, TypeInv, Fresh, history, Transmit, Ack, DataPackets
        <3>2. delivered' = delivered /\ nbe' = nbe
            BY <1>4 DEF rcvVars
        <3>3. b \in Nat
            BY <1>0
        <3>4. DataPackets' = {}
            BY <1>1, <3>1, <3>3, NothingCarried
        <3>5. Len(accepted') = 0 /\ seq' = (ISS + 1) + 0 /\ ISS + 1 # ISS
            BY <1>0, <3>1
        <3>6. Carried(ISS + 1)'
            BY <3>4, <3>5 DEF Carried
        <3>7. Received(ISS + 1)'
            BY <1>1, <3>1, <3>2, <3>5 DEF Received, Stream!Begins
        <3>8. QED BY <3>1, <3>2, <3>6, <3>7 DEF StreamInv
    <2>6. ASSUME NEW p \in toSnd, FinAck(p)
          PROVE  StreamInv' /\ UNCHANGED <<accepted, delivered>>
        <3>1. accepted' = accepted /\ pc' = "success" /\ DataPackets' \subseteq DataPackets
            BY <2>6, PutAdds DEF FinAck, history, Transmit, Ack, DataPackets
        <3>2. QED BY <1>1, <1>4, <3>1, StreamKept
    <2>7. QED BY <2>1, <2>2, <2>3, <2>4, <2>5, <2>6, QueueSteps
<1>5. QED BY <1>2, <1>3, <1>4, RcvSteps

\* Every byte of a successful stcp_send call comes out at the receiver in its order,
\* once, whatever is lost, resent, refused or left over from an earlier connection:
\* the sender, the path and the receiver implement ByteStream.
THEOREM StreamIsDelivered == ASSUME ChunksFit PROVE Spec => StreamSpec
<1> DEFINE I == TypeInv /\ QueueInv /\ SizesInv /\ FullPackets /\ StreamInv
<1>1. Init => I
    BY TypeInvInit, QueueInvInit, SizesInit, FullInit, StreamInvInit
<1>2. I /\ [Next]_vars => I'
    BY TypeInvStep, QueueInvStep, SizesStep, FullStep, StreamStep
<1>3. I /\ [Next]_vars => [Stream!Next]_<<accepted, delivered>>
    BY StreamStep
<1>4. Init => Stream!Init
    BY DEF Init, Stream!Init
<1>5. Stream!streamVars = <<accepted, delivered>>
    BY DEF Stream!streamVars
<1> HIDE DEF I
<1>6. Spec => Stream!Init /\ [][Stream!Next]_<<accepted, delivered>>
    BY <1>1, <1>2, <1>3, <1>4, PTL DEF Spec
<1>7. QED BY <1>6 DEF StreamSpec, Stream!Spec, Stream!streamVars
-----------------------------------------------------------------------------
(* One packet at a time: acknowledgements in order.                        *)

\* A path that holds one packet.
LEMMA PutOne ==
    ASSUME NetCap = 1, NEW path, path = {} \/ \E q : path = {q}, NEW p
    PROVE  Put(path, p) = IF path = {} THEN {p} ELSE path
<1>1. CASE path = {}
    BY <1>1, FS_EmptySet DEF Put
<1>2. ASSUME NEW q, path = {q} PROVE Put(path, p) = path /\ path # {}
    <2>1. Cardinality(path) = 1
        BY <1>2, FS_Singleton
    <2>2. QED BY <1>2, <2>1 DEF Put
<1>3. QED BY <1>1, <1>2

\* What the sender does between two waits, as far as its queue is concerned.
LEMMA SenderSteps ==
    ASSUME [Next]_vars
    PROVE  \/ UNCHANGED sndVars
           \/ /\ UNCHANGED rcvVars /\ toSnd' \subseteq toSnd
              /\ \/ UNCHANGED <<window, seq, popped>>
                 \/ SendOne \/ SendSplit \/ (pc' = "success" /\ UNCHANGED popped)
                 \/ \E p \in toSnd :
                      /\ MoveWindow(p.ackNo) /\ toSnd' = toSnd \ {p} /\ seq' = seq
                      /\ pc \in {"send", "rexmit_send", "rexmit_close", "close"}
                 \/ \E p \in toSnd : OpenSynAck(p)
<1> USE DEF cbVars, history
<1>1. CASE TimerStep
    BY <1>1 DEF TimerStep, OpenTimeout, SendTimeout, RexmitTimeout, CloseTimeout, FinTimeout
<1>2. CASE RefusedStep
    BY <1>2 DEF RefusedStep, OpenRefused, SendRefused, RexmitRefused, CloseRefused, FinRefused
<1>3. CASE MainNoControlBlock \/ MainRead \/ MainEof \/ CloseFin
    BY <1>3 DEF MainNoControlBlock, MainRead, MainEof, CloseFin
<1>4. CASE SendOne \/ SendSplit
    BY <1>4 DEF SendOne, SendSplit
<1>5. ASSUME NEW p \in toSnd, SendAck(p) \/ RexmitAck(p) \/ CloseAck(p)
      PROVE  /\ MoveWindow(p.ackNo) /\ toSnd' = toSnd \ {p} /\ seq' = seq /\ UNCHANGED rcvVars
             /\ pc \in {"send", "rexmit_send", "rexmit_close", "close"}
    BY <1>5 DEF SendAck, RexmitAck, CloseAck, Read, InRexmit, Draining
<1>6. ASSUME NEW p \in toSnd, OpenOther(p) \/ FinOther(p) \/ FinAck(p)
      PROVE  /\ UNCHANGED <<rcvVars, popped>> /\ toSnd' \subseteq toSnd
             /\ UNCHANGED <<window, seq>> \/ pc' = "success"
    BY <1>6 DEF OpenOther, FinOther, FinAck, Read
<1>7. ASSUME NEW p \in toSnd, OpenSynAck(p)
      PROVE  UNCHANGED <<rcvVars, popped>> /\ toSnd' \subseteq toSnd
    BY <1>7 DEF OpenSynAck, Read
<1>8. CASE ReceiverStep \/ Lose
    BY <1>8 DEF ReceiverStep, RcvSyn, RcvAck, RcvInOrder, RcvOutOfOrder, RcvFin, Lose
<1>9. CASE UNCHANGED vars
    BY <1>9 DEF vars, sndVars
<1>10. QED
    BY <1>1, <1>2, <1>3, <1>4, <1>5, <1>6, <1>7, <1>8, <1>9
    DEF Next, LocalStep, ReadStep, Stopped

\* The sender is connected only after stcp_open has returned a control block.
LEMMA ConnectedSteps ==
    ASSUME TypeInv, Handshake, [Next]_vars, Connected'
    PROVE  Connected \/ \E p \in toSnd : OpenSynAck(p)
<1>1. pc = "open" => \E p \in toSnd : OpenSynAck(p)
    BY OpenSteps DEF Connected, OpenOther, Handshake
<1>2. pc = "error" => pc' = "error"
    BY DEF Next, TimerStep, OpenTimeout, SendTimeout, RexmitTimeout, CloseTimeout, FinTimeout,
        RefusedStep, OpenRefused, SendRefused, RexmitRefused, CloseRefused, FinRefused,
        LocalStep, MainNoControlBlock, MainRead, MainEof, SendOne, SendSplit, CloseFin,
        ReadStep, OpenSynAck, OpenOther, SendAck, RexmitAck, CloseAck, FinAck, FinOther,
        InRexmit, Draining, ReceiverStep, RcvSyn, RcvAck, RcvInOrder, RcvOutOfOrder, RcvFin, Lose,
        sndVars, Stopped, vars
<1>3. pc \in Stages
    BY DEF TypeInv, TypeOK
<1>4. QED BY <1>1, <1>2, <1>3, PcSteps DEF Connected, Stages

\* A FIN leaves only stcp_close, and only when the count says that nothing is in flight.
LEMMA FinSteps ==
    ASSUME TypeInv, [Next]_vars
    PROVE  /\ \A p \in toRcv' : p.type = "FIN" => p \in toRcv \/ pc' = "fin"
           /\ pc' = "fin" => flight' = flight /\ (pc = "fin" \/ (pc = "close" /\ ~Draining))
<1> USE DEF cbVars, mainVars
<1>0. Syn.type = "SYN" /\ Ack.type = "ACK" /\ Data(seq, Chunk).type = "DATA"
    BY DEF Syn, Ack, Data
<1>1. \A w \in Seq(DataPkt) : w # <<>> => w[1].type = "DATA"
    BY HeadSeqIsNat DEF DataPkt
<1>2. window \in Seq(DataPkt) /\ (InRexmit => window # <<>>)
    BY DEF TypeInv, TypeOK, RexmitHead
<1>3. ASSUME NEW q, Transmit(q) PROVE \A p \in toRcv' : p \in toRcv \/ p = q
    BY <1>3, PutAdds DEF Transmit
<1>4. CASE OpenTimeout \/ SendTimeout \/ RexmitTimeout \/ CloseTimeout
    BY <1>0, <1>1, <1>2, <1>3, <1>4
    DEF OpenTimeout, SendTimeout, RexmitTimeout, CloseTimeout, InRexmit, Draining
<1>5. CASE FinTimeout \/ CloseFin
    BY <1>3, <1>5 DEF FinTimeout, CloseFin, Fin
<1>6. CASE RefusedStep
    BY <1>6 DEF RefusedStep, OpenRefused, SendRefused, RexmitRefused, CloseRefused, FinRefused,
                Caller
<1>7. CASE MainNoControlBlock \/ MainRead \/ MainEof \/ SendSplit
    BY <1>7 DEF MainNoControlBlock, MainRead, MainEof, SendSplit
<1>8. CASE SendOne
    BY <1>0, <1>3, <1>8 DEF SendOne
<1>9. ASSUME NEW p \in toSnd, OpenSynAck(p) \/ OpenOther(p) \/ FinAck(p) \/ FinOther(p)
      PROVE  pc' # "fin" /\ \A r \in toRcv' : r \in toRcv \/ r.type # "FIN"
    BY <1>0, <1>3, <1>9 DEF OpenSynAck, OpenOther, FinAck, FinOther
<1>10. ASSUME NEW p \in toSnd, SendAck(p) \/ RexmitAck(p) \/ CloseAck(p)
       PROVE  pc' # "fin" /\ \A r \in toRcv' : r \in toRcv \/ r.type # "FIN"
    <2>1. TypeOK /\ p.ackNo \in Nat /\ MoveWindow(p.ackNo) /\ lastAck \in Nat
        BY <1>10 DEF TypeInv, TypeOK, SndPkt, SendAck, RexmitAck, CloseAck
    <2>2. window' \in Seq(DataPkt)
        BY <2>1, MoveWindowTail DEF TypeOK
    <2>3. ASSUME NEW here \in {"send", "close"}, NEW there \in {"rexmit_send", "rexmit_close"},
                 Retransmit(lastAck, here, there), p.ackNo = lastAck
          PROVE  pc' # "fin" /\ \A r \in toRcv' : r \in toRcv \/ r.type # "FIN"
        <3>1. \/ pc' = here /\ toRcv' = toRcv
              \/ pc' = there /\ window' # <<>> /\ Transmit(window'[1])
            BY <2>1, <2>3, RetransmitHead
        <3>2. QED BY <1>1, <1>3, <2>2, <3>1
    <2>4. CASE SendAck(p)
        BY <2>3, <2>4 DEF SendAck, CountRepeat
    <2>5. CASE RexmitAck(p)
        BY <2>5 DEF RexmitAck, Caller
    <2>6. CASE CloseAck(p)
        BY <2>3, <2>6 DEF CloseAck, CountRepeat, Draining
    <2>7. QED BY <1>10, <2>4, <2>5, <2>6
<1>11. CASE ReceiverStep \/ Lose
    BY <1>11 DEF ReceiverStep, RcvSyn, RcvAck, RcvInOrder, RcvOutOfOrder, RcvFin, Lose, sndVars
<1>12. CASE UNCHANGED vars
    BY <1>12 DEF vars
<1>13. QED
    BY <1>4, <1>5, <1>6, <1>7, <1>8, <1>9, <1>10, <1>11, <1>12
    DEF Next, TimerStep, LocalStep, ReadStep, Stopped
\* moveWindow and the node it stops at.
LEMMA MoveWindowStops ==
    ASSUME TypeOK, NEW ack \in Nat, MoveWindow(ack)
    PROVE  \E n \in 0..Len(window) :
                /\ \A i \in 1..n : window[i].seq # ack
                /\ n < Len(window) => window[n + 1].seq = ack
                /\ window' \in Seq(DataPkt) /\ Len(window') = Len(window) - n
                /\ \A i \in 1..Len(window') : window'[i] = window[n + i]
                /\ popped' = popped + n
<1>0. window \in Seq(DataPkt)
    BY DEF TypeOK
<1>1. PICK n \in 0..Len(window) :
        /\ \A i \in 1..n : window[i].seq # ack
        /\ n < Len(window) => window[n + 1].seq = ack
        /\ window' = SubSeq(window, n + 1, Len(window))
        /\ popped' = popped + n
    BY DEF MoveWindow
<1>2. /\ window' \in Seq(DataPkt) /\ Len(window') = Len(window) - n
      /\ \A i \in 1..Len(window') : window'[i] = window[n + i]
    BY <1>0, <1>1, TailFrom
<1>3. QED BY <1>1, <1>2

\* The numbers of a queued packet.
LEMMA QueuedNumbers ==
    ASSUME TypeInv, QueueInv, pc # "success", NEW i \in 1..Len(window)
    PROVE  /\ window[i].seq \in Nat /\ End(window[i]) \in Nat
           /\ window[i].seq < End(window[i]) /\ End(window[i]) <= seq
<1>1. window[i] \in DataPackets
    BY DEF DataPackets
<1>2. window[i].data # <<>> /\ End(window[i]) <= seq
    BY <1>1 DEF QueueInv, SegmentInv
<1>3. window[i].seq \in Nat /\ Len(window[i].data) \in Nat /\ Len(window[i].data) >= 1
    BY <1>1, <1>2, DataPacketTypes DEF TypeInv
<1>4. QED BY <1>2, <1>3 DEF End

\* An acknowledgement that lies on a boundary of the queue, not beyond what the
\* receiver has, frees only packets that the receiver has.
LEMMA AckFrees ==
    ASSUME TypeInv, QueueInv, Ordered, pc # "success", NEW ack \in Nat, MoveWindow(ack),
           Boundary(ack), Boundary(nbe), seq' = seq, nbe' = nbe
    PROVE  Boundary(nbe)' /\ \A i \in 1..(popped' - popped) : End(window[i]) <= nbe
<1>0. TypeOK /\ seq \in Nat /\ nbe \in Nat /\ popped \in Nat /\ Len(window) \in Nat
    BY DEF TypeInv, TypeOK
<1>1. PICK n \in 0..Len(window) :
        /\ \A i \in 1..n : window[i].seq # ack
        /\ n < Len(window) => window[n + 1].seq = ack
        /\ window' \in Seq(DataPkt) /\ Len(window') = Len(window) - n
        /\ \A i \in 1..Len(window') : window'[i] = window[n + i]
        /\ popped' = popped + n
    BY <1>0, MoveWindowStops
<1>2. n \in Nat /\ popped' - popped = n
    BY <1>0, <1>1
<1>3. ack <= nbe /\ (ack = seq \/ \E i \in 1..Len(window) : window[i].seq = ack)
    BY DEF Boundary
<1>4. nbe = seq \/ \E i \in 1..Len(window) : window[i].seq = nbe
    BY DEF Boundary
<1>5. CASE n < Len(window)
    <2>1. n + 1 \in 1..Len(window) /\ window[n + 1].seq = ack
        BY <1>0, <1>1, <1>2, <1>5
    <2>2. ASSUME NEW i \in 1..n PROVE End(window[i]) <= nbe
        <3>1. i \in 1..Len(window) /\ i < n + 1
            BY <1>0, <1>1, <1>2
        <3>2. End(window[i]) <= ack
            BY <2>1, <3>1 DEF Ordered
        <3>3. QED BY <1>0, <1>3, <3>1, <3>2, QueuedNumbers
    <2>3. HeadSeq(window', seq') <= nbe'
        <3>1. 1 \in 1..Len(window') /\ window'[1] = window[n + 1]
            BY <1>0, <1>1, <1>2, <1>5
        <3>2. window' # <<>>
            BY <3>1
        <3>3. QED BY <1>3, <2>1, <3>1, <3>2 DEF HeadSeq
    <2>4. nbe' = seq' \/ \E i \in 1..Len(window') : window'[i].seq = nbe'
        <3>1. SUFFICES ASSUME NEW j \in 1..Len(window), window[j].seq = nbe
                       PROVE  \E i \in 1..Len(window') : window'[i].seq = nbe'
            BY <1>4
        <3>2. j > n
            <4>1. SUFFICES ASSUME ~(j > n) PROVE FALSE
                OBVIOUS
            <4>2. j \in 1..n
                BY <1>2, <4>1
            <4>3. End(window[j]) <= nbe
                BY <2>2, <4>2
            <4>4. QED BY <1>0, <3>1, <4>3, QueuedNumbers
        <3>3. j - n \in 1..Len(window') /\ n + (j - n) = j
            BY <1>0, <1>1, <1>2, <3>2
        <3>4. window'[j - n] = window[j]
            BY <1>1, <3>3
        <3>5. QED BY <3>1, <3>3, <3>4
    <2>5. QED BY <1>2, <2>2, <2>3, <2>4 DEF Boundary
<1>6. CASE n = Len(window)
    <2>1. ack = seq
        BY <1>1, <1>3, <1>6
    <2>2. nbe = seq
        <3>1. SUFFICES ASSUME NEW j \in 1..Len(window), window[j].seq = nbe PROVE FALSE
            BY <1>4
        <3>2. window[j].seq < End(window[j]) /\ End(window[j]) <= seq /\ End(window[j]) \in Nat
            BY QueuedNumbers
        <3>3. QED BY <1>0, <1>3, <2>1, <3>1, <3>2
    <2>3. window' = <<>>
        BY <1>0, <1>1, <1>6
    <2>4. Boundary(nbe)'
        BY <1>0, <2>2, <2>3 DEF Boundary, HeadSeq
    <2>5. \A i \in 1..n : End(window[i]) <= nbe
        BY <1>6, <2>2, QueuedNumbers
    <2>6. QED BY <1>2, <2>4, <2>5
<1>7. QED BY <1>0, <1>1, <1>2, <1>5, <1>6

\* New data goes behind the queue, and the old end of the queue is a boundary still.
LEMMA QueueGrows ==
    ASSUME TypeInv, SendOne \/ SendSplit
    PROVE  /\ HeadSeq(window', seq') = HeadSeq(window, seq)
           /\ \A i \in 1..Len(window) : i \in 1..Len(window') /\ window'[i] = window[i]
           /\ seq' = seq \/ \E i \in 1..Len(window') : window'[i].seq = seq
<1>0. TypeOK /\ window \in Seq(DataPkt) /\ Len(window) \in Nat /\ seq \in Nat
    BY DEF TypeInv, TypeOK
<1>1. ASSUME NEW new \in Seq(DataPkt), window' = window \o new, Len(new) \in Nat,
             Len(new) = 0 => seq' = seq, Len(new) # 0 => new[1].seq = seq
      PROVE  /\ HeadSeq(window', seq') = HeadSeq(window, seq)
             /\ \A i \in 1..Len(window) : i \in 1..Len(window') /\ window'[i] = window[i]
             /\ seq' = seq \/ \E i \in 1..Len(window') : window'[i].seq = seq
    <2>1. /\ window' \in Seq(DataPkt) /\ Len(window') = Len(window) + Len(new)
          /\ \A i \in 1..Len(window) : window'[i] = window[i]
          /\ \A i \in 1..Len(new) : window'[Len(window) + i] = new[i]
        BY <1>0, <1>1, Joined
    <2>2. \A i \in 1..Len(window) : i \in 1..Len(window')
        BY <1>0, <1>1, <2>1
    <2>3. seq' = seq \/ \E i \in 1..Len(window') : window'[i].seq = seq
        <3>1. SUFFICES ASSUME Len(new) # 0 PROVE \E i \in 1..Len(window') : window'[i].seq = seq
            BY <1>1
        <3>2. 1 \in 1..Len(new) /\ Len(window) + 1 \in 1..Len(window')
            BY <1>0, <1>1, <2>1, <3>1
        <3>3. QED BY <1>1, <2>1, <3>1, <3>2
    <2>4. HeadSeq(window', seq') = HeadSeq(window, seq)
        <3>1. CASE window # <<>>
            <4>1. 1 \in 1..Len(window) /\ window' # <<>>
                BY <1>0, <1>1, <2>1, <3>1
            <4>2. QED BY <2>1, <3>1, <4>1 DEF HeadSeq
        <3>2. CASE window = <<>> /\ Len(new) = 0
            <4>1. Len(window') = 0
                BY <2>1, <3>2
            <4>2. QED BY <1>1, <2>1, <3>2, <4>1 DEF HeadSeq
        <3>3. CASE window = <<>> /\ Len(new) # 0
            <4>1. 1 \in 1..Len(new) /\ Len(window) + 1 = 1 /\ Len(window') # 0
                BY <1>1, <2>1, <3>3
            <4>2. window'[1] = new[1] /\ window' # <<>>
                BY <2>1, <4>1
            <4>3. QED BY <1>1, <3>3, <4>2 DEF HeadSeq
        <3>4. QED BY <3>1, <3>2, <3>3
    <2>5. QED BY <2>1, <2>2, <2>3, <2>4
<1>2. CASE SendOne
    <2>1. PICK q : q = Data(seq, Chunk)
        OBVIOUS
    <2>2. q \in DataPkt /\ q.seq = seq
        BY <1>0, <2>1, PacketTypes DEF Data
    <2>3. window' = Append(window, q)
        BY <1>2, <2>1 DEF SendOne
    <2>4. PICK new : new = <<q>>
        OBVIOUS
    <2>5. new \in Seq(DataPkt) /\ Len(new) = 1 /\ new[1].seq = seq /\ window' = window \o new
        BY <1>0, <2>2, <2>3, <2>4
    <2>6. Len(new) \in Nat /\ (Len(new) = 0 => seq' = seq) /\ (Len(new) # 0 => new[1].seq = seq)
        BY <2>5
    <2>7. QED BY <1>1, <2>5, <2>6
<1>3. CASE SendSplit
    <2>1. length \in Nat /\ seq' = seq + Pieces * length
        BY <1>0, <1>3, ConstAssumption DEF TypeOK, SendSplit
    <2>2. /\ Pieces \in Nat
          /\ \A k \in 1..Pieces : Piece(k) \in DataPkt /\ Piece(k).seq = seq + (k - 1) * length
        BY <1>0, <1>3, PieceTypes DEF SendSplit
    <2>3. PICK new : new = [k \in 1..Pieces |-> Piece(k)]
        OBVIOUS
    <2>4. new \in Seq(DataPkt) /\ Len(new) = Pieces /\ window' = window \o new
        BY <1>3, <2>2, <2>3 DEF SendSplit
    <2>5. Len(new) # 0 => new[1].seq = seq
        <3>1. SUFFICES ASSUME Pieces # 0 PROVE new[1].seq = seq
            BY <2>4
        <3>2. 1 \in 1..Pieces
            BY <2>2, <3>1
        <3>3. new[1].seq = seq + (1 - 1) * length
            BY <2>2, <2>3, <3>2
        <3>4. (1 - 1) * length = 0
            BY <2>1
        <3>5. QED BY <1>0, <3>3, <3>4
    <2>6. Pieces = 0 => seq' = seq
        BY <1>0, <2>1
    <2>7. QED BY <1>1, <2>2, <2>4, <2>5, <2>6
<1>4. QED BY <1>2, <1>3
\* A boundary stays one while the queue is as it was and more arrives.
LEMMA BoundaryKept ==
    ASSUME TypeInv, NEW a \in Nat, Boundary(a), UNCHANGED <<window, seq>>, nbe' \in Nat, nbe <= nbe'
    PROVE  Boundary(a)'
BY DEF Boundary, TypeInv, TypeOK

\* A boundary stays one when data is queued.
LEMMA BoundaryGrows ==
    ASSUME TypeInv, NEW a \in Nat, Boundary(a), SendOne \/ SendSplit, nbe' = nbe
    PROVE  Boundary(a)'
<1>1. HeadSeq(window', seq') <= a /\ a <= nbe'
    BY QueueGrows DEF Boundary
<1>2. a = seq' \/ \E i \in 1..Len(window') : window'[i].seq = a
    BY QueueGrows DEF Boundary
<1>3. QED BY <1>1, <1>2 DEF Boundary

\* The receiver takes whole packets of the queue.
LEMMA BoundaryReceived ==
    ASSUME TypeInv, QueueInv, pc # "success", nbe # 0, Boundary(nbe), UNCHANGED sndVars, [Next]_vars
    PROVE  nbe <= nbe' /\ nbe' \in Nat \ {0} /\ Boundary(nbe)'
<1>0. TypeOK /\ seq \in Nat /\ nbe \in Nat /\ nbe' \in Nat /\ Len(window) \in Nat
    <2>1. TypeOK /\ nbe' \in Nat
        BY TypeInvStep DEF TypeInv, TypeOK
    <2>2. QED BY <2>1 DEF TypeOK
<1>s. window' = window /\ seq' = seq
    BY DEF sndVars, cbVars
<1>1. CASE nbe' = nbe
    BY <1>0, <1>1, <1>s, BoundaryKept
<1>2. ASSUME NEW p \in toRcv, RcvInOrder(p)
      PROVE  nbe <= nbe' /\ nbe' # 0 /\ Boundary(nbe)'
    <2>1. p \in DataPackets /\ p.seq = nbe /\ nbe' = nbe + Len(p.data)
        BY <1>2 DEF RcvInOrder, DataPackets
    <2>2. p.data # <<>> /\ End(p) <= seq
        BY <2>1 DEF QueueInv, SegmentInv
    <2>3. p.seq \in Nat /\ Len(p.data) \in Nat /\ Len(p.data) >= 1
        BY <1>0, <2>1, <2>2, DataPacketTypes
    <2>4. End(p) = nbe' /\ nbe < nbe' /\ nbe' # 0
        BY <1>0, <2>1, <2>3 DEF End
    <2>5. nbe # seq
        BY <1>0, <2>2, <2>4
    <2>6. PICK i \in 1..Len(window) : window[i].seq = nbe
        BY <2>5 DEF Boundary
    <2>7. window[i].seq < End(window[i]) /\ End(window[i]) \in Nat
        BY QueuedNumbers
    <2>8. window[i] \in DataPackets
        BY DEF DataPackets
    <2>9. window[i] = p
        BY <1>0, <2>1, <2>4, <2>6, <2>7, <2>8 DEF QueueInv, SegmentInv, SegmentsDisjoint
    <2>10. nbe' = IF i = Len(window) THEN seq ELSE window[i + 1].seq
        BY <2>4, <2>9 DEF QueueInv, WindowContiguous
    <2>11. nbe' = seq \/ \E j \in 1..Len(window) : window[j].seq = nbe'
        <3>1. CASE i = Len(window)
            BY <2>10, <3>1
        <3>2. CASE i # Len(window)
            <4>1. i + 1 \in 1..Len(window)
                BY <1>0, <3>2
            <4>2. QED BY <2>10, <3>2, <4>1
        <3>3. QED BY <3>1, <3>2
    <2>12. HeadSeq(window, seq) <= nbe /\ HeadSeq(window, seq) \in Nat
        BY <1>0, HeadSeqIsNat DEF Boundary, TypeOK
    <2>13. HeadSeq(window, seq) <= nbe'
        BY <1>0, <2>4, <2>12
    <2>14. QED BY <1>0, <1>s, <2>4, <2>11, <2>13 DEF Boundary
<1>3. CASE RcvSyn /\ nbe' # nbe
    <2>1. FALSE
        <3>1. nbe \in {0, ISS + 1} /\ nbe' = ISS + 1
            BY <1>3 DEF RcvSyn
        <3>2. QED BY <1>3, <3>1
    <2>2. QED BY <2>1
<1>4. QED BY <1>0, <1>1, <1>2, <1>3, RcvSteps DEF rcvVars

\* What arrives for the sender: at most one packet, and a new one acknowledges
\* what the receiver has.
LEMMA ArrivesOne ==
    ASSUME NetCap = 1, AckInv, [Next]_vars
    PROVE  /\ toSnd' = {} \/ \E q : toSnd' = {q}
           /\ toSnd' \subseteq toSnd \/
                \E q : /\ toSnd' = {q} /\ UNCHANGED sndVars
                       /\ q.ackNo = nbe' \/ \E p \in toRcv : p.type = "FIN"
<1>0. toSnd = {} \/ \E q : toSnd = {q}
    BY DEF AckInv
<1>1. CASE toSnd' \subseteq toSnd
    BY <1>0, <1>1
<1>2. ASSUME NEW t, NEW a, Answers(t, a), ~(toSnd' \subseteq toSnd)
      PROVE  \E q : /\ toSnd' = {q} /\ UNCHANGED sndVars
                    /\ q.ackNo = nbe' \/ \E p \in toRcv : p.type = "FIN"
    <2>1. PICK w \in Windows : toSnd' = Put(toSnd, [type |-> t, ackNo |-> a, win |-> w])
        BY <1>2 DEF Answers, Reply
    <2>2. PICK q : q = [type |-> t, ackNo |-> a, win |-> w]
        OBVIOUS
    <2>3. toSnd' = {q}
        BY <1>0, <1>2, <2>1, <2>2, PutOne
    <2>4. q.ackNo = nbe' \/ \E p \in toRcv : p.type = "FIN"
        BY <1>2, <2>2 DEF Answers
    <2>5. QED BY <1>2, <2>3, <2>4 DEF Answers
<1>3. QED BY <1>1, <1>2, SndSteps

\* Nothing is under way to the sender at first.
LEMMA AckInit == Strays = {} /\ Init => AckInv
<1>1. Syn.type = "SYN"
    BY DEF Syn
<1>2. QED BY <1>1 DEF Init, AckInv, Connected

\* What a step does to the boundaries.
LEMMA BoundariesKept ==
    ASSUME TypeInv, QueueInv, Ordered, Handshake, AckInv, [Next]_vars, Connected'
    PROVE  /\ nbe' # 0 /\ Boundary(nbe)'
           /\ \A p \in toSnd' : p \in toSnd /\ pc # "fin" => Boundary(p.ackNo)'
<1>0. TypeOK /\ seq \in Nat /\ nbe \in Nat /\ nbe' \in Nat
    BY TypeInvStep DEF TypeInv, TypeOK
<1>n. \A p \in toSnd : p.ackNo \in Nat
    BY <1>0 DEF TypeOK, SndPkt
<1>1. ASSUME NEW p \in toSnd, OpenSynAck(p), UNCHANGED rcvVars
      PROVE  nbe' # 0 /\ Boundary(nbe)' /\ toSnd' = {}
    <2>1. window' = <<>> /\ seq' = ISS + 1 /\ nbe' = ISS + 1
        BY <1>1 DEF OpenSynAck, TypeInv, Fresh, Handshake, Acceptable, rcvVars
    <2>2. toSnd' = {}
        BY <1>1 DEF OpenSynAck, Read, AckInv
    <2>3. QED BY <1>0, <2>1, <2>2, ConstAssumption DEF Boundary, HeadSeq
<1>2. CASE ~ \E p \in toSnd : OpenSynAck(p)
    <2>1. Connected /\ pc # "success" /\ nbe # 0 /\ Boundary(nbe)
          /\ (pc # "fin" => \A p \in toSnd : Boundary(p.ackNo))
        BY <1>2, ConnectedSteps DEF AckInv, Connected
    <2>2. CASE UNCHANGED sndVars
        <3>1. nbe <= nbe' /\ nbe' # 0 /\ Boundary(nbe)'
            BY <2>1, <2>2, BoundaryReceived
        <3>2. window' = window /\ seq' = seq
            BY <2>2 DEF sndVars, cbVars
        <3>3. ASSUME NEW p \in toSnd, pc # "fin" PROVE Boundary(p.ackNo)'
            BY <1>0, <1>n, <2>1, <3>1, <3>2, <3>3, BoundaryKept
        <3>4. QED BY <3>1, <3>3
    <2>3. CASE UNCHANGED rcvVars /\ toSnd' \subseteq toSnd /\ UNCHANGED <<window, seq>>
        <3>1. nbe' = nbe /\ nbe <= nbe'
            BY <1>0, <2>3 DEF rcvVars
        <3>2. \A a \in Nat : Boundary(a) => Boundary(a)'
            BY <1>0, <2>3, <3>1, BoundaryKept
        <3>3. Boundary(nbe)'
            BY <2>1, <2>3, <3>1 DEF Boundary
        <3>4. QED BY <1>n, <2>1, <3>1, <3>2, <3>3
    <2>4. CASE UNCHANGED rcvVars /\ (SendOne \/ SendSplit)
        <3>1. nbe' = nbe
            BY <2>4 DEF rcvVars
        <3>2. \A a \in Nat : Boundary(a) => Boundary(a)'
            BY <2>4, <3>1, BoundaryGrows
        <3>3. PICK b \in Nat : b = nbe
            BY <1>0
        <3>4. Boundary(b)'
            BY <2>1, <3>2, <3>3
        <3>5. Boundary(nbe)'
            BY <3>1, <3>3, <3>4 DEF Boundary
        <3>6. QED BY <1>n, <2>1, <3>1, <3>2, <3>5
    <2>5. ASSUME UNCHANGED rcvVars, NEW p \in toSnd, MoveWindow(p.ackNo), toSnd' = toSnd \ {p},
                 seq' = seq, pc \in {"send", "rexmit_send", "rexmit_close", "close"}
          PROVE  nbe' # 0 /\ Boundary(nbe)' /\ toSnd' = {}
        <3>1. nbe' = nbe
            BY <2>5 DEF rcvVars
        <3>2. Boundary(p.ackNo) /\ p.ackNo \in Nat
            BY <1>n, <2>1, <2>5
        <3>3. Boundary(nbe)'
            BY <2>1, <2>5, <3>1, <3>2, AckFrees
        <3>4. toSnd' = {}
            BY <2>5 DEF AckInv
        <3>5. QED BY <2>1, <3>1, <3>3, <3>4
    <2>6. pc' # "success"
        BY DEF Connected
    <2>7. QED BY <1>2, <2>2, <2>3, <2>4, <2>5, <2>6, SenderSteps
<1>3. QED BY <1>1, <1>2, SenderSteps DEF OpenSynAck

\* Every step keeps the acknowledgements on boundaries that the receiver has reached.
LEMMA AckStep ==
    ASSUME NetCap = 1, TypeInv, QueueInv, Ordered, Handshake, AckInv, [Next]_vars
    PROVE  AckInv'
<1>1. toSnd' = {} \/ \E q : toSnd' = {q}
    BY ArrivesOne
<1>2. ASSUME NEW p \in toRcv', p.type = "FIN" PROVE pc' \in {"fin", "success"}
    BY <1>2, FinSteps, PcSteps DEF AckInv
<1>3. Connected' => nbe' # 0 /\ Boundary(nbe)'
    BY BoundariesKept
<1>4. ASSUME Connected', pc' # "fin", NEW p \in toSnd' PROVE Boundary(p.ackNo)'
    <2>1. pc # "fin"
        BY <1>4, PcSteps DEF Connected
    <2>2. CASE p \in toSnd
        BY <1>4, <2>1, <2>2, BoundariesKept
    <2>3. CASE p \notin toSnd
        <3>1. UNCHANGED sndVars /\ (p.ackNo = nbe' \/ \E r \in toRcv : r.type = "FIN")
            BY <1>4, <2>3, ArrivesOne
        <3>2. p.ackNo = nbe'
            BY <1>4, <3>1 DEF AckInv, sndVars, Connected
        <3>3. QED BY <1>3, <1>4, <3>2 DEF Boundary
    <2>4. QED BY <2>2, <2>3
<1>5. pc' = "fin" => InFlight' = 0
    <2>1. SUFFICES ASSUME pc' = "fin" PROVE InFlight' = 0
        OBVIOUS
    <2>2. flight' = flight /\ (pc = "fin" \/ (pc = "close" /\ ~Draining))
        BY <2>1, FinSteps
    <2>3. pc = "fin" => InFlight = 0
        BY DEF AckInv
    <2>4. InFlight >= 0 /\ InFlight \in Int
        BY ConstAssumption DEF InFlight, TypeInv, TypeOK
    <2>5. InFlight = 0
        BY <2>2, <2>3, <2>4 DEF Draining
    <2>6. QED BY <2>2, <2>5 DEF InFlight
<1>6. QED BY <1>1, <1>2, <1>3, <1>4, <1>5 DEF AckInv

\* Quotient and remainder.
LEMMA Divides ==
    ASSUME NEW a \in Int, NEW m \in Nat \ {0}, NEW q \in Int, q = a \div m, NEW r \in Int, r = a % m
    PROVE  a = m * q + r
BY SMTT(20)

\* The same, as an existence.
LEMMA Division ==
    ASSUME NEW a \in Int, NEW m \in Nat \ {0}
    PROVE  \E q \in Int : \E r \in 0..(m - 1) : a = m * q + r /\ a % m = r
<1>1. a % m \in 0..(m - 1) /\ a \div m \in Int
    OBVIOUS
<1>2. PICK r \in 0..(m - 1) : r = a % m
    BY <1>1
<1>3. PICK q \in Int : q = a \div m
    BY <1>1
<1>4. r \in Int
    OBVIOUS
<1>5. a = m * q + r
    BY <1>2, <1>3, <1>4, Divides
<1>6. QED BY <1>2, <1>5

\* A remainder belongs to one quotient.
LEMMA OneRemainder ==
    ASSUME NEW m \in Nat \ {0}, NEW q1 \in Int, NEW q2 \in Int,
           NEW r1 \in 0..(m - 1), NEW r2 \in 0..(m - 1), m * q1 + r1 = m * q2 + r2
    PROVE  r1 = r2
<1>1. m * (q1 - q2) = r2 - r1
    OBVIOUS
<1>2. CASE q1 - q2 >= 1
    <2>1. m * (q1 - q2) >= m
        BY <1>2
    <2>2. QED BY <1>1, <2>1
<1>3. CASE q1 - q2 <= -1
    <2>1. m * (q1 - q2) <= -m
        BY <1>3
    <2>2. QED BY <1>1, <2>1
<1>4. CASE q1 - q2 = 0
    <2>1. m * (q1 - q2) = 0
        BY <1>4
    <2>2. QED BY <1>1, <2>1
<1>5. QED BY <1>2, <1>3, <1>4

\* Numbers that differ by a multiple of m leave the same remainder.
LEMMA SameRemainder ==
    ASSUME NEW a \in Int, NEW b \in Int, NEW m \in Nat \ {0}, (a - b) % m = 0
    PROVE  a % m = b % m
<1>1. PICK k \in Int : a - b = m * k
    <2>1. PICK k \in Int : \E r \in 0..(m - 1) : a - b = m * k + r /\ (a - b) % m = r
        BY Division
    <2>2. a - b = m * k + 0
        BY <2>1
    <2>3. PICK z \in Int : z = m * k
        OBVIOUS
    <2>4. QED BY <2>2, <2>3
<1>2. PICK q \in Int : \E r \in 0..(m - 1) : b = m * q + r /\ b % m = r
    BY Division
<1>3. PICK r \in 0..(m - 1) : b = m * q + r /\ b % m = r
    BY <1>2
<1>4. PICK p \in Int : \E s \in 0..(m - 1) : a = m * p + s /\ a % m = s
    BY Division
<1>5. PICK s \in 0..(m - 1) : a = m * p + s /\ a % m = s
    BY <1>4
<1>6. m * (q + k) = m * q + m * k /\ q + k \in Int
    OBVIOUS
<1>7. PICK x, y, z \in Int : x = m * q /\ y = m * k /\ z = m * p
    OBVIOUS
<1>8. z + s = (x + y) + r
    BY <1>1, <1>3, <1>5, <1>7
<1>9. m * p + s = m * (q + k) + r
    BY <1>6, <1>7, <1>8
<1>10. s = r
    BY <1>6, <1>9, OneRemainder
<1>11. QED BY <1>3, <1>5, <1>10

\* A FIN that goes out before everything has arrived.
LEMMA EarlyFinHolds == TypeInv /\ QueueInv /\ DriftLaw /\ AckInv => EarlyFin
<1> SUFFICES ASSUME TypeInv, QueueInv, DriftLaw, AckInv, pc = "fin", nbe # seq
             PROVE  window # <<>> /\ (Outstanding - uncounted) % W = (HDR * popped) % W
    BY DEF EarlyFin
<1>1. PICK i \in 1..Len(window) : window[i].seq = nbe
    BY DEF AckInv, Connected, Boundary
<1>2. window # <<>>
    BY <1>1
<1>3. flight = Outstanding - uncounted - HDR * popped /\ flight % W = 0
    BY <1>2 DEF DriftLaw, AckInv, InFlight
<1>4. Outstanding - uncounted \in Int /\ HDR * popped \in Int /\ W \in Nat \ {0}
    BY HeadSeqIsNat, ConstAssumption DEF TypeInv, TypeOK, Outstanding
<1>5. QED BY <1>2, <1>3, <1>4, SameRemainder

\* On a path that holds one packet each way a FIN that stcp_close sends before everything
\* has arrived is explained by the headers that moveWindow subtracts, and by nothing else.
THEOREM EarlyFinExplained == ASSUME NetCap = 1, Strays = {} PROVE Spec => []EarlyFin
<1> DEFINE I == TypeInv /\ QueueInv /\ Ordered /\ Handshake /\ AckInv /\ DriftLaw
<1>1. Init => I
    BY TypeInvInit, QueueInvInit, OrderedInit, HandshakeInit, AckInit, DriftInit
<1>2. I /\ [Next]_vars => I'
    BY TypeInvStep, QueueInvStep, OrderedStep, HandshakeStep, AckStep, DriftStep
<1>3. I => EarlyFin
    BY EarlyFinHolds
<1> HIDE DEF I
<1>4. QED BY <1>1, <1>2, <1>3, PTL DEF Spec

-----------------------------------------------------------------------------
(* Acknowledgements that overtake each other.                              *)

\* A packet under way is queued, or lies before the queue.
Covered(p) == (\E i \in 1..Len(window) : window[i] = p) \/ End(p) <= HeadSeq(window, seq)

UnderWay == pc # "success" => \A p \in toRcv : p.type = "DATA" => Covered(p)

\* The receiver has come to the number a, which is the start of a queued packet, or where
\* the next one will start, or lies before the queue.
Passed(a) ==
    /\ a <= nbe
    /\ a < HeadSeq(window, seq) \/ a = seq \/ \E i \in 1..Len(window) : window[i].seq = a

\* Any path: what is acknowledged has arrived and was once a boundary of the queue.
ReachInv ==
    /\ \A p \in toRcv : p.type = "FIN" => pc \in {"fin", "success"}
    /\ UnderWay
    /\ Connected => nbe # 0 /\ Passed(nbe)
    /\ Connected /\ pc # "fin" => \A p \in toSnd : Passed(p.ackNo)

\* What moveWindow frees lies before the queue it leaves.
LEMMA FreedBelow ==
    ASSUME TypeInv, QueueInv, Ordered, pc # "success", seq' = seq,
           NEW n \in 0..Len(window), window' \in Seq(DataPkt),
           Len(window') = Len(window) - n,
           \A i \in 1..Len(window') : window'[i] = window[n + i]
    PROVE  /\ \A i \in 1..n : End(window[i]) <= HeadSeq(window', seq')
           /\ \A i \in 1..Len(window) : i > n => \E j \in 1..Len(window') : window'[j] = window[i]
<1>0. TypeOK /\ seq \in Nat
    BY DEF TypeInv, TypeOK
<1>l. PICK l \in Nat : l = Len(window)
    BY <1>0 DEF TypeOK
<1>1. ASSUME NEW i \in 1..n PROVE End(window[i]) <= HeadSeq(window', seq')
    <2>1. i \in 1..Len(window)
        BY <1>l
    <2>2. CASE n = l
        <3>1. Len(window') = 0
            BY <1>l, <2>2
        <3>2. window' = <<>>
            BY <3>1
        <3>3. QED BY <2>1, <3>2, QueuedNumbers DEF HeadSeq
    <2>3. CASE n # l
        <3>1. n + 1 \in 1..Len(window) /\ i < n + 1 /\ 1 \in 1..Len(window')
            BY <1>l, <2>3
        <3>2. window' # <<>> /\ window'[1] = window[n + 1]
            BY <3>1
        <3>3. End(window[i]) <= window[n + 1].seq
            BY <2>1, <3>1 DEF Ordered
        <3>4. QED BY <3>2, <3>3 DEF HeadSeq
    <2>4. QED BY <2>2, <2>3
<1>2. ASSUME NEW i \in 1..Len(window), i > n
      PROVE  \E j \in 1..Len(window') : window'[j] = window[i]
    <2>1. i - n \in 1..Len(window') /\ n + (i - n) = i
        BY <1>l, <1>2
    <2>2. window'[i - n] = window[i]
        BY <2>1
    <2>3. QED BY <2>1, <2>2
<1>3. QED BY <1>1, <1>2

\* A packet covered before moveWindow is covered after it.
LEMMA CoveredMoves ==
    ASSUME TypeInv, QueueInv, Ordered, Frees, NEW p \in DataPackets, Covered(p)
    PROVE  Covered(p)'
<1>0. TypeOK /\ pc # "success" /\ seq' = seq /\ seq \in Nat
    BY DEF TypeInv, TypeOK, Frees, InRexmit, Draining
<1>1. PICK n \in 0..Len(window) :
        /\ window' \in Seq(DataPkt) /\ Len(window') = Len(window) - n
        /\ \A i \in 1..Len(window') : window'[i] = window[n + i]
    BY <1>0, FreesNothingNew, Zenon
<1>2. /\ \A i \in 1..n : End(window[i]) <= HeadSeq(window', seq')
      /\ \A i \in 1..Len(window) : i > n => \E j \in 1..Len(window') : window'[j] = window[i]
    BY <1>0, <1>1, FreedBelow
<1>3. CASE End(p) <= HeadSeq(window, seq)
    <2>1. HeadSeq(window, seq) <= HeadSeq(window', seq')
        BY <1>0, HeadMoves
    <2>2. HeadSeq(window, seq) \in Nat /\ HeadSeq(window', seq') \in Nat
        BY <1>0, <1>1, HeadSeqIsNat DEF TypeOK
    <2>3. End(p) \in Nat
        BY <1>0, DataPacketTypes DEF End
    <2>4. End(p) <= HeadSeq(window', seq')
        BY <1>3, <2>1, <2>2, <2>3
    <2>5. QED BY <2>4 DEF Covered, End
<1>4. ASSUME NEW i \in 1..Len(window), window[i] = p PROVE Covered(p)'
    <2>1. CASE i \in 1..n
        BY <1>2, <1>4, <2>1 DEF Covered, End
    <2>2. CASE i > n
        BY <1>2, <1>4, <2>2 DEF Covered
    <2>3. n \in Nat /\ i \in Nat /\ i >= 1
        BY <1>0
    <2>4. QED BY <2>1, <2>2, <2>3
<1>5. QED BY <1>3, <1>4 DEF Covered

\* Nothing is under way at first that would have to be queued.
LEMMA ReachInit == Strays = {} /\ Init => ReachInv
<1>1. Syn.type = "SYN"
    BY DEF Syn
<1>2. QED BY <1>1 DEF Init, ReachInv, Connected, UnderWay

\* Data is sent when it is queued, and later only from the queue.
LEMMA UnderWayStep ==
    ASSUME TypeInv, QueueInv, Ordered, Handshake, UnderWay, [Next]_vars
    PROVE  UnderWay'
<1> SUFFICES ASSUME pc' # "success", NEW p \in toRcv', p.type = "DATA" PROVE Covered(p)'
    BY DEF UnderWay
<1>0. TypeOK /\ pc # "success"
    BY PcSteps DEF TypeInv
<1>1. ASSUME p \in DataPackets PROVE Covered(p)
    BY <1>0, <1>1 DEF DataPackets, UnderWay, Covered
<1>2. CASE Keeps \/ Clears
    <2>1. p \in DataPackets /\ UNCHANGED <<window, seq>>
        BY <1>2 DEF Keeps, Clears, NothingNew
    <2>2. QED BY <1>1, <2>1 DEF Covered, End
<1>3. CASE Frees
    <2>1. p \in DataPackets
        BY <1>3 DEF Frees, NothingNew
    <2>2. QED BY <1>1, <1>3, <2>1, CoveredMoves
<1>4. ASSUME SendOne \/ SendSplit, p \in DataPackets PROVE Covered(p)'
    <2>1. /\ HeadSeq(window', seq') = HeadSeq(window, seq)
          /\ \A i \in 1..Len(window) : i \in 1..Len(window') /\ window'[i] = window[i]
        BY <1>4, QueueGrows
    <2>2. QED BY <1>1, <1>4, <2>1 DEF Covered, End
<1>5. CASE SendSplit
    <2>1. p \in DataPackets
        BY <1>5 DEF SendSplit, DataPackets
    <2>2. QED BY <1>4, <1>5, <2>1
<1>6. CASE SendOne
    <2>1. PICK q : q = Data(seq, Chunk)
        OBVIOUS
    <2>2. q \in DataPkt /\ window \in Seq(DataPkt)
        BY <1>0, <2>1, PacketTypes DEF TypeOK
    <2>3. window' = Append(window, q) /\ toRcv' \subseteq toRcv \cup {q}
        BY <1>6, <2>1, PutAdds DEF SendOne, Transmit
    <2>4. CASE p = q
        <3>1. Len(window) + 1 \in 1..Len(window') /\ window'[Len(window) + 1] = q
            BY <2>2, <2>3
        <3>2. QED BY <2>4, <3>1 DEF Covered
    <2>5. CASE p \in toRcv
        BY <1>4, <1>6, <2>5 DEF DataPackets
    <2>6. QED BY <2>3, <2>4, <2>5
<1>7. ASSUME NEW q \in toSnd, OpenSynAck(q) PROVE FALSE
    <2>1. toRcv \subseteq {Syn} /\ toRcv' \subseteq toRcv \cup {Ack}
        BY <1>7, PutAdds DEF OpenSynAck, Handshake, Transmit
    <2>2. p = Syn \/ p = Ack
        BY <2>1
    <2>3. QED BY <2>2 DEF Syn, Ack
<1>8. ASSUME NEW q \in toSnd, FinAck(q) PROVE FALSE
    BY <1>8 DEF FinAck
<1>9. QED BY <1>2, <1>3, <1>5, <1>6, <1>7, <1>8, QueueSteps

\* What has been passed stays so while the queue is as it was and more arrives.
LEMMA PassedKept ==
    ASSUME TypeInv, NEW a \in Nat, Passed(a), UNCHANGED <<window, seq>>, nbe' \in Nat, nbe <= nbe'
    PROVE  Passed(a)'
BY DEF Passed, TypeInv, TypeOK

\* What has been passed stays so when data is queued.
LEMMA PassedGrows ==
    ASSUME TypeInv, NEW a \in Nat, Passed(a), SendOne \/ SendSplit, nbe' = nbe
    PROVE  Passed(a)'
BY QueueGrows DEF Passed

\* What has been passed stays so whatever moveWindow frees.
LEMMA PassedMoves ==
    ASSUME TypeInv, QueueInv, Ordered, pc # "success", NEW a \in Nat, Passed(a),
           NEW ack \in Nat, MoveWindow(ack), seq' = seq, nbe' = nbe
    PROVE  Passed(a)'
<1>0. TypeOK /\ seq \in Nat
    BY DEF TypeInv, TypeOK
<1>1. PICK n \in 0..Len(window) :
        /\ window' \in Seq(DataPkt) /\ Len(window') = Len(window) - n
        /\ \A i \in 1..Len(window') : window'[i] = window[n + i]
    BY <1>0, MoveWindowStops
<1>2. /\ \A i \in 1..n : End(window[i]) <= HeadSeq(window', seq')
      /\ \A i \in 1..Len(window) : i > n => \E j \in 1..Len(window') : window'[j] = window[i]
    BY <1>1, FreedBelow
<1>3. HeadSeq(window', seq') \in Nat
    BY <1>0, <1>1, HeadSeqIsNat
<1>4. ASSUME NEW i \in 1..Len(window), window[i].seq = a PROVE Passed(a)'
    <2>1. n \in Nat /\ i \in Nat /\ i >= 1
        BY <1>0
    <2>2. CASE i > n
        BY <1>2, <1>4, <2>2 DEF Passed
    <2>3. CASE i \in 1..n
        <3>1. End(window[i]) <= HeadSeq(window', seq')
            BY <1>2, <2>3
        <3>2. a < End(window[i]) /\ End(window[i]) \in Nat
            BY <1>4, QueuedNumbers
        <3>3. a < HeadSeq(window', seq')
            BY <1>3, <3>1, <3>2
        <3>4. QED BY <3>3 DEF Passed
    <2>4. QED BY <2>1, <2>2, <2>3
<1>5. CASE a < HeadSeq(window, seq)
    <2>1. window # <<>> => window[1].seq = HeadSeq(window, seq) /\ 1 \in 1..Len(window)
        BY <1>0 DEF HeadSeq, TypeOK
    <2>2. CASE window = <<>>
        <3>1. window' = <<>>
            BY <1>1, <2>2
        <3>2. QED BY <1>5, <2>2, <3>1 DEF Passed, HeadSeq
    <2>3. CASE window # <<>>
        <3>1. /\ window[1].seq \in Nat /\ End(window[1]) \in Nat
              /\ window[1].seq < End(window[1]) /\ a < window[1].seq
            BY <1>5, <2>1, <2>3, QueuedNumbers
        <3>2. CASE n = 0
            <4>1. PICK l \in Nat : l = Len(window)
                BY <1>0 DEF TypeOK
            <4>2. l # 0
                BY <2>3, <4>1 DEF TypeOK, TypeInv
            <4>3. 1 \in 1..Len(window')
                BY <1>1, <3>2, <4>1, <4>2
            <4>4. window' # <<>> /\ window'[1] = window[1]
                BY <1>1, <3>2, <4>3
            <4>5. QED BY <1>5, <2>1, <2>3, <4>4 DEF Passed, HeadSeq
        <3>3. CASE n # 0
            <4>1. 1 \in 1..n
                BY <3>3
            <4>2. a < HeadSeq(window', seq')
                BY <1>2, <1>3, <3>1, <4>1
            <4>3. QED BY <4>2 DEF Passed
        <3>4. QED BY <3>2, <3>3
    <2>4. QED BY <2>2, <2>3
<1>6. QED BY <1>4, <1>5 DEF Passed

\* The receiver takes packets of the queue, or such as have been freed already.
LEMMA PassedReceived ==
    ASSUME TypeInv, QueueInv, UnderWay, pc # "success", nbe # 0, Passed(nbe),
           UNCHANGED sndVars, [Next]_vars
    PROVE  nbe <= nbe' /\ nbe' \in Nat \ {0} /\ Passed(nbe)'
<1>0. TypeOK /\ seq \in Nat /\ nbe \in Nat /\ nbe' \in Nat /\ Len(window) \in Nat
    <2>1. TypeOK /\ nbe' \in Nat
        BY TypeInvStep DEF TypeInv, TypeOK
    <2>2. QED BY <2>1 DEF TypeOK
<1>s. window' = window /\ seq' = seq
    BY DEF sndVars, cbVars
<1>1. CASE nbe' = nbe
    BY <1>0, <1>1, <1>s, PassedKept
<1>2. ASSUME NEW p \in toRcv, RcvInOrder(p)
      PROVE  nbe <= nbe' /\ nbe' # 0 /\ Passed(nbe)'
    <2>1. p \in DataPackets /\ p.seq = nbe /\ nbe' = nbe + Len(p.data)
        BY <1>2 DEF RcvInOrder, DataPackets
    <2>2. p.data # <<>> /\ Covered(p)
        BY <1>2, <2>1 DEF QueueInv, SegmentInv, UnderWay, RcvInOrder
    <2>3. p.seq \in Nat /\ Len(p.data) \in Nat /\ Len(p.data) >= 1
        BY <1>0, <2>1, <2>2, DataPacketTypes
    <2>4. End(p) = nbe' /\ nbe <= nbe' /\ nbe' # 0
        BY <1>0, <2>1, <2>3 DEF End
    <2>5. \/ nbe' < HeadSeq(window, seq) \/ nbe' = seq
          \/ \E j \in 1..Len(window) : window[j].seq = nbe'
        <3>1. ASSUME NEW i \in 1..Len(window), window[i] = p
              PROVE  nbe' = seq \/ \E j \in 1..Len(window) : window[j].seq = nbe'
            <4>1. nbe' = IF i = Len(window) THEN seq ELSE window[i + 1].seq
                BY <2>4, <3>1 DEF QueueInv, WindowContiguous
            <4>2. CASE i = Len(window)
                BY <4>1, <4>2
            <4>3. CASE i # Len(window)
                <5>1. i + 1 \in 1..Len(window)
                    BY <1>0, <4>3
                <5>2. QED BY <4>1, <4>3, <5>1
            <4>4. QED BY <4>2, <4>3
        <3>2. CASE nbe' <= HeadSeq(window, seq)
            <4>1. HeadSeq(window, seq) \in Nat
                BY <1>0, HeadSeqIsNat DEF TypeOK
            <4>2. nbe' < HeadSeq(window, seq) \/ nbe' = HeadSeq(window, seq)
                BY <1>0, <3>2, <4>1
            <4>3. \/ HeadSeq(window, seq) = seq
                  \/ \E j \in 1..Len(window) : window[j].seq = HeadSeq(window, seq)
                <5>1. window # <<>> => 1 \in 1..Len(window)
                    BY <1>0 DEF TypeOK
                <5>2. QED BY <5>1 DEF HeadSeq
            <4>4. QED BY <4>2, <4>3
        <3>3. QED BY <2>2, <2>4, <3>1, <3>2 DEF Covered
    <2>6. QED BY <1>0, <1>s, <2>4, <2>5 DEF Passed
<1>3. CASE RcvSyn /\ nbe' # nbe
    <2>1. nbe \in {0, ISS + 1} /\ nbe' = ISS + 1
        BY <1>3 DEF RcvSyn
    <2>2. QED BY <1>3, <2>1
<1>4. QED BY <1>0, <1>1, <1>2, <1>3, RcvSteps DEF rcvVars

\* What a step does to what has been passed.
LEMMA PassedSteps ==
    ASSUME TypeInv, QueueInv, Ordered, Handshake, ReachInv, [Next]_vars, Connected'
    PROVE  /\ nbe' # 0 /\ Passed(nbe)'
           /\ \A p \in toSnd' : p \in toSnd /\ pc # "fin" => Passed(p.ackNo)'
<1>0. TypeOK /\ seq \in Nat /\ nbe \in Nat /\ nbe' \in Nat
    BY TypeInvStep DEF TypeInv, TypeOK
<1>n. \A p \in toSnd : p.ackNo \in Nat
    BY <1>0 DEF TypeOK, SndPkt
<1>1. ASSUME NEW q \in toSnd, OpenSynAck(q), UNCHANGED rcvVars
      PROVE  /\ nbe' # 0 /\ Passed(nbe)'
             /\ \A p \in toSnd' : p \in toSnd /\ pc # "fin" => Passed(p.ackNo)'
    <2>1. /\ window' = <<>> /\ seq' = ISS + 1 /\ nbe' = ISS + 1
          /\ \A p \in toSnd : p.ackNo = ISS + 1
        BY <1>1 DEF OpenSynAck, TypeInv, Fresh, Handshake, Acceptable, rcvVars
    <2>2. QED BY <1>0, <2>1, ConstAssumption DEF Passed
<1>2. CASE ~ \E p \in toSnd : OpenSynAck(p)
    <2>1. Connected /\ pc # "success" /\ nbe # 0 /\ Passed(nbe)
          /\ (pc # "fin" => \A p \in toSnd : Passed(p.ackNo))
        BY <1>2, ConnectedSteps DEF ReachInv, Connected
    <2>2. CASE UNCHANGED sndVars
        <3>1. nbe <= nbe' /\ nbe' # 0 /\ Passed(nbe)'
            BY <2>1, <2>2, PassedReceived DEF ReachInv
        <3>2. window' = window /\ seq' = seq
            BY <2>2 DEF sndVars, cbVars
        <3>3. ASSUME NEW p \in toSnd, pc # "fin" PROVE Passed(p.ackNo)'
            BY <1>0, <1>n, <2>1, <3>1, <3>2, <3>3, PassedKept
        <3>4. QED BY <3>1, <3>3
    <2>3. ASSUME nbe' = nbe, \A a \in Nat : Passed(a) => Passed(a)'
          PROVE  /\ nbe' # 0 /\ Passed(nbe)'
                 /\ \A p \in toSnd' : p \in toSnd /\ pc # "fin" => Passed(p.ackNo)'
        <3>1. PICK b \in Nat : b = nbe
            BY <1>0
        <3>2. Passed(b)'
            BY <2>1, <2>3, <3>1
        <3>3. Passed(nbe)'
            BY <2>3, <3>1, <3>2 DEF Passed
        <3>4. QED BY <1>n, <2>1, <2>3, <3>3
    <2>4. CASE UNCHANGED rcvVars /\ UNCHANGED <<window, seq>>
        <3>1. nbe' = nbe /\ nbe <= nbe'
            BY <1>0, <2>4 DEF rcvVars
        <3>2. \A a \in Nat : Passed(a) => Passed(a)'
            BY <1>0, <2>4, <3>1, PassedKept
        <3>3. QED BY <2>3, <3>1, <3>2
    <2>5. CASE UNCHANGED rcvVars /\ (SendOne \/ SendSplit)
        <3>1. nbe' = nbe
            BY <2>5 DEF rcvVars
        <3>2. \A a \in Nat : Passed(a) => Passed(a)'
            BY <2>5, <3>1, PassedGrows
        <3>3. QED BY <2>3, <3>1, <3>2
    <2>6. ASSUME UNCHANGED rcvVars, NEW p \in toSnd, MoveWindow(p.ackNo), seq' = seq
          PROVE  nbe' = nbe /\ \A a \in Nat : Passed(a) => Passed(a)'
        <3>1. nbe' = nbe
            BY <2>6 DEF rcvVars
        <3>2. QED BY <1>n, <2>1, <2>6, <3>1, PassedMoves
    <2>7. pc' # "success"
        BY DEF Connected
    <2>8. QED BY <1>2, <2>2, <2>3, <2>4, <2>5, <2>6, <2>7, SenderSteps
<1>3. QED BY <1>1, <1>2, SenderSteps DEF OpenSynAck

\* A packet that comes new to the sender acknowledges what the receiver has.
LEMMA AnswersReached ==
    ASSUME [Next]_vars, NEW q \in toSnd', q \notin toSnd
    PROVE  UNCHANGED sndVars /\ (q.ackNo = nbe' \/ \E p \in toRcv : p.type = "FIN")
<1>1. PICK t, a : Answers(t, a)
    BY SndSteps
<1>2. PICK w \in Windows : toSnd' = Put(toSnd, [type |-> t, ackNo |-> a, win |-> w])
    BY <1>1 DEF Answers, Reply
<1>3. q = [type |-> t, ackNo |-> a, win |-> w]
    BY <1>2, PutAdds
<1>4. QED BY <1>1, <1>3 DEF Answers

\* Every step keeps what is acknowledged among what has been passed.
LEMMA ReachStep ==
    ASSUME TypeInv, QueueInv, Ordered, Handshake, ReachInv, [Next]_vars
    PROVE  ReachInv'
<1>1. ASSUME NEW p \in toRcv', p.type = "FIN" PROVE pc' \in {"fin", "success"}
    BY <1>1, FinSteps, PcSteps DEF ReachInv
<1>2. UnderWay'
    BY UnderWayStep DEF ReachInv
<1>3. Connected' => nbe' # 0 /\ Passed(nbe)'
    BY PassedSteps
<1>4. ASSUME Connected', pc' # "fin", NEW p \in toSnd' PROVE Passed(p.ackNo)'
    <2>1. pc # "fin"
        BY <1>4, PcSteps DEF Connected
    <2>2. CASE p \in toSnd
        BY <1>4, <2>1, <2>2, PassedSteps
    <2>3. CASE p \notin toSnd
        <3>1. UNCHANGED sndVars /\ (p.ackNo = nbe' \/ \E r \in toRcv : r.type = "FIN")
            BY <1>4, <2>3, AnswersReached
        <3>2. p.ackNo = nbe'
            BY <1>4, <3>1 DEF ReachInv, sndVars, Connected
        <3>3. QED BY <1>3, <1>4, <3>2 DEF Passed
    <2>4. QED BY <2>2, <2>3
<1>5. QED BY <1>1, <1>2, <1>3, <1>4 DEF ReachInv

\* What a step may free.
LEMMA FreedStep ==
    ASSUME TypeInv, QueueInv, Ordered, ReachInv, Next
    PROVE  popped' > popped =>
             \/ \A i \in 1..(popped' - popped) : End(window[i]) <= nbe
             \/ window' = <<>> /\ \E p \in toSnd \ toSnd' : p.ackNo < window[1].seq
<1>0. TypeOK /\ popped \in Nat /\ seq \in Nat /\ nbe \in Nat
    BY DEF TypeInv, TypeOK
<1>1. CASE popped' = popped
    BY <1>0, <1>1
<1>2. ASSUME NEW p \in toSnd, MoveWindow(p.ackNo), toSnd' = toSnd \ {p},
             seq' = seq, pc \in {"send", "rexmit_send", "rexmit_close", "close"}
      PROVE  \/ \A i \in 1..(popped' - popped) : End(window[i]) <= nbe
             \/ window' = <<>> /\ \E q \in toSnd \ toSnd' : q.ackNo < window[1].seq
    <2>1. p.ackNo \in Nat /\ pc # "success"
        BY <1>0, <1>2 DEF TypeOK, SndPkt
    <2>2. Passed(p.ackNo)
        BY <1>2 DEF ReachInv, Connected
    <2>3. PICK n \in 0..Len(window) :
            /\ \A i \in 1..n : window[i].seq # p.ackNo
            /\ n < Len(window) => window[n + 1].seq = p.ackNo
            /\ window' \in Seq(DataPkt) /\ Len(window') = Len(window) - n
            /\ popped' = popped + n
        BY <1>0, <1>2, <2>1, MoveWindowStops
    <2>4. n \in Nat /\ popped' - popped = n
        BY <1>0, <2>3
    <2>5. PICK l \in Nat : l = Len(window)
        BY <1>0 DEF TypeOK
    <2>6. p.ackNo <= nbe
        BY <2>2 DEF Passed
    <2>7. CASE n < l
        <3>1. ASSUME NEW i \in 1..n PROVE End(window[i]) <= nbe
            <4>1. i \in 1..Len(window) /\ n + 1 \in 1..Len(window) /\ i < n + 1
                BY <2>3, <2>5, <2>7
            <4>2. End(window[i]) <= window[n + 1].seq /\ window[n + 1].seq = p.ackNo
                BY <2>3, <2>5, <2>7, <4>1 DEF Ordered
            <4>3. QED BY <1>0, <2>1, <2>6, <4>1, <4>2, QueuedNumbers
        <3>2. QED BY <2>4, <3>1
    <2>8. CASE n = l
        <3>1. window' = <<>>
            <4>1. Len(window') = 0
                BY <2>3, <2>5, <2>8
            <4>2. QED BY <2>3, <4>1
        <3>2. CASE p.ackNo = seq
            <4>1. ASSUME NEW i \in 1..n PROVE End(window[i]) <= nbe
                <5>1. i \in 1..Len(window)
                    BY <2>5, <2>8
                <5>2. QED BY <1>0, <2>1, <2>6, <3>2, <5>1, QueuedNumbers
            <4>2. QED BY <2>4, <4>1
        <3>3. CASE p.ackNo < HeadSeq(window, seq) /\ window # <<>>
            <4>1. p \in toSnd \ toSnd' /\ p.ackNo < window[1].seq
                BY <1>2, <3>3 DEF HeadSeq
            <4>2. QED BY <3>1, <4>1
        <3>4. CASE window = <<>>
            <4>1. n = 0
                BY <2>3, <3>4
            <4>2. \A i \in 1..n : End(window[i]) <= nbe
                BY <4>1
            <4>3. QED BY <2>4, <4>2
        <3>5. ~ \E i \in 1..Len(window) : window[i].seq = p.ackNo
            BY <2>3, <2>5, <2>8
        <3>6. QED BY <2>2, <3>2, <3>3, <3>4, <3>5 DEF Passed
    <2>9. QED BY <2>3, <2>5, <2>7, <2>8
<1>3. UNCHANGED sndVars => popped' = popped
    BY DEF sndVars, history
<1>4. SendOne \/ SendSplit => popped' = popped
    BY DEF SendOne, SendSplit
<1>5. ASSUME NEW p \in toSnd, OpenSynAck(p) PROVE popped' = popped
    BY <1>5 DEF OpenSynAck, history
<1>6. QED BY <1>1, <1>2, <1>3, <1>4, <1>5, SenderSteps

\* On a path that loses and reorders, moveWindow frees what has arrived, or all there is
\* for an acknowledgement older than the queue (sender.c:105-121).
THEOREM FreesWhatArrived == ASSUME Strays = {} PROVE Spec => FreedIsAcked
<1> DEFINE I == TypeInv /\ QueueInv /\ Ordered /\ Handshake /\ ReachInv
           A == popped' > popped /\ ~Misled =>
                  \/ \A i \in 1..(popped' - popped) : End(window[i]) <= nbe
                  \/ window' = <<>> /\ \E p \in toSnd \ toSnd' : p.ackNo < window[1].seq
<1>1. Init => I
    BY TypeInvInit, QueueInvInit, OrderedInit, HandshakeInit, ReachInit
<1>2. I /\ [Next]_vars => I'
    BY TypeInvStep, QueueInvStep, OrderedStep, HandshakeStep, ReachStep
<1>3. I /\ [Next]_vars => [A]_vars
    <2>1. I /\ Next => A
        BY FreedStep
    <2> HIDE DEF I, A
    <2>2. QED BY <2>1
<1> HIDE DEF I
<1>4. Spec => [][A]_vars
    <2> HIDE DEF A
    <2>1. QED BY <1>1, <1>2, <1>3, PTL DEF Spec
<1>5. QED BY <1>4, PTL DEF FreedIsAcked

-----------------------------------------------------------------------------
(* What the functions of Wraparound do for every even range of numbers.    *)

\* The range of an unsigned int of two or more bits.
EvenRange == Word \in Nat /\ Word >= 4 /\ Word % 2 = 0

\* maxVal is half of the range (wraparound.c:35).
LEMMA Half ==
    ASSUME EvenRange
    PROVE  Word \in Nat /\ maxVal \in Nat /\ Word = 2 * maxVal /\ maxVal >= 2
  BY EvenRange DEF EvenRange, maxVal

\* An addition takes the range away at most once.
LEMMA PlusWraps ==
    ASSUME EvenRange, NEW x \in UInt, NEW y \in UInt
    PROVE  plus32(x, y) = IF x + y < Word THEN x + y ELSE x + y - Word
<1>1. Word \in Nat /\ Word >= 4 /\ x \in 0..(Word - 1) /\ y \in 0..(Word - 1)
  BY EvenRange DEF EvenRange, UInt
<1>2. CASE x + y < Word
  BY <1>1, <1>2 DEF plus32
<1>3. CASE x + y >= Word
  <2>1. (x + y - Word) % Word = x + y - Word
    BY <1>1, <1>3
  <2>2. (x + y) % Word = (x + y - Word) % Word
    BY <1>1, <1>3
  <2>. QED  BY <1>1, <1>3, <2>1, <2>2 DEF plus32
<1>. QED  BY <1>1, <1>2, <1>3

\* A subtraction adds it at most once.
LEMMA MinusWraps ==
    ASSUME EvenRange, NEW x \in UInt, NEW y \in UInt
    PROVE  minus32(x, y) = IF x >= y THEN x - y ELSE x - y + Word
<1>1. Word \in Nat /\ Word >= 4 /\ x \in 0..(Word - 1) /\ y \in 0..(Word - 1)
  BY EvenRange DEF EvenRange, UInt
<1>2. CASE x >= y
  BY <1>1, <1>2 DEF minus32
<1>3. CASE x < y
  <2>1. (x - y + Word) % Word = x - y + Word
    BY <1>1, <1>3
  <2>2. (x - y) % Word = (x - y + Word) % Word
    BY <1>1, <1>3
  <2>. QED  BY <1>1, <1>3, <2>1, <2>2 DEF minus32
<1>. QED  BY <1>1, <1>2, <1>3

\* A number that was moved ahead by less than half of the range is the greater
\* of the two, wherever either has wrapped, and the other one never is
\* (greater32, wraparound.c:34-62; testwraparound.c:12 for some numbers).
THEOREM GreaterSurvivesWrap ==
    ASSUME EvenRange, NEW x \in UInt, NEW d \in 0..(maxVal - 1)
    PROVE  LET z == plus32(x, d) IN
           /\ greater32(z, x) <=> d > 0
           /\ ~ greater32(x, z)
<1>. DEFINE z == plus32(x, d)
<1>1. /\ Word \in Nat /\ maxVal \in Nat /\ Word = 2 * maxVal /\ maxVal >= 2
      /\ x \in 0..(Word - 1) /\ d \in UInt /\ d < maxVal
  BY EvenRange, Half DEF UInt
<1>2. z = IF x + d < Word THEN x + d ELSE x + d - Word
  BY EvenRange, <1>1, PlusWraps
<1>. HIDE DEF z, maxVal
<1>3. greater32(z, x) <=> d > 0
  BY <1>1, <1>2 DEF greater32, UInt
<1>4. ~ greater32(x, z)
  BY <1>1, <1>2 DEF greater32, UInt
<1>. QED  BY <1>3, <1>4 DEF z

\* Of two different numbers exactly one is the greater: two ends that compare
\* the same pair agree, at any distance (wraparound.c:53-61).
THEOREM GreaterDecides ==
    ASSUME EvenRange, NEW x \in UInt, NEW y \in UInt, x # y
    PROVE  greater32(x, y) <=> ~ greater32(y, x)
<1>1. Word \in Nat /\ maxVal \in Nat /\ x \in 0..(Word - 1) /\ y \in 0..(Word - 1)
  BY EvenRange, Half DEF UInt
<1>. HIDE DEF maxVal
<1>. QED  BY x # y, <1>1 DEF greater32

\* minus32 gives back the distance that plus32 has moved a number by, and
\* plus32 the number, over any wrap (testwraparound.c:24-27).
THEOREM MinusUndoesPlus ==
    ASSUME EvenRange, NEW x \in UInt, NEW y \in UInt
    PROVE  /\ minus32(plus32(x, y), x) = y
           /\ plus32(minus32(x, y), y) = x
<1>1. Word \in Nat /\ Word >= 4 /\ x \in 0..(Word - 1) /\ y \in 0..(Word - 1)
  BY EvenRange DEF EvenRange, UInt
<1>2. /\ plus32(x, y) = IF x + y < Word THEN x + y ELSE x + y - Word
      /\ minus32(x, y) = IF x >= y THEN x - y ELSE x - y + Word
  BY EvenRange, PlusWraps, MinusWraps
<1>3. plus32(x, y) \in UInt /\ minus32(x, y) \in UInt
  BY <1>1, <1>2 DEF UInt
<1>4. minus32(plus32(x, y), x) =
        IF plus32(x, y) >= x THEN plus32(x, y) - x ELSE plus32(x, y) - x + Word
  BY EvenRange, <1>3, MinusWraps
<1>5. plus32(minus32(x, y), y) =
        IF minus32(x, y) + y < Word THEN minus32(x, y) + y ELSE minus32(x, y) + y - Word
  BY EvenRange, <1>3, PlusWraps
<1>. QED  BY <1>1, <1>2, <1>4, <1>5
=============================================================================
