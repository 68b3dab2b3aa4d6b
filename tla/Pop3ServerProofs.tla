-------------------------- MODULE Pop3ServerProofs --------------------------
(***************************************************************************)
(* Proofs about Pop3Server, for any number of clients and descriptors, and *)
(* about NetBuffer, through which its threads read: its bound, and that it *)
(* implements LineReader, for every stream, limit and series of calls.     *)
(***************************************************************************)
EXTENDS Pop3Server, NetBuffer, SequenceTheorems, TLAPS

LEMMA DistinctObjects ==
    /\ \A t \in Thread : Socket(t) # Free /\ File(t) # Free
    /\ \A t, u \in Thread : /\ Socket(t) # File(u)
                            /\ Socket(t) = Socket(u) => t = u
                            /\ File(t) = File(u) => t = u
  BY DEF Socket, File, Free

(***************************************************************************)
(* A client whose number no other thread is still to close keeps it: the   *)
(* number is not free, so no other thread can come to hold it.             *)
(***************************************************************************)
Owning == {"created", "greet", "serve", "retr", "close"}

CleanInv == \A t \in clean :
  /\ pc[t] \notin {"absent", "waiting"}
  /\ pc[t] \in Owning =>
    /\ table[fd[t]] = Socket(t)
    /\ pc[t] = "retr" => file[t] # fd[t]
    /\ \A u \in Thread \ {t} : fd[t] \notin Held(u)

IInv == TypeOK /\ OpenIsHeld /\ CleanInv

\* What a thread's close leaves to the other threads.
LEMMA CloseKeeps ==
    ASSUME IInv, NEW u \in Thread, NEW n \in Held(u),
           table' = [table EXCEPT ![n] = Free],
           NEW l \in Running \cup {"done"}, pc' = [pc EXCEPT ![u] = l],
           pc[u] \in Running, l # "retr", l \in Owning => pc[u] = "retr" /\ n = file[u],
           pc[u] = "retr" => n = file[u],
           l = "done" => n = fd[u],
           UNCHANGED <<fd, file, clean>>
    PROVE  IInv'
<1>. USE DEF IInv, TypeOK
<1>0. n \in Fd /\ Held(u) \subseteq Fd
  BY DEF Held
<1>1. TypeOK'
  BY <1>0 DEF Objects, Locations
<1>2. OpenIsHeld'
  <2>. SUFFICES ASSUME NEW k \in Fd, NEW t \in Thread
                PROVE  /\ table'[k] = Socket(t) =>
                            pc'[t] \in Running \cup {"forgotten"} /\ fd[t] = k
                       /\ table'[k] = File(t) => pc'[t] = "retr" /\ file[t] = k
    BY DEF OpenIsHeld
  <2>1. CASE k = n
    <3>1. table'[k] = Free
      BY <1>0, <2>1
    <3>. QED  BY <3>1, DistinctObjects
  <2>2. CASE k # n
    <3>1. table'[k] = table[k]
      BY <1>0, <2>2
    <3>2. /\ table[k] = Socket(t) => pc[t] \in Running \cup {"forgotten"} /\ fd[t] = k
          /\ table[k] = File(t) => pc[t] = "retr" /\ file[t] = k
      BY DEF OpenIsHeld
    <3>3. t # u => pc'[t] = pc[t]
      OBVIOUS
    <3>4. t = u => pc'[t] = l
      BY DEF Locations
    <3>. QED  BY <2>2, <3>1, <3>2, <3>3, <3>4
  <2>. QED  BY <2>1, <2>2
<1>3. \A t \in Thread : Held(t)' \subseteq Held(t)
  BY DEF Held, Running, Locations
<1>4. CleanInv'
  <2>0. \A t \in clean : pc'[t] \notin {"absent", "waiting"}
    BY DEF CleanInv, Running
  <2>. SUFFICES ASSUME NEW t \in clean, pc'[t] \in Owning
                PROVE  /\ table'[fd[t]] = Socket(t)
                       /\ pc'[t] = "retr" => file[t] # fd[t]
                       /\ \A v \in Thread \ {t} : fd[t] \notin Held(v)'
    BY <2>0 DEF CleanInv
  <2>1. /\ t \in Thread /\ pc[t] \in Owning /\ table[fd[t]] = Socket(t)
        /\ pc[t] = "retr" => file[t] # fd[t]
        /\ \A v \in Thread \ {t} : fd[t] \notin Held(v)
    BY DEF CleanInv, Owning
  <2>2. n # fd[t]
    BY <2>1
  <2>. QED  BY <1>0, <1>3, <2>1, <2>2 DEF Owning
<1>. QED  BY <1>1, <1>2, <1>4

\* What a step that touches no descriptor leaves.
LEMMA MoveKeeps ==
    ASSUME IInv, NEW u \in Thread,
           NEW l \in Locations, pc' = [pc EXCEPT ![u] = l],
           l \in Running <=> pc[u] \in Running, l # "forgotten", pc[u] # "forgotten",
           l \notin {"retr", "waiting", "absent"} \/ u \notin clean,
           l # "retr", pc[u] # "retr", l \in Owning => pc[u] \in Owning,
           UNCHANGED <<table, fd, file, clean>>
    PROVE  IInv'
<1>. USE DEF IInv, TypeOK
<1>1. TypeOK'
  OBVIOUS
<1>2. OpenIsHeld'
  <2>1. \A t \in Thread : pc'[t] = IF t = u THEN l ELSE pc[t]
    OBVIOUS
  <2>2. \A t \in Thread : /\ pc[t] \in Running \cup {"forgotten"} =>
                              pc'[t] \in Running \cup {"forgotten"}
                         /\ pc[t] = "retr" => pc'[t] = "retr"
    BY <2>1
  <2>. QED  BY <2>2 DEF OpenIsHeld
<1>3. \A t \in Thread : Held(t)' = Held(t)
  BY DEF Held
<1>4. CleanInv'
  BY <1>3 DEF CleanInv, Owning
<1>. QED  BY <1>1, <1>2, <1>4

LEMMA IInvInit == Init => IInv
  BY Pop3ServerAssumption, DistinctObjects
  DEF Init, IInv, TypeOK, OpenIsHeld, CleanInv, Objects, Locations, Running, Fd, Lowest

LEMMA AcceptKeeps ==
    ASSUME IInv, NEW u \in Thread, accept(u)
    PROVE  IInv'
<1>. USE DEF IInv, TypeOK
<1>1. PICK n \in Fd :
        /\ pc[u] = "waiting" /\ table[n] = Free
        /\ table' = [table EXCEPT ![n] = Socket(u)]
        /\ fd' = [fd EXCEPT ![u] = n]
        /\ clean' = IF \A v \in Thread \ {u} : n \notin Held(v)
                    THEN clean \cup {u} ELSE clean
        /\ \E l \in {"created", "forgotten"} : pc' = [pc EXCEPT ![u] = l]
        /\ file' = file
  BY DEF accept, Lowest, Goto
<1>l. PICK l \in {"created", "forgotten"} : pc' = [pc EXCEPT ![u] = l]
  BY <1>1
<1>2. TypeOK'
  BY <1>1, <1>l DEF Objects, Locations, Running
<1>3. OpenIsHeld'
  BY <1>1, <1>l, DistinctObjects DEF OpenIsHeld, Running
<1>4. \A v \in Thread \ {u} : Held(v)' = Held(v)
  BY <1>1, <1>l DEF Held
<1>5. Held(u)' \subseteq {n}
  BY <1>1, <1>l DEF Held, Running
<1>6. CleanInv'
  <2>a. \A t \in clean' : pc'[t] \notin {"absent", "waiting"}
    BY <1>1, <1>l DEF CleanInv
  <2>. SUFFICES ASSUME NEW t \in clean', pc'[t] \in Owning
                PROVE  /\ table'[fd'[t]] = Socket(t)
                       /\ pc'[t] = "retr" => file'[t] # fd'[t]
                       /\ \A v \in Thread \ {t} : fd'[t] \notin Held(v)'
    BY <2>a DEF CleanInv
  <2>0. t \in Thread
    BY <1>1
  <2>1. CASE t = u
    <3>1. fd'[t] = n /\ table'[n] = Socket(t) /\ pc'[t] # "retr"
      BY <1>1, <1>l, <2>1
    <3>2. CASE \A v \in Thread \ {u} : n \notin Held(v)
      BY <1>4, <2>1, <3>1, <3>2
    <3>3. CASE ~ \A v \in Thread \ {u} : n \notin Held(v)
      <4>1. u \in clean
        BY <1>1, <2>1, <3>3
      <4>. QED  BY <1>1, <4>1 DEF CleanInv
    <3>. QED  BY <3>2, <3>3
  <2>2. CASE t # u
    <3>1. /\ t \in clean /\ pc[t] \in Owning /\ table[fd[t]] = Socket(t)
          /\ pc[t] = "retr" => file[t] # fd[t]
          /\ \A v \in Thread \ {t} : fd[t] \notin Held(v)
      BY <1>1, <1>l, <2>0, <2>2 DEF CleanInv
    <3>2. fd[t] # n
      BY <1>1, <2>0, <3>1, DistinctObjects
    <3>. QED  BY <1>1, <1>l, <1>4, <1>5, <2>0, <2>2, <3>1, <3>2
  <2>. QED  BY <2>1, <2>2
<1>. QED  BY <1>2, <1>3, <1>6

LEMMA OpenFileKeeps ==
    ASSUME IInv, NEW u \in Thread, fopen(u)
    PROVE  IInv'
<1>. USE DEF IInv, TypeOK
<1>1. PICK n \in Fd :
        /\ pc[u] = "serve" /\ table[n] = Free
        /\ table' = [table EXCEPT ![n] = File(u)]
        /\ file' = [file EXCEPT ![u] = n]
        /\ pc' = [pc EXCEPT ![u] = "retr"]
        /\ UNCHANGED <<fd, clean>>
  BY DEF fopen, Lowest, Goto
<1>2. TypeOK'
  BY <1>1 DEF Objects, Locations, Running
<1>3. OpenIsHeld'
  BY <1>1, DistinctObjects DEF OpenIsHeld, Running
<1>4. \A v \in Thread \ {u} : Held(v)' = Held(v)
  BY <1>1 DEF Held
<1>5. Held(u)' \subseteq Held(u) \cup {n}
  BY <1>1 DEF Held, Running
<1>6. CleanInv'
  <2>1. ASSUME NEW t \in clean', pc'[t] \in Owning
        PROVE  /\ table'[fd'[t]] = Socket(t)
               /\ pc'[t] = "retr" => file'[t] # fd'[t]
               /\ \A v \in Thread \ {t} : fd'[t] \notin Held(v)'
    <3>1. t \in Thread /\ t \in clean /\ fd' = fd /\ pc[t] \in Owning
      BY <1>1, <2>1 DEF Owning
    <3>2. /\ table[fd[t]] = Socket(t)
          /\ pc[t] = "retr" => file[t] # fd[t]
          /\ \A v \in Thread \ {t} : fd[t] \notin Held(v)
      BY <3>1 DEF CleanInv
    <3>3. fd[t] # n
      BY <1>1, <3>1, <3>2, DistinctObjects
    <3>4. table'[fd'[t]] = Socket(t)
      BY <1>1, <3>1, <3>2, <3>3
    <3>5. pc'[t] = "retr" => file'[t] # fd'[t]
      BY <1>1, <3>1, <3>2, <3>3
    <3>6. \A v \in Thread \ {t} : fd'[t] \notin Held(v)'
      <4>. SUFFICES ASSUME NEW v \in Thread \ {t}  PROVE fd[t] \notin Held(v)'
        BY <3>1
      <4>1. Held(v)' \subseteq Held(v) \cup {n}
        BY <1>4, <1>5
      <4>. QED  BY <4>1, <3>2, <3>3
    <3>. QED  BY <3>4, <3>5, <3>6
  <2>2. \A t \in clean' : pc'[t] \notin {"absent", "waiting"}
    BY <1>1 DEF CleanInv
  <2>. QED  BY <2>1, <2>2 DEF CleanInv
<1>. QED  BY <1>2, <1>3, <1>6

LEMMA HeldNumbers ==
    ASSUME TypeOK, NEW t \in Thread
    PROVE  /\ pc[t] \in Running => fd[t] \in Held(t)
           /\ pc[t] = "retr" => file[t] \in Held(t)
  BY DEF Held, TypeOK

LEMMA IInvNext == IInv /\ [Next]_vars => IInv'
<1>. SUFFICES ASSUME IInv, [Next]_vars  PROVE IInv'
  OBVIOUS
<1>0. TypeOK /\ \A t \in clean : pc[t] \notin {"absent", "waiting"}
  BY DEF IInv, CleanInv
<1>1. ASSUME NEW t \in Thread, Connect(t)  PROVE IInv'
  <2>1. t \notin clean
    BY <1>0, <1>1 DEF Connect
  <2>. QED  BY <1>1, <2>1, MoveKeeps DEF Connect, Goto, Locations, Running, Owning
<1>2. ASSUME NEW t \in Thread, fopen(t)  PROVE IInv'
  BY <1>2, OpenFileKeeps
<1>3. ASSUME NEW t \in Thread, accept(t)  PROVE IInv'
  BY <1>3, AcceptKeeps
<1>4. ASSUME NEW t \in Thread, pthread_create(t)  PROVE IInv'
  <2>1. CASE Goto(t, "greet") /\ UNCHANGED table
    BY <1>4, <2>1, MoveKeeps DEF pthread_create, Goto, Locations, Running, Owning
  <2>2. CASE Goto(t, "done") /\ Close(fd[t])
    BY <1>0, <1>4, <2>2, CloseKeeps, HeldNumbers
    DEF pthread_create, Goto, Close, Running, Owning
  <2>. QED  BY <1>4, <2>1, <2>2 DEF pthread_create
<1>5. ASSUME NEW t \in Thread, Greet(t)  PROVE IInv'
  <2>1. CASE GreetSent(t)
    BY <2>1, MoveKeeps DEF GreetSent, Goto, Locations, Running, Owning
  <2>2. CASE GreetFailed(t)
    BY <2>2, MoveKeeps DEF GreetFailed, Goto, Locations, Running, Owning
  <2>. QED  BY <1>5, <2>1, <2>2 DEF Greet
<1>6. ASSUME NEW t \in Thread, fclose(t)  PROVE IInv'
  BY <1>0, <1>6, CloseKeeps, HeldNumbers DEF fclose, Goto, Close, Running, Owning
<1>7. ASSUME NEW t \in Thread, Leave(t)  PROVE IInv'
  BY <1>7, MoveKeeps DEF Leave, Goto, Locations, Running, Owning
<1>8. ASSUME NEW t \in Thread, HandlerCloses(t)  PROVE IInv'
  BY <1>0, <1>8, CloseKeeps, HeldNumbers DEF HandlerCloses, Goto, Close, Running, Owning
<1>9. ASSUME NEW t \in Thread, ThreadCloses(t)  PROVE IInv'
  BY <1>0, <1>9, CloseKeeps, HeldNumbers DEF ThreadCloses, Goto, Close, Running, Owning
<1>10. CASE UNCHANGED vars
  <2>1. \A t \in Thread : Held(t)' = Held(t)
    BY <1>10 DEF Held, vars
  <2>. QED  BY <1>10, <2>1 DEF IInv, TypeOK, OpenIsHeld, CleanInv, vars
<1>. QED  BY <1>1, <1>2, <1>3, <1>4, <1>5, <1>6, <1>7, <1>8, <1>9, <1>10 DEF Next, Run

LEMMA IInvHolds == Spec => []IInv
  BY IInvInit, IInvNext, PTL DEF Spec

\* Threads and descriptors keep their types (server.c:93-107, mypopd.c:243-312).
THEOREM TypeCorrect == Spec => []TypeOK
<1>1. IInv => TypeOK
  BY DEF IInv
<1>. QED  BY <1>1, IInvHolds, PTL

\* No path of a thread leaves a descriptor open behind it, whatever numbers other
\* threads have closed a second time; what stays open is a socket for which malloc had
\* failed (server.c:41-50, 98, mypopd.c:254, 310).
THEOREM NothingLeftOpen == Spec => []OpenIsHeld
<1>1. IInv => OpenIsHeld
  BY DEF IInv
<1>. QED  BY <1>1, IInvHolds, PTL

\* A client accepted on a number that no other thread is still to close keeps its
\* socket, for any number of clients (mypopd.c:310, server.c:48).
THEOREM CleanClientsKeepTheirs == Spec => []CleanKeepsSocket
<1>1. IInv => CleanKeepsSocket
  BY DEF IInv, CleanInv, CleanKeepsSocket, Owning
<1>. QED  BY <1>1, IInvHolds, PTL
(***************************************************************************)
(* NetBuffer: bytes and pieces of them                                     *)
(***************************************************************************)
LEMMA Constants == LF \in Byte /\ Streams \subseteq Seq(Byte) /\ Max \in Nat /\ Max > 0
                   /\ Nums \subseteq Nat
  BY NetBufferAssumption

\* A piece of a sequence of bytes is one.
LEMMA Piece ==
    ASSUME NEW s \in Seq(Byte), NEW m \in 1..(Len(s) + 1), NEW n \in 0..Len(s)
    PROVE  /\ SubSeq(s, m, n) \in Seq(Byte)
           /\ Len(SubSeq(s, m, n)) = IF m <= n THEN n - m + 1 ELSE 0
<1>1. Len(s) \in Nat
  BY LenProperties
<1>2. \A i \in m..n : s[i] \in Byte
  BY <1>1, ElementOfSeq
<1>. QED  BY <1>1, <1>2, SubSeqProperties

\* A sequence is its first n elements and the others.
LEMMA TwoPieces ==
    ASSUME NEW s \in Seq(Byte), NEW n \in 0..Len(s)
    PROVE  SubSeq(s, 1, n) \o SubSeq(s, n + 1, Len(s)) = s
<1>1. Len(s) \in Nat
  BY LenProperties
<1>2. 1 \in 1..(Len(s) + 1) /\ n \in (1 - 1)..Len(s) /\ Len(s) \in n..Len(s)
  BY <1>1
<1>3. SubSeq(s, 1, n) \o SubSeq(s, n + 1, Len(s)) = SubSeq(s, 1, Len(s))
  BY <1>2, ConcatAdjacentSubSeq, Zenon
<1>. QED  BY <1>3, SubSeqFull

LEMMA Associative ==
    \A s, t, u \in Seq(Byte) : (s \o t) \o u = s \o (t \o u)
  BY ConcatAssociative

(***************************************************************************)
(* NetBuffer: its buffer                                                   *)
(***************************************************************************)

\* A copy of n bytes keeps the types.
LEMMA ReturnTypes ==
    ASSUME BufferFits, NEW n \in 0..Len(buf), Return(n)
    PROVE  BufferFits'
<1>. USE DEF BufferFits, Return
<1>1. Len(buf) \in Nat
  BY LenProperties
<1>2. n + 1 \in 1..(Len(buf) + 1) /\ Len(buf) \in 0..Len(buf) /\ 1 \in 1..(Len(buf) + 1)
  BY <1>1
<1>3. buf' \in Seq(Byte) /\ Len(buf') <= Len(buf)
  BY <1>1, <1>2, Piece
<1>4. out' \in Seq(Byte) /\ Len(out') = n
  BY <1>1, <1>2, Piece
<1>. QED  BY <1>1, <1>3, <1>4, Constants, LenProperties

LEMMA TypesInit == nb_create => BufferFits
  BY Constants, EmptySeq DEF nb_create, BufferFits

LEMMA TypesNext == BufferFits /\ [nbNext]_nbVars => BufferFits'
<1>. SUFFICES ASSUME BufferFits, [nbNext]_nbVars  PROVE BufferFits'
  OBVIOUS
<1>. USE DEF BufferFits
<1>0. Len(buf) \in Nat /\ Len(wire) \in Nat /\ Max \in Nat /\ Max > 0
  BY LenProperties, Constants
<1>1. CASE Enter
  BY <1>1 DEF Enter
<1>2. CASE recv
  <2>1. PICK n \in 1..Len(wire) :
           /\ Len(buf) + n <= Max
           /\ buf' = buf \o SubSeq(wire, 1, n)
           /\ wire' = SubSeq(wire, n + 1, Len(wire))
           /\ UNCHANGED <<call, out>>
    BY <1>2 DEF recv
  <2>2. SubSeq(wire, 1, n) \in Seq(Byte) /\ Len(SubSeq(wire, 1, n)) = n
    BY <1>0, Piece
  <2>3. wire' \in Seq(Byte)
    BY <1>0, <2>1, Piece
  <2>4. buf' \in Seq(Byte) /\ Len(buf') = Len(buf) + n
    BY <2>1, <2>2, ConcatProperties
  <2>. QED  BY <1>0, <2>1, <2>3, <2>4
<1>3. CASE ReturnReady
  BY <1>3, ReturnTypes DEF ReturnReady
<1>4. CASE ReturnFull
  BY <1>0, <1>4, ReturnTypes DEF ReturnFull
<1>5. CASE ReturnAtEnd
  BY <1>0, <1>5, ReturnTypes DEF ReturnAtEnd
<1>6. CASE ReturnError
  BY <1>6, EmptySeq DEF ReturnError
<1>7. CASE UNCHANGED nbVars
  BY <1>7 DEF nbVars
<1>. QED  BY <1>1, <1>2, <1>3, <1>4, <1>5, <1>6, <1>7 DEF nbNext, Serve

\* The buffer never holds, and never copies out, more than max_bytes
\* (netbuffer.c:94-95, 109), for all streams and calls.
THEOREM BufferBounded == nbSpec => []BufferFits
  BY TypesInit, TypesNext, PTL DEF nbSpec

(***************************************************************************)
(* NetBuffer implements LineReader: what is left is the buffer and then    *)
(* the wire.                                                               *)
(***************************************************************************)
rest == buf \o wire

LEMMA RestFacts ==
    ASSUME BufferFits
    PROVE  /\ rest \in Seq(Byte) /\ Len(rest) = Len(buf) + Len(wire)
           /\ Len(buf) \in Nat /\ Len(wire) \in Nat
           /\ \A i \in 1..Len(buf) : rest[i] = buf[i]
<1>1. Len(buf) \in Nat /\ Len(wire) \in Nat
  BY LenProperties DEF BufferFits
<1>. QED  BY <1>1, ConcatProperties DEF rest, BufferFits

\* What is copied from the buffer is the first part of what is left.
LEMMA ReturnHandsOut ==
    ASSUME BufferFits, NEW n \in 0..Len(buf), Return(n)
    PROVE  out' = SubSeq(rest, 1, n) /\ rest' = SubSeq(rest, n + 1, Len(rest))
<1>. DEFINE first == SubSeq(buf, 1, n)
            after == SubSeq(buf, n + 1, Len(buf))
<1>0. /\ Len(buf) \in Nat /\ Len(wire) \in Nat /\ n \in Nat
      /\ buf \in Seq(Byte) /\ wire \in Seq(Byte)
      /\ rest \in Seq(Byte) /\ Len(rest) = Len(buf) + Len(wire)
  BY RestFacts DEF BufferFits
<1>1. first \in Seq(Byte) /\ Len(first) = n /\ after \in Seq(Byte)
  BY <1>0, Piece
<1>2. first \o after = buf
  BY <1>0, TwoPieces
<1>3. rest = first \o (after \o wire)
  <2>. HIDE DEF first, after
  <2>1. rest = (first \o after) \o wire
    BY <1>2 DEF rest
  <2>2. @ = first \o (after \o wire)
    BY <1>0, <1>1, Associative, Zenon
  <2>. QED  BY <2>1, <2>2, Zenon
<1>4. /\ SubSeq(rest, 1, n) \in Seq(Byte) /\ Len(SubSeq(rest, 1, n)) = n
      /\ SubSeq(rest, n + 1, Len(rest)) \in Seq(Byte)
  BY <1>0, Piece
<1>5. SubSeq(rest, 1, n) = first
  <2>1. CASE n = 0
    BY <2>1, <1>0, SubSeqEmpty
  <2>2. CASE n > 0
    BY <2>2, <1>0, SubSeqOfConcat1 DEF rest
  <2>. QED  BY <2>1, <2>2, <1>0
<1>6. rest = first \o SubSeq(rest, n + 1, Len(rest))
  <2>1. n \in 0..Len(rest)
    BY <1>0
  <2>2. SubSeq(rest, 1, n) \o SubSeq(rest, n + 1, Len(rest)) = rest
    BY <1>0, <2>1, TwoPieces
  <2>. QED  BY <1>5, <2>2
<1>7. after \o wire \in Seq(Byte)
  BY <1>0, <1>1, ConcatProperties
<1>8. after \o wire = SubSeq(rest, n + 1, Len(rest))
  <2>. HIDE DEF first, after
  <2>1. \A s, t, v \in Seq(Byte) : s \o t = s \o v => t = v
    BY ConcatSimplifications
  <2>. QED  BY <1>1, <1>3, <1>4, <1>6, <1>7, <2>1
<1>9. rest' = after \o wire /\ out' = first
  BY DEF Return, rest
<1>. QED  BY <1>5, <1>8, <1>9

\* Among the first bytes of the buffer a call finds what it would find in what is left.
LEMMA SameSearch ==
    ASSUME BufferFits, call # NoCall, NEW n \in 0..Len(buf)
    PROVE  Has(n) <=> Reader!Satisfied(call, n)
<1>1. Len(buf) \in Nat /\ \A i \in 1..Len(buf) : rest[i] = buf[i]
  BY RestFacts
<1>2. n > 0 => rest[n] = buf[n]
  BY <1>1
<1>. QED  BY <1>2 DEF Has, Reader!Satisfied, rest

\* A call that returns the first n bytes answers as the abstract reader does.
LEMMA ReturnAnswers ==
    ASSUME BufferFits, call # NoCall, NEW n \in 0..Len(buf), Return(n),
           \A m \in 0..(n - 1) : ~ Has(m),
           Has(n) \/ n = Max \/ n = Len(rest)
    PROVE  Reader!Answer
<1>0. Len(buf) \in Nat /\ Len(buf) <= Max /\ Max \in Nat /\ Len(buf) <= Len(rest)
  BY RestFacts, Constants DEF BufferFits
<1>1. n \in 0..Max /\ n <= Len(rest)
  BY <1>0, RestFacts
<1>2. \A m \in 0..n : Has(m) <=> Reader!Satisfied(call, m)
  BY <1>0, SameSearch
<1>3. Reader!Portion(call, n)
  <2>1. \A m \in 0..(n - 1) : ~ Reader!Satisfied(call, m)
    BY <1>0, <1>2
  <2>2. Reader!Satisfied(call, n) \/ n = Max \/ n = Len(rest)
    BY <1>0, <1>2
  <2>. QED  BY <1>1, <2>1, <2>2 DEF Reader!Portion, rest
<1>4. out' = SubSeq(rest, 1, n) /\ rest' = SubSeq(rest, n + 1, Len(rest))
  BY ReturnHandsOut
<1>. QED  BY <1>1, <1>3, <1>4 DEF Reader!Answer, Return, rest

LEMMA StepRefines ==
    ASSUME BufferFits, [nbNext]_nbVars
    PROVE  [Reader!Next]_<<rest, call, out>>
<1>0. /\ Len(buf) \in Nat /\ Len(wire) \in Nat /\ Max \in Nat
      /\ buf \in Seq(Byte) /\ wire \in Seq(Byte) /\ Len(buf) <= Max
      /\ rest \in Seq(Byte) /\ Len(rest) = Len(buf) + Len(wire)
  BY RestFacts, Constants DEF BufferFits
<1>1. CASE Enter
  <2>1. Reader!Ask
    BY <1>1 DEF Enter, Reader!Ask
  <2>. QED  BY <2>1 DEF Reader!Next
<1>2. CASE recv
  <2>1. PICK n \in 1..Len(wire) :
           /\ buf' = buf \o SubSeq(wire, 1, n)
           /\ wire' = SubSeq(wire, n + 1, Len(wire))
           /\ UNCHANGED <<call, out>>
    BY <1>2 DEF recv
  <2>2. SubSeq(wire, 1, n) \in Seq(Byte) /\ SubSeq(wire, n + 1, Len(wire)) \in Seq(Byte)
    BY <1>0, Piece
  <2>3. SubSeq(wire, 1, n) \o SubSeq(wire, n + 1, Len(wire)) = wire
    BY <1>0, TwoPieces
  <2>4. rest' = rest
    <3>1. rest' = (buf \o SubSeq(wire, 1, n)) \o SubSeq(wire, n + 1, Len(wire))
      BY <2>1 DEF rest
    <3>2. @ = buf \o (SubSeq(wire, 1, n) \o SubSeq(wire, n + 1, Len(wire)))
      BY <1>0, <2>2, Associative, Zenon
    <3>. QED  BY <2>3, <3>1, <3>2 DEF rest
  <2>. QED  BY <2>1, <2>4
<1>3. CASE ReturnReady
  <2>1. PICK n \in 0..Len(buf) :
           call # NoCall /\ Has(n) /\ (\A m \in 0..(n - 1) : ~ Has(m)) /\ Return(n)
    BY <1>3 DEF ReturnReady
  <2>2. Reader!Answer
    BY <2>1, ReturnAnswers
  <2>. QED  BY <2>2 DEF Reader!Next
<1>4. CASE ReturnFull
  <2>1. /\ call # NoCall /\ Return(Max) /\ Max \in 0..Len(buf)
        /\ \A m \in 0..(Max - 1) : ~ Has(m)
    BY <1>0, <1>4 DEF ReturnFull, Ready
  <2>2. Reader!Answer
    BY <2>1, ReturnAnswers
  <2>. QED  BY <2>2 DEF Reader!Next
<1>5. CASE ReturnAtEnd
  <2>1. /\ call # NoCall /\ wire = <<>> /\ Return(Len(buf)) /\ Len(buf) \in 0..Len(buf)
        /\ \A m \in 0..(Len(buf) - 1) : ~ Has(m)
    BY <1>0, <1>5 DEF ReturnAtEnd, Receiving, Ready
  <2>2. Len(buf) = Len(rest)
    BY <1>0, <2>1
  <2>3. Reader!Answer
    BY <2>1, <2>2, ReturnAnswers
  <2>. QED  BY <2>3 DEF Reader!Next
<1>6. CASE ReturnError
  <2>1. call # NoCall /\ call' = NoCall /\ UNCHANGED <<buf, out>> /\ wire' \in {wire, <<>>}
    BY <1>6 DEF ReturnError, Receiving
  <2>2. \E n \in 0..Len(rest) : rest' = SubSeq(rest, 1, n)
    <3>1. CASE wire' = wire
      <4>1. rest' = SubSeq(rest, 1, Len(rest)) /\ Len(rest) \in 0..Len(rest)
        BY <1>0, <2>1, <3>1, SubSeqFull DEF rest
      <4>. QED  BY <4>1
    <3>2. CASE wire' = <<>>
      <4>1. rest' = buf
        BY <1>0, <2>1, <3>2, ConcatEmptySeq DEF rest
      <4>2. SubSeq(rest, 1, Len(buf)) = buf
        <5>1. CASE Len(buf) = 0
          BY <1>0, <5>1, SubSeqEmpty, EmptySeq
        <5>2. CASE Len(buf) > 0
          <6>1. SubSeq(rest, 1, Len(buf)) = SubSeq(buf, 1, Len(buf))
            BY <1>0, <5>2, SubSeqOfConcat1 DEF rest
          <6>. QED  BY <1>0, <6>1, SubSeqFull
        <5>. QED  BY <1>0, <5>1, <5>2
      <4>3. Len(buf) \in 0..Len(rest)
        BY <1>0
      <4>. QED  BY <4>1, <4>2, <4>3
    <3>. QED  BY <2>1, <3>1, <3>2
  <2>3. Reader!Fail
    BY <2>1, <2>2 DEF Reader!Fail, rest
  <2>. QED  BY <2>3 DEF Reader!Next
<1>7. CASE UNCHANGED nbVars
  BY <1>7 DEF nbVars, rest
<1>. QED  BY <1>1, <1>2, <1>3, <1>4, <1>5, <1>6, <1>7 DEF nbNext, Serve

\* Whatever the portions in which the socket yields the bytes, calls get what the
\* abstract reader hands out (netbuffer.c:58-124), for every stream and limit.
THEOREM ImplementsReader == nbSpec => ReaderSpec
<1>1. nb_create => Reader!Init
  BY DEF nb_create, Reader!Init
<1>2. BufferFits /\ [nbNext]_nbVars => [Reader!Next]_(Reader!readerVars)
  BY StepRefines DEF Reader!readerVars, rest
<1>. QED  BY <1>1, <1>2, BufferBounded, PTL DEF nbSpec, ReaderSpec, Reader!Spec
=============================================================================
