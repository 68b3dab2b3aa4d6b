---------------------------- MODULE RouterProofs ----------------------------
(***************************************************************************)
(* Proofs about the router, for all widths, configurations and packets,    *)
(* and about the parser of its configuration, for all files.               *)
(***************************************************************************)
EXTENDS Router, RouterConfig, FiniteSetTheorems, WellFoundedInduction, TLAPS

(***************************************************************************)
(* Arithmetic of the checksum                                              *)
(***************************************************************************)

\* A number strictly between 0 and m is no multiple of m (used for the sums below).
LEMMA NoMultiple ==
    ASSUME NEW m \in Nat, NEW d \in Int, NEW x \in Int, 0 < x, x < m
    PROVE  x # d * m
<1>1. CASE d <= 0
  <2>1. d * m <= 0
    BY <1>1
  <2>. QED  BY <2>1
<1>2. CASE d >= 1
  <2>1. (d - 1) * m >= 0
    BY <1>2
  <2>2. d * m = (d - 1) * m + m
    OBVIOUS
  <2>. QED  BY <2>1, <2>2
<1>. QED  BY <1>1, <1>2

\* A word has more values than a byte and one (router.c works with 256 and 65536).
LEMMA WordFacts == Byte \in Nat /\ Word \in Nat /\ Word >= 16 /\ Byte >= 4 /\ Byte + 1 < Word
<1>1. Byte \in Nat /\ Byte >= 4
  BY ConstAssumption
<1>2. Byte * Byte >= 4 * Byte
  BY <1>1
<1>. QED  BY <1>1, <1>2 DEF Word

\* A turn of the folding loop takes a multiple of Word - 1 away (ip.c:50-52).
LEMMA CarriedStep ==
    ASSUME NEW s \in Nat
    PROVE  Carried(s) \in Nat /\ \E q \in Nat : s = Carried(s) + q * (Word - 1)
<1>1. Word \in Nat /\ Word > 0
  BY WordFacts
<1>2. s \div Word \in Nat /\ s % Word \in 0..(Word - 1)
  BY <1>1
<1>3. s = Word * (s \div Word) + (s % Word)
  BY <1>1
<1>4. Word * (s \div Word) = (s \div Word) * (Word - 1) + (s \div Word)
  BY <1>1, <1>2
<1>. DEFINE q == s \div Word
            r == s % Word
<1>5. Carried(s) = r + q
  BY DEF Carried
<1>6. s = Carried(s) + q * (Word - 1)
  <2>. HIDE DEF q, r
  <2>1. q \in Nat /\ r \in Nat
    BY <1>2 DEF q, r
  <2>2. s = Word * q + r
    BY <1>3 DEF q, r
  <2>3. Word * q = q * (Word - 1) + q
    BY <1>4 DEF q
  <2>. QED  BY <2>1, <2>2, <2>3, <1>5, <1>1
<1>. QED  BY <1>2, <1>5, <1>6

\* The folded sum differs from the plain one by a multiple of Word - 1.
LEMMA FoldStep ==
    ASSUME NEW s \in Nat
    PROVE  \E q \in Nat : s = Fold(s) + q * (Word - 1)
<1>1. PICK q \in Nat : s = Carried(s) + q * (Word - 1)
  BY CarriedStep
<1>2. Carried(s) \in Nat
  BY CarriedStep
<1>3. /\ Carried(Carried(s)) \in Nat
      /\ \E p \in Nat : Carried(s) = Carried(Carried(s)) + p * (Word - 1)
  BY <1>2, CarriedStep
<1>4. PICK p \in Nat : Carried(s) = Carried(Carried(s)) + p * (Word - 1)
  BY <1>3
<1>. DEFINE f == Carried(Carried(s))
            c == Carried(s)
            m == Word - 1
<1>5. s = f + (p + q) * m
  <2>1. f \in Nat /\ c \in Nat /\ m \in Int
    BY <1>2, <1>3, WordFacts
  <2>2. s = c + q * m /\ c = f + p * m
    BY <1>1, <1>4
  <2>. HIDE DEF f, c, m
  <2>3. (p + q) * m = p * m + q * m
    BY <2>1
  <2>. QED  BY <2>1, <2>2, <2>3
<1>6. p + q \in Nat
  OBVIOUS
<1>. QED  BY <1>5, <1>6 DEF Fold

\* The sum of a valid header is a multiple of Word - 1 (ip.c:36-54).
LEMMA ValidSum ==
    ASSUME NEW h \in Header, Valid(h)
    PROVE  Sum(h) \in Nat /\ \E q \in Nat : Sum(h) = q * (Word - 1)
<1>1. Sum(h) \in Nat
  <2>1. Byte * h.proto \in Nat
    BY WordFacts DEF Header
  <2>. QED  BY <2>1, WordFacts DEF Header, Sum
<1>2. PICK q \in Nat : Sum(h) = Fold(Sum(h)) + q * (Word - 1)
  BY <1>1, FoldStep
<1>3. Carried(Carried(Sum(h))) \in Nat
  BY <1>1, CarriedStep
<1>4. Fold(Sum(h)) = Word - 1
  BY <1>3, WordFacts DEF Valid, ipchecksum, Fold
<1>5. Sum(h) = (q + 1) * (Word - 1)
  <2>. DEFINE m == Word - 1
  <2>1. m \in Int /\ Sum(h) = m + q * m
    BY <1>2, <1>4, WordFacts
  <2>. HIDE DEF m
  <2>2. (q + 1) * m = q * m + m
    BY <2>1
  <2>3. Sum(h) = (q + 1) * m
    BY <2>1, <2>2
  <2>. QED  BY <2>3 DEF m
<1>6. q + 1 \in Nat
  OBVIOUS
<1>. QED  BY <1>1, <1>5, <1>6

\* A header keeps its type in a hop (router.c:104-105).
LEMMA HopHeader ==
    ASSUME NEW h \in Header
    PROVE  /\ Hop(h) \in Header
           /\ Hop(h).rest = h.rest /\ Hop(h).proto = h.proto /\ Hop(h).dst = h.dst
           /\ Hop(h).ttl = IF h.ttl = 0 THEN Byte - 1 ELSE h.ttl - 1
           /\ Hop(h).checksum = IF h.checksum = Word - 1 THEN 0 ELSE h.checksum + 1
<1>1. (h.ttl - 1) % Byte = IF h.ttl = 0 THEN Byte - 1 ELSE h.ttl - 1
  <2>1. h.ttl \in 0..(Byte - 1) /\ Byte \in Nat /\ Byte >= 4
    BY WordFacts DEF Header
  <2>. QED  BY <2>1
<1>2. (h.checksum + 1) % Word = IF h.checksum = Word - 1 THEN 0 ELSE h.checksum + 1
  <2>1. h.checksum \in 0..(Word - 1) /\ Word \in Nat /\ Word >= 16
    BY WordFacts DEF Header
  <2>. QED  BY <2>1
<1>4. (h.ttl - 1) % Byte \in 0..(Byte - 1) /\ (h.checksum + 1) % Word \in 0..(Word - 1)
  <2>1. h.ttl \in 0..(Byte - 1) /\ h.checksum \in 0..(Word - 1)
    BY DEF Header
  <2>2. (IF h.ttl = 0 THEN Byte - 1 ELSE h.ttl - 1) \in 0..(Byte - 1)
    BY <2>1, WordFacts
  <2>3. (IF h.checksum = Word - 1 THEN 0 ELSE h.checksum + 1) \in 0..(Word - 1)
    BY <2>1, WordFacts
  <2>. QED  BY <1>1, <1>2, <2>2, <2>3
<1>. DEFINE t == (h.ttl - 1) % Byte
            k == (h.checksum + 1) % Word
<1>5. Hop(h) = [h EXCEPT !.ttl = t, !.checksum = k]
  BY DEF Hop, Header
<1>6. t \in 0..(Byte - 1) /\ k \in 0..(Word - 1)
  BY <1>4
<1>. HIDE DEF t, k
<1>7. /\ Hop(h) \in Header
      /\ Hop(h).rest = h.rest /\ Hop(h).proto = h.proto /\ Hop(h).dst = h.dst
      /\ Hop(h).ttl = t /\ Hop(h).checksum = k
  BY <1>5, <1>6 DEF Header
<1>. QED  BY <1>1, <1>2, <1>7 DEF t, k

\* The wrap of ttl 0 damages the header: the low byte goes up by Byte - 1 where the
\* update of the checksum allows for a decrement (router.c:104-105 and 117).
LEMMA TtlWrapDamages ==
    ASSUME NEW h \in Header, h.ttl = 0, Valid(h)
    PROVE  ~Valid(Hop(h))
<1>. SUFFICES ASSUME Valid(Hop(h)) PROVE FALSE
  OBVIOUS
<1>1. PICK q \in Nat : Sum(h) = q * (Word - 1)
  BY ValidSum
<1>2. /\ Hop(h) \in Header
      /\ \E p \in Nat : Sum(Hop(h)) = p * (Word - 1)
  BY HopHeader, ValidSum
<1>3. PICK p \in Nat : Sum(Hop(h)) = p * (Word - 1)
  BY <1>2
<1>. DEFINE m == Word - 1
<1>4. m \in Nat /\ Byte \in Nat /\ 1 < Byte /\ Byte < m
  BY WordFacts
<1>5. h.checksum \in Nat /\ h.rest \in Nat /\ Byte * h.proto \in Nat
  BY WordFacts DEF Header
<1>6. CASE h.checksum = Word - 1
  <2>1. Sum(Hop(h)) = Sum(h) + (Byte - 1) - m
    BY <1>6, <1>5, WordFacts, HopHeader DEF Sum
  <2>2. Byte - 1 = (p - q + 1) * m
    <3>1. Byte - 1 = p * m - q * m + m
      <4>. HIDE DEF m
      <4>1. Sum(h) = q * m /\ Sum(Hop(h)) = p * m
        BY <1>1, <1>3 DEF m
      <4>2. p * m \in Int /\ q * m \in Int
        BY <1>4
      <4>. QED  BY <2>1, <4>1, <4>2, <1>4
    <3>. HIDE DEF m
    <3>2. (p - q + 1) * m = p * m - q * m + m
      BY <1>4
    <3>. QED  BY <3>1, <3>2
  <2>. HIDE DEF m
  <2>3. p - q + 1 \in Int /\ Byte - 1 \in Int /\ 0 < Byte - 1 /\ Byte - 1 < m
    BY <1>4
  <2>. QED  BY <2>2, <2>3, <1>4, NoMultiple
<1>7. CASE h.checksum # Word - 1
  <2>1. Sum(Hop(h)) = Sum(h) + Byte
    BY <1>7, <1>5, WordFacts, HopHeader DEF Sum
  <2>2. Byte = (p - q) * m
    <3>1. Byte = p * m - q * m
      <4>. HIDE DEF m
      <4>1. Sum(h) = q * m /\ Sum(Hop(h)) = p * m
        BY <1>1, <1>3 DEF m
      <4>2. p * m \in Int /\ q * m \in Int
        BY <1>4
      <4>. QED  BY <2>1, <4>1, <4>2, <1>4
    <3>. HIDE DEF m
    <3>2. (p - q) * m = p * m - q * m
      BY <1>4
    <3>. QED  BY <3>1, <3>2
  <2>. HIDE DEF m
  <2>3. p - q \in Int /\ Byte \in Int /\ 0 < Byte
    BY <1>4
  <2>. QED  BY <2>2, <2>3, <1>4, NoMultiple
<1>. QED  BY <1>6, <1>7

(***************************************************************************)
(* Types                                                                   *)
(***************************************************************************)

\* The configuration that is left to load, as lines (config.c:17-28).
LEMMA LinesShrink ==
    ASSUME TypeOK, lines # <<>>
    PROVE  /\ Head(lines) \in Line /\ Tail(lines) \in Seq(Line)
           /\ Len(Tail(lines)) = Len(lines) - 1 /\ Len(lines) > 0
BY DEF TypeOK

\* A forward line that is kept makes an entry of the table (router.c:67-70).
LEMMA LineIsEntry ==
    ASSUME NEW l \in Line, l.key = "forward"
    PROVE  [network |-> l.network, netlength |-> l.netlength, interface |-> l.port] \in Entry
BY ConstAssumption DEF Line, Ports, Entry

\* The state before the configuration is read has its types (router.c:17-26).
LEMMA InitTypeOK == Init => TypeOK
<1>. SUFFICES ASSUME Init PROVE TypeOK
  OBVIOUS
<1>1. \A h \in Packets : Start(h) \in Packet
  BY ConstAssumption, WordFacts DEF Start, Packet, Header
<1>2. wire \subseteq Packet /\ buffer \in Packet
  BY <1>1 DEF Init
<1>3. lines \in Seq(Line) /\ Len(lines) <= TableSize
  BY ConstAssumption DEF Init
<1>4. table \in Seq(Entry) /\ Len(table) + Len(lines) <= TableSize
  BY <1>3 DEF Init
<1>5. active \subseteq 0..(MaskBits - 1)
  BY ConstAssumption DEF Init
<1>. QED  BY <1>2, <1>3, <1>4, <1>5 DEF Init, TypeOK, None

\* Every step of router.c keeps the types, one step per action.
LEMMA NextTypeOK == TypeOK /\ [Next]_vars => TypeOK'
<1>. SUFFICES ASSUME TypeOK, [Next]_vars PROVE TypeOK'
  OBVIOUS
<1>1. CASE addInterface
  <2>1. lines' \in Seq(Line) /\ Len(table') + Len(lines') <= TableSize
    BY <1>1, LinesShrink, ConstAssumption DEF TypeOK, addInterface
  <2>2. active' \subseteq 0..(MaskBits - 1)
    BY <1>1 DEF TypeOK, addInterface
  <2>. QED  BY <1>1, <2>1, <2>2 DEF TypeOK, addInterface, lookupVars
<1>2. CASE addForwardEntry
  <2>1. lines' \in Seq(Line) /\ Len(lines') = Len(lines) - 1
    BY <1>2, LinesShrink DEF addForwardEntry
  <2>2. table' \in Seq(Entry) /\ Len(table') <= Len(table) + 1
    <3>. DEFINE e == [network |-> Head(lines).network, netlength |-> Head(lines).netlength,
                      interface |-> Head(lines).port]
    <3>1. e \in Entry
      BY <1>2, LinesShrink, LineIsEntry DEF addForwardEntry
    <3>2. table' = Append(table, e) \/ table' = table
      BY <1>2 DEF addForwardEntry
    <3>. HIDE DEF e
    <3>. QED  BY <3>1, <3>2 DEF TypeOK
  <2>3. Len(table') + Len(lines') <= TableSize
    BY <2>1, <2>2, ConstAssumption, LinesShrink DEF TypeOK
  <2>. QED  BY <1>2, <2>1, <2>2, <2>3 DEF TypeOK, addForwardEntry, lookupVars
<1>3. CASE udp_open
  BY <1>3 DEF TypeOK, udp_open, lookupVars
<1>4. CASE readpkt
  <2>1. PICK p \in wire, n \in Arrivals :
            /\ wire' = wire \ {p}
            /\ buffer' = [p EXCEPT !.now = Hop(p.now), !.came = p.now]
            /\ origin' = n
    BY <1>4 DEF readpkt, TypeOK, Packet
  <2>2. p \in Packet
    BY DEF TypeOK
  <2>3. p.now \in Header /\ Hop(p.now) \in Header
    BY <2>2, HopHeader DEF Packet
  <2>4. buffer' \in Packet
    BY <2>1, <2>2, <2>3 DEF Packet
  <2>. QED  BY <1>4, <2>1, <2>4 DEF TypeOK, readpkt, None
<1>5. CASE LookupEntry
  <2>1. table[i] \in Entry
    BY <1>5 DEF LookupEntry, TypeOK
  <2>2. best' \in Nat \cup {None} /\ bestLen' \in (0..AddrBits) \cup {-1}
    BY <1>5, <2>1 DEF LookupEntry, TypeOK, Entry
  <2>. QED  BY <1>5, <2>2 DEF TypeOK, LookupEntry
<1>6. CASE LookupEnd
  BY <1>6 DEF TypeOK, LookupEnd, lookupVars
<1>7. CASE Drop
  BY <1>7 DEF TypeOK, Drop, lookupVars
<1>8. CASE sendpkt
  <2>1. Counted(buffer.hops) \in 0..Byte
    BY ConstAssumption DEF Counted, TypeOK, Packet
  <2>2. [buffer EXCEPT !.hops = Counted(buffer.hops)] \in Packet
    BY <2>1 DEF TypeOK, Packet
  <2>3. wire' \subseteq Packet
    BY <1>8, <2>2 DEF TypeOK, sendpkt, Packet
  <2>. QED  BY <1>8, <2>3 DEF TypeOK, sendpkt, lookupVars
<1>9. CASE UNCHANGED vars
  BY <1>9 DEF TypeOK, vars, lookupVars
<1>. QED
  BY <1>1, <1>2, <1>3, <1>4, <1>5, <1>6, <1>7, <1>8, <1>9 DEF Next, Load, Route

\* The state keeps its types; the table stays within its array because the file has
\* no more lines than it has entries (router.c:17, 67).
THEOREM TypeCorrect == Spec => []TypeOK
BY InitTypeOK, NextTypeOK, PTL DEF Spec

(***************************************************************************)
(* The lookup: after n entries, best is the first of the longest matches   *)
(* among them.                                                             *)
(***************************************************************************)

\* k is the first of the longest of the matching entries ks.
Longest(k, ks) ==
    \A l \in ks :
        \/ table[l].netlength < table[k].netlength
        \/ table[l].netlength = table[k].netlength /\ k <= l

BestOf(n) ==
    \/ Matching(n) = {} /\ best = None /\ bestLen = -1
    \/ \E k \in Matching(n) :
        /\ best = table[k].interface /\ bestLen = table[k].netlength
        /\ Longest(k, Matching(n))

LookupInv ==
    /\ pc = "lookup" => i - 1 <= Len(table) /\ BestOf(i - 1)
    /\ pc = "decide" => BestOf(Len(table))

\* One turn of the loop takes entry n + 1 into account (router.c:39-44).
LEMMA LookupTurn ==
    ASSUME TypeOK, LookupEntry, BestOf(i - 1)
    PROVE  BestOf(i - 1)' /\ (i - 1)' <= Len(table)
<1>. DEFINE M == Matching(i - 1)
            N == Matching(i)
<1>1. i \in Nat /\ i >= 1 /\ i <= Len(table) /\ i' = i + 1 /\ i' - 1 = i
  BY DEF TypeOK, LookupEntry
<1>2. table' = table /\ buffer' = buffer
  BY DEF LookupEntry
<1>3. N = IF Matches(table[i], buffer.now.dst) THEN M \cup {i} ELSE M
  BY <1>1 DEF Matching
<1>4. \A k \in M : k \in Nat /\ k < i /\ table[k].netlength \in Nat
  <2>1. \A k \in 1..Len(table) : table[k].netlength \in Nat
    <3>1. \A k \in 1..Len(table) : table[k] \in Entry
      BY DEF TypeOK
    <3>. QED  BY <3>1, ConstAssumption DEF Entry
  <2>. QED  BY <1>1, <2>1 DEF Matching
<1>5. table[i].netlength \in Nat
  <2>1. table[i] \in Entry
    BY <1>1 DEF TypeOK
  <2>. QED  BY <2>1, ConstAssumption DEF Entry
<1>6. Matching(i - 1)' = N
  <2>1. Matching(i - 1)' = {k \in 1..i : k <= Len(table) /\ Matches(table[k], buffer.now.dst)}
    BY <1>1, <1>2 DEF Matching, Matches
  <2>. QED  BY <2>1 DEF Matching
<1>7. CASE Better(table[i])
  <2>1. best' = table[i].interface /\ bestLen' = table[i].netlength
    BY <1>7 DEF LookupEntry
  <2>2. i \in N
    BY <1>3, <1>7 DEF Better
  <2>3. \A l \in M : table[l].netlength < table[i].netlength
    <3>. SUFFICES ASSUME NEW l \in M PROVE table[l].netlength < table[i].netlength
      OBVIOUS
    <3>1. PICK k \in M : bestLen = table[k].netlength /\ Longest(k, M)
      BY DEF BestOf
    <3>2. table[l].netlength <= table[k].netlength
      BY <3>1, <1>4 DEF Longest
    <3>3. table[k].netlength < table[i].netlength
      BY <1>7, <3>1 DEF Better
    <3>. QED  BY <3>2, <3>3, <1>4, <1>5
  <2>4. Longest(i, N)
    <3>. SUFFICES ASSUME NEW l \in N
                  PROVE  \/ table[l].netlength < table[i].netlength
                         \/ table[l].netlength = table[i].netlength /\ i <= l
      BY DEF Longest
    <3>1. l \in M \/ l = i
      BY <1>3
    <3>. QED  BY <3>1, <2>3, <1>1
  <2>. QED  BY <1>1, <1>2, <1>6, <2>1, <2>2, <2>4 DEF BestOf, Longest
<1>8. CASE ~Better(table[i])
  <2>1. best' = best /\ bestLen' = bestLen
    BY <1>8 DEF LookupEntry
  <2>2. CASE ~Matches(table[i], buffer.now.dst)
    <3>1. N = M
      BY <1>3, <2>2
    <3>. QED  BY <1>1, <1>2, <1>6, <2>1, <3>1 DEF BestOf, Longest
  <2>3. CASE Matches(table[i], buffer.now.dst)
    <3>1. table[i].netlength <= bestLen
      BY <1>8, <2>3, <1>5 DEF Better, TypeOK
    <3>2. PICK k \in M : /\ best = table[k].interface /\ bestLen = table[k].netlength
                         /\ Longest(k, M)
      BY <3>1, <1>5 DEF BestOf
    <3>3. k \in N /\ Longest(k, N)
      <4>1. k \in N
        BY <1>3
      <4>2. ASSUME NEW l \in N
            PROVE  \/ table[l].netlength < table[k].netlength
                   \/ table[l].netlength = table[k].netlength /\ k <= l
        <5>1. l \in M \/ l = i
          BY <1>3
        <5>. QED  BY <5>1, <3>1, <3>2, <1>1, <1>4, <1>5 DEF Longest
      <4>. QED  BY <4>1, <4>2 DEF Longest
    <3>. QED  BY <1>1, <1>2, <1>6, <2>1, <3>2, <3>3 DEF BestOf, Longest
  <2>. QED  BY <2>2, <2>3
<1>. QED  BY <1>7, <1>8

\* A step leaves the lookup at the best entry among those it has seen (router.c:27-45).
LEMMA LookupStep == TypeOK /\ LookupInv /\ [Next]_vars => LookupInv'
<1>. SUFFICES ASSUME TypeOK, LookupInv, [Next]_vars PROVE LookupInv'
  OBVIOUS
<1>1. CASE Load
  BY <1>1 DEF Load, addInterface, addForwardEntry, udp_open, LookupInv
<1>2. CASE readpkt
  <2>1. pc' = "lookup" /\ i' = 1 /\ best' = None /\ bestLen' = -1 /\ table' = table
    BY <1>2 DEF readpkt
  <2>2. Matching(i - 1)' = {}
    BY <2>1 DEF Matching
  <2>3. Len(table) \in Nat
    BY DEF TypeOK
  <2>. QED  BY <2>1, <2>2, <2>3 DEF LookupInv, BestOf
<1>3. CASE LookupEntry
  <2>1. pc = "lookup" /\ pc' = "lookup" /\ table' = table
    BY <1>3 DEF LookupEntry
  <2>2. BestOf(i - 1)
    BY <2>1 DEF LookupInv
  <2>. QED  BY <1>3, <2>1, <2>2, LookupTurn DEF LookupInv
<1>4. CASE LookupEnd
  <2>1. i - 1 = Len(table)
    BY <1>4 DEF LookupEnd, LookupInv, TypeOK
  <2>2. BestOf(Len(table))
    BY <1>4, <2>1 DEF LookupEnd, LookupInv
  <2>3. /\ pc' = "decide"
        /\ UNCHANGED <<table, buffer, best, bestLen>>
    BY <1>4 DEF LookupEnd, lookupVars
  <2>. QED  BY <2>2, <2>3 DEF LookupInv, BestOf, Matching, Matches, Longest
<1>5. CASE Drop
  BY <1>5 DEF Drop, LookupInv
<1>6. CASE sendpkt
  BY <1>6 DEF sendpkt, LookupInv
<1>7. CASE UNCHANGED vars
  BY <1>7 DEF vars, lookupVars, LookupInv, BestOf, Matching, Matches, Longest
<1>. QED  BY <1>1, <1>2, <1>3, <1>4, <1>5, <1>6, <1>7 DEF Next, Route

\* For every table and address, the lookup finds the first of the longest matching
\* prefixes, or none if none matches (router.c:22-52).
THEOREM LookupIsLongestPrefix == Spec => []LongestPrefix
<1>1. Init => LookupInv
  BY DEF Init, LookupInv
<1>2. LookupInv /\ TypeOK => LongestPrefix
  BY DEF LookupInv, BestOf, Longest, LongestPrefix
<1>. QED  BY <1>1, <1>2, LookupStep, TypeCorrect, PTL DEF Spec

(***************************************************************************)
(* Interfaces                                                              *)
(***************************************************************************)

ActiveInv == \A k \in 1..Len(table) : table[k].interface \in active

\* Entries are added for active interfaces only, and none is withdrawn (router.c:54-90).
LEMMA ActiveStep == TypeOK /\ ActiveInv /\ [Next]_vars => ActiveInv'
<1>. SUFFICES ASSUME TypeOK, ActiveInv, [Next]_vars PROVE ActiveInv'
  OBVIOUS
<1>1. CASE addForwardEntry
  <2>1. active' = active
    BY <1>1 DEF addForwardEntry
  <2>2. CASE Head(lines).port \in active
    <3>. DEFINE e == [network |-> Head(lines).network, netlength |-> Head(lines).netlength,
                      interface |-> Head(lines).port]
    <3>1. table' = Append(table, e) /\ e.interface \in active
      BY <1>1, <2>2 DEF addForwardEntry
    <3>. HIDE DEF e
    <3>. QED  BY <2>1, <3>1 DEF ActiveInv, TypeOK
  <2>3. CASE Head(lines).port \notin active
    BY <1>1, <2>1, <2>3 DEF addForwardEntry, ActiveInv
  <2>. QED  BY <2>2, <2>3
<1>2. CASE addInterface
  BY <1>2 DEF addInterface, ActiveInv
<1>3. CASE udp_open \/ Route \/ UNCHANGED vars
  BY <1>3 DEF udp_open, Route, readpkt, LookupEntry, LookupEnd, Drop, sendpkt, vars, ActiveInv
<1>. QED  BY <1>1, <1>2, <1>3 DEF Next, Load

\* What is sent goes to an interface that the configuration has named (router.c:62-66).
THEOREM SendsToActive == Spec => []SentToActive
<1>1. Init => ActiveInv /\ LookupInv
  BY DEF Init, ActiveInv, LookupInv
<1>2. TypeOK /\ LookupInv /\ ActiveInv => SentToActive
  BY DEF TypeOK, LookupInv, BestOf, Matching, ActiveInv, SentToActive, NoRoute
<1>. QED  BY <1>1, <1>2, LookupStep, ActiveStep, TypeCorrect, PTL DEF Spec

(***************************************************************************)
(* Hops and the incremental update of the checksum                         *)
(***************************************************************************)

\* The header h of packet p after p.hops hops.
Counts(p, h) ==
    /\ p.hops = 0 => h = p.first
    /\ p.hops > 0 /\ (p.first.ttl > 0 \/ Valid(p.first)) =>
            h.ttl >= 1 /\ h.ttl + p.hops = p.first.ttl

HopInv ==
    /\ \A p \in wire : Counts(p, p.now)
    /\ pc \in {"lookup", "decide"} =>
            buffer.now = Hop(buffer.came) /\ Counts(buffer, buffer.came)

\* A hop takes 1 from ttl, or wraps it and damages the header (router.c:103-121).
LEMMA HopStep == TypeOK /\ HopInv /\ [Next]_vars => HopInv'
<1>. SUFFICES ASSUME TypeOK, HopInv, [Next]_vars PROVE HopInv'
  OBVIOUS
<1>1. CASE Load
  BY <1>1 DEF Load, addInterface, addForwardEntry, udp_open, HopInv
<1>2. CASE readpkt
  <2>1. PICK p \in wire : /\ wire' = wire \ {p}
                          /\ buffer' = [p EXCEPT !.now = Hop(p.now), !.came = p.now]
    BY <1>2 DEF readpkt, TypeOK, Packet
  <2>2. p \in Packet /\ Counts(p, p.now)
    BY DEF TypeOK, HopInv
  <2>3. /\ buffer'.now = Hop(p.now) /\ buffer'.came = p.now
        /\ buffer'.hops = p.hops /\ buffer'.first = p.first
    BY <2>1, <2>2 DEF Packet
  <2>4. Counts(buffer, buffer.came)'
    BY <2>2, <2>3 DEF Counts, Valid, ipchecksum
  <2>. QED  BY <2>1, <2>3, <2>4 DEF HopInv, Hop, Counts
<1>3. CASE LookupEntry \/ LookupEnd \/ Drop \/ UNCHANGED vars
  <2>1. UNCHANGED <<wire, buffer>>
    BY <1>3 DEF LookupEntry, LookupEnd, Drop, vars
  <2>2. pc' \in {"lookup", "decide"} => pc \in {"lookup", "decide"}
    BY <1>3 DEF LookupEntry, LookupEnd, Drop, vars
  <2>. QED  BY <2>1, <2>2 DEF HopInv
<1>4. CASE sendpkt
  <2>. DEFINE q == [buffer EXCEPT !.hops = Counted(buffer.hops)]
  <2>1. buffer \in Packet /\ buffer.came \in Header /\ buffer.first \in Header
    BY DEF TypeOK, Packet
  <2>2. /\ pc' = "read"
        /\ wire' = wire \cup {q}
        /\ buffer.now.ttl >= 1 /\ Valid(buffer.now)
        /\ buffer.now = Hop(buffer.came) /\ Counts(buffer, buffer.came)
    <3>1. buffer.now.ttl \in Int
      BY DEF TypeOK, Packet, Header
    <3>. QED  BY <1>4, <2>1, <3>1 DEF sendpkt, HopInv, Expired, Damaged, Packet
  <2>3. /\ q.now = buffer.now /\ q.first = buffer.first
        /\ q.hops = Counted(buffer.hops)
    BY <2>1 DEF Packet
  <2>4. ASSUME buffer.first.ttl > 0 \/ Valid(buffer.first)
        PROVE  buffer.now.ttl + Counted(buffer.hops) = buffer.first.ttl
    <3>1. /\ buffer.came.ttl \in 0..(Byte - 1) /\ buffer.first.ttl \in 0..(Byte - 1)
          /\ buffer.hops \in 0..Byte /\ Byte \in Nat
      BY <2>1, WordFacts DEF Packet, Header
    <3>2. buffer.now.ttl = IF buffer.came.ttl = 0 THEN Byte - 1 ELSE buffer.came.ttl - 1
      BY <2>1, <2>2, HopHeader
    <3>3. CASE buffer.hops = 0
      <4>1. buffer.came = buffer.first
        BY <2>2, <3>3 DEF Counts
      <4>2. buffer.came.ttl # 0
        BY <2>1, <2>2, <2>4, <4>1, <3>1, TtlWrapDamages
      <4>. QED  BY <3>1, <3>2, <3>3, <4>1, <4>2, WordFacts DEF Counted
    <3>4. CASE buffer.hops > 0
      <4>1. buffer.came.ttl >= 1 /\ buffer.came.ttl + buffer.hops = buffer.first.ttl
        BY <2>2, <2>4, <3>4 DEF Counts
      <4>. QED  BY <3>1, <3>2, <3>4, <4>1 DEF Counted
    <3>. QED  BY <3>1, <3>3, <3>4
  <2>5. Counted(buffer.hops) > 0
    BY <2>1, WordFacts DEF Packet, Counted
  <2>6. Counts(q, q.now)
    <3>. HIDE DEF q
    <3>. QED  BY <2>2, <2>3, <2>4, <2>5 DEF Counts
  <2>7. \A p \in wire' : Counts(p, p.now)
    <3>. HIDE DEF q
    <3>. QED  BY <2>2, <2>6 DEF HopInv
  <2>. QED  BY <2>2, <2>7 DEF HopInv
<1>. QED  BY <1>1, <1>2, <1>3, <1>4 DEF Next, Route

\* No packet has arrived at the start.
LEMMA InitHopInv == Init => HopInv
BY DEF Init, HopInv, Start, Counts

\* A packet is forwarded less than ttl times whatever its neighbours do, and one
\* that is valid with ttl 0 not at all (router.c:104-121).
THEOREM ForwardedWithinTtl == Spec => []HopsWithinTtl
<1>1. HopInv => HopsWithinTtl
  BY DEF HopInv, Counts, HopsWithinTtl
<1>. QED  BY <1>1, InitHopInv, HopStep, TypeCorrect, PTL DEF Spec

\* The incremental update leaves a header as valid or as damaged as it came, short of
\* a wrap of ttl or of the checksum (router.c:104-105, 117).
THEOREM UpdateIsExact == Spec => []UpdateKeepsValidity
<1>1. ASSUME TypeOK, HopInv PROVE UpdateKeepsValidity
  <2>. SUFFICES ASSUME pc = "decide", buffer.came.ttl > 0, buffer.came.checksum < Word - 1
                PROVE  Valid(buffer.now) = Valid(buffer.came)
    BY DEF UpdateKeepsValidity
  <2>. DEFINE h == buffer.came
  <2>1. h \in Header /\ buffer.now = Hop(h)
    <3>1. buffer \in Packet
      BY <1>1 DEF TypeOK
    <3>. QED  BY <1>1, <3>1 DEF Packet, HopInv
  <2>2. Sum(Hop(h)) = Sum(h)
    <3>1. /\ Hop(h).rest = h.rest /\ Hop(h).proto = h.proto
          /\ Hop(h).ttl = h.ttl - 1 /\ Hop(h).checksum = h.checksum + 1
      BY <2>1, HopHeader, WordFacts DEF Header
    <3>2. h.rest \in Int /\ h.ttl \in Int /\ h.checksum \in Int /\ Byte * h.proto \in Int
      BY <2>1, WordFacts DEF Header
    <3>. HIDE DEF h
    <3>. QED  BY <3>1, <3>2 DEF Sum
  <2>. QED  BY <2>1, <2>2 DEF Valid, ipchecksum
<1>. QED  BY <1>1, InitHopInv, HopStep, TypeCorrect, PTL DEF Spec

(***************************************************************************)
(* The configuration (RouterConfig)                                        *)
(***************************************************************************)

\* Sets of places in order

\* A set of places that is not empty has a first one.
LEMMA FirstPlace ==
  ASSUME NEW T \in SUBSET Nat, T # {}
  PROVE  \E x \in T : \A y \in T : x <= y
<1>1. PICK x \in T : \A y \in T : ~ (<<y, x>> \in OpToRel(<, Nat))
  BY WFMin, NatLessThanWellFounded, Zenon
<1>2. \A y \in T : ~ (y < x)
  BY <1>1, Zenon DEF OpToRel
<1> QED BY <1>2

UpTo(S, n) == {j \in S : j <= n}

LEMMA PlacesFinite ==
  ASSUME NEW N \in Nat, NEW S \in SUBSET (1..N)
  PROVE  /\ IsFiniteSet(S) /\ Cardinality(S) \in Nat
         /\ \A n \in Int : /\ UpTo(S, n) \in SUBSET (1..N) /\ IsFiniteSet(UpTo(S, n))
                           /\ Cardinality(UpTo(S, n)) \in Nat
                           /\ Cardinality(UpTo(S, n)) <= Cardinality(S)
<1>1. IsFiniteSet(1..N)
  BY FS_Interval
<1>2. \A T \in SUBSET (1..N) : IsFiniteSet(T) /\ Cardinality(T) \in Nat
  BY <1>1, FS_Subset, FS_CardinalityType
<1>3. \A n \in Int : UpTo(S, n) \in SUBSET S
  BY DEF UpTo
<1>4. \A n \in Int : Cardinality(UpTo(S, n)) <= Cardinality(S)
  BY <1>2, <1>3, FS_Subset
<1> QED BY <1>2, <1>3, <1>4

\* One place further there is at most one element more.
LEMMA CountStep ==
  ASSUME NEW N \in Nat, NEW S \in SUBSET (1..N), NEW n \in Nat \ {0}
  PROVE  Cardinality(UpTo(S, n)) =
           Cardinality(UpTo(S, n - 1)) + (IF n \in S THEN 1 ELSE 0)
<1>0. n \in Int /\ n - 1 \in Int /\ \A j \in S : j \in Int
  OBVIOUS
<1>a. \A j \in S : j <= n <=> j <= n - 1 \/ j = n
  BY <1>0
<1>c. n <= n /\ ~ (n <= n - 1)
  BY <1>0
<1>b. IsFiniteSet(UpTo(S, n - 1)) /\ Cardinality(UpTo(S, n - 1)) \in Nat
  BY <1>0, PlacesFinite
<1>1. CASE n \in S
  <2>1. UpTo(S, n) = UpTo(S, n - 1) \cup {n} /\ n \notin UpTo(S, n - 1)
    BY <1>a, <1>c, <1>1, Zenon DEF UpTo
  <2> QED BY <1>1, <2>1, <1>b, FS_AddElement
<1>2. CASE n \notin S
  <2>1. UpTo(S, n) = UpTo(S, n - 1)
    BY <1>0, <1>a, <1>2 DEF UpTo
  <2> QED BY <1>2, <2>1, <1>b
<1> QED BY <1>1, <1>2

\* Between two elements the count grows.
LEMMA CountGrows ==
  ASSUME NEW N \in Nat, NEW S \in SUBSET (1..N)
  PROVE  \A y, j \in S : Cardinality(UpTo(S, y)) = Cardinality(UpTo(S, j)) => y = j
<1>1. \A a \in S : a \in Int
  OBVIOUS
<1>2. \A a, b \in S : a < b => Cardinality(UpTo(S, a)) # Cardinality(UpTo(S, b))
  <2>1. SUFFICES ASSUME NEW a \in S, NEW b \in S, a < b,
                        Cardinality(UpTo(S, a)) = Cardinality(UpTo(S, b))
                 PROVE  FALSE
    OBVIOUS
  <2>2. UpTo(S, a) \in SUBSET UpTo(S, b) /\ b \in UpTo(S, b) /\ b \notin UpTo(S, a)
    <3>1. b <= b /\ ~ (b <= a) /\ \A j \in S : j <= a => j <= b
      BY <1>1, <2>1
    <3> QED BY <3>1, Zenon DEF UpTo
  <2>3. IsFiniteSet(UpTo(S, b))
    BY <1>1, PlacesFinite
  <2>4. UpTo(S, a) = UpTo(S, b)
    BY <2>1, <2>2, <2>3, FS_Subset
  <2> QED BY <2>2, <2>4
<1> QED BY <1>1, <1>2

\* Every number up to the size is the count at some element.
LEMMA CountHits ==
  ASSUME NEW N \in Nat, NEW S \in SUBSET (1..N), NEW k \in 1..Cardinality(S)
  PROVE  \E y \in S : Cardinality(UpTo(S, y)) = k
<1> DEFINE T == {n \in Nat : Cardinality(UpTo(S, n)) >= k}
<1>1. N \in T
  <2>1. UpTo(S, N) = S
    <3>1. \A j \in S : j <= N
      OBVIOUS
    <3> QED BY <3>1 DEF UpTo
  <2> QED BY <2>1, PlacesFinite
<1>2. PICK m \in T : \A n \in T : m <= n
  BY <1>1, FirstPlace
<1>3. m # 0
  <2>1. UpTo(S, 0) = {}
    <3>1. \A j \in S : ~ (j <= 0)
      OBVIOUS
    <3> QED BY <3>1 DEF UpTo
  <2> QED BY <2>1, FS_EmptySet
<1>4. Cardinality(UpTo(S, m)) = Cardinality(UpTo(S, m - 1)) + (IF m \in S THEN 1 ELSE 0)
  BY <1>3, CountStep
<1>5. Cardinality(UpTo(S, m - 1)) < k
  <2>1. m - 1 \notin T /\ m - 1 \in Nat
    BY <1>2, <1>3
  <2>2. Cardinality(UpTo(S, m - 1)) \in Nat
    <3>1. m - 1 \in Int
      BY <2>1
    <3> QED BY <3>1, PlacesFinite
  <2> QED BY <2>1, <2>2
<1>6. Cardinality(UpTo(S, m)) >= k /\ Cardinality(UpTo(S, m - 1)) \in Nat
  <2>1. m - 1 \in Int
    OBVIOUS
  <2> QED BY <2>1, <1>2, PlacesFinite
<1>7. m \in S /\ Cardinality(UpTo(S, m)) = k
  BY <1>4, <1>5, <1>6
<1> QED BY <1>7

LEMMA OrderIs ==
  ASSUME NEW N \in Nat, NEW S \in SUBSET (1..N)
  PROVE  /\ InOrder(S) \in Seq(S) /\ Len(InOrder(S)) = Cardinality(S)
         /\ DOMAIN InOrder(S) = 1..Cardinality(S)
         /\ \A k \in 1..Cardinality(S) :
              InOrder(S)[k] \in S /\ Cardinality(UpTo(S, InOrder(S)[k])) = k
         /\ \A y \in S : /\ Cardinality(UpTo(S, y)) \in 1..Cardinality(S)
                         /\ InOrder(S)[Cardinality(UpTo(S, y))] = y
<1>1. Cardinality(S) \in Nat
  BY PlacesFinite
<1>2. InOrder(S) = [k \in 1..Cardinality(S) |->
                      CHOOSE y \in S : Cardinality(UpTo(S, y)) = k]
  BY Zenon DEF InOrder, UpTo
<1>3. \A k \in 1..Cardinality(S) :
        InOrder(S)[k] \in S /\ Cardinality(UpTo(S, InOrder(S)[k])) = k
  <2>1. TAKE k \in 1..Cardinality(S)
  <2>2. InOrder(S)[k] = CHOOSE y \in S : Cardinality(UpTo(S, y)) = k
    BY <1>2
  <2>3. \E y \in S : Cardinality(UpTo(S, y)) = k
    BY CountHits
  <2> QED BY <2>2, <2>3
<1>4. InOrder(S) \in [1..Cardinality(S) -> S]
  BY <1>2, <1>3
<1>5. \A y \in S : /\ Cardinality(UpTo(S, y)) \in 1..Cardinality(S)
                   /\ InOrder(S)[Cardinality(UpTo(S, y))] = y
  <2>1. TAKE y \in S
  <2>2. y \in UpTo(S, y) /\ IsFiniteSet(UpTo(S, y)) /\ Cardinality(UpTo(S, y)) \in Nat
        /\ Cardinality(UpTo(S, y)) <= Cardinality(S)
    <3>1. y \in Int /\ y <= y
      OBVIOUS
    <3> QED BY <3>1, PlacesFinite DEF UpTo
  <2>3. Cardinality(UpTo(S, y)) # 0
    BY <2>2, FS_EmptySet
  <2>4. Cardinality(UpTo(S, y)) \in 1..Cardinality(S)
    BY <1>1, <2>2, <2>3
  <2>5. InOrder(S)[Cardinality(UpTo(S, y))] = y
    <3>1. InOrder(S)[Cardinality(UpTo(S, y))] \in S
          /\ Cardinality(UpTo(S, InOrder(S)[Cardinality(UpTo(S, y))]))
             = Cardinality(UpTo(S, y))
      BY <2>4, <1>3
    <3> QED BY <3>1, CountGrows
  <2> QED BY <2>4, <2>5
<1>6. InOrder(S) \in Seq(S) /\ Len(InOrder(S)) = Cardinality(S)
      /\ DOMAIN InOrder(S) = 1..Cardinality(S)
  BY <1>1, <1>4
<1> QED BY <1>3, <1>5, <1>6

LEMMA OrderInto ==
  ASSUME NEW A, NEW B, A \in SUBSET B
  PROVE  \A s : s \in Seq(A) => s \in Seq(B)
OBVIOUS

\* What comes later leaves the beginning of the order alone.
LEMMA OrderPrefix ==
  ASSUME NEW N \in Nat, NEW S \in SUBSET (1..N), NEW n \in Int
  PROVE  /\ Cardinality(UpTo(S, n)) <= Cardinality(S)
         /\ \A k \in 1..Cardinality(UpTo(S, n)) : InOrder(S)[k] = InOrder(UpTo(S, n))[k]
<1> DEFINE T == UpTo(S, n)
<1>1. T \in SUBSET (1..N) /\ Cardinality(T) \in Nat /\ Cardinality(T) <= Cardinality(S)
      /\ Cardinality(S) \in Nat
  BY PlacesFinite
<1>2. SUFFICES ASSUME NEW k \in 1..Cardinality(T)
               PROVE  InOrder(S)[k] = InOrder(T)[k]
  BY <1>1
<1>3. InOrder(T)[k] \in T /\ Cardinality(UpTo(T, InOrder(T)[k])) = k
  BY <1>1, OrderIs
<1>4. UpTo(T, InOrder(T)[k]) = UpTo(S, InOrder(T)[k]) /\ InOrder(T)[k] \in S
  <2>1. InOrder(T)[k] \in S /\ InOrder(T)[k] <= n
    BY <1>3 DEF UpTo
  <2>2. \A j, h \in S : j <= h /\ h <= n => j <= n
    OBVIOUS
  <2>3. \A j \in S : j <= InOrder(T)[k] => j <= n
    BY <2>1, <2>2, Zenon
  <2> HIDE DEF T
  <2>4. {j \in {h \in S : h <= n} : j <= InOrder(T)[k]} = {j \in S : j <= InOrder(T)[k]}
    BY <2>3, Zenon
  <2>5. UpTo(T, InOrder(T)[k]) = {j \in {h \in S : h <= n} : j <= InOrder(T)[k]}
    BY Zenon DEF UpTo, T
  <2> QED BY <2>1, <2>4, <2>5 DEF UpTo
<1>5. InOrder(S)[Cardinality(UpTo(S, InOrder(T)[k]))] = InOrder(T)[k]
  BY <1>4, OrderIs
<1> QED BY <1>3, <1>4, <1>5

\* t is s and x.
Longer(s, x, t) ==
  /\ Len(t) = Len(s) + 1 /\ t[Len(s) + 1] = x
  /\ \A k \in 1..Len(s) : t[k] = s[k]

\* A place behind all others comes last.
LEMMA OrderAppend ==
  ASSUME NEW N \in Nat, NEW S \in SUBSET (1..N), NEW x \in 1..N, \A s \in S : s < x
  PROVE  /\ Longer(InOrder(S), x, InOrder(S \cup {x}))
         /\ Cardinality(S \cup {x}) = Cardinality(S) + 1
<1> DEFINE T == S \cup {x}
<1>1. T \in SUBSET (1..N) /\ x \notin S /\ UpTo(T, x - 1) = S /\ UpTo(T, x) = T
  <2>1. \A s \in S : s \in Int /\ s <= x /\ s <= x - 1
    OBVIOUS
  <2>2. x <= x /\ ~ (x <= x - 1) /\ x \notin S
    BY <2>1
  <2> QED BY <2>1, <2>2 DEF UpTo
<1>2. Cardinality(T) = Cardinality(S) + 1 /\ Cardinality(S) \in Nat
  BY <1>1, PlacesFinite, FS_AddElement
<1> HIDE DEF T
<1>3. \A k \in 1..Cardinality(S) : InOrder(T)[k] = InOrder(S)[k]
  <2>1. x - 1 \in Int
    OBVIOUS
  <2> QED BY <1>1, <2>1, OrderPrefix
<1>4. InOrder(T)[Cardinality(S) + 1] = x
  <2>1. x \in T
    BY DEF T
  <2>2. InOrder(T)[Cardinality(UpTo(T, x))] = x
    BY <1>1, <2>1, OrderIs
  <2> QED BY <1>1, <1>2, <2>2
<1>5. InOrder(T) \in Seq(1..N) /\ Len(InOrder(T)) = Cardinality(S) + 1
  <2>1. InOrder(T) \in Seq(T) /\ Len(InOrder(T)) = Cardinality(T)
    BY <1>1, OrderIs
  <2>2. InOrder(T) \in Seq(1..N)
    BY <1>1, <2>1, OrderInto
  <2> QED BY <1>2, <2>1, <2>2
<1>6. InOrder(S) \in Seq(1..N) /\ Len(InOrder(S)) = Cardinality(S)
  <2>1. InOrder(S) \in Seq(S) /\ Len(InOrder(S)) = Cardinality(S)
    BY OrderIs
  <2>2. InOrder(S) \in Seq(1..N)
    BY <2>1, OrderInto
  <2> QED BY <2>1, <2>2
<1>7. Longer(InOrder(S), x, InOrder(T))
  BY <1>3, <1>4, <1>5, <1>6 DEF Longer
<1> QED BY <1>2, <1>7 DEF T

LEMMA OrderEmpty == InOrder({}) = <<>> /\ Cardinality({}) = 0
BY FS_EmptySet DEF InOrder

-----------------------------------------------------------------------------
\* The text

Forms == {<<"nl">>, PortLine, ForwardLine}

\* The tokens behind the last line feed.
Open(S) == {y \in S : \A f \in Feeds(S) : f < y}

LEMMA TextType ==
  ASSUME file \in Seq(Unit)
  PROVE  /\ Len(file) \in Nat /\ Significant \in SUBSET (1..Len(file))
         /\ \A y \in 1..Len(file) : file[y].t \in Kinds /\ file[y].v \in Nat
         /\ \A n \in Int : UpTo(Significant, n) \in SUBSET (1..Len(file))
         /\ \A e : Part(e) \in SUBSET (1..Len(file))
<1>1. Len(file) \in Nat /\ DOMAIN file = 1..Len(file)
  OBVIOUS
<1>2. \A y \in 1..Len(file) : file[y] \in Unit
  BY <1>1
<1>3. \A u \in Unit : u.t \in Kinds /\ u.v \in Nat
  BY DEF Unit
<1>4. Significant \in SUBSET (1..Len(file))
  BY <1>1 DEF Significant
<1>5. \A e : Part(e) \in SUBSET Significant
  BY Zenon DEF Part
<1>6. \A n \in Int : UpTo(Significant, n) \in SUBSET Significant
  BY Zenon DEF UpTo
<1> QED BY <1>1, <1>2, <1>3, <1>4, <1>5, <1>6

\* A token more.
LEMMA TextStep ==
  ASSUME file \in Seq(Unit), NEW x \in Significant
  PROVE  /\ UpTo(Significant, x) = UpTo(Significant, x - 1) \cup {x}
         /\ \A j \in UpTo(Significant, x - 1) : j < x
         /\ Part(x) = Open(UpTo(Significant, x - 1)) \cup {x}
         /\ file[x].t = "nl" =>
              /\ Feeds(UpTo(Significant, x)) = Feeds(UpTo(Significant, x - 1)) \cup {x}
              /\ Open(UpTo(Significant, x)) = {}
         /\ file[x].t # "nl" =>
              /\ Feeds(UpTo(Significant, x)) = Feeds(UpTo(Significant, x - 1))
              /\ Open(UpTo(Significant, x)) = Open(UpTo(Significant, x - 1)) \cup {x}
<1> DEFINE S == UpTo(Significant, x - 1)
           T == UpTo(Significant, x)
<1>1. Significant \in SUBSET Int /\ x \in Int
  BY TextType
<1>2. \A j \in Significant : (j <= x <=> j <= x - 1 \/ j = x) /\ (j <= x - 1 <=> j < x)
  BY <1>1
<1>3. x <= x /\ ~ (x < x)
  BY <1>1
<1>4. T = S \cup {x} /\ \A j \in S : j \in Significant /\ j < x
  BY <1>2, <1>3, Zenon DEF UpTo
<1>5. \A j \in Significant : j \in S <=> j < x
  BY <1>2, Zenon DEF UpTo
<1>6. Part(x) = Open(S) \cup {x}
  <2>1. \A j \in Part(x) : j # x => j \in Open(S)
    <3>1. SUFFICES ASSUME NEW j \in Significant, j <= x, j # x,
                          \A f \in Feeds(Significant) : f \in j..x => f = x
                   PROVE  j \in Open(S)
      BY Zenon DEF Part
    <3>2. j \in S /\ j \in Int
      BY <1>1, <1>5, <3>1
    <3>3. ASSUME NEW f \in Feeds(S)
          PROVE  f < j
      <4>1. f \in Feeds(Significant) /\ f \in Significant /\ f < x /\ f \in Int
        BY <1>1, <1>4 DEF Feeds
      <4>2. ~ (f \in j..x)
        BY <3>1, <4>1, <1>1
      <4> QED BY <1>1, <3>2, <4>1, <4>2
    <3> QED BY <3>2, <3>3, Zenon DEF Open
  <2>2. \A j \in Open(S) : j \in Part(x)
    <3>1. SUFFICES ASSUME NEW j \in S, \A f \in Feeds(S) : f < j
                   PROVE  j \in Part(x)
      BY Zenon DEF Open
    <3>2. j \in Significant /\ j < x /\ j <= x /\ j \in Int
      <4>1. j \in Significant /\ j < x
        BY <1>4, Zenon
      <4> QED BY <1>1, <4>1
    <3>3. ASSUME NEW f \in Feeds(Significant), f \in j..x
          PROVE  f = x
      <4>1. f \in Significant /\ file[f].t = "nl"
        BY Zenon DEF Feeds
      <4>2. f \in Int /\ f >= j /\ f <= x
        BY <3>3, <3>2, <4>1, <1>1
      <4>3. f # x => f \in S
        BY <1>1, <1>5, <4>1, <4>2
      <4>4. f \in S => f < j
        BY <3>1, <4>1 DEF Feeds
      <4> QED BY <1>1, <3>2, <4>2, <4>3, <4>4
    <3> QED BY <3>2, <3>3, Zenon DEF Part
  <2>3. x \in Part(x)
    <3>1. \A f \in Int : f \in x..x => f = x
      BY <1>1
    <3>2. \A f \in Feeds(Significant) : f \in Int
      BY <1>1 DEF Feeds
    <3> QED BY <1>3, <3>1, <3>2 DEF Part
  <2> HIDE DEF S, T
  <2> QED BY <2>1, <2>2, <2>3, Zenon
<1>7. CASE file[x].t = "nl"
  <2>1. Feeds(T) = Feeds(S) \cup {x}
    BY <1>4, <1>7, Zenon DEF Feeds
  <2>2. \A j \in T : ~ (x < j)
    <3>1. \A j \in Int : j < x => ~ (x < j)
      BY <1>1
    <3>2. \A j \in S : j \in Int
      BY <1>1, <1>4
    <3> QED BY <1>3, <1>4, <3>1, <3>2, Zenon
  <2>3. Open(T) = {}
    BY <2>1, <2>2, Zenon DEF Open
  <2> QED BY <1>4, <1>6, <1>7, <2>1, <2>3
<1>8. CASE file[x].t # "nl"
  <2>1. Feeds(T) = Feeds(S)
    BY <1>4, <1>8, Zenon DEF Feeds
  <2>2. \A f \in Feeds(S) : f < x
    BY <1>4, Zenon DEF Feeds
  <2>3. Open(T) = Open(S) \cup {x}
    BY <1>4, <2>1, <2>2, Zenon DEF Open
  <2> QED BY <1>4, <1>6, <1>8, <2>1, <2>3
<1> QED BY <1>7, <1>8

LEMMA SameSeq ==
  ASSUME NEW S, NEW a \in Seq(S), NEW b \in Seq(S), Len(a) = Len(b),
         \A k \in 1..Len(a) : a[k] = b[k]
  PROVE  a = b
OBVIOUS

Reads(h, N, V) == h \in [1..N -> V]
MapOf(h, s) == [k \in DOMAIN s |-> h[s[k]]]

\* A sequence of what is at the places of an order, and one more.
LEMMA MapType ==
  ASSUME NEW N \in Nat, NEW V, NEW h, Reads(h, N, V)
  PROVE  \A s \in Seq(1..N) : MapOf(h, s) \in Seq(V) /\ Len(MapOf(h, s)) = Len(s)
<1> TAKE s \in Seq(1..N)
<1>1. PICK n \in Nat : n = Len(s) /\ DOMAIN s = 1..n
  OBVIOUS
<1>2. \A k \in 1..n : h[s[k]] \in V
  BY <1>1 DEF Reads
<1> QED BY <1>1, <1>2 DEF MapOf

LEMMA MapAppend ==
  ASSUME NEW N \in Nat, NEW V, NEW h, Reads(h, N, V), NEW x \in 1..N
  PROVE  \A s, t \in Seq(1..N) :
           Longer(s, x, t) => Longer(MapOf(h, s), h[x], MapOf(h, t))
<1> SUFFICES ASSUME NEW s \in Seq(1..N), NEW t \in Seq(1..N), Longer(s, x, t)
             PROVE  Longer(MapOf(h, s), h[x], MapOf(h, t))
  OBVIOUS
<1>1. PICK n \in Nat : n = Len(s) /\ DOMAIN s = 1..n
  OBVIOUS
<1>2. Len(t) = n + 1 /\ t[n + 1] = x
      /\ DOMAIN t = 1..(n + 1) /\ \A k \in 1..n : t[k] = s[k]
  BY <1>1 DEF Longer
<1>3. MapOf(h, s) \in Seq(V) /\ Len(MapOf(h, s)) = n
  <2>1. MapOf(h, s) \in Seq(V) /\ Len(MapOf(h, s)) = Len(s)
    BY MapType
  <2> QED BY <1>1, <2>1
<1>4. MapOf(h, t) \in Seq(V) /\ Len(MapOf(h, t)) = n + 1
  <2>1. MapOf(h, t) \in Seq(V) /\ Len(MapOf(h, t)) = Len(t)
    BY MapType
  <2> QED BY <1>2, <2>1
<1>5. /\ \A k \in 1..n : MapOf(h, s)[k] = h[s[k]]
      /\ \A k \in 1..(n + 1) : MapOf(h, t)[k] = h[t[k]]
  BY <1>1, <1>2, Zenon DEF MapOf
<1>6. n + 1 \in 1..(n + 1) /\ \A k \in 1..n : k \in 1..(n + 1)
  OBVIOUS
<1>7. MapOf(h, t)[n + 1] = h[x]
  BY <1>2, <1>5, <1>6
<1>8. \A k \in 1..n : MapOf(h, t)[k] = MapOf(h, s)[k]
  BY <1>2, <1>5, <1>6
<1> QED BY <1>3, <1>4, <1>7, <1>8, Zenon DEF Longer

LEMMA LongerIs ==
  ASSUME NEW V, NEW a \in Seq(V), NEW v \in V, NEW b \in Seq(V), Longer(a, v, b)
  PROVE  b = Append(a, v)
<1>1. PICK n \in Nat : n = Len(a)
  OBVIOUS
<1>2. Append(a, v) \in Seq(V) /\ Len(Append(a, v)) = n + 1 /\ Append(a, v)[n + 1] = v
      /\ \A k \in 1..n : Append(a, v)[k] = a[k]
  BY <1>1
<1>3. \A k \in 1..(n + 1) : k = n + 1 \/ k \in 1..n
  OBVIOUS
<1> DEFINE c == Append(a, v)
<1> HIDE DEF c
<1>4. Len(b) = n + 1 /\ \A k \in 1..(n + 1) : b[k] = c[k]
  BY <1>1, <1>2, <1>3 DEF Longer, c
<1>5. c \in Seq(V) /\ Len(c) = n + 1
  BY <1>2 DEF c
<1>6. b = c
  BY <1>4, <1>5, SameSeq
<1> QED BY <1>6 DEF c

Kind == [y \in 1..Len(file) |-> file[y].t]
Value == [y \in 1..Len(file) |-> file[y].v]

LEMMA ShapeIs ==
  ASSUME file \in Seq(Unit), NEW S \in SUBSET (1..Len(file))
  PROVE  /\ Reads(Kind, Len(file), Kinds) /\ Reads(Value, Len(file), Nat)
         /\ InOrder(S) \in Seq(1..Len(file))
         /\ Shape(S) = MapOf(Kind, InOrder(S))
<1>1. Reads(Kind, Len(file), Kinds) /\ Reads(Value, Len(file), Nat)
  BY TextType DEF Kind, Value, Reads
<1>2. InOrder(S) \in Seq(S) /\ Len(file) \in Nat
  BY TextType, OrderIs
<1>3. InOrder(S) \in Seq(1..Len(file))
  BY <1>2, OrderInto
<1>4. \A k \in DOMAIN InOrder(S) : InOrder(S)[k] \in 1..Len(file)
  BY <1>3
<1>5. \A k \in DOMAIN InOrder(S) : file[InOrder(S)[k]].t = Kind[InOrder(S)[k]]
  BY <1>4, Zenon DEF Kind
<1>6. Shape(S) = MapOf(Kind, InOrder(S))
  BY <1>5, Zenon DEF Shape, MapOf
<1> QED BY <1>1, <1>3, <1>6

LEMMA ShapeStep ==
  ASSUME file \in Seq(Unit), NEW S \in SUBSET (1..Len(file)), NEW x \in 1..Len(file),
         \A j \in S : j < x
  PROVE  /\ Shape(S) \in Seq(Kinds) /\ Len(Shape(S)) = Cardinality(S)
         /\ Shape(S \cup {x}) = Append(Shape(S), file[x].t)
<1>1. Len(file) \in Nat
  BY TextType
<1>2. Longer(InOrder(S), x, InOrder(S \cup {x})) /\ Len(InOrder(S)) = Cardinality(S)
  <2>1. Longer(InOrder(S), x, InOrder(S \cup {x}))
    BY <1>1, OrderAppend
  <2>2. Len(InOrder(S)) = Cardinality(S)
    BY <1>1, OrderIs
  <2> QED BY <2>1, <2>2
<1>3. S \cup {x} \in SUBSET (1..Len(file))
  OBVIOUS
<1>4. /\ Shape(S) = MapOf(Kind, InOrder(S))
      /\ Shape(S \cup {x}) =
           MapOf(Kind, InOrder(S \cup {x}))
      /\ InOrder(S) \in Seq(1..Len(file)) /\ Reads(Kind, Len(file), Kinds)
  BY <1>3, ShapeIs
<1>5. Kind[x] = file[x].t
  BY DEF Kind
<1>8. Kind[x] \in Kinds
  BY <1>5, TextType
<1>7. InOrder(S) \in Seq(1..Len(file)) /\ InOrder(S \cup {x}) \in Seq(1..Len(file))
      /\ Reads(Kind, Len(file), Kinds)
  BY <1>3, ShapeIs
<1>6. /\ MapOf(Kind, InOrder(S)) \in Seq(Kinds)
      /\ Len(MapOf(Kind, InOrder(S))) = Len(InOrder(S))
      /\ Longer(MapOf(Kind, InOrder(S)), Kind[x], MapOf(Kind, InOrder(S \cup {x})))
      /\ MapOf(Kind, InOrder(S \cup {x})) \in Seq(Kinds)
  <2>1. Len(file) \in Nat
    BY TextType
  <2> QED BY <1>2, <1>7, <2>1, MapAppend, MapType
<1>9. MapOf(Kind, InOrder(S \cup {x})) = Append(MapOf(Kind, InOrder(S)), Kind[x])
  BY <1>6, <1>8, LongerIs
<1> QED BY <1>2, <1>4, <1>5, <1>6, <1>9, Zenon

LEMMA NumbersStep ==
  ASSUME file \in Seq(Unit), NEW S \in SUBSET (1..Len(file)), NEW x \in 1..Len(file),
         \A j \in S : j < x
  PROVE  /\ Numbers(S) \in Seq(Nat)
         /\ Numbers(S \cup {x}) =
              IF file[x].t = "num" THEN Append(Numbers(S), file[x].v) ELSE Numbers(S)
<1> DEFINE Nums(P) == {j \in P : file[j].t = "num"}
<1>1. ASSUME NEW P \in SUBSET (1..Len(file))
      PROVE  /\ Numbers(P) = MapOf(Value, InOrder(Nums(P)))
             /\ InOrder(Nums(P)) \in Seq(1..Len(file))
  <2>1. Nums(P) \in SUBSET (1..Len(file))
    OBVIOUS
  <2>2. InOrder(Nums(P)) \in Seq(1..Len(file))
    BY <2>1, ShapeIs
  <2>3. \A k \in DOMAIN InOrder(Nums(P)) : InOrder(Nums(P))[k] \in 1..Len(file)
    BY <2>2
  <2>4. \A k \in DOMAIN InOrder(Nums(P)) :
          file[InOrder(Nums(P))[k]].v = Value[InOrder(Nums(P))[k]]
    BY <2>3, Zenon DEF Value
  <2> QED BY <2>2, <2>4, Zenon DEF Numbers, MapOf
<1>2. Len(file) \in Nat /\ Reads(Value, Len(file), Nat) /\ Value[x] = file[x].v
  BY TextType, ShapeIs DEF Value
<1>3. S \cup {x} \in SUBSET (1..Len(file))
  OBVIOUS
<1>6. Numbers(S) \in Seq(Nat)
  <2> HIDE DEF Nums
  <2>1. MapOf(Value, InOrder(Nums(S))) \in Seq(Nat)
    BY <1>1, <1>2, MapType
  <2> QED BY <1>1, <2>1, Zenon
<1>4. CASE file[x].t = "num"
  <2>1. Nums(S \cup {x}) = Nums(S) \cup {x}
    BY <1>4, Zenon
  <2>2. Longer(InOrder(Nums(S)), x, InOrder(Nums(S) \cup {x}))
    <3>1. Nums(S) \in SUBSET (1..Len(file)) /\ \A j \in Nums(S) : j < x
      OBVIOUS
    <3> QED BY <1>2, <3>1, OrderAppend
  <2> HIDE DEF Nums
  <2>3. MapOf(Value, InOrder(Nums(S) \cup {x}))
        = Append(MapOf(Value, InOrder(Nums(S))), Value[x])
    <3>1. InOrder(Nums(S)) \in Seq(1..Len(file))
          /\ InOrder(Nums(S) \cup {x}) \in Seq(1..Len(file))
      BY <1>1, <1>3, <2>1
    <3>2. /\ Longer(MapOf(Value, InOrder(Nums(S))), Value[x],
                    MapOf(Value, InOrder(Nums(S) \cup {x})))
          /\ MapOf(Value, InOrder(Nums(S))) \in Seq(Nat)
          /\ MapOf(Value, InOrder(Nums(S) \cup {x})) \in Seq(Nat)
      BY <1>2, <2>2, <3>1, MapAppend, MapType
    <3>3. Value[x] \in Nat
      BY <1>2, TextType
    <3> QED BY <3>2, <3>3, LongerIs
  <2> QED BY <1>1, <1>2, <1>3, <1>4, <1>6, <2>1, <2>2, <2>3, Zenon
<1>5. CASE file[x].t # "num"
  <2>1. Nums(S \cup {x}) = Nums(S)
    BY <1>5, Zenon
  <2> HIDE DEF Nums
  <2> QED BY <1>1, <1>3, <1>5, <1>6, <2>1, Zenon
<1> QED BY <1>4, <1>5

LEMMA EntriesStep ==
  ASSUME file \in Seq(Unit), NEW S \in SUBSET (1..Len(file)), NEW x \in 1..Len(file),
         \A j \in S : j < x
  PROVE  Entries(S \cup {x}) = Append(Entries(S), ParsedLine(Numbers(Part(x))))
<1> DEFINE h == [y \in 1..Len(file) |-> ParsedLine(Numbers(Part(y)))]
           V == {ParsedLine(Numbers(Part(y))) : y \in 1..Len(file)}
<1>1. ASSUME NEW P \in SUBSET (1..Len(file))
      PROVE  /\ InOrder(P) \in Seq(1..Len(file))
             /\ Entries(P) = MapOf(h, InOrder(P))
  <2>1. InOrder(P) \in Seq(1..Len(file))
    BY ShapeIs
  <2>2. \A k \in DOMAIN InOrder(P) : InOrder(P)[k] \in 1..Len(file)
    BY <2>1
  <2> QED BY <2>1, <2>2, Zenon DEF Entries, MapOf
<1>2. Len(file) \in Nat /\ Reads(h, Len(file), V) /\ h[x] = ParsedLine(Numbers(Part(x)))
  BY TextType DEF Reads
<1>3. S \cup {x} \in SUBSET (1..Len(file))
  OBVIOUS
<1>4. Longer(InOrder(S), x, InOrder(S \cup {x})) /\ Len(InOrder(S)) = Cardinality(S)
  <2>1. Longer(InOrder(S), x, InOrder(S \cup {x}))
    BY <1>2, OrderAppend
  <2>2. Len(InOrder(S)) = Cardinality(S)
    BY <1>2, OrderIs
  <2> QED BY <2>1, <2>2
<1> HIDE DEF h, V
<1>5. Entries(S \cup {x}) = Append(Entries(S), h[x]) /\ Entries(S) \in Seq(V)
      /\ Len(Entries(S)) = Len(InOrder(S))
  <2>1. /\ MapOf(h, InOrder(S)) \in Seq(V)
        /\ Len(MapOf(h, InOrder(S))) = Len(InOrder(S))
        /\ Longer(MapOf(h, InOrder(S)), h[x], MapOf(h, InOrder(S \cup {x})))
        /\ MapOf(h, InOrder(S \cup {x})) \in Seq(V)
    <3>1. InOrder(S) \in Seq(1..Len(file)) /\ InOrder(S \cup {x}) \in Seq(1..Len(file))
      BY <1>1, <1>3
    <3> QED BY <1>2, <1>4, <3>1, MapAppend, MapType
  <2>2. h[x] \in V
    BY <1>2 DEF Reads
  <2>3. MapOf(h, InOrder(S \cup {x})) = Append(MapOf(h, InOrder(S)), h[x])
    BY <2>1, <2>2, LongerIs
  <2> QED BY <1>1, <1>3, <1>4, <2>1, <2>3, Zenon
<1> QED BY <1>2, <1>5

LEMMA NoEntries ==
  ASSUME file \in Seq(Unit), NEW S \in SUBSET (1..Len(file))
  PROVE  Entries(S) = <<>> <=> S = {}
<1>1. Len(file) \in Nat
  BY TextType
<1>2. Cardinality(S) \in Nat /\ (Cardinality(S) = 0 <=> S = {})
      /\ DOMAIN InOrder(S) = 1..Cardinality(S)
  BY <1>1, PlacesFinite, FS_EmptySet, OrderIs
<1>3. DOMAIN Entries(S) = 1..Cardinality(S)
  BY <1>2, Zenon DEF Entries
<1>4. Entries(S) = [k \in 1..Cardinality(S) |-> Entries(S)[k]]
  BY <1>2, Zenon DEF Entries
<1>5. 1..Cardinality(S) = {} <=> Cardinality(S) = 0
  BY <1>2
<1>6. DOMAIN <<>> = {}
  OBVIOUS
<1>7. ASSUME S = {}
      PROVE  Entries(S) = <<>>
  <2>1. [k \in {} |-> Entries(S)[k]] = <<>>
    OBVIOUS
  <2>2. 1..Cardinality(S) = {}
    BY <1>2, <1>5, <1>7
  <2> QED BY <1>4, <2>1, <2>2, Zenon
<1>8. ASSUME Entries(S) = <<>>
      PROVE  S = {}
  BY <1>2, <1>3, <1>5, <1>6, <1>8
<1> QED BY <1>7, <1>8

-----------------------------------------------------------------------------
\* The parser, from the tokens read to what it has and what it waits for

LEMMA FormIs ==
  /\ PortLine \in Seq(Kinds) /\ ForwardLine \in Seq(Kinds) /\ <<"nl">> \in Seq(Kinds)
  /\ Len(PortLine) = 3 /\ Len(ForwardLine) = 13
  /\ \A f \in {PortLine, ForwardLine}, k \in Nat :
       k \in 1..Len(f) => (f[k] = "nl" <=> k = Len(f))
  /\ PortLine[1] = "port" /\ ForwardLine[1] = "forward"
  /\ \A f \in {PortLine, ForwardLine} : f # <<>> /\ Len(f) \in Nat /\ Len(f) # 1
<1>1. \A k \in 1..3 : k = 1 \/ k = 2 \/ k = 3
  OBVIOUS
<1>2. \A k \in 1..13 : k = 1 \/ k = 2 \/ k = 3 \/ k = 4 \/ k = 5 \/ k = 6 \/ k = 7 \/ k = 8
                       \/ k = 9 \/ k = 10 \/ k = 11 \/ k = 12 \/ k = 13
  OBVIOUS
<1>3. \A k \in 1..3 : PortLine[k] = "nl" <=> k = 3
  BY <1>1 DEF PortLine
<1>4. \A k \in 1..13 : ForwardLine[k] = "nl" <=> k = 13
  BY <1>2 DEF ForwardLine
<1>5. PortLine \in Seq(Kinds) /\ ForwardLine \in Seq(Kinds) /\ <<"nl">> \in Seq(Kinds)
  BY DEF PortLine, ForwardLine, Kinds
<1>6. Len(PortLine) = 3 /\ Len(ForwardLine) = 13
  BY DEF PortLine, ForwardLine
<1>7. PortLine[1] = "port" /\ ForwardLine[1] = "forward"
  BY DEF PortLine, ForwardLine
<1>8. \A f \in {PortLine, ForwardLine} : f # <<>> /\ Len(f) \in Nat /\ Len(f) # 1
  <2>1. PortLine # <<>> /\ Len(PortLine) \in Nat /\ Len(PortLine) # 1
    BY DEF PortLine
  <2>2. ForwardLine # <<>> /\ Len(ForwardLine) \in Nat /\ Len(ForwardLine) # 1
    BY DEF ForwardLine
  <2> QED BY <2>1, <2>2, Zenon
<1> QED BY <1>3, <1>4, <1>5, <1>6, <1>7, <1>8

\* When the tokens at the places S have been read, ex is what completes the line begun,
\* nu are its numbers, and li are the lines that have ended.
ParsedAs(S, ex, nu, li) ==
  /\ \A e \in Feeds(S) : Shape(Part(e)) \in Forms
  /\ ex \in Seq(Kinds)
  /\ ex = <<>> => Open(S) = {}
  /\ ex # <<>> => Open(S) # {} /\ nu = Numbers(Open(S))
  /\ ex # <<>> => \E f \in {PortLine, ForwardLine} :
       /\ Len(f) = Cardinality(Open(S)) + Len(ex)
       /\ \A k \in 1..Cardinality(Open(S)) : f[k] = Shape(Open(S))[k]
       /\ \A k \in 1..Len(ex) : f[Cardinality(Open(S)) + k] = ex[k]
  /\ li = Entries(Ends(S))

\* The line that x ends or goes on with.
LEMMA PartStep ==
  ASSUME file \in Seq(Unit), NEW x \in Significant
  PROVE  LET O == Open(UpTo(Significant, x - 1)) IN
         /\ x \in 1..Len(file) /\ O \in SUBSET (1..Len(file)) /\ \A j \in O : j < x
         /\ Cardinality(O) \in Nat /\ (Cardinality(O) = 0 <=> O = {})
         /\ Cardinality(Part(x)) = Cardinality(O) + 1
         /\ Shape(O) \in Seq(Kinds) /\ Len(Shape(O)) = Cardinality(O)
         /\ Shape(Part(x)) = Append(Shape(O), file[x].t)
         /\ Numbers(O) \in Seq(Nat)
         /\ Numbers(Part(x)) = IF file[x].t = "num" THEN Append(Numbers(O), file[x].v)
                               ELSE Numbers(O)
<1> DEFINE O == Open(UpTo(Significant, x - 1))
<1>1. Len(file) \in Nat /\ x \in 1..Len(file) /\ x - 1 \in Int
  BY TextType
<1>2. O \in SUBSET UpTo(Significant, x - 1)
  BY Zenon DEF Open
<1>3. O \in SUBSET (1..Len(file)) /\ \A j \in O : j < x
  BY <1>1, <1>2, TextType, TextStep
<1>4. Part(x) = O \cup {x}
  BY TextStep
<1> HIDE DEF O
<1>5. Cardinality(O) \in Nat /\ (Cardinality(O) = 0 <=> O = {})
  BY <1>1, <1>3, PlacesFinite, FS_EmptySet
<1>6. Cardinality(O \cup {x}) = Cardinality(O) + 1
  BY <1>1, <1>3, OrderAppend
<1>7. /\ Shape(O) \in Seq(Kinds) /\ Len(Shape(O)) = Cardinality(O)
      /\ Shape(O \cup {x}) = Append(Shape(O), file[x].t)
  BY <1>1, <1>3, ShapeStep
<1>8. /\ Numbers(O) \in Seq(Nat)
      /\ Numbers(O \cup {x}) =
           IF file[x].t = "num" THEN Append(Numbers(O), file[x].v) ELSE Numbers(O)
  BY <1>1, <1>3, NumbersStep
<1> QED BY <1>1, <1>3, <1>4, <1>5, <1>6, <1>7, <1>8 DEF O

LEMMA EndsStep ==
  ASSUME file \in Seq(Unit), NEW x \in Significant
  PROVE  LET S == UpTo(Significant, x - 1)
             T == UpTo(Significant, x)
         IN  /\ Ends(S) \in SUBSET (1..Len(file)) /\ \A j \in Ends(S) : j < x
             /\ file[x].t # "nl" => Ends(T) = Ends(S)
             /\ file[x].t = "nl" /\ Open(S) = {} => Ends(T) = Ends(S)
             /\ file[x].t = "nl" /\ Open(S) # {} => Ends(T) = Ends(S) \cup {x}
<1> DEFINE S == UpTo(Significant, x - 1)
           T == UpTo(Significant, x)
<1>1. /\ \A j \in S : j < x
      /\ file[x].t = "nl" => Feeds(T) = Feeds(S) \cup {x}
      /\ file[x].t # "nl" => Feeds(T) = Feeds(S)
  BY TextStep
<1>2. S \in SUBSET (1..Len(file))
  <2>1. x - 1 \in Int
    BY TextType
  <2> QED BY <2>1, TextType
<1>3. /\ Cardinality(Open(S)) \in Nat /\ (Cardinality(Open(S)) = 0 <=> Open(S) = {})
      /\ Cardinality(Part(x)) = Cardinality(Open(S)) + 1
  BY PartStep
<1>4. Cardinality(Part(x)) > 1 <=> Open(S) # {}
  BY <1>3
<1> HIDE DEF S, T
<1>5. Ends(S) \in SUBSET S
  BY Zenon DEF Ends, Feeds
<1>6. Ends(T) = {e \in Feeds(T) : Cardinality(Part(e)) > 1}
      /\ Ends(S) = {e \in Feeds(S) : Cardinality(Part(e)) > 1}
  BY DEF Ends
<1>7. /\ file[x].t # "nl" => Ends(T) = Ends(S)
      /\ file[x].t = "nl" /\ Open(S) = {} => Ends(T) = Ends(S)
      /\ file[x].t = "nl" /\ Open(S) # {} => Ends(T) = Ends(S) \cup {x}
  BY <1>1, <1>4, <1>6, Zenon
<1>8. Ends(S) \in SUBSET (1..Len(file)) /\ \A j \in Ends(S) : j < x
  BY <1>1, <1>2, <1>5, Zenon
<1> QED BY <1>7, <1>8 DEF S, T

LEMMA TailIs ==
  ASSUME NEW K, NEW s \in Seq(K), s # <<>>
  PROVE  /\ Tail(s) \in Seq(K) /\ Head(s) = s[1] /\ Len(s) \in Nat /\ Len(s) # 0
         /\ Len(Tail(s)) = Len(s) - 1
         /\ \A k \in 1..(Len(s) - 1) : Tail(s)[k] = s[k + 1]
         /\ (Tail(s) = <<>> <=> Len(s) = 1)
<1>1. PICK m \in Nat : m = Len(s) /\ m # 0
  OBVIOUS
<1> DEFINE t == Tail(s)
<1>2. t \in Seq(K) /\ Len(t) = m - 1 /\ Head(s) = s[1]
      /\ \A k \in 1..(m - 1) : t[k] = s[k + 1]
  BY <1>1
<1> HIDE DEF t
<1>3. t = <<>> <=> Len(t) = 0
  BY <1>2
<1>4. t = <<>> <=> m = 1
  BY <1>1, <1>2, <1>3
<1> QED BY <1>1, <1>2, <1>4 DEF t

\* A line begins (configParseLine).
LEMMA BeginsLine ==
  ASSUME file \in Seq(Unit), NEW x \in Significant, NEW nu, NEW li,
         ParsedAs(UpTo(Significant, x - 1), <<>>, nu, li),
         NEW f \in {PortLine, ForwardLine}, file[x].t = f[1]
  PROVE  ParsedAs(UpTo(Significant, x), Tail(f), <<>>, li)
<1> DEFINE S == UpTo(Significant, x - 1)
           T == UpTo(Significant, x)
           O == Open(S)
<1>1. file[x].t # "nl" /\ file[x].t # "num"
  BY FormIs
<1>2. O = {} /\ (\A e \in Feeds(S) : Shape(Part(e)) \in Forms) /\ li = Entries(Ends(S))
  BY DEF ParsedAs
<1>3. /\ Feeds(T) = Feeds(S) /\ Part(x) = O \cup {x} /\ Open(T) = O \cup {x}
      /\ Ends(T) = Ends(S)
  BY <1>1, TextStep, EndsStep
<1>4. /\ Cardinality(Part(x)) = Cardinality(O) + 1 /\ Cardinality(O) = 0
      /\ Shape(O) \in Seq(Kinds) /\ Len(Shape(O)) = Cardinality(O)
      /\ Shape(Part(x)) = Append(Shape(O), file[x].t)
      /\ Numbers(Part(x)) = Numbers(O)
  BY <1>1, <1>2, PartStep
<1>5. Numbers(O) = <<>>
  <2> DEFINE N == {j \in O : file[j].t = "num"}
  <2>1. N = {}
    BY <1>2
  <2>2. DOMAIN Numbers(O) = DOMAIN InOrder(N)
    BY Zenon DEF Numbers
  <2>3. DOMAIN InOrder({}) = {}
    BY OrderEmpty
  <2>4. Numbers(O) \in Seq(Nat)
    BY PartStep
  <2> HIDE DEF N, O
  <2> QED BY <2>1, <2>2, <2>3, <2>4
<1>6. Tail(f) \in Seq(Kinds) /\ Len(f) = 1 + Len(Tail(f))
      /\ (\A k \in 1..Len(Tail(f)) : f[1 + k] = Tail(f)[k]) /\ Tail(f) # <<>>
  <2>1. f \in Seq(Kinds) /\ f # <<>> /\ Len(f) \in Nat /\ Len(f) # 1
    BY FormIs
  <2> QED BY <2>1, TailIs
<1> HIDE DEF S, T, O
<1>7. Shape(Part(x))[1] = f[1]
  BY <1>4
<1>8. \A k \in 1..1 : k = 1
  OBVIOUS
<1>9. Open(T) # {} /\ Open(T) = Part(x) /\ Cardinality(Open(T)) = 1
  BY <1>3, <1>4
<1> QED BY <1>2, <1>3, <1>4, <1>5, <1>6, <1>7, <1>8, <1>9 DEF ParsedAs, S, T, O

\* A line without tokens (parse.c:133-135).
LEMMA SkipsBlank ==
  ASSUME file \in Seq(Unit), NEW x \in Significant, NEW nu, NEW li,
         ParsedAs(UpTo(Significant, x - 1), <<>>, nu, li), file[x].t = "nl"
  PROVE  ParsedAs(UpTo(Significant, x), <<>>, nu, li)
<1> DEFINE S == UpTo(Significant, x - 1)
           T == UpTo(Significant, x)
<1>1. /\ Open(S) = {} /\ (\A e \in Feeds(S) : Shape(Part(e)) \in Forms)
      /\ li = Entries(Ends(S)) /\ <<>> \in Seq(Kinds)
  BY DEF ParsedAs
<1>2. Feeds(T) = Feeds(S) \cup {x} /\ Open(T) = {} /\ Ends(T) = Ends(S)
  BY <1>1, TextStep, EndsStep
<1>3. Shape(Part(x)) = Append(Shape(Open(S)), "nl")
  BY PartStep
<1>4. Shape(Open(S)) = <<>>
  <2>1. Shape(Open(S)) \in Seq(Kinds) /\ Len(Shape(Open(S))) = 0
    BY <1>1, PartStep
  <2> QED BY <2>1
<1>5. Shape(Part(x)) = <<"nl">>
  <2>1. Append(<<>>, "nl") = <<"nl">>
    OBVIOUS
  <2> QED BY <1>3, <1>4, <2>1, Zenon
<1> HIDE DEF S, T
<1> QED BY <1>1, <1>2, <1>5 DEF ParsedAs, S, T, Forms

\* A token that the line begun waits for (parse.c:60-168).
LEMMA GoesOn ==
  ASSUME file \in Seq(Unit), NEW x \in Significant, NEW ex, NEW nu, NEW li,
         ParsedAs(UpTo(Significant, x - 1), ex, nu, li), ex # <<>>, file[x].t = Head(ex)
  PROVE  ParsedAs(UpTo(Significant, x), Tail(ex),
                  IF file[x].t = "num" THEN Append(nu, file[x].v) ELSE nu,
                  IF Len(ex) = 1 THEN Append(li, ParsedLine(nu)) ELSE li)
<1> DEFINE S == UpTo(Significant, x - 1)
           T == UpTo(Significant, x)
           O == Open(S)
           P == Part(x)
           nu2 == IF file[x].t = "num" THEN Append(nu, file[x].v) ELSE nu
           li2 == IF Len(ex) = 1 THEN Append(li, ParsedLine(nu)) ELSE li
<1>1. /\ O # {} /\ (\A e \in Feeds(S) : Shape(Part(e)) \in Forms) /\ li = Entries(Ends(S))
      /\ nu = Numbers(O) /\ ex \in Seq(Kinds)
  BY DEF ParsedAs
<1>2. PICK f \in {PortLine, ForwardLine} :
        /\ Len(f) = Cardinality(O) + Len(ex)
        /\ \A k \in 1..Cardinality(O) : f[k] = Shape(O)[k]
        /\ \A k \in 1..Len(ex) : f[Cardinality(O) + k] = ex[k]
  BY DEF ParsedAs
<1>3. /\ Cardinality(O) \in Nat /\ Cardinality(O) # 0 /\ Cardinality(P) = Cardinality(O) + 1
      /\ Shape(O) \in Seq(Kinds) /\ Len(Shape(O)) = Cardinality(O)
      /\ Shape(P) = Append(Shape(O), file[x].t)
      /\ Numbers(P) = nu2
  BY <1>1, PartStep
<1>4. PICK c \in Nat : c = Cardinality(O) /\ c # 0
  BY <1>3
<1>5. PICK m \in Nat : m = Len(ex) /\ m # 0 /\ Head(ex) = ex[1]
  BY <1>1, TailIs
<1>6. Len(f) = c + m /\ f \in Seq(Kinds) /\ f[c + 1] = file[x].t
  <2>1. 1 \in 1..m
    BY <1>5
  <2> QED BY <1>2, <1>4, <1>5, <2>1, FormIs
<1>7. /\ Tail(ex) \in Seq(Kinds) /\ Len(Tail(ex)) = m - 1
      /\ \A k \in 1..(m - 1) : Tail(ex)[k] = ex[k + 1]
      /\ (Tail(ex) = <<>> <=> m = 1)
  BY <1>1, <1>5, TailIs
<1>8. /\ Shape(P) \in Seq(Kinds) /\ Len(Shape(P)) = c + 1 /\ Shape(P)[c + 1] = file[x].t
      /\ \A k \in 1..c : Shape(P)[k] = Shape(O)[k]
  <2>1. file[x].t \in Kinds
    BY PartStep, TextType
  <2> QED BY <1>3, <1>4, <2>1
<1>9. \A k \in 1..(c + 1) : f[k] = Shape(P)[k]
  <2>1. \A k \in 1..(c + 1) : k = c + 1 \/ k \in 1..c
    BY <1>4
  <2> QED BY <1>2, <1>4, <1>6, <1>8, <2>1
<1>10. file[x].t = "nl" <=> m = 1
  <2>1. c + 1 \in 1..Len(f) /\ c + 1 \in Nat
    BY <1>6, <1>4, <1>5
  <2>2. f[c + 1] = "nl" <=> c + 1 = Len(f)
    BY <2>1, FormIs
  <2> QED BY <1>6, <2>2
<1> HIDE DEF S, T, O, P, nu2, li2
<1>11. CASE m = 1
  <2>1. Feeds(T) = Feeds(S) \cup {x} /\ Open(T) = {}
    BY <1>10, <1>11, TextStep DEF S, T
  <2>2. /\ Ends(T) = Ends(S) \cup {x}
        /\ Ends(S) \in SUBSET (1..Len(file)) /\ \A j \in Ends(S) : j < x
    BY <1>1, <1>10, <1>11, EndsStep DEF S, T, O
  <2>3. Numbers(P) = nu
    BY <1>3, <1>10, <1>11 DEF nu2
  <2>4. Entries(Ends(T)) = Append(Entries(Ends(S)), ParsedLine(Numbers(Part(x))))
    BY <2>2, EntriesStep, PartStep
  <2>5. li2 = Entries(Ends(T))
    BY <1>1, <1>5, <1>11, <2>3, <2>4 DEF li2, P
  <2>6. Shape(P) = f
    BY <1>6, <1>8, <1>9, <1>11, SameSeq
  <2>7. Shape(P) \in Forms
    BY <2>6 DEF Forms
  <2>8. \A e \in Feeds(T) : Shape(Part(e)) \in Forms
    BY <1>1, <2>1, <2>7 DEF P
  <2>9. ParsedAs(T, Tail(ex), nu2, li2)
    BY <1>7, <1>11, <2>1, <2>5, <2>8, Zenon DEF ParsedAs
  <2> QED BY <2>9 DEF T, nu2, li2
<1>12. CASE m # 1
  <2>1. /\ Feeds(T) = Feeds(S) /\ Open(T) = P
    BY <1>10, <1>12, TextStep DEF S, T, O, P
  <2>2. Ends(T) = Ends(S)
    BY <1>10, <1>12, EndsStep DEF S, T
  <2>3. li2 = Entries(Ends(T))
    BY <1>1, <1>5, <1>12, <2>2 DEF li2
  <2>4. Open(T) # {} /\ nu2 = Numbers(Open(T)) /\ Cardinality(Open(T)) = c + 1
    <3>1. x \in P
      BY TextStep DEF P
    <3> QED BY <1>3, <1>4, <2>1, <3>1
  <2>5. Len(f) = (c + 1) + Len(Tail(ex))
    BY <1>5, <1>6, <1>7, <1>12
  <2>6. \A k \in 1..Len(Tail(ex)) : f[(c + 1) + k] = Tail(ex)[k]
    <3>1. \A k \in 1..(m - 1) : k + 1 \in 1..m /\ c + (k + 1) = (c + 1) + k
      BY <1>4, <1>5
    <3>2. \A k \in 1..m : f[c + k] = ex[k]
      BY <1>2, <1>4, <1>5
    <3> QED BY <1>7, <3>1, <3>2
  <2>7. \A k \in 1..(c + 1) : f[k] = Shape(Open(T))[k]
    BY <1>9, <2>1
  <2>8. \A e \in Feeds(T) : Shape(Part(e)) \in Forms
    BY <1>1, <2>1
  <2>9. ParsedAs(T, Tail(ex), nu2, li2)
    BY <1>7, <1>12, <2>3, <2>4, <2>5, <2>6, <2>7, <2>8, Zenon DEF ParsedAs
  <2> QED BY <2>9 DEF T, nu2, li2
<1> QED BY <1>11, <1>12

\* What comes later leaves the beginning of a line alone.
LEMMA LineBegins ==
  ASSUME file \in Seq(Unit), NEW x \in Significant, NEW e \in Feeds(Significant), x \in Part(e)
  PROVE  /\ Shape(Part(e)) \in Seq(Kinds) /\ Cardinality(Part(x)) <= Len(Shape(Part(e)))
         /\ \A k \in 1..Cardinality(Part(x)) : Shape(Part(e))[k] = Shape(Part(x))[k]
<1>1. Len(file) \in Nat /\ x \in Int /\ e \in Significant /\ Significant \in SUBSET Int
      /\ Part(e) \in SUBSET (1..Len(file)) /\ Part(x) \in SUBSET (1..Len(file))
  BY TextType DEF Feeds
<1>2. x <= e /\ \A f \in Feeds(Significant) : f \in x..e => f = e
  BY DEF Part
<1>3. \A f \in Feeds(Significant) : f \in Significant /\ f \in Int
  BY <1>1 DEF Feeds
<1>4. UpTo(Part(e), x) = Part(x)
  <2>1. ASSUME NEW y \in Significant, y <= x, y <= e,
               \A f \in Feeds(Significant) : f \in y..e => f = e
        PROVE  \A f \in Feeds(Significant) : f \in y..x => f = x
    <3>1. TAKE f \in Feeds(Significant)
    <3>2. y \in Int /\ f \in Int
      BY <1>1, <1>3
    <3> QED BY <1>1, <1>2, <2>1, <3>2
  <2>2. ASSUME NEW y \in Significant, y <= x,
               \A f \in Feeds(Significant) : f \in y..x => f = x
        PROVE  y <= e /\ \A f \in Feeds(Significant) : f \in y..e => f = e
    <3>1. y \in Int
      BY <1>1
    <3>2. y <= e
      BY <1>1, <1>2, <2>2, <3>1
    <3>3. ASSUME NEW f \in Feeds(Significant), f \in y..e
          PROVE  f = e
      <4>1. f \in Int
        BY <1>3
      <4>2. CASE f <= x
        <5>1. f = x
          BY <1>1, <2>2, <3>1, <3>3, <4>1, <4>2
        <5>2. x \in x..e
          BY <1>1, <1>2
        <5> QED BY <1>2, <5>1, <5>2
      <4>3. CASE ~ (f <= x)
        <5>1. f \in x..e
          BY <1>1, <3>1, <3>3, <4>1, <4>3
        <5> QED BY <1>2, <5>1
      <4> QED BY <4>2, <4>3
    <3> QED BY <3>2, <3>3
  <2>3. \A y : y \in UpTo(Part(e), x) <=>
          /\ y \in Significant /\ y <= e /\ y <= x
          /\ \A f \in Feeds(Significant) : f \in y..e => f = e
    BY Zenon DEF UpTo, Part
  <2>4. \A y : y \in Part(x) <=>
          /\ y \in Significant /\ y <= x
          /\ \A f \in Feeds(Significant) : f \in y..x => f = x
    BY Zenon DEF Part
  <2>5. \A y : y \in UpTo(Part(e), x) => y \in Part(x)
    BY <2>1, <2>3, <2>4, Zenon
  <2>6. \A y : y \in Part(x) => y \in UpTo(Part(e), x)
    BY <2>2, <2>3, <2>4, Zenon
  <2> QED BY <2>5, <2>6
<1>5. /\ Cardinality(Part(x)) <= Cardinality(Part(e))
      /\ \A k \in 1..Cardinality(Part(x)) : InOrder(Part(e))[k] = InOrder(Part(x))[k]
  <2>1. /\ Cardinality(UpTo(Part(e), x)) <= Cardinality(Part(e))
        /\ \A k \in 1..Cardinality(UpTo(Part(e), x)) :
             InOrder(Part(e))[k] = InOrder(UpTo(Part(e), x))[k]
    BY <1>1, OrderPrefix
  <2> QED BY <1>4, <2>1, Zenon
<1>6. ASSUME NEW P \in SUBSET (1..Len(file))
      PROVE  /\ Shape(P) \in Seq(Kinds) /\ Len(Shape(P)) = Cardinality(P)
             /\ Cardinality(P) \in Nat
             /\ \A k \in 1..Cardinality(P) : Shape(P)[k] = Kind[InOrder(P)[k]]
  <2>1. Cardinality(P) \in Nat /\ Len(InOrder(P)) = Cardinality(P)
        /\ DOMAIN InOrder(P) = 1..Cardinality(P)
    BY <1>1, PlacesFinite, OrderIs
  <2>2. /\ Shape(P) = MapOf(Kind, InOrder(P)) /\ Reads(Kind, Len(file), Kinds)
        /\ InOrder(P) \in Seq(1..Len(file))
    BY ShapeIs
  <2>3. MapOf(Kind, InOrder(P)) \in Seq(Kinds)
        /\ Len(MapOf(Kind, InOrder(P))) = Len(InOrder(P))
    BY <1>1, <2>2, MapType
  <2>4. \A k \in 1..Cardinality(P) : MapOf(Kind, InOrder(P))[k] = Kind[InOrder(P)[k]]
    BY <2>1, Zenon DEF MapOf
  <2> QED BY <2>1, <2>2, <2>3, <2>4, Zenon
<1>7. /\ Shape(Part(e)) \in Seq(Kinds) /\ Len(Shape(Part(e))) = Cardinality(Part(e))
      /\ Cardinality(Part(e)) \in Nat /\ Cardinality(Part(x)) \in Nat
      /\ \A k \in 1..Cardinality(Part(e)) : Shape(Part(e))[k] = Kind[InOrder(Part(e))[k]]
      /\ \A k \in 1..Cardinality(Part(x)) : Shape(Part(x))[k] = Kind[InOrder(Part(x))[k]]
  BY <1>1, <1>6
<1>8. \A k \in 1..Cardinality(Part(x)) : k \in 1..Cardinality(Part(e))
  BY <1>5, <1>7
<1> QED BY <1>5, <1>7, <1>8

\* No line goes on with a token that the parser does not wait for (configParseError).
LEMMA RefusesRightly ==
  ASSUME file \in Seq(Unit), NEW x \in Significant, NEW ex, NEW nu, NEW li,
         ParsedAs(UpTo(Significant, x - 1), ex, nu, li),
         file[x].t \notin (IF ex = <<>> THEN {"port", "forward", "nl"} ELSE {Head(ex)})
  PROVE  ~ Grammatical
<1> SUFFICES ASSUME Grammatical
             PROVE  FALSE
  OBVIOUS
<1> DEFINE O == Open(UpTo(Significant, x - 1))
<1>1. PICK e \in Feeds(Significant) : x \in Part(e)
  BY DEF Grammatical
<1> DEFINE g == Shape(Part(e))
<1>2. g \in Forms
  BY DEF Grammatical, Forms
<1>3. /\ Cardinality(O) \in Nat /\ (Cardinality(O) = 0 <=> O = {})
      /\ Cardinality(Part(x)) = Cardinality(O) + 1
      /\ Shape(O) \in Seq(Kinds) /\ Len(Shape(O)) = Cardinality(O)
      /\ Shape(Part(x)) = Append(Shape(O), file[x].t)
  BY PartStep
<1>4. PICK c \in Nat : c = Cardinality(O)
  BY <1>3
<1>5. /\ Shape(Part(x))[c + 1] = file[x].t
      /\ \A k \in 1..c : Shape(Part(x))[k] = Shape(O)[k]
  BY <1>3, <1>4
<1>6. g \in Seq(Kinds) /\ c + 1 <= Len(g) /\ \A k \in 1..(c + 1) : g[k] = Shape(Part(x))[k]
  BY <1>1, <1>3, <1>4, LineBegins
<1>7. g[c + 1] = file[x].t /\ \A k \in 1..c : g[k] = Shape(O)[k]
  <2>1. c + 1 \in 1..(c + 1) /\ \A k \in 1..c : k \in 1..(c + 1)
    OBVIOUS
  <2> QED BY <1>5, <1>6, <2>1
<1> HIDE DEF g, O
<1>8. \A h \in Forms : h[1] \in {"port", "forward", "nl"}
  BY FormIs DEF Forms
<1>9. CASE ex = <<>>
  <2>1. c = 0
    BY <1>3, <1>4, <1>9 DEF ParsedAs, O
  <2> QED BY <1>2, <1>7, <1>8, <1>9, <2>1
<1>10. CASE ex # <<>>
  <2>1. PICK f \in {PortLine, ForwardLine} :
          /\ Len(f) = Cardinality(O) + Len(ex)
          /\ \A k \in 1..Cardinality(O) : f[k] = Shape(O)[k]
          /\ \A k \in 1..Len(ex) : f[Cardinality(O) + k] = ex[k]
    BY <1>10, Zenon DEF ParsedAs, O
  <2>2. c # 0 /\ ex \in Seq(Kinds)
    BY <1>3, <1>4, <1>10 DEF ParsedAs, O
  <2>3. Head(ex) = ex[1] /\ 1 \in 1..Len(ex)
    BY <1>10, <2>2, TailIs
  <2>4. f[c + 1] = Head(ex) /\ f[1] = g[1]
    <3>1. 1 \in 1..c
      BY <2>2
    <3> QED BY <1>4, <1>7, <2>1, <2>3, <3>1
  <2>5. g = f
    BY <1>2, <2>4, FormIs DEF Forms
  <2> QED BY <1>7, <1>10, <2>4, <2>5
<1> QED BY <1>9, <1>10

\* At the end of the file (configParseS, config.c:15-16).
LEMMA EndsRightly ==
  ASSUME file \in Seq(Unit), NEW ex, NEW nu, NEW li, ParsedAs(Significant, ex, nu, li)
  PROVE  /\ ex = <<>> <=> Grammatical
         /\ li # <<>> <=> Ends(Significant) # {}
         /\ li = Entries(Ends(Significant))
<1>1. Len(file) \in Nat /\ Significant \in SUBSET (1..Len(file))
  BY TextType
<1>2. li = Entries(Ends(Significant))
      /\ \A e \in Feeds(Significant) : Shape(Part(e)) \in Forms
  BY DEF ParsedAs
<1>3. \A f \in Feeds(Significant) : f \in Significant /\ f \in Int
  BY <1>1 DEF Feeds
<1>4. ASSUME ex # <<>>, Grammatical
      PROVE  FALSE
  <2>1. PICK y \in Open(Significant) : TRUE
    BY <1>4 DEF ParsedAs
  <2>2. y \in Significant /\ \A f \in Feeds(Significant) : f < y
    BY Zenon DEF Open
  <2>3. PICK e \in Feeds(Significant) : y \in Part(e)
    BY <1>4, <2>2 DEF Grammatical
  <2>4. y <= e
    BY <2>3 DEF Part
  <2>5. y \in Int /\ e \in Int /\ e < y
    BY <1>1, <1>3, <2>2
  <2> QED BY <2>4, <2>5
<1>5. ASSUME ex = <<>>
      PROVE  Grammatical
  <2>1. \A y \in Significant : \E f \in Feeds(Significant) : ~ (f < y)
    BY <1>5, Zenon DEF ParsedAs, Open
  <2>2. ASSUME NEW y \in Significant
        PROVE  \E e \in Feeds(Significant) : y \in Part(e)
    <3> DEFINE F == {f \in Feeds(Significant) : ~ (f < y)}
    <3>1. y \in Int
      BY <1>1
    <3>2. F \in SUBSET Nat /\ F # {}
      BY <1>1, <1>3, <2>1
    <3>3. PICK e \in F : \A f \in F : e <= f
      BY <3>2, FirstPlace
    <3>4. e \in Feeds(Significant) /\ e \in Int /\ y <= e
      BY <1>3, <3>1
    <3>5. \A f \in Feeds(Significant) : f \in y..e => f = e
      <4>1. TAKE f \in Feeds(Significant)
      <4>2. f \in Int
        BY <1>3
      <4>3. ~ (f < y) => e <= f
        BY <3>3
      <4> QED BY <3>1, <3>4, <4>2, <4>3
    <3> QED BY <3>4, <3>5 DEF Part
  <2> QED BY <1>2, <2>2 DEF Grammatical, Forms
<1>6. li # <<>> <=> Ends(Significant) # {}
  <2>1. CASE Significant = {}
    <3>1. Ends(Significant) = {}
      BY <2>1 DEF Ends, Feeds
    <3> QED BY <1>2, <3>1, NoEntries
  <2>2. Ends(Significant) \in SUBSET (1..Len(file))
    BY <1>1, <1>3 DEF Ends
  <2> QED BY <1>2, <2>2, NoEntries
<1> QED BY <1>2, <1>4, <1>5, <1>6

-----------------------------------------------------------------------------
\* The scanner

Base == Len(file) - Len(rest) - Len(line)
Reached == Base + pos - 1

\* The line buffer and what has not been read are the end of the file.
Scanned ==
  /\ file \in Seq(Unit) /\ rest \in Seq(Unit) /\ line \in Seq(Unit)
  /\ pos \in 1..(Len(line) + 1) /\ Base \in Nat
  /\ \A k \in 1..Len(line) : line[k] = file[Base + k]
  /\ \A k \in 1..Len(rest) : rest[k] = file[Base + Len(line) + k]

\* The line buffer holds a line of the file, and no comment begins in what was read of it.
WholeLine ==
  /\ Base # 0 => file[Base].t = "nl"
  /\ \A k \in 1..(Len(line) - 1) : line[k].t # "nl"
  /\ rest # <<>> /\ Base + Len(line) # 0 => file[Base + Len(line)].t = "nl"
  /\ \A k \in 1..(pos - 1) : ~ IsComment(file, Base + k)

LEMMA Sizes ==
  ASSUME Scanned
  PROVE  \E b, n, r \in Nat :
           b = Base /\ n = Len(line) /\ r = Len(rest) /\ Len(file) = b + n + r
<1>1. PICK n \in Nat : n = Len(line)
  BY DEF Scanned
<1>2. PICK r \in Nat : r = Len(rest)
  BY DEF Scanned
<1>3. PICK l \in Nat : l = Len(file)
  BY DEF Scanned
<1>4. Base = l - r - n /\ Base \in Nat
  BY <1>1, <1>2, <1>3 DEF Scanned, Base
<1>5. l = Base + n + r
  BY <1>4
<1> QED BY <1>1, <1>2, <1>3, <1>4, <1>5

\* configScanSkip stops at the first place that is not a space.
LEMMA SkipIs ==
  ASSUME Scanned
  PROVE  \E p \in pos..(Len(line) + 1) :
           /\ ~ Is(line, p, "space") /\ \A q \in pos..(p - 1) : Is(line, q, "space")
           /\ configScanSkip = IF IsComment(line, p) THEN Len(line) + 1 ELSE p
<1>1. PICK n \in Nat : n = Len(line) /\ DOMAIN line = 1..n /\ pos \in 1..(n + 1)
  BY DEF Scanned
<1> DEFINE T == {p \in pos..(n + 1) : ~ Is(line, p, "space")}
           C(p) == ~ Is(line, p, "space") /\ \A q \in pos..(p - 1) : Is(line, q, "space")
<1>2. n + 1 \in T
  BY <1>1 DEF Is
<1>3. PICK m \in T : \A p \in T : m <= p
  <2>1. T \in SUBSET Nat
    BY <1>1
  <2> QED BY <1>2, <2>1, FirstPlace
<1>4. C(m)
  BY <1>1, <1>3
<1> DEFINE p == CHOOSE p \in pos..(Len(line) + 1) : C(p)
<1>5. p \in pos..(Len(line) + 1) /\ C(p)
  BY <1>1, <1>3, <1>4
<1>6. configScanSkip = IF IsComment(line, p) THEN Len(line) + 1 ELSE p
  BY Zenon DEF configScanSkip
<1> HIDE DEF p
<1> QED BY <1>5, <1>6

\* The buffer and the file agree on what is a comment.
LEMMA SameComments ==
  ASSUME Scanned, WholeLine, NEW k \in 1..Len(line)
  PROVE  IsComment(line, k) <=> IsComment(file, Base + k)
<1>1. PICK b \in Nat, n \in Nat, r \in Nat :
        b = Base /\ n = Len(line) /\ r = Len(rest) /\ Len(file) = b + n + r
  BY Sizes
<1>2. DOMAIN line = 1..n /\ DOMAIN file = 1..(b + n + r) /\ k \in 1..n /\ DOMAIN rest = 1..r
  BY <1>1 DEF Scanned
<1>3. \A q \in 1..n : line[q] = file[b + q] /\ b + q \in DOMAIN file
  BY <1>1, <1>2 DEF Scanned
<1>4. Is(line, k, "slash") <=> Is(file, b + k, "slash")
  BY <1>2, <1>3 DEF Is
<1>5. CASE k < n
  <2>1. k + 1 \in 1..n /\ b + (k + 1) = (b + k) + 1
    BY <1>1, <1>2, <1>5
  <2>2. Is(line, k + 1, "slash") <=> Is(file, (b + k) + 1, "slash")
    BY <1>2, <1>3, <2>1 DEF Is
  <2> QED BY <1>1, <1>4, <2>2 DEF IsComment
<1>6. CASE k = n
  <2>1. ~ Is(line, k + 1, "slash")
    BY <1>2, <1>6 DEF Is
  <2>2. CASE r = 0
    <3>1. ~ Is(file, (b + k) + 1, "slash")
      BY <1>2, <1>6, <2>2 DEF Is
    <3> QED BY <1>1, <2>1, <3>1 DEF IsComment
  <2>3. CASE r # 0
    <3>1. rest # <<>> /\ Base + Len(line) # 0
      BY <1>1, <1>2, <1>6, <2>3
    <3>2. file[b + n].t = "nl"
      BY <1>1, <3>1 DEF WholeLine
    <3>3. ~ Is(file, b + k, "slash")
      BY <1>6, <3>2 DEF Is
    <3> QED BY <1>1, <2>1, <3>3 DEF IsComment
  <2> QED BY <2>2, <2>3
<1> QED BY <1>2, <1>5, <1>6

\* What is commented out on the line in the buffer.
LEMMA CommentedOnLine ==
  ASSUME Scanned, WholeLine, NEW k \in 1..Len(line)
  PROVE  Commented(Base + k) <=> \E c \in 1..k : IsComment(file, Base + c)
<1>1. PICK b \in Nat, n \in Nat, r \in Nat :
        b = Base /\ n = Len(line) /\ r = Len(rest) /\ Len(file) = b + n + r
  BY Sizes
<1>2. DOMAIN line = 1..n /\ DOMAIN file = 1..(b + n + r) /\ k \in 1..n
  BY <1>1 DEF Scanned
<1>3. \A q \in 1..n : line[q] = file[b + q] /\ b + q \in DOMAIN file
  BY <1>1, <1>2 DEF Scanned
<1>4. \A q \in 1..(n - 1) : ~ Is(file, b + q, "nl")
  <2>1. \A q \in 1..(n - 1) : q \in 1..n /\ line[q].t # "nl"
    BY <1>1 DEF WholeLine
  <2> QED BY <1>3, <2>1 DEF Is
<1>5. b # 0 => Is(file, b, "nl")
  BY <1>1, <1>2 DEF WholeLine, Is
<1>6. ASSUME NEW c \in 1..k, IsComment(file, b + c)
      PROVE  Commented(b + k)
  <2>1. \A q \in (b + c)..(b + k - 1) : ~ Is(file, q, "nl")
    <3>1. TAKE q \in (b + c)..(b + k - 1)
    <3>2. q - b \in 1..(n - 1) /\ b + (q - b) = q
      BY <1>2
    <3> QED BY <1>4, <3>2
  <2>2. b + c \in 1..(b + k)
    BY <1>2
  <2> QED BY <1>6, <2>1, <2>2 DEF Commented
<1>7. ASSUME Commented(b + k)
      PROVE  \E d \in 1..k : IsComment(file, b + d)
  <2>0. PICK c \in 1..(b + k) :
          IsComment(file, c) /\ \A q \in c..(b + k - 1) : ~ Is(file, q, "nl")
    BY <1>7 DEF Commented
  <2>1. c > b
    <3>1. SUFFICES ASSUME c <= b
                   PROVE  FALSE
      BY <1>1
    <3>2. b \in c..(b + k - 1) /\ b # 0
      BY <1>2, <3>1
    <3> QED BY <1>5, <2>0, <3>2
  <2>2. c - b \in 1..k /\ b + (c - b) = c
    BY <1>2, <2>1
  <2> QED BY <2>0, <2>2
<1> QED BY <1>1, <1>6, <1>7

\* The token that comes next is significant, and nothing before it is.
LEMMA TokenIs ==
  ASSUME Scanned, WholeLine, ~ configScanEOL
  PROVE  /\ configScanSkip \in pos..Len(line)
         /\ Base + configScanSkip \in Significant
         /\ line[configScanSkip] = file[Base + configScanSkip]
         /\ UpTo(Significant, Reached) = UpTo(Significant, (Base + configScanSkip) - 1)
         /\ \A k \in 1..configScanSkip : ~ IsComment(file, Base + k)
<1>1. PICK b \in Nat, n \in Nat, r \in Nat :
        b = Base /\ n = Len(line) /\ r = Len(rest) /\ Len(file) = b + n + r
  BY Sizes
<1>2. DOMAIN line = 1..n /\ DOMAIN file = 1..(b + n + r) /\ pos \in 1..(n + 1)
  BY <1>1 DEF Scanned
<1>3. \A q \in 1..n : line[q] = file[b + q] /\ b + q \in DOMAIN file
  BY <1>1, <1>2 DEF Scanned
<1>4. PICK p \in pos..(Len(line) + 1) :
        /\ ~ Is(line, p, "space") /\ \A q \in pos..(p - 1) : Is(line, q, "space")
        /\ configScanSkip = IF IsComment(line, p) THEN Len(line) + 1 ELSE p
  BY SkipIs
<1>5. p \in pos..n /\ p \in 1..n /\ configScanSkip = p /\ ~ IsComment(line, p)
  BY <1>1, <1>2, <1>4 DEF configScanEOL
<1>6. \A q \in pos..(p - 1) : q \in 1..n /\ line[q].t = "space"
  BY <1>2, <1>4, <1>5 DEF Is
<1>7. \A k \in 1..p : ~ IsComment(file, b + k)
  <2>1. \A k \in 1..(pos - 1) : ~ IsComment(file, b + k)
    BY <1>1 DEF WholeLine
  <2>2. \A k \in pos..(p - 1) : ~ IsComment(file, b + k)
    BY <1>3, <1>6 DEF IsComment, Is
  <2>3. ~ IsComment(file, b + p)
    BY <1>1, <1>5, SameComments
  <2>4. \A k \in 1..p : k \in 1..(pos - 1) \/ k \in pos..(p - 1) \/ k = p
    BY <1>2, <1>5
  <2> QED BY <2>1, <2>2, <2>3, <2>4
<1>8. b + p \in Significant
  <2>1. ~ Commented(b + p)
    BY <1>1, <1>5, <1>7, CommentedOnLine
  <2>2. file[b + p].t # "space" /\ b + p \in DOMAIN file
    BY <1>2, <1>3, <1>4, <1>5 DEF Is
  <2> QED BY <2>1, <2>2 DEF Significant
<1>9. \A j \in Significant : j <= b + pos - 1 <=> j <= b + p - 1
  <2>1. TAKE j \in Significant
  <2>2. j \in Int
    BY TextType DEF Scanned
  <2>3. ASSUME j <= b + p - 1, ~ (j <= b + pos - 1)
        PROVE  FALSE
    <3>1. j - b \in pos..(p - 1) /\ b + (j - b) = j
      BY <1>2, <1>5, <2>2, <2>3
    <3>2. file[j].t = "space"
      BY <1>3, <1>6, <3>1
    <3> QED BY <3>2 DEF Significant
  <2>4. j <= b + pos - 1 => j <= b + p - 1
    BY <1>2, <1>5, <2>2
  <2> QED BY <2>3, <2>4
<1>10. UpTo(Significant, b + pos - 1) = UpTo(Significant, (b + p) - 1)
  <2>1. \A j \in Significant : j <= b + pos - 1 <=> j <= (b + p) - 1
    BY <1>5, <1>9
  <2> QED BY <2>1, Zenon DEF UpTo
<1> QED BY <1>1, <1>3, <1>5, <1>7, <1>8, <1>10 DEF Reached

\* The rest of the buffer at its end is space and comment.
LEMMA RestOfLine ==
  ASSUME Scanned, WholeLine, configScanEOL
  PROVE  UpTo(Significant, Reached) = UpTo(Significant, Base + Len(line))
<1>1. PICK b \in Nat, n \in Nat, r \in Nat :
        b = Base /\ n = Len(line) /\ r = Len(rest) /\ Len(file) = b + n + r
  BY Sizes
<1>2. DOMAIN line = 1..n /\ DOMAIN file = 1..(b + n + r) /\ pos \in 1..(n + 1)
  BY <1>1 DEF Scanned
<1>3. \A q \in 1..n : line[q] = file[b + q] /\ b + q \in DOMAIN file
  BY <1>1, <1>2 DEF Scanned
<1>4. PICK p \in pos..(Len(line) + 1) :
        /\ ~ Is(line, p, "space") /\ \A q \in pos..(p - 1) : Is(line, q, "space")
        /\ configScanSkip = IF IsComment(line, p) THEN Len(line) + 1 ELSE p
  BY SkipIs
<1>5. p = n + 1 \/ (p \in 1..n /\ IsComment(line, p))
  BY <1>1, <1>2, <1>4 DEF configScanEOL
<1>6. \A q \in pos..n : b + q \notin Significant
  <2>1. TAKE q \in pos..n
  <2>2. q \in 1..n
    BY <1>2
  <2>3. CASE q \in pos..(p - 1)
    <3>1. file[b + q].t = "space"
      BY <1>3, <1>4, <2>2, <2>3 DEF Is
    <3> QED BY <3>1 DEF Significant
  <2>4. CASE q \notin pos..(p - 1)
    <3>1. p \in 1..n /\ IsComment(line, p) /\ p \in 1..q
      BY <1>1, <1>2, <1>4, <1>5, <2>2, <2>4
    <3>2. IsComment(file, Base + p)
      BY <1>1, <3>1, SameComments
    <3>3. Commented(Base + q)
      BY <1>1, <2>2, <3>1, <3>2, CommentedOnLine
    <3> QED BY <1>1, <3>3 DEF Significant
  <2> QED BY <2>3, <2>4
<1>7. \A j \in Significant : j <= b + pos - 1 <=> j <= b + n
  <2>1. TAKE j \in Significant
  <2>2. j \in Int
    BY TextType DEF Scanned
  <2>3. ASSUME j <= b + n, ~ (j <= b + pos - 1)
        PROVE  FALSE
    <3>1. j - b \in pos..n /\ b + (j - b) = j
      BY <1>2, <2>2, <2>3
    <3> QED BY <1>6, <3>1
  <2>4. j <= b + pos - 1 => j <= b + n
    BY <1>2, <2>2
  <2> QED BY <2>3, <2>4
<1>8. UpTo(Significant, b + pos - 1) = UpTo(Significant, b + n)
  BY <1>7, Zenon DEF UpTo
<1> QED BY <1>1, <1>8 DEF Reached

\* fgets reads a whole line if none is too long.
LEMMA FillStep ==
  ASSUME Scanned, WholeLine, LinesFit, configScanFill, RouterConfigAssumption
  PROVE  Scanned' /\ WholeLine' /\ Reached' = Base + Len(line)
<1>1. PICK b \in Nat, n \in Nat, r \in Nat :
        b = Base /\ n = Len(line) /\ r = Len(rest) /\ Len(file) = b + n + r
  BY Sizes
<1>2. DOMAIN rest = 1..r /\ DOMAIN file = 1..(b + n + r) /\ rest \in Seq(Unit)
      /\ file \in Seq(Unit)
  BY <1>1 DEF Scanned
<1>3. \A k \in 1..r : rest[k] = file[b + n + k] /\ b + n + k \in DOMAIN file
  BY <1>1, <1>2 DEF Scanned
<1>4. PICK m \in 1..Len(rest) :
        /\ \A y \in 1..(m - 1) : ~ Is(rest, y, "nl")
        /\ m = LineLength \/ m = Len(rest) \/ Is(rest, m, "nl")
        /\ line' = SubSeq(rest, 1, m)
        /\ rest' = SubSeq(rest, m + 1, Len(rest))
        /\ pos' = 1 /\ file' = file
  BY DEF configScanFill
<1>5. m \in 1..r /\ r > 0
  BY <1>1, <1>4
<1>6. /\ line' \in Seq(Unit) /\ Len(line') = m /\ \A k \in 1..m : line'[k] = rest[k]
      /\ rest' \in Seq(Unit) /\ Len(rest') = r - m
      /\ \A k \in 1..(r - m) : rest'[k] = rest[m + k]
  <2>1. m \in Nat /\ m <= r /\ m >= 1 /\ rest' = SubSeq(rest, m + 1, r)
    BY <1>1, <1>4, <1>5
  <2>2. line' \in Seq(Unit) /\ Len(line') = m /\ \A k \in 1..m : line'[k] = rest[k]
    BY <1>1, <1>2, <1>4, <2>1
  <2>3. rest' \in Seq(Unit)
    BY <1>1, <1>2, <2>1
  <2>4. Len(rest') = r - m
    BY <1>1, <1>2, <2>1
  <2>5. \A k \in 1..(r - m) : rest'[k] = rest[m + k]
    BY <1>1, <1>2, <2>1
  <2> QED BY <2>2, <2>3, <2>4, <2>5
<1>7. Base' = b + n
  <2>1. Base' = Len(file) - Len(rest') - Len(line')
    BY <1>4 DEF Base
  <2> QED BY <1>1, <1>5, <1>6, <2>1
<1>8. Scanned'
  <2>1. \A k \in 1..m : line'[k] = file[(b + n) + k]
    <3>1. TAKE k \in 1..m
    <3>2. k \in 1..r
      BY <1>5
    <3>3. line'[k] = rest[k] /\ rest[k] = file[b + n + k]
      BY <1>3, <1>6, <3>2
    <3> QED BY <3>3
  <2>2. \A k \in 1..(r - m) : rest'[k] = file[((b + n) + m) + k]
    <3>1. TAKE k \in 1..(r - m)
    <3>2. m + k \in 1..r /\ (b + n) + (m + k) = ((b + n) + m) + k
      BY <1>5
    <3>3. rest'[k] = rest[m + k] /\ rest[m + k] = file[b + n + (m + k)]
      BY <1>3, <1>6, <3>2
    <3> QED BY <3>2, <3>3
  <2>3. pos' \in 1..(Len(line') + 1) /\ Base' \in Nat /\ file' \in Seq(Unit)
    BY <1>2, <1>4, <1>5, <1>6, <1>7
  <2> QED BY <1>4, <1>6, <1>7, <2>1, <2>2, <2>3 DEF Scanned
<1>9. \A k \in 1..r : Is(rest, k, "nl") <=> file[b + n + k].t = "nl"
  BY <1>2, <1>3 DEF Is
<1>10. rest' # <<>> => file[(b + n) + m].t = "nl"
  <2>1. SUFFICES ASSUME rest' # <<>>, ~ Is(rest, m, "nl")
                 PROVE  FALSE
    BY <1>5, <1>9
  <2>2. m < r
    <3>1. Len(rest') # 0
      BY <1>6, <2>1
    <3> QED BY <1>5, <1>6, <3>1
  <2>3. m = LineLength
    BY <1>1, <1>4, <2>1, <2>2
  <2>4. b + n + 1 \in DOMAIN file /\ (b + n + 1) + m \in DOMAIN file
    BY <1>2, <1>5, <2>2
  <2>5. PICK q \in (b + n + 1)..((b + n + 1) + m - 1) : Is(file, q, "nl")
    BY <2>3, <2>4 DEF LinesFit
  <2>6. q - (b + n) \in 1..m /\ b + n + (q - (b + n)) = q
    BY <1>5
  <2>7. Is(rest, q - (b + n), "nl")
    BY <1>5, <1>9, <2>5, <2>6 DEF Is
  <2>8. q - (b + n) = m
    BY <1>4, <1>5, <2>6, <2>7
  <2> QED BY <2>1, <2>7, <2>8
<1>11. WholeLine'
  <2>1. b + n # 0 => file[b + n].t = "nl"
    <3>1. rest # <<>>
      BY <1>1, <1>5
    <3> QED BY <1>1, <3>1 DEF WholeLine
  <2>2. \A k \in 1..(m - 1) : line'[k].t # "nl"
    <3>1. TAKE k \in 1..(m - 1)
    <3>2. k \in 1..m /\ k \in 1..r
      BY <1>5
    <3>3. ~ Is(rest, k, "nl")
      BY <1>4
    <3> QED BY <1>2, <1>6, <3>2, <3>3 DEF Is
  <2> QED BY <1>4, <1>5, <1>6, <1>7, <1>10, <2>1, <2>2 DEF WholeLine
<1>12. Reached' = b + n
  BY <1>4, <1>7 DEF Reached
<1> QED BY <1>1, <1>8, <1>11, <1>12

\* A token leaves the buffer as it is.
LEMMA TokenStep ==
  ASSUME Scanned, WholeLine, NEW tok, Token(tok)
  PROVE  LET x == Base + configScanSkip IN
         /\ x \in Significant /\ tok = file[x] /\ Reached' = x
         /\ UpTo(Significant, Reached) = UpTo(Significant, x - 1)
         /\ Scanned' /\ WholeLine' /\ file' = file
<1>1. /\ ~ configScanEOL /\ tok = line[configScanSkip] /\ pos' = configScanSkip + 1
      /\ file' = file /\ rest' = rest /\ line' = line
  BY DEF Token
<1>2. /\ configScanSkip \in pos..Len(line)
      /\ Base + configScanSkip \in Significant
      /\ line[configScanSkip] = file[Base + configScanSkip]
      /\ UpTo(Significant, Reached) = UpTo(Significant, (Base + configScanSkip) - 1)
      /\ \A k \in 1..configScanSkip : ~ IsComment(file, Base + k)
  BY <1>1, TokenIs
<1>3. Base' = Base
  BY <1>1 DEF Base
<1>4. PICK n \in Nat : n = Len(line) /\ pos \in 1..(n + 1) /\ Base \in Nat
  BY DEF Scanned
<1>5. PICK p \in Nat : p = configScanSkip /\ p \in 1..n
  BY <1>2, <1>4
<1>6. Scanned'
  <2>1. p + 1 \in 1..(n + 1)
    BY <1>5
  <2> QED BY <1>1, <1>3, <1>4, <1>5, <2>1 DEF Scanned
<1>7. WholeLine'
  <2>1. pos' - 1 = p
    BY <1>1, <1>5
  <2> QED BY <1>1, <1>2, <1>3, <1>5, <2>1 DEF WholeLine, IsComment, Is
<1>8. Reached' = Base + configScanSkip
  BY <1>1, <1>3, <1>4, <1>5 DEF Reached
<1>9. tok = file[Base + configScanSkip]
  BY <1>1, <1>2
<1>10. file' = file
  BY <1>1
<1> DEFINE x == Base + configScanSkip
<1> HIDE DEF x
<1>11. /\ x \in Significant /\ tok = file[x] /\ Reached' = x
       /\ UpTo(Significant, Reached) = UpTo(Significant, x - 1)
  <2>1. x \in Significant
    BY <1>2 DEF x
  <2>2. tok = file[x]
    BY <1>9 DEF x
  <2>3. Reached' = x
    BY <1>8 DEF x
  <2>4. UpTo(Significant, Reached) = UpTo(Significant, x - 1)
    BY <1>2, Zenon DEF x
  <2> QED BY <2>1, <2>2, <2>3, <2>4
<1> QED BY <1>6, <1>7, <1>10, <1>11, Zenon DEF x

LEMMA SameText ==
  ASSUME file' = file
  PROVE  /\ Significant' = Significant /\ LinesFit' = LinesFit /\ Grammatical' = Grammatical
         /\ Ends(Significant)' = Ends(Significant)
         /\ Entries(Ends(Significant))' = Entries(Ends(Significant))
         /\ \A S, ex, nu, li : ParsedAs(S, ex, nu, li)' = ParsedAs(S, ex, nu, li)
<1>1. Significant' = Significant
  BY Zenon DEF Significant, Commented, IsComment, Is
<1>2. \A S : Feeds(S)' = Feeds(S)
  BY Zenon DEF Feeds
<1>3. \A e : Part(e)' = Part(e)
  BY <1>1, <1>2, Zenon DEF Part
<1>4. \A S : Ends(S)' = Ends(S)
  BY <1>2, <1>3, Zenon DEF Ends
<1>5. \A S : Shape(S)' = Shape(S)
  BY Zenon DEF Shape
<1>6. \A S : Numbers(S)' = Numbers(S)
  BY Zenon DEF Numbers
<1>7. \A S : Entries(S)' = Entries(S)
  BY <1>3, <1>6, Zenon DEF Entries
<1>8. \A S : Open(S)' = Open(S)
  BY <1>2, Zenon DEF Open
<1>9. \A S, ex, nu, li : ParsedAs(S, ex, nu, li)' = ParsedAs(S, ex, nu, li)
  BY <1>2, <1>3, <1>4, <1>5, <1>6, <1>7, <1>8 DEF ParsedAs
<1>10. Grammatical' = Grammatical
  BY <1>1, <1>2, <1>3, <1>5, Zenon DEF Grammatical
<1>11. LinesFit' = LinesFit
  BY Zenon DEF LinesFit, Is
<1> QED BY <1>1, <1>4, <1>7, <1>9, <1>10, <1>11, Zenon


-----------------------------------------------------------------------------
\* The invariant: the end of the file is what the scanner has before it, and the parser has
\* what the tokens read so far make.

Judged ==
  /\ status = "loaded" <=> Grammatical /\ Ends(Significant) # {}
  /\ status = "loaded" => list = Entries(Ends(Significant))

ConfigInv ==
  /\ file \in Seq(Unit)
  /\ LinesFit =>
       IF status = "parsing"
       THEN Scanned /\ WholeLine /\ ParsedAs(UpTo(Significant, Reached), expect, nums, list)
       ELSE Judged

LEMMA InitConfigInv == RouterConfigAssumption /\ configInit => ConfigInv
<1> SUFFICES ASSUME RouterConfigAssumption, configInit
             PROVE  ConfigInv
  OBVIOUS
<1>1. /\ file \in Seq(Unit) /\ rest = file /\ line = <<>> /\ pos = 1
      /\ expect = <<>> /\ nums = <<>> /\ list = <<>> /\ status = "parsing"
  BY DEF configInit, RouterConfigAssumption
<1>2. PICK l \in Nat : l = Len(file)
  BY <1>1
<1>3. Len(line) = 0 /\ Base = 0 /\ Reached = 0
  <2>1. Len(line) = 0 /\ Len(rest) = l
    BY <1>1, <1>2
  <2>2. Base = 0
    BY <1>2, <2>1 DEF Base
  <2> QED BY <1>1, <2>1, <2>2 DEF Reached
<1>4. Scanned
  <2>1. line \in Seq(Unit)
    BY <1>1
  <2>2. \A k \in 1..Len(rest) : rest[k] = file[Base + Len(line) + k]
    BY <1>1, <1>2, <1>3
  <2> QED BY <1>1, <1>3, <2>1, <2>2 DEF Scanned
<1>5. WholeLine
  BY <1>1, <1>3 DEF WholeLine
<1>6. UpTo(Significant, Reached) = {}
  <2>1. \A j \in Significant : ~ (j <= 0)
    BY <1>1, TextType
  <2> QED BY <1>3, <2>1 DEF UpTo
<1>7. ParsedAs({}, <<>>, nums, <<>>)
  <2>1. Feeds({}) = {} /\ Open({}) = {} /\ Ends({}) = {}
    BY DEF Feeds, Open, Ends
  <2>2. Entries({}) = <<>>
    BY <1>1, NoEntries
  <2>3. <<>> \in Seq(Kinds)
    OBVIOUS
  <2>4. \A e \in Feeds({}) : Shape(Part(e)) \in Forms
    BY <2>1
  <2> QED BY <2>1, <2>2, <2>3, <2>4, Zenon DEF ParsedAs
<1> QED BY <1>1, <1>4, <1>5, <1>6, <1>7 DEF ConfigInv

LEMMA NextConfigInv ==
  RouterConfigAssumption /\ ConfigInv /\ [configNext]_configVars => ConfigInv'
<1> SUFFICES ASSUME RouterConfigAssumption, ConfigInv, [configNext]_configVars
             PROVE  ConfigInv'
  OBVIOUS
<1> DEFINE S == UpTo(Significant, Reached)
           x == Base + configScanSkip
<1>1. file' = file
  BY DEF configNext, configVars, configScanFill, EndOfFile, Parse, configParseLine, BlankLine,
         advance, configParseError, Token
<1>2. file' \in Seq(Unit) /\ LinesFit' = LinesFit
  BY <1>1, SameText DEF ConfigInv
<1>3. SUFFICES ASSUME LinesFit
               PROVE  IF status' = "parsing"
                      THEN /\ Scanned' /\ WholeLine'
                           /\ ParsedAs(UpTo(Significant, Reached), expect, nums, list)'
                      ELSE Judged'
  BY <1>2 DEF ConfigInv
<1>4. Judged' <=> /\ status' = "loaded" <=> Grammatical /\ Ends(Significant) # {}
                  /\ status' = "loaded" => list' = Entries(Ends(Significant))
  BY <1>1, SameText DEF Judged
<1>5. \A T : UpTo(Significant, Reached)' = T /\ ParsedAs(T, expect', nums', list')
             => ParsedAs(UpTo(Significant, Reached), expect, nums, list)'
  BY <1>1, SameText, Zenon
<1>6. \A n : Reached' = n => UpTo(Significant, Reached)' = UpTo(Significant, n)
  BY <1>1, SameText DEF UpTo
<1>7. CASE UNCHANGED configVars
  <2>1. status' = status /\ expect' = expect /\ nums' = nums /\ list' = list
    BY <1>7 DEF configVars
  <2>2. Reached' = Reached /\ (Scanned' <=> Scanned) /\ (WholeLine' <=> WholeLine)
    BY <1>7 DEF configVars, Reached, Base, Scanned, WholeLine, IsComment, Is
  <2>3. CASE status = "parsing"
    <3>1. Scanned /\ WholeLine /\ ParsedAs(S, expect, nums, list)
      BY <1>3, <2>3 DEF ConfigInv
    <3> QED BY <1>5, <1>6, <2>1, <2>2, <2>3, <3>1
  <2>4. CASE status # "parsing"
    <3>1. Judged
      BY <1>3, <2>4 DEF ConfigInv
    <3> QED BY <1>4, <2>1, <2>4, <3>1 DEF Judged
  <2> QED BY <2>3, <2>4
<1>8. ASSUME configNext
      PROVE  /\ status = "parsing" /\ Scanned /\ WholeLine
             /\ ParsedAs(S, expect, nums, list) /\ file \in Seq(Unit)
  <2>1. status = "parsing"
    BY <1>8 DEF configNext, configScanFill, EndOfFile, Parse, configParseLine, BlankLine,
                advance, configParseError, Token
  <2> QED BY <1>3, <2>1 DEF ConfigInv
<1>9. CASE configScanFill
  <2>1. /\ status = "parsing" /\ Scanned /\ WholeLine /\ ParsedAs(S, expect, nums, list)
    BY <1>8, <1>9 DEF configNext
  <2>2. Scanned' /\ WholeLine' /\ Reached' = Base + Len(line)
    BY <1>3, <1>9, <2>1, FillStep
  <2>3. configScanEOL /\ status' = status /\ expect' = expect /\ nums' = nums /\ list' = list
    BY <1>9 DEF configScanFill
  <2>4. S = UpTo(Significant, Base + Len(line))
    BY <2>1, <2>3, RestOfLine
  <2>5. UpTo(Significant, Reached)' = S
    BY <1>6, <2>2, <2>4
  <2> QED BY <1>5, <2>1, <2>2, <2>3, <2>5
<1>10. CASE EndOfFile
  <2>1. /\ status = "parsing" /\ Scanned /\ WholeLine /\ ParsedAs(S, expect, nums, list)
    BY <1>8, <1>10 DEF configNext
  <2>2. /\ configScanEOL /\ rest = <<>> /\ list' = list
        /\ status' = IF expect = <<>> /\ list # <<>> THEN "loaded" ELSE "aborted"
    BY <1>10 DEF EndOfFile, parseVars
  <2>3. S = Significant
    <3>1. S = UpTo(Significant, Base + Len(line))
      BY <2>1, <2>2, RestOfLine
    <3>2. Len(file) = Base + Len(line)
      <4>1. PICK b \in Nat, n \in Nat, r \in Nat :
              b = Base /\ n = Len(line) /\ r = Len(rest) /\ Len(file) = b + n + r
        BY <2>1, Sizes
      <4>2. r = 0
        BY <2>2, <4>1
      <4> QED BY <4>1, <4>2
    <3>3. \A j \in Significant : j <= Len(file)
      BY <2>1, TextType DEF Scanned
    <3>4. S = UpTo(Significant, Len(file))
      BY <3>1, <3>2
    <3> QED BY <3>3, <3>4, Zenon DEF UpTo
  <2>4. ParsedAs(Significant, expect, nums, list) /\ file \in Seq(Unit)
    BY <2>1, <2>3 DEF Scanned
  <2>5. /\ expect = <<>> <=> Grammatical
        /\ list # <<>> <=> Ends(Significant) # {}
        /\ list = Entries(Ends(Significant))
    BY <2>4, EndsRightly
  <2> QED BY <1>4, <2>2, <2>5
<1>11. ASSUME NEW y \in DOMAIN line, Parse(line[y])
       PROVE  IF status' = "parsing"
              THEN /\ Scanned' /\ WholeLine'
                   /\ ParsedAs(UpTo(Significant, Reached), expect, nums, list)'
              ELSE Judged'
  <2> DEFINE tok == line[y]
  <2>1. /\ status = "parsing" /\ Scanned /\ WholeLine /\ ParsedAs(S, expect, nums, list)
        /\ file \in Seq(Unit)
    BY <1>8, <1>11 DEF configNext
  <2>2. Token(tok)
    BY <1>11 DEF Parse, configParseLine, BlankLine, advance, configParseError
  <2> HIDE DEF tok
  <2>3. /\ x \in Significant /\ tok = file[x] /\ Reached' = x /\ S = UpTo(Significant, x - 1)
        /\ Scanned' /\ WholeLine'
    BY <2>1, <2>2, TokenStep
  <2> HIDE DEF S, x
  <2>4. UpTo(Significant, Reached)' = UpTo(Significant, x)
    BY <1>6, <2>3
  <2>5. ParsedAs(UpTo(Significant, x - 1), expect, nums, list)
    BY <2>1, <2>3
  <2>6. ASSUME status' = status, ParsedAs(UpTo(Significant, x), expect', nums', list')
        PROVE  IF status' = "parsing"
               THEN /\ Scanned' /\ WholeLine'
                    /\ ParsedAs(UpTo(Significant, Reached), expect, nums, list)'
               ELSE Judged'
    BY <1>5, <2>1, <2>3, <2>4, <2>6
  <2>7. CASE configParseLine(tok)
    <3>1. /\ expect = <<>> /\ tok.t \in {"port", "forward"} /\ nums' = <<>>
          /\ expect' = Tail(IF tok.t = "port" THEN PortLine ELSE ForwardLine)
          /\ list' = list /\ status' = status
      BY <2>7 DEF configParseLine
    <3>2. PICK f \in {PortLine, ForwardLine} : tok.t = f[1] /\ expect' = Tail(f)
      BY <3>1, FormIs
    <3>3. ParsedAs(UpTo(Significant, x), Tail(f), <<>>, list)
      BY <2>1, <2>3, <2>5, <3>1, <3>2, BeginsLine
    <3> QED BY <2>6, <3>1, <3>2, <3>3
  <2>8. CASE BlankLine(tok)
    <3>1. /\ expect = <<>> /\ tok.t = "nl" /\ status' = status
          /\ expect' = expect /\ nums' = nums /\ list' = list
      BY <2>8 DEF BlankLine, parseVars
    <3>2. ParsedAs(UpTo(Significant, x), <<>>, nums, list)
      BY <2>1, <2>3, <2>5, <3>1, SkipsBlank
    <3> QED BY <2>6, <3>1, <3>2
  <2>9. CASE advance(tok)
    <3>1. /\ expect # <<>> /\ tok.t = Head(expect) /\ status' = status
          /\ expect' = Tail(expect)
          /\ nums' = IF tok.t = "num" THEN Append(nums, tok.v) ELSE nums
          /\ list' = IF Len(expect) = 1 THEN Append(list, ParsedLine(nums)) ELSE list
      BY <2>9, Zenon DEF advance
    <3>2. ParsedAs(UpTo(Significant, x), Tail(expect),
                   IF file[x].t = "num" THEN Append(nums, file[x].v) ELSE nums,
                   IF Len(expect) = 1 THEN Append(list, ParsedLine(nums)) ELSE list)
      BY <2>1, <2>3, <2>5, <3>1, GoesOn
    <3>3. ParsedAs(UpTo(Significant, x), expect', nums', list')
      BY <2>3, <3>1, <3>2, Zenon
    <3> QED BY <2>6, <3>1, <3>3
  <2>10. CASE configParseError(tok)
    <3>1. /\ tok.t \notin (IF expect = <<>> THEN {"port", "forward", "nl"} ELSE {Head(expect)})
          /\ status' = "aborted"
      BY <2>10 DEF configParseError
    <3>2. ~ Grammatical
      BY <2>1, <2>3, <2>5, <3>1, RefusesRightly
    <3> QED BY <1>4, <3>1, <3>2
  <2> QED BY <1>11, <2>7, <2>8, <2>9, <2>10 DEF Parse, tok
<1> QED BY <1>7, <1>9, <1>10, <1>11 DEF configNext

\* Whatever the file, if fgets never cuts a line: the router starts with exactly the lines
\* of the text, or not at all (scan.c:46-101, parse.c:60-168, config.c:15-16).
THEOREM LoadsExactly == configSpec => []LoadsTheFile
<1>1. ConfigInv => LoadsTheFile
  BY DEF ConfigInv, LoadsTheFile, Judged
<1> QED BY <1>1, InitConfigInv, NextConfigInv, RouterConfigAssumption, PTL DEF configSpec
=============================================================================
