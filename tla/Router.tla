------------------------------- MODULE Router -------------------------------
(***************************************************************************)
(* The IP router of assignment 5: it loads a configuration, then takes one *)
(* packet at a time, looks up its destination in the forwarding table and  *)
(* sends or drops it (router.c).  The neighbours are not part of the code: *)
(* one that got a packet may send it back on any interface.                *)
(*                                                                         *)
(* Widths are parameters: a byte has Byte values, a 16-bit word Byte^2, an *)
(* address AddrBits bits.  Of a header the model keeps the bytes ttl and   *)
(* protocol, the checksum, the destination and the plain sum of the eight  *)
(* other words.                                                            *)
(***************************************************************************)
EXTENDS Integers, Sequences

CONSTANTS
    Configs,     \* configuration files: sequences of port and forward lines
    Packets,     \* headers that reach the router
    Arrivals,    \* interfaces they arrive on: port - localport
    Byte,        \* 256
    AddrBits,    \* 32
    MaskBits,    \* 8: bits of active_interfaces
    IntBits,     \* 32: bits of 1 << interface, beyond which a shift is undefined
    TableSize    \* 128: entries of forwarding_table

Word == Byte * Byte
Addr == 0..(2^AddrBits - 1)

Port(n) == [key |-> "port", port |-> n]
Forward(net, len, n) ==
    [key |-> "forward", network |-> net, netlength |-> len, port |-> n]

Header == [dst : Addr, ttl : 0..(Byte - 1), proto : 0..(Byte - 1),
           checksum : 0..(Word - 1), rest : 0..(8 * (Word - 1))]

Ports == 0..(IntBits - 1)
Line == [key : {"port"}, port : Ports]
        \cup [key : {"forward"}, network : Addr, netlength : 0..AddrBits, port : Ports]

\* The table is written without a check of its size, hence the bound on the files.
ASSUME ConstAssumption ==
    /\ Byte \in Nat /\ Byte >= 4 /\ AddrBits \in Nat /\ MaskBits \in Nat \ {0}
    /\ IntBits \in Nat \ {0} /\ TableSize \in Nat
    /\ Packets \subseteq Header /\ Arrivals \subseteq Int
    /\ Configs \subseteq Seq(Line) /\ \A c \in Configs : Len(c) <= TableSize

None == -1

VARIABLES
    pc,
    lines,       \* configuration lines not loaded yet
    active,      \* bits set in active_interfaces
    table,       \* forwarding_table[0 .. forwarding_table_size - 1]
    wire,        \* packets that a neighbour may send to the router
    buffer,      \* the packet in hand; as histories, the header that came in, the
                 \* one first sent, and how often the packet was forwarded
    origin,      \* the interface it came from
    i,           \* the entry that forwardTableLookup looks at
    best, bestLen

lookupVars == <<i, best, bestLen>>
vars == <<pc, lines, active, table, wire, buffer, origin, lookupVars>>

-----------------------------------------------------------------------------
(* ip.c                                                                    *)

\* End-around carry: while (sum >> 16) sum = (sum & 0xffff) + (sum >> 16).
\* A turn keeps a sum that has no carry, and two are enough for ten words.
Carried(sum) == (sum % Word) + (sum \div Word)
Fold(sum) == Carried(Carried(sum))

\* ttl is the low byte of its word.
Sum(h) == h.rest + h.ttl + Byte * h.proto + h.checksum

ipchecksum(h) == Word - 1 - Fold(Sum(h))

Valid(h) == ipchecksum(h) = 0

-----------------------------------------------------------------------------
(* Loading the configuration                                               *)

Start(h) == [now |-> h, came |-> h, first |-> h, hops |-> 0]

Init ==
    /\ pc = "config"
    /\ lines \in Configs
    /\ active = {0}
    /\ table = <<>>
    /\ \E h \in Packets : wire = {Start(h)} /\ buffer = Start(h)
    /\ origin = 0 /\ i = 1 /\ best = None /\ bestLen = -1

\* 1 << interface, or'ed into a uint8_t.
addInterface ==
    /\ pc = "config" /\ lines # <<>> /\ Head(lines).key = "port"
    /\ active' = active \cup ({Head(lines).port} \cap 0..(MaskBits - 1))
    /\ lines' = Tail(lines)
    /\ UNCHANGED <<pc, table, wire, buffer, origin, lookupVars>>

\* Mutant: the interface is not checked.
addForwardEntryUnchecked ==
    /\ pc = "config" /\ lines # <<>> /\ Head(lines).key = "forward"
    /\ table' = Append(table, [network |-> Head(lines).network,
                               netlength |-> Head(lines).netlength,
                               interface |-> Head(lines).port])
    /\ lines' = Tail(lines)
    /\ UNCHANGED <<pc, active, wire, buffer, origin, lookupVars>>

\* Entries for interfaces that no port line has named so far are left out.
addForwardEntry ==
    /\ pc = "config" /\ lines # <<>> /\ Head(lines).key = "forward"
    /\ LET l == Head(lines) IN
       table' = IF l.port \in active
                THEN Append(table, [network |-> l.network, netlength |-> l.netlength,
                                    interface |-> l.port])
                ELSE table
    /\ lines' = Tail(lines)
    /\ UNCHANGED <<pc, active, wire, buffer, origin, lookupVars>>

udp_open ==
    /\ pc = "config" /\ lines = <<>>
    /\ pc' = "read"
    /\ UNCHANGED <<lines, active, table, wire, buffer, origin, lookupVars>>

-----------------------------------------------------------------------------
(* run()                                                                   *)

\* Mutants: ttl is taken for the high byte of its word; the header stays as it is.
HopBigEndian(h) == [h EXCEPT !.ttl = (@ - 1) % Byte, !.checksum = (@ + Byte) % Word]
HopForgotten(h) == h

\* ttl and checksum are a byte and a 16-bit word: both wrap.
Hop(h) == [h EXCEPT !.ttl = (@ - 1) % Byte, !.checksum = (@ + 1) % Word]

readpkt ==
    /\ pc = "read"
    /\ \E p \in wire, n \in Arrivals :
        /\ wire' = wire \ {p}
        /\ buffer' = [p EXCEPT !.now = Hop(@), !.came = p.now]
        /\ origin' = n
    /\ i' = 1 /\ best' = None /\ bestLen' = -1
    /\ pc' = "lookup"
    /\ UNCHANGED <<lines, active, table>>

\* The addresses agree under the mask of the entry.
Matches(e, d) ==
    e.network \div 2^(AddrBits - e.netlength) = d \div 2^(AddrBits - e.netlength)

\* Mutant: the last entry that matches wins.
BetterLast(e) == Matches(e, buffer.now.dst)

Better(e) == e.netlength > bestLen /\ Matches(e, buffer.now.dst)

\* forwardTableLookup, one turn of its loop.
LookupEntry ==
    /\ pc = "lookup" /\ i <= Len(table)
    /\ IF Better(table[i])
       THEN best' = table[i].interface /\ bestLen' = table[i].netlength
       ELSE UNCHANGED <<best, bestLen>>
    /\ i' = i + 1
    /\ UNCHANGED <<pc, lines, active, table, wire, buffer, origin>>

LookupEnd ==
    /\ pc = "lookup" /\ i > Len(table)
    /\ pc' = "decide"
    /\ UNCHANGED <<lines, active, table, wire, buffer, origin, lookupVars>>

\* No entry, or the interface the packet came from.
NoRoute == best = None \/ best = origin
ExpiredLate == buffer.now.ttl < 0   \* Mutant: a comparison that an unsigned byte never meets

Expired == buffer.now.ttl < 1
Damaged == ~Valid(buffer.now)

Drop ==
    /\ pc = "decide"
    /\ NoRoute \/ Expired \/ Damaged
    /\ pc' = "read"
    /\ UNCHANGED <<lines, active, table, wire, buffer, origin, lookupVars>>

\* The history counts no further than Byte, which ttl does not let it reach.
Counted(hops) == IF hops < Byte THEN hops + 1 ELSE hops

sendpkt ==
    /\ pc = "decide"
    /\ ~NoRoute /\ ~Expired /\ ~Damaged
    /\ wire' = wire \cup {[buffer EXCEPT !.hops = Counted(@)]}
    /\ pc' = "read"
    /\ UNCHANGED <<lines, active, table, buffer, origin, lookupVars>>

-----------------------------------------------------------------------------
Load == addInterface \/ addForwardEntry \/ udp_open
Route == readpkt \/ LookupEntry \/ LookupEnd \/ Drop \/ sendpkt
Next == Load \/ Route

Spec == Init /\ [][Next]_vars

\* One thread that is always scheduled, and neighbours that keep sending: without
\* the latter a packet may rest with a neighbour, which the router cannot help.
FairSpec == Spec /\ WF_vars(Next)

-----------------------------------------------------------------------------
(* Properties                                                              *)

Packet == [now : Header, came : Header, first : Header, hops : 0..Byte]
Entry == [network : Addr, netlength : 0..AddrBits, interface : Nat]

\* The types of the state.
TypeOK ==
    /\ pc \in {"config", "read", "lookup", "decide"}
    /\ lines \in Seq(Line)
    /\ active \subseteq 0..(MaskBits - 1)
    /\ table \in Seq(Entry) /\ Len(table) + Len(lines) <= TableSize
    /\ wire \subseteq Packet /\ buffer \in Packet
    /\ origin \in Arrivals \cup {0}
    /\ i \in Nat \ {0} /\ best \in Nat \cup {None} /\ bestLen \in (0..AddrBits) \cup {-1}

Matching(n) == {k \in 1..n : k <= Len(table) /\ Matches(table[k], buffer.now.dst)}

\* The lookup ends with the first of the longest matching prefixes, whatever the
\* order of the table, a default route and host routes included (router.c:22-52).
LongestPrefix ==
    pc = "decide" =>
        IF Matching(Len(table)) = {} THEN best = None
        ELSE \E k \in Matching(Len(table)) :
                /\ best = table[k].interface
                /\ \A l \in Matching(Len(table)) :
                    \/ table[l].netlength < table[k].netlength
                    \/ table[l].netlength = table[k].netlength /\ k <= l

\* Every entry leads to an interface that the configuration has named, so that
\* what is sent goes to an active one (router.c:62-66).
SentToActive ==
    pc = "decide" /\ ~NoRoute => best \in active

\* A packet that comes back from neighbours again and again loses one of its ttl
\* each time and is never sent with none left: it is forwarded less than ttl times.
\* A valid one with ttl 0 is not forwarded at all, although its ttl wraps to 255, for
\* the checksum does not follow the wrap (router.c:104-121).
HopsWithinTtl ==
    \A p \in wire :
        p.hops > 0 /\ (p.first.ttl > 0 \/ Valid(p.first)) =>
            p.now.ttl >= 1 /\ p.now.ttl + p.hops = p.first.ttl

\* Counting ttl down and the checksum up leaves the header as valid or as damaged as
\* it came, unless one of the two wraps (router.c:104-105 and 117).
UpdateKeepsValidity ==
    pc = "decide" /\ buffer.came.ttl > 0 /\ buffer.came.checksum < Word - 1 =>
        Valid(buffer.now) = Valid(buffer.came)

\* The same without the exception of the checksum: what the router reports as a failed
\* checksum came with a wrong one (router.c:119).
ReportedAsDamagedIs ==
    pc = "decide" /\ buffer.came.ttl > 0 /\ ~NoRoute /\ ~Expired /\ Damaged =>
        ~Valid(buffer.came)

\* A packet that neighbours return for ever is dropped at last, with a routing loop
\* around the router and whatever its header says (router.c:104-116).
EveryPacketEnds == <>(pc = "read" /\ wire = {})

=============================================================================
