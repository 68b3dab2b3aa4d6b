----------------------------- MODULE MCRouter -----------------------------
(* Values for TLC: bytes of two bits, addresses of three bits. *)
EXTENDS Router

\* The table out of order, an unknown interface, one beyond the mask, a default
\* route, a host route, a duplicate; and a table without a default route.
MCConfigs == {
    << Port(1), Port(2), Port(3), Port(5),
       Forward(4, 1, 2), Forward(0, 0, 1), Forward(6, 2, 3), Forward(5, 3, 4),
       Forward(7, 3, 2), Forward(6, 2, 1), Forward(5, 2, 5) >>,
    << Port(1), Forward(2, 2, 1), Forward(0, 1, 2), Port(2), Forward(2, 3, 2) >> }

\* What a sender computes, and every other value of the checksum.
Headers(dst, checksums) ==
    [dst : dst, ttl : 0..3, proto : {0, 1}, checksum : checksums, rest : 16..31]

MCPackets == Headers({2, 5, 6, 7}, 0..15)
Sent == {h \in Headers({6}, 0..15) : h.checksum = ipchecksum([h EXCEPT !.checksum = 0])}
=============================================================================
