--------------------------- MODULE MCRouterConfig ---------------------------
(* Values for TLC: files of up to three pieces, each right or wrong in its way. *)
EXTENDS RouterConfig

U(t) == [t |-> t, v |-> 0]
N(n) == [t |-> "num", v |-> n]
IP(a, b, c, d, len) == <<N(a), U("dot"), N(b), U("dot"), N(c), U("dot"), N(d), U("slash"), N(len)>>
Rule == <<U("forward")>> \o IP(3, 1, 0, 2, 4) \o <<U("port"), N(2)>>
NL == <<U("nl")>>
Sp == <<U("space")>>
Port(n) == <<U("port"), N(n)>>
Remark(n) == <<U("slash"), U("slash")>> \o [i \in 1..n |-> U("junk")]

Pieces == {
  <<>>, NL, Sp \o NL,
  Port(1) \o NL, <<U("port")>> \o Sp \o <<N(5)>> \o Sp \o NL, Port(1),
  Rule \o NL, <<U("forward")>> \o IP(1, 0, 0, 7, 9) \o <<U("port"), N(2)>> \o NL,
  <<U("forward")>> \o Tail(IP(1, 0, 0, 0, 2)) \o Port(1) \o NL,
  <<U("forward")>> \o IP(1, 0, 0, 0, 2) \o <<N(1)>> \o NL,
  <<U("port")>> \o NL, <<N(4)>> \o NL, <<U("junk")>> \o NL,
  Remark(2) \o NL, Port(2) \o Sp \o Remark(1) \o NL,
  Remark(11) \o Port(2) \o NL }

Last == {<<>>, NL, Port(1) \o NL, Port(1), Port(2) \o Sp \o Remark(1) \o NL}

MCFiles == {a \o b \o c : a \in Pieces, b \in Pieces, c \in Last}
=============================================================================
