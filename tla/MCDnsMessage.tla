---------------------------- MODULE MCDnsMessage ----------------------------
(* Values for TLC: a name and one under it; the types by the way they are read. *)
EXTENDS DnsMessage

TwoNames == {<<1>>, <<2, 1>>}
AllTypes == {<<1, MX>>, <<2, NS>>, <<2, SOA>>, <<3, A>>}
Authority == {<<2, NS>>, <<2, SOA>>}
=============================================================================
