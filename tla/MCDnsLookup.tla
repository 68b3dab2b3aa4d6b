---------------------------- MODULE MCDnsLookup ----------------------------
(* Values for TLC: one root server, a zone x with two servers, names that *)
(* stand for others, in a loop or in a chain that is too long.             *)
EXTENDS DnsLookup

A(n, a) == [name |-> n, type |-> "A", val |-> a]
NS(n, m) == [name |-> n, type |-> "NS", val |-> m]
CNAME(n, m) == [name |-> n, type |-> "CNAME", val |-> m]

Hosts == {"ns.x", "ms.x", "w.x", "y.x", "a.x"}

MCDomains == [n \in {"", "x", "r"} \cup Hosts |->
    CASE n = "" -> <<>> [] n \in {"x", "r"} -> <<n, "">> [] OTHER -> <<n, "x", "">>]

MCRootServers == {NS("", "r"), A("r", 0)}

Ok(rrs) == [rcode |-> 0, answers |-> [rr : rrs, ttl : {1}]]
NameError == [rcode |-> 3, answers |-> {}]

\* The root refers to the servers of x, with the address of one or both.
Referral == {Ok({NS("x", "ns.x"), NS("x", "ms.x"), A("ns.x", 1), A("ms.x", 2)}),
             Ok({NS("x", "ns.x"), NS("x", "ms.x"), A("ns.x", 1)})}

Zone == [n \in Hosts |->
    CASE n = "ns.x" -> {Ok({A(n, 1)})}
      [] n = "ms.x" -> {Ok({A(n, 2)})}
      [] n = "w.x"  -> {Ok({CNAME(n, "y.x")}), Ok({CNAME(n, "a.x")})}
      [] n = "a.x"  -> {Ok({CNAME(n, "w.x")}), Ok({CNAME(n, "y.x")})}
      [] n = "y.x"  -> {Ok({A(n, 3)}), [rcode |-> 0, answers |-> [rr : {A(n, 3)}, ttl : {0}]],
                       NameError}]

\* Address 3 is a host that runs no nameserver.
MCReplies == [a \in 0..3 |-> [q \in Question |->
    IF q.type # "A" \/ q.name \notin Hosts \/ a = 3 THEN {}
    ELSE IF a = 0 THEN Referral ELSE Zone[q.name]]]

MCQuestions == [name : {"w.x", "ns.x"}, type : {"A"}]
MCShort == {A("ns.x", 1)}
=============================================================================
