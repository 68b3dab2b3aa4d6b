------------------------------ MODULE DnsCache ------------------------------
(***************************************************************************)
(* The cache of the DNS lookup service of assignment 2 (DNSCache.java), as *)
(* operators on the set of records it holds and that have not expired:     *)
(* every operation begins with pruneExpired.  Records of one class only.   *)
(***************************************************************************)
EXTENDS Integers, Sequences, FiniteSetsExt

CONSTANTS
    Domains,       \* Domains[n]: n and its parents up to "", as Suffixes lists them
    Address,       \* IP addresses
    RootServers    \* the built-in records: names and addresses of the root servers

Name == DOMAIN Domains
NoName == "address"      \* an IP address, taken for a host name

Types == {"A", "NS", "CNAME"}
Question == [name : Name, type : Types]
Record == [name : Name, type : {"A"}, val : Address]
          \cup [name : Name, type : {"NS", "CNAME"}, val : Name]

ASSUME CacheAssumption ==
    /\ IsFiniteSet(Record) /\ Domains \in [Name -> Seq(Name)] /\ NoName \notin Name
    /\ \A n \in Name \ {""} : \E i \in 1..Len(Domains[n]) : Domains[n][i] = ""
    /\ RootServers \subseteq Record
    /\ \E ns, a \in RootServers : /\ ns.name = "" /\ ns.type = "NS"
                                  /\ a.name = ns.val /\ a.type = "A"

Of(name, type) == [name |-> name, type |-> type]

QuestionOf(rr) == Of(rr.name, rr.type)

\* getTextResult: an A record gives its address as text.  getInetResult: NULL but for
\* A records.
TextResult(rr) == IF rr.type = "A" THEN NoName ELSE rr.val
HasInetResult(rr) == rr.type = "A"

\* cachedResults.get(question)
Lookup(c, q) == {rr \in c : QuestionOf(rr) = q}

\* The records of the question, the aliases of its name, and whatever the type asked
\* for, the A records of what they stand for.
getCachedResults(c, q) ==
    LET aliases == Lookup(c, Of(q.name, "CNAME"))
    IN Lookup(c, q) \cup aliases
       \cup UNION {Lookup(c, Of(TextResult(rr), "A")) : rr \in aliases}

\* Mutant: the suffixes end before the root.
BestBelowRoot(c, name) ==
    LET servers(i) == getCachedResults(c, Of(Domains[name][i], "NS"))
        hits == {i \in 1..(Len(Domains[name]) - 1) : servers(i) # {}}
    IN IF hits = {} THEN {} ELSE servers(Min(hits))

\* What the cache gives for the NS records of the longest suffix that it has any for.
getBestNameservers(c, name) ==
    LET servers(i) == getCachedResults(c, Of(Domains[name][i], "NS"))
        hits == {i \in 1..Len(Domains[name]) : servers(i) # {}}
    IN IF hits = {} THEN {} ELSE servers(Min(hits))

\* A list: a record stands in it once for each server that it is found for.
filterByKnownIPAddress(c, servers) ==
    UNION {{[ns |-> s, rr |-> rr] : rr \in getCachedResults(c, Of(TextResult(s), "A"))} :
           s \in servers}

\* A record that has expired on arrival is not added; one that is there lives as long
\* as the longer of the two.
addResult(c, answer) == IF answer.ttl > 0 THEN c \cup {answer.rr} ELSE c
=============================================================================
