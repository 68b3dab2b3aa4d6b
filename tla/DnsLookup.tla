------------------------------ MODULE DnsLookup ------------------------------
(***************************************************************************)
(* The DNS lookup service of assignment 2 (DNSLookupService.java): one     *)
(* user asks one question at a time; the service follows CNAME records,    *)
(* walks down from the best nameservers that its cache knows, and sends    *)
(* each server the query over UDP, again when nothing comes back.          *)
(*                                                                         *)
(* Nameservers are not part of the code: Replies says what each may answer.*)
(* A datagram may be lost (it is not sent), late or reordered, and what is *)
(* late is read by whichever query waits on the socket then.  Any record   *)
(* but the built-in ones may expire between two steps.                     *)
(***************************************************************************)
EXTENDS DnsCache, SequencesExt

CONSTANTS
    Questions,      \* what users ask for
    Replies,        \* Replies[a][q]: what the server at address a may answer to q
    Short,          \* bound: records whose ttl ends during the run
    Ids,            \* transaction ids: 0 .. 65535
    MaxIndirection, \* MAX_INDIRECTION_LEVEL
    MaxAttempts,    \* MAX_QUERY_ATTEMPTS
    MaxLate         \* bound: datagrams that wait to be read

Response == [rcode : {0, 3}, answers : SUBSET [rr : Record, ttl : 0..1]]

ASSUME LookupAssumption ==
    /\ Questions \subseteq Question /\ Short \subseteq Record \ RootServers
    /\ \A a \in Address : \A q \in Question : Replies[a][q] \subseteq Response
    /\ MaxIndirection \in Nat /\ MaxAttempts \in Nat /\ MaxLate \in Nat

NoQuery == [type |-> "none"]

VARIABLES
    pc,
    cache,       \* records that have not expired
    pending,     \* calls of getResultsFollowingCNames to come, the current one first
    results,     \* newResults, of all calls together
    tried,       \* triedServers
    ans,         \* ans of iterativeQuery: servers that have replied
    known,       \* knownServers that the loop has not come to
    query,       \* the server that is asked, what it is known for, the transaction id
    attempts,    \* how often the query was sent
    late,        \* datagrams on their way to the socket
    names        \* history: names looked up for this question

queryVars == <<query, attempts>>
loopVars == <<tried, ans, known>>
vars == <<pc, cache, pending, results, loopVars, queryVars, late, names>>

Current == Head(pending).question

containsAnswer(rrs, q) == \E rr \in rrs : QuestionOf(rr) = q

-----------------------------------------------------------------------------
Init ==
    /\ pc = "idle" /\ cache = RootServers
    /\ pending = <<>> /\ results = {} /\ names = {}
    /\ tried = {} /\ ans = {} /\ known = {}
    /\ query = NoQuery /\ attempts = 0
    /\ late = {}

findAndPrintResults(q) ==
    /\ pc = "idle"
    /\ pending' = <<[question |-> q, left |-> MaxIndirection]>>
    /\ results' = {} /\ names' = {}
    /\ pc' = "call"
    /\ UNCHANGED <<cache, loopVars, queryVars, late>>

reset ==
    /\ pc = "idle" /\ cache # RootServers
    /\ cache' = RootServers
    /\ UNCHANGED <<pc, pending, results, loopVars, queryVars, late, names>>

\* A record's time is over: pruneExpired drops it before the cache is read again.
Expire ==
    /\ \E rr \in Short \cap cache : cache' = cache \ {rr}
    /\ UNCHANGED <<pc, pending, results, loopVars, queryVars, late, names>>

\* A DNSErrorException ends all calls; nothing is printed but the error.
Fail ==
    /\ pc' = "idle" /\ pending' = <<>> /\ results' = {} /\ names' = {}
    /\ tried' = {} /\ ans' = {} /\ known' = {}
    /\ query' = NoQuery /\ attempts' = 0

-----------------------------------------------------------------------------
(* getResultsFollowingCNames                                               *)

Finish ==
    /\ pc = "call" /\ pending = <<>>
    /\ pc' = "idle"
    /\ UNCHANGED <<cache, pending, results, loopVars, queryVars, late, names>>

TooManyLevels ==
    /\ pc = "call" /\ pending # <<>> /\ Head(pending).left < 0
    /\ Fail
    /\ UNCHANGED <<cache, late>>

Call ==
    /\ pc = "call" /\ pending # <<>> /\ Head(pending).left >= 0
    /\ names' = names \cup {Current.name}
    /\ pc' = "cached"
    /\ UNCHANGED <<cache, pending, results, loopVars, queryVars, late>>

\* The calls for the aliases among the records, one level down.
Follow(direct) ==
    {[question |-> Of(rr.val, Current.type), left |-> Head(pending).left - 1] :
     rr \in {rr \in direct : rr.type = "CNAME"}}

\* iterativeQuery returns these records; the aliases follow in some order.
Return(direct) ==
    /\ results' = results \cup direct
    /\ IF containsAnswer(direct, Current)
       THEN pending' = Tail(pending)
       ELSE \E calls \in SetToSeqs(Follow(direct)) : pending' = calls \o Tail(pending)
    /\ tried' = {} /\ ans' = {} /\ known' = {}
    /\ pc' = "call"
    /\ UNCHANGED <<cache, queryVars, late, names>>

-----------------------------------------------------------------------------
(* iterativeQuery                                                          *)

CheckCache ==
    /\ pc = "cached"
    /\ pc' = IF containsAnswer(getCachedResults(cache, Current), Current)
             THEN "return" ELSE "while"
    /\ UNCHANGED <<cache, pending, results, loopVars, queryVars, late, names>>

\* Mutant: without an answer, the servers that replied are returned.
ReturnServers ==
    /\ pc = "return"
    /\ Return(ans \cup getCachedResults(cache, Current))

\* The cache is read again: records may be gone since they were found in it.
ReturnCached ==
    /\ pc = "return"
    /\ Return(getCachedResults(cache, Current))

\* The servers asked are the answer if one of them has the name asked for.
ReturnAns ==
    /\ pc = "while" /\ containsAnswer(ans, Current)
    /\ Return(ans)

\* The best nameservers of this turn; if each has been tried, the cache has to do.
ListServers ==
    /\ pc = "while" /\ ~containsAnswer(ans, Current)
    /\ LET best == filterByKnownIPAddress(cache, getBestNameservers(cache, Current.name))
       IN IF {k.rr : k \in best} \subseteq tried
          THEN pc' = "return" /\ known' = {}
          ELSE pc' = "for" /\ known' = best
    /\ UNCHANGED <<cache, pending, results, tried, ans, queryVars, late, names>>

NextServer ==
    /\ pc = "for" /\ known # {}
    /\ \E k \in known, n \in Ids :
        /\ known' = known \ {k}
        /\ query' = [ns |-> k.ns, rr |-> k.rr, id |-> n]
        /\ attempts' = 0
    /\ pc' = "send"
    /\ UNCHANGED <<cache, pending, results, tried, ans, late, names>>

LastServer ==
    /\ pc = "for" /\ known = {}
    /\ pc' = "while"
    /\ UNCHANGED <<cache, pending, results, loopVars, queryVars, late, names>>

-----------------------------------------------------------------------------
(* individualQueryProcess                                                  *)

\* The query goes out; the server's reply, if it comes, is on its way.
Send ==
    /\ pc = "send" /\ attempts < MaxAttempts /\ HasInetResult(query.rr)
    /\ attempts' = attempts + 1
    /\ pc' = "receive"
    /\ \/ late' = late
       \/ /\ Cardinality(late) < MaxLate
          /\ \E m \in Replies[query.rr.val][Current] : late' = late \cup {[id |-> query.id, msg |-> m]}
    /\ UNCHANGED <<cache, pending, results, loopVars, query, names>>

\* A CNAME record stands for no address: send throws.
SendNowhere ==
    /\ pc = "send" /\ attempts < MaxAttempts /\ ~HasInetResult(query.rr)
    /\ Fail
    /\ UNCHANGED <<cache, late>>

\* processResponse: all records go to the cache, and the server to those that replied.
Accept(msg) ==
    /\ cache' = cache \cup UNION {addResult(cache, a) : a \in msg.answers}
    /\ tried' = tried \cup {query.rr} /\ ans' = ans \cup {query.rr}
    /\ pc' = IF containsAnswer(ans', Current) THEN "while" ELSE "for"
    /\ known' = IF containsAnswer(ans', Current) THEN {} ELSE known
    /\ query' = NoQuery /\ attempts' = 0
    /\ UNCHANGED <<pending, results, names>>

\* What arrives is for this query, or it has cost an attempt.
Receive ==
    /\ pc = "receive"
    /\ \E d \in late :
        /\ late' = late \ {d}
        /\ IF d.id # query.id
           THEN /\ pc' = "send"
                /\ UNCHANGED <<cache, pending, results, loopVars, query, attempts, names>>
           ELSE IF d.msg.rcode # 0 THEN Fail /\ UNCHANGED cache
           ELSE Accept(d.msg)

Timeout ==
    /\ pc = "receive"
    /\ pc' = "send"
    /\ UNCHANGED <<cache, pending, results, loopVars, queryVars, late, names>>

\* Mutant: only a server that replied counts as tried.
GiveUpUntried ==
    /\ pc = "send" /\ attempts = MaxAttempts
    /\ pc' = "for" /\ query' = NoQuery /\ attempts' = 0
    /\ UNCHANGED <<cache, pending, results, loopVars, late, names>>

\* No reply: null.
GiveUp ==
    /\ pc = "send" /\ attempts = MaxAttempts
    /\ tried' = tried \cup {query.rr}
    /\ pc' = "for" /\ query' = NoQuery /\ attempts' = 0
    /\ UNCHANGED <<cache, pending, results, ans, known, late, names>>

-----------------------------------------------------------------------------
Work ==
    \/ TooManyLevels \/ Call \/ Finish
    \/ CheckCache \/ ReturnCached \/ ReturnAns
    \/ ListServers \/ NextServer \/ LastServer
    \/ Send \/ SendNowhere \/ Receive \/ Timeout \/ GiveUp

Next ==
    \/ \E q \in Questions : findAndPrintResults(q)
    \/ reset \/ Expire
    \/ Work

Spec == Init /\ [][Next]_vars

\* The one thread runs on, and a receive ends after SO_TIMEOUT at the latest.
FairSpec == Spec /\ WF_pc(Work)

-----------------------------------------------------------------------------
(* Properties                                                              *)

\* What record r says is about a name that was looked up, or about one that a
\* name that was looked up stands for.
Related(r) ==
    r.name \in names \cup {TextResult(a) : a \in {a \in results : a.type = "CNAME"}}

\* The records collected are about the question, but for the addresses of servers that
\* were asked on the way; these come only with an address of a name that was looked up
\* (DNSLookupService.java:113, 119-128).  A lookup that gives up never passes off the
\* servers it has asked as results.
ResultsRelated ==
    \A r \in results :
        \/ Related(r)
        \/ r.type = "A" /\ \E s \in results : s.type = "A" /\ s.name \in names

\* A lookup has nobody to ask only if nameservers closer than the root are cached and
\* their addresses are not, be it that they expired first (DNSCache.java:118-131,
\* 142-153): they hide the root servers.
StrandedBelowRoot ==
    pc = "while" /\ Current.name # "" =>
        \/ filterByKnownIPAddress(cache, getBestNameservers(cache, Current.name)) # {}
        \/ \E rr \in cache : /\ rr.type \in {"NS", "CNAME"} /\ rr.name # ""
                             /\ rr.name \in Range(Domains[Current.name])

\* Every lookup ends, with aliases that form a loop and servers that are silent or late
\* or forgotten meanwhile too (DNSLookupService.java:73, 110-114, 160).
LookupEnds == (pc # "idle") ~> (pc = "idle")

\* "A set of resource records corresponding to the specific query requested"
\* (DNSLookupService.java:66): each is about a name looked up, or what it stands for.
ResultsAnswerTheQuestion == \A r \in results : Related(r)

\* "A non-empty set of NS resources that are the best ones to answer this query"
\* (DNSCache.java:116): who is asked is named by an NS record.
OnlyNameserversAsked == pc \in {"send", "receive"} => query.ns.type = "NS"
=============================================================================
