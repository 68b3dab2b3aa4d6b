-------------------------- MODULE DnsLookupProofs --------------------------
(***************************************************************************)
(* Theorems about DnsLookup, for every set of questions, servers and       *)
(* replies: what the results of a lookup are about, and when a lookup has  *)
(* nobody to ask.                                                          *)
(***************************************************************************)
EXTENDS DnsLookup, FiniteSetTheorems, WellFoundedInduction, TLAPS

-----------------------------------------------------------------------------
(* Facts about records and the cache.                                      *)

\* Addresses stand in A records, names in the others.
LEMMA RecordFields ==
    ASSUME NEW rr \in Record
    PROVE  /\ rr.name \in Name /\ rr.type \in Types
           /\ rr.type = "A" => rr.val \in Address
           /\ rr.type # "A" => rr.val \in Name
BY DEF Record, Types

\* Two questions are the same when name and type are.
LEMMA SameQuestion ==
    ASSUME NEW rr, NEW n, NEW t, QuestionOf(rr) = Of(n, t)
    PROVE  rr.name = n /\ rr.type = t
<1>1. Of(rr.name, rr.type).name = Of(n, t).name /\ Of(rr.name, rr.type).type = Of(n, t).type
    BY DEF QuestionOf
<1>2. QED BY <1>1 DEF Of

\* What the cache gives for a question is about its name, or about what its name is an
\* alias for; without aliases it is what was asked for.
LEMMA CachedResults ==
    ASSUME NEW c, NEW n, NEW t, NEW rr \in getCachedResults(c, Of(n, t))
    PROVE  /\ rr \in c
           /\ \/ rr.name = n /\ rr.type \in {t, "CNAME"}
              \/ \E alias \in getCachedResults(c, Of(n, t)) :
                    /\ alias.name = n /\ alias.type = "CNAME" /\ TextResult(alias) = rr.name
<1> DEFINE aliases == Lookup(c, Of(n, "CNAME"))
<1>1. getCachedResults(c, Of(n, t)) = Lookup(c, Of(n, t)) \cup aliases
          \cup UNION {Lookup(c, Of(TextResult(a), "A")) : a \in aliases}
    BY DEF getCachedResults, Of
<1>2. \A a \in aliases : a \in c /\ a.name = n /\ a.type = "CNAME"
    BY SameQuestion DEF Lookup
<1>3. CASE rr \in Lookup(c, Of(n, t)) \cup aliases
    BY <1>2, <1>3, SameQuestion DEF Lookup
<1>4. ASSUME NEW a \in aliases, rr \in Lookup(c, Of(TextResult(a), "A"))
      PROVE  rr \in c /\ rr.name = TextResult(a) /\ a \in getCachedResults(c, Of(n, t))
    BY <1>1, <1>4, SameQuestion DEF Lookup
<1> HIDE DEF aliases
<1>5. QED BY <1>1, <1>2, <1>3, <1>4

\* The cache gives something only if it knows something about the name itself.
LEMMA CachedIsKnown ==
    ASSUME NEW c, NEW n, NEW t, getCachedResults(c, Of(n, t)) # {}
    PROVE  \E rr \in c : rr.type \in {t, "CNAME"} /\ rr.name = n
<1>1. PICK rr : rr \in getCachedResults(c, Of(n, t))
    OBVIOUS
<1>2. CASE rr.name = n /\ rr.type \in {t, "CNAME"}
    BY <1>1, <1>2, CachedResults
<1>3. CASE ~(rr.name = n /\ rr.type \in {t, "CNAME"})
    <2>1. PICK alias \in getCachedResults(c, Of(n, t)) : alias.name = n /\ alias.type = "CNAME"
        BY <1>1, <1>3, CachedResults
    <2>2. alias \in c
        BY <2>1, CachedResults
    <2>3. QED BY <2>1, <2>2
<1>4. QED BY <1>2, <1>3

\* A record that is cached is found.
LEMMA CachedIsFound ==
    ASSUME NEW c, NEW rr \in c
    PROVE  rr \in getCachedResults(c, Of(rr.name, rr.type))
<1>1. rr \in Lookup(c, Of(rr.name, rr.type))
    BY DEF Lookup, QuestionOf
<1>2. QED BY <1>1 DEF getCachedResults

\* The places of a list.
LEMMA ListPlaces ==
    ASSUME NEW S, NEW s \in Seq(S)
    PROVE  Len(s) \in Nat /\ 1..Len(s) \subseteq Nat
OBVIOUS

\* What stands at a place of a list is in its range.
LEMMA ListRange ==
    ASSUME NEW S, NEW s \in Seq(S), NEW i \in 1..Len(s)
    PROVE  s[i] \in Range(s)
BY DEF Range

\* A list without its head.
LEMMA ListTail ==
    ASSUME NEW S, NEW s \in Seq(S), s # <<>>
    PROVE  Head(s) \in S /\ Tail(s) \in Seq(S)
OBVIOUS

\* Of a set of places in a list the least is one of them.
LEMMA LeastPlace ==
    ASSUME NEW S, S \subseteq Nat, S # {}
    PROVE  Min(S) \in S
<1>1. PICK x \in S : \A y \in S : ~ (<<y, x>> \in OpToRel(<, Nat))
    BY NatLessThanWellFounded, WFMin
<1>2. ASSUME NEW y \in S PROVE x <= y
    <2>1. x \in Nat /\ y \in Nat
        OBVIOUS
    <2>2. ~(y < x)
        BY <1>1, <2>1 DEF OpToRel
    <2>3. QED BY <2>1, <2>2
<1>3. QED BY <1>2 DEF Min

\* What the cache gives for the servers of a name comes from one of its suffixes, and
\* from the root if from no other.
LEMMA BestServers ==
    ASSUME RootServers \subseteq cache, NEW n \in Name, n # ""
    PROVE  \E i \in 1..Len(Domains[n]) :
                /\ getBestNameservers(cache, n) = getCachedResults(cache, Of(Domains[n][i], "NS"))
                /\ getBestNameservers(cache, n) # {}
<1> DEFINE servers(i) == getCachedResults(cache, Of(Domains[n][i], "NS"))
           hits == {i \in 1..Len(Domains[n]) : servers(i) # {}}
<1>1. PICK r \in 1..Len(Domains[n]) : Domains[n][r] = ""
    BY CacheAssumption
<1>2. PICK ns \in RootServers : ns.name = "" /\ ns.type = "NS"
    BY CacheAssumption
<1>3. ns \in servers(r)
    BY <1>1, <1>2, CachedIsFound
<1>4. hits # {} /\ hits \subseteq Nat
    <2>1. r \in hits
        BY <1>3
    <2>2. hits \subseteq 1..Len(Domains[n])
        BY Zenon
    <2> HIDE DEF hits, servers
    <2>3. Domains[n] \in Seq(Name)
        BY CacheAssumption
    <2>4. 1..Len(Domains[n]) \subseteq Nat
        BY <2>3, ListPlaces
    <2>5. QED BY <2>1, <2>2, <2>4
<1>5. Min(hits) \in hits
    <2> HIDE DEF hits
    <2>1. QED BY <1>4, LeastPlace
<1>6. getBestNameservers(cache, n) = servers(Min(hits))
    BY <1>4 DEF getBestNameservers
<1>7. QED BY <1>5, <1>6
-----------------------------------------------------------------------------
(* Types, and what the stages of a lookup rest on.                         *)

Stages == {"idle", "call", "cached", "return", "while", "for", "send", "receive"}

\* The addresses that servers are known by.
ServerRecord == {rr \in Record : rr.type = "A"}

Calls == Seq([question : Question, left : Int])

\* A lookup beyond its first call has a question, the name of which is counted; only
\* servers with an address are asked; the root servers are never forgotten.
TypeInv ==
    /\ pc \in Stages
    /\ cache \subseteq Record /\ RootServers \subseteq cache
    /\ pending \in Calls
    /\ results \subseteq Record /\ ans \subseteq ServerRecord
    /\ \A k \in known : k.rr \in Record
    /\ pc \in {"send", "receive"} => query.rr \in Record
    /\ pc = "receive" => query.rr \in ServerRecord
    /\ \A d \in late : d.msg \in Response
    /\ pc \notin {"idle", "call"} => pending # <<>> /\ Current.name \in names

\* The question of the current call.
LEMMA CurrentType ==
    ASSUME pending \in Calls, pending # <<>>
    PROVE  /\ Current \in Question /\ Current.name \in Name /\ Current.type \in Types
           /\ Head(pending).left \in Int /\ Tail(pending) \in Calls
<1>1. Head(pending) \in [question : Question, left : Int] /\ Tail(pending) \in Calls
    BY ListTail DEF Calls
<1>2. Current \in Question /\ Head(pending).left \in Int
    BY <1>1 DEF Current
<1>3. QED BY <1>1, <1>2 DEF Question

\* The calls for the aliases are calls.
LEMMA FollowType ==
    ASSUME pending \in Calls, pending # <<>>, NEW direct, direct \subseteq Record,
           NEW calls \in SetToSeqs(Follow(direct))
    PROVE  calls \o Tail(pending) \in Calls
<1>1. Follow(direct) \subseteq [question : Question, left : Int]
    <2>1. ASSUME NEW rr \in direct, rr.type = "CNAME"
          PROVE  [question |-> Of(rr.val, Current.type), left |-> Head(pending).left - 1]
                    \in [question : Question, left : Int]
        <3>1. rr.val \in Name
            BY <2>1, RecordFields
        <3>2. Of(rr.val, Current.type) \in Question
            BY <3>1, CurrentType DEF Of, Question
        <3>3. Head(pending).left - 1 \in Int
            BY CurrentType
        <3>4. QED BY <3>2, <3>3
    <2>2. QED BY <2>1 DEF Follow
<1>2. IsFiniteSet(Follow(direct))
    <2> DEFINE aliases == {rr \in direct : rr.type = "CNAME"}
               call(rr) == [question |-> Of(rr.val, Current.type), left |-> Head(pending).left - 1]
               callOf == [rr \in aliases |-> call(rr)]
    <2>1. IsFiniteSet(aliases)
        BY CacheAssumption, FS_Subset
    <2>2. Follow(direct) = {call(rr) : rr \in aliases}
        BY DEF Follow
    <2> HIDE DEF aliases, call
    <2>3. callOf \in Surjection(aliases, Follow(direct))
        BY <2>2 DEF Surjection
    <2>4. QED BY <2>1, <2>3, FS_Surjection
<1>3. Cardinality(Follow(direct)) \in Nat
    BY <1>2, FS_CardinalityType
<1>4. calls \in [1..Cardinality(Follow(direct)) -> Follow(direct)]
    BY DEF SetToSeqs
<1>5. calls \in Calls
    BY <1>1, <1>3, <1>4 DEF Calls
<1>6. QED BY <1>5, CurrentType DEF Calls

\* A question is its name and type.
LEMMA QuestionIsOf ==
    ASSUME NEW q \in Question
    PROVE  q = Of(q.name, q.type)
BY DEF Question, Of

\* iterativeQuery returns with records, and the aliases are to be followed.
LEMMA ReturnType ==
    ASSUME TypeInv, pending # <<>>, NEW direct, direct \subseteq Record, Return(direct)
    PROVE  TypeInv'
<1>1. pending \in Calls
    BY DEF TypeInv
<1>2. pending' \in Calls
    <2>1. CASE containsAnswer(direct, Current)
        BY <1>1, <2>1, CurrentType DEF Return
    <2>2. CASE ~containsAnswer(direct, Current)
        BY <1>1, <2>2, FollowType DEF Return
    <2>3. QED BY <2>1, <2>2
<1>3. pc' = "call" /\ cache' = cache /\ late' = late /\ ans' = {} /\ known' = {}
    BY DEF Return
<1>4. results' \subseteq Record
    BY DEF Return, TypeInv
<1>5. pc' \in Stages /\ pc' \notin {"send", "receive"} /\ pc' \in {"idle", "call"}
    BY <1>3 DEF Stages
<1>6. QED BY <1>2, <1>3, <1>4, <1>5 DEF TypeInv

\* A failed lookup leaves nothing but the cache and the datagrams.
LEMMA FailType ==
    ASSUME TypeInv, Fail, cache' = cache, late' \subseteq late
    PROVE  TypeInv'
<1>1. pc' \in Stages /\ pc' \notin {"send", "receive"} /\ pc' \in {"idle", "call"}
    BY DEF Fail, Stages
<1>2. pending' \in Calls
    BY DEF Fail, Calls
<1>3. QED BY <1>1, <1>2 DEF Fail, TypeInv

\* A reply puts records in the cache, and the server among those that replied.
LEMMA AcceptType ==
    ASSUME TypeInv, pc = "receive", NEW msg \in Response, Accept(msg), late' \subseteq late
    PROVE  TypeInv'
<1>1. cache' \subseteq Record /\ RootServers \subseteq cache'
    <2>1. ASSUME NEW a \in msg.answers
          PROVE  addResult(cache, a) \subseteq Record
        BY DEF Response, addResult, TypeInv
    <2> DEFINE added == UNION {addResult(cache, a) : a \in msg.answers}
    <2>2. added \subseteq Record
        BY <2>1
    <2>3. cache \subseteq Record /\ RootServers \subseteq cache
        BY DEF TypeInv
    <2>4. cache' = cache \cup added
        BY DEF Accept
    <2> HIDE DEF added
    <2>5. QED BY <2>2, <2>3, <2>4
<1>2. ans' \subseteq ServerRecord
    BY DEF Accept, TypeInv
<1>3. pc' \in Stages /\ pc' \notin {"send", "receive"}
    BY DEF Accept, Stages
<1>4. \A k \in known' : k.rr \in Record
    BY DEF Accept, TypeInv
<1>5. pending # <<>> /\ Current.name \in names /\ pending' = pending /\ names' = names
    BY DEF Accept, TypeInv
<1>6. Current' = Current
    BY <1>5 DEF Current
<1>7. QED BY <1>1, <1>2, <1>3, <1>4, <1>5, <1>6 DEF Accept, TypeInv

\* Every step keeps the types.
LEMMA TypeStep ==
    ASSUME TypeInv, [Next]_vars
    PROVE  TypeInv'
<1> USE DEF Stages
<1>0. pending' = pending => Current' = Current
    BY DEF Current
<1>1. CASE \E q \in Questions : findAndPrintResults(q)
    <2>1. PICK q \in Questions : findAndPrintResults(q)
        BY <1>1
    <2>2. [question |-> q, left |-> MaxIndirection] \in [question : Question, left : Int]
        BY LookupAssumption
    <2>3. pending' \in Calls
        BY <2>1, <2>2 DEF findAndPrintResults, Calls
    <2>4. QED BY <2>1, <2>3 DEF findAndPrintResults, TypeInv, loopVars, queryVars
<1>2. CASE reset
    BY <1>0, <1>2, CacheAssumption DEF reset, TypeInv, loopVars, queryVars
<1>3. CASE Expire
    <2>1. Short \cap RootServers = {}
        BY LookupAssumption
    <2>2. cache' \subseteq Record /\ RootServers \subseteq cache'
        BY <1>3, <2>1 DEF Expire, TypeInv
    <2>3. QED BY <1>0, <1>3, <2>2 DEF Expire, TypeInv, loopVars, queryVars
<1>4. CASE TooManyLevels
    BY <1>4, FailType DEF TooManyLevels
<1>5. CASE Call
    <2>1. Current.name \in names'
        BY <1>5 DEF Call
    <2>2. QED BY <1>0, <1>5, <2>1 DEF Call, TypeInv, loopVars, queryVars
<1>6. CASE Finish
    BY <1>6 DEF Finish, TypeInv, loopVars, queryVars
<1>7. CASE CheckCache
    BY <1>0, <1>7 DEF CheckCache, TypeInv, loopVars, queryVars
<1>8. CASE ReturnCached
    <2>1. pending # <<>> /\ pending \in Calls /\ cache \subseteq Record
        BY <1>8 DEF ReturnCached, TypeInv
    <2>2. Current = Of(Current.name, Current.type)
        BY <2>1, CurrentType, QuestionIsOf
    <2>3. getCachedResults(cache, Current) \subseteq Record
        BY <2>1, <2>2, CachedResults
    <2>4. QED BY <1>8, <2>1, <2>3, ReturnType DEF ReturnCached
<1>9. CASE ReturnAns
    <2>1. pending # <<>> /\ ans \subseteq Record
        BY <1>9 DEF ReturnAns, TypeInv, ServerRecord
    <2>2. QED BY <1>9, <2>1, ReturnType DEF ReturnAns
<1>10. CASE ListServers
    <2> DEFINE best == filterByKnownIPAddress(cache, getBestNameservers(cache, Current.name))
    <2>1. \A k \in best : k.rr \in cache
        <3>1. ASSUME NEW k \in best PROVE k.rr \in cache
            <4>1. PICK s : \E rr \in getCachedResults(cache, Of(TextResult(s), "A")) :
                        k = [ns |-> s, rr |-> rr]
                BY DEF filterByKnownIPAddress
            <4>2. QED BY <4>1, CachedResults
        <3>2. QED BY <3>1
    <2>2. known' = {} \/ known' = best
        BY <1>10 DEF ListServers
    <2>3. \A k \in known' : k.rr \in Record
        BY <2>1, <2>2 DEF TypeInv
    <2>4. pc' \in {"return", "for"}
        BY <1>10 DEF ListServers
    <2>5. pc = "while" /\ cache' = cache /\ pending' = pending /\ results' = results
          /\ ans' = ans /\ query' = query /\ late' = late /\ names' = names
        BY <1>10 DEF ListServers, queryVars
    <2>6. QED BY <1>0, <2>3, <2>4, <2>5 DEF TypeInv
<1>11. CASE NextServer
    <2>1. PICK k \in known, n \in Ids :
            /\ known' = known \ {k}
            /\ query' = [ns |-> k.ns, rr |-> k.rr, id |-> n]
        BY <1>11 DEF NextServer
    <2>2. query'.rr \in Record
        BY <2>1 DEF TypeInv
    <2>3. QED BY <1>0, <1>11, <2>1, <2>2 DEF NextServer, TypeInv
<1>12. CASE LastServer
    BY <1>0, <1>12 DEF LastServer, TypeInv, loopVars, queryVars
<1>13. CASE Send
    <2>1. query.rr \in ServerRecord /\ pending \in Calls /\ pending # <<>>
        BY <1>13 DEF Send, TypeInv, ServerRecord, HasInetResult
    <2>2. Replies[query.rr.val][Current] \subseteq Response
        BY <2>1, RecordFields, CurrentType, LookupAssumption DEF ServerRecord
    <2>3. \A d \in late' : d.msg \in Response
        BY <1>13, <2>2 DEF Send, TypeInv
    <2>4. QED BY <1>0, <1>13, <2>1, <2>3 DEF Send, TypeInv, loopVars, ServerRecord
<1>14. CASE SendNowhere
    BY <1>14, FailType DEF SendNowhere
<1>15. CASE Receive
    <2>1. PICK d \in late :
            /\ late' = late \ {d}
            /\ IF d.id # query.id
               THEN /\ pc' = "send"
                    /\ UNCHANGED <<cache, pending, results, loopVars, query, attempts, names>>
               ELSE IF d.msg.rcode # 0 THEN Fail /\ UNCHANGED cache
               ELSE Accept(d.msg)
        BY <1>15 DEF Receive
    <2>2. pc = "receive" /\ d.msg \in Response /\ late' \subseteq late
        BY <1>15, <2>1 DEF Receive, TypeInv
    <2>3. CASE d.id # query.id
        BY <1>0, <2>1, <2>2, <2>3 DEF TypeInv, loopVars
    <2>4. CASE d.id = query.id /\ d.msg.rcode # 0
        BY <2>1, <2>2, <2>4, FailType
    <2>5. CASE d.id = query.id /\ d.msg.rcode = 0
        BY <2>1, <2>2, <2>5, AcceptType
    <2>6. QED BY <2>3, <2>4, <2>5
<1>16. CASE Timeout
    BY <1>0, <1>16 DEF Timeout, TypeInv, loopVars, queryVars
<1>17. CASE GiveUp
    BY <1>0, <1>17 DEF GiveUp, TypeInv
<1>18. CASE UNCHANGED vars
    BY <1>0, <1>18 DEF vars, loopVars, queryVars, TypeInv
<1>19. QED
    BY <1>1, <1>2, <1>3, <1>4, <1>5, <1>6, <1>7, <1>8, <1>9, <1>10, <1>11, <1>12,
       <1>13, <1>14, <1>15, <1>16, <1>17, <1>18 DEF Next, Work

-----------------------------------------------------------------------------
(* What the results are about.                                             *)

\* What is returned for a question is about its name, about what that stands for, or
\* an address that comes with one of the name.
LEMMA ReturnRelated ==
    ASSUME TypeInv, ResultsRelated, Current.name \in names, NEW direct, Return(direct),
           \A r \in direct :
                \/ r.name = Current.name
                \/ \E alias \in direct : /\ alias.name = Current.name /\ alias.type = "CNAME"
                                        /\ TextResult(alias) = r.name
                \/ r.type = "A" /\ \E s \in direct : s.type = "A" /\ s.name = Current.name
    PROVE  ResultsRelated'
<1>1. results' = results \cup direct /\ names' = names
    BY DEF Return
<1>2. ASSUME NEW r \in results
      PROVE  \/ Related(r)'
             \/ r.type = "A" /\ \E s \in results' : s.type = "A" /\ s.name \in names'
    BY <1>1 DEF ResultsRelated, Related
<1>3. ASSUME NEW r \in direct
      PROVE  \/ Related(r)'
             \/ r.type = "A" /\ \E s \in results' : s.type = "A" /\ s.name \in names'
    BY <1>1 DEF Related
<1>4. QED BY <1>1, <1>2, <1>3 DEF ResultsRelated

\* Every step keeps the results related to the question.
LEMMA RelatedStep ==
    ASSUME TypeInv, ResultsRelated, [Next]_vars
    PROVE  ResultsRelated'
<1>1. CASE results' = {}
    BY <1>1 DEF ResultsRelated
<1>2. CASE results' = results /\ names \subseteq names'
    BY <1>2 DEF ResultsRelated, Related
<1>3. CASE ReturnCached
    <2>1. /\ pending # <<>> /\ pending \in Calls /\ Current.name \in names
          /\ Return(getCachedResults(cache, Current))
        BY <1>3 DEF ReturnCached, TypeInv
    <2>2. Current = Of(Current.name, Current.type)
        BY <2>1, CurrentType, QuestionIsOf
    <2>3. \A r \in getCachedResults(cache, Current) :
                \/ r.name = Current.name
                \/ \E alias \in getCachedResults(cache, Current) :
                        /\ alias.name = Current.name /\ alias.type = "CNAME"
                        /\ TextResult(alias) = r.name
        BY <2>2, CachedResults
    <2>4. QED BY <2>1, <2>3, ReturnRelated
<1>4. CASE ReturnAns
    <2>1. /\ pending # <<>> /\ pending \in Calls /\ Current.name \in names
          /\ Return(ans) /\ \A s \in ans : s.type = "A"
        BY <1>4 DEF ReturnAns, TypeInv, ServerRecord
    <2>2. PICK s \in ans : QuestionOf(s) = Current
        BY <1>4 DEF ReturnAns, containsAnswer
    <2>3. s.name = Current.name /\ s.type = "A"
        <3>1. Current = Of(Current.name, Current.type)
            BY <2>1, CurrentType, QuestionIsOf
        <3>2. QED BY <2>1, <2>2, <3>1, SameQuestion
    <2>4. QED BY <2>1, <2>3, ReturnRelated
<1>5. results' = {} \/ (results' = results /\ names \subseteq names')
      \/ ReturnCached \/ ReturnAns
    BY DEF Next, Work, vars, findAndPrintResults, reset, Expire, TooManyLevels, Fail, Call,
           Finish, CheckCache, ListServers, NextServer, LastServer, Send, SendNowhere, Receive,
           Accept, Timeout, GiveUp
<1>6. QED BY <1>1, <1>2, <1>3, <1>4, <1>5

\* A lookup begins with well-typed state and without results.
LEMMA InitHolds ==
    ASSUME Init
    PROVE  TypeInv /\ ResultsRelated
<1>1. pending \in Calls
    BY DEF Init, Calls
<1>2. TypeInv
    BY <1>1, CacheAssumption DEF Init, TypeInv, Stages
<1>3. QED BY <1>2 DEF Init, ResultsRelated

\* In every state reached the variables have their types, and who is asked an address.
THEOREM TypesHold == Spec => []TypeInv
<1>1. Init => TypeInv
    BY InitHolds
<1>2. TypeInv /\ [Next]_vars => TypeInv'
    BY TypeStep
<1>3. QED BY <1>1, <1>2, PTL DEF Spec

\* The records collected are about names looked up, or what these stand for, but for the
\* addresses of servers that were asked on the way; and these are there only with an
\* address of a name that was looked up (DNSLookupService.java:113, 119-128).
THEOREM ResultsAreRelated == Spec => []ResultsRelated
<1>1. Init => ResultsRelated
    BY InitHolds
<1>2. TypeInv /\ ResultsRelated /\ [Next]_vars => ResultsRelated'
    BY RelatedStep
<1>3. QED BY <1>1, <1>2, TypesHold, PTL DEF Spec

-----------------------------------------------------------------------------
(* Whom a lookup can ask.                                                  *)

\* With a root server whose address is known, whoever finds the root can ask.
LEMMA RootHasAddress ==
    ASSUME RootServers \subseteq cache
    PROVE  filterByKnownIPAddress(cache, getCachedResults(cache, Of("", "NS"))) # {}
<1>1. PICK ns \in RootServers, a \in RootServers :
            ns.name = "" /\ ns.type = "NS" /\ a.name = ns.val /\ a.type = "A"
    BY CacheAssumption
<1>2. ns \in getCachedResults(cache, Of("", "NS"))
    BY <1>1, CachedIsFound
<1>3. a \in getCachedResults(cache, Of(TextResult(ns), "A"))
    <2>1. TextResult(ns) = a.name
        BY <1>1 DEF TextResult
    <2>2. a \in getCachedResults(cache, Of(a.name, a.type))
        BY CachedIsFound
    <2>3. QED BY <1>1, <2>1, <2>2
<1>4. [ns |-> ns, rr |-> a] \in filterByKnownIPAddress(cache, getCachedResults(cache, Of("", "NS")))
    <2> DEFINE best == getCachedResults(cache, Of("", "NS"))
               found(s) == {[ns |-> s, rr |-> rr] :
                            rr \in getCachedResults(cache, Of(TextResult(s), "A"))}
    <2>1. filterByKnownIPAddress(cache, best) = UNION {found(s) : s \in best}
        BY DEF filterByKnownIPAddress
    <2>2. [ns |-> ns, rr |-> a] \in found(ns)
        BY <1>3
    <2>3. ns \in best
        BY <1>2
    <2> HIDE DEF best, found
    <2>4. [ns |-> ns, rr |-> a] \in filterByKnownIPAddress(cache, best)
        BY <2>1, <2>2, <2>3
    <2>5. QED BY <2>4 DEF best
<1>5. QED BY <1>4

\* Nobody is left to ask only where servers below the root are cached.
LEMMA Stranded ==
    ASSUME TypeInv
    PROVE  StrandedBelowRoot
<1> SUFFICES ASSUME pc = "while", Current.name # ""
             PROVE  \/ filterByKnownIPAddress(cache, getBestNameservers(cache, Current.name)) # {}
                    \/ \E rr \in cache : /\ rr.type \in {"NS", "CNAME"} /\ rr.name # ""
                                         /\ rr.name \in Range(Domains[Current.name])
    BY DEF StrandedBelowRoot
<1>1. RootServers \subseteq cache /\ Current.name \in Name
    BY CurrentType DEF TypeInv
<1>2. PICK i \in 1..Len(Domains[Current.name]) :
            /\ getBestNameservers(cache, Current.name)
                 = getCachedResults(cache, Of(Domains[Current.name][i], "NS"))
            /\ getBestNameservers(cache, Current.name) # {}
    BY <1>1, BestServers
<1> DEFINE suffix == Domains[Current.name][i]
<1>3. CASE suffix = ""
    BY <1>1, <1>2, <1>3, RootHasAddress
<1>4. CASE suffix # ""
    <2>1. PICK rr \in cache : rr.type \in {"NS", "CNAME"} /\ rr.name = suffix
        <3>1. getCachedResults(cache, Of(suffix, "NS")) # {}
            BY <1>2
        <3> HIDE DEF suffix
        <3>2. QED BY <3>1, CachedIsKnown
    <2>2. suffix \in Range(Domains[Current.name])
        <3>1. Domains[Current.name] \in Seq(Name)
            BY <1>1, CacheAssumption
        <3>2. QED BY <3>1, ListRange
    <2>3. QED BY <1>4, <2>1, <2>2
<1>5. QED BY <1>3, <1>4

\* A lookup has nobody to ask only if a record is cached that names servers closer than
\* the root: the root servers stay and have addresses (DNSCache.java:118-131, 142-153).
THEOREM RootIsReached == Spec => []StrandedBelowRoot
<1>1. TypeInv => StrandedBelowRoot
    BY Stranded
<1>2. QED BY <1>1, TypesHold, PTL
=============================================================================
