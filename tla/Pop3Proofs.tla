----------------------------- MODULE Pop3Proofs -----------------------------
(* Theorems about Pop3, for every number of threads, every mail store and  *)
(* every users.txt.                                                        *)
EXTENDS Pop3, SequenceTheorems, TLAPS

-----------------------------------------------------------------------------
(* The invariant, by parts                                                 *)

Stages == {"closed", "read", "split", "next", "exec", "rewindUser", "scanUser", "copy",
           "rewindPass", "scanPass", "load", "unlink"}

Places == [buf : Sessions, at : Nat \ {0}] \cup {NoPlace}

\* An entry of a mail list when n messages have arrived.
Entry(n) == [box : Mailboxes, file : Files, msg : 1..n, deleted : BOOLEAN]

TypeInv ==
    /\ up \in BOOLEAN
    /\ pc \in [Sessions -> Stages]
    /\ state \in [Sessions -> {"Undefined", "Authorization", "Transaction", "Update"}]
    /\ line \in [Sessions -> Lines \cup {<<>>}]
    /\ words \in [Sessions -> Seq(Places)] /\ olds \in Places
    /\ username \in [Sessions -> Word] /\ scan \in Nat \ {0}
    /\ list \in [Sessions -> Seq(Entry(arrived))]
    /\ todo \in [Sessions -> SUBSET Files]
    /\ arrived \in Nat /\ store \in [Mailboxes -> [Files -> 0..arrived]]
    /\ rest \in [Sessions -> Seq(Lines)]
    /\ reply \in [Sessions -> {"none", "ok", "err"}]
    /\ disturbed \in [Sessions -> BOOLEAN]
    /\ marked \in [Sessions -> SUBSET Entry(arrived)]

\* Where a thread stands, against the state of its session.
Stage(s) ==
    /\ pc[s] = "closed" => state[s] = "Undefined"
    /\ pc[s] \in {"rewindUser", "scanUser", "copy", "rewindPass", "scanPass", "load"} =>
        state[s] = "Authorization"
    /\ pc[s] \in {"rewindUser", "scanUser", "copy", "rewindPass", "scanPass"} => HasArgs(s, 1)
    /\ pc[s] = "unlink" <=> state[s] = "Update"
    /\ todo[s] # {} => pc[s] = "load" /\ username[s] \in Mailboxes
    /\ state[s] \in {"Undefined", "Authorization"} => marked[s] = {}

SameFile(d, e) == d.box = e.box /\ d.file = e.file

\* An entry of the list that names the file of e, and is to be deleted.
ToDelete(s, e) == \E n \in DOMAIN list[s] : list[s][n].deleted /\ SameFile(list[s][n], e)

\* What is deleted in the list is marked, and what is marked is deleted in the list or gone.
MarksAgree(s) ==
    /\ \A n \in DOMAIN list[s] :
        list[s][n].deleted => \E e \in marked[s] : SameFile(e, list[s][n])
    /\ \A e \in marked[s] : ToDelete(s, e) \/ store[e.box][e.file] # e.msg

Executing == {"exec", "rewindUser", "scanUser", "copy", "rewindPass", "scanPass"}

\* The words found so far are the first n of the line.
FirstWords(s, n) == words[s] = [i \in 1..n |-> Place(s, i)]

SplitSoFar(s) ==
    ~disturbed[s] /\ line[s] # <<>> =>
        /\ pc[s] \in Executing => FirstWords(s, Len(line[s]))
        /\ pc[s] = "next" =>
            \E n \in 1..Len(line[s]) : FirstWords(s, n) /\ olds = Place(s, n + 1)

\* Record i of users.txt has the name that USER asks for.
Matches(s, i) == Fold[UserFile[i].name] = Fold[line[s][2]]
InUserFile(s) == \E i \in 1..Len(UserFile) : Matches(s, i)

SearchSoFar(s) ==
    ~disturbed[s] /\ Len(line[s]) = 2 /\ line[s][1] = "USER" =>
        /\ pc[s] \notin {"rewindPass", "scanPass", "load"}
        /\ pc[s] = "scanUser" => \A i \in 1..Len(UserFile) : i < scan => ~Matches(s, i)
        /\ pc[s] = "copy" => InUserFile(s)
        /\ pc[s] = "read" /\ reply[s] # "none" /\ state[s] = "Authorization" =>
            (reply[s] = "ok") = InUserFile(s)

Loading(s) == pc[s] = "load"

DifferentFiles(l) == \A n, m \in DOMAIN l : l[n].file = l[m].file => n = m

\* A list is there from PASS on; its files differ, and are done with while it is read.
ListSoFar(s) ==
    /\ state[s] \in {"Undefined", "Authorization"} /\ ~Loading(s) => list[s] = <<>>
    /\ Loading(s) => \A n \in DOMAIN list[s] : list[s][n].file \notin todo[s]
    /\ DifferentFiles(list[s])

\* No two files hold the same message.
StoredOnce ==
    \A b, c \in Mailboxes, f, g \in Files :
        store[b][f] = store[c][g] => (b = c /\ f = g) \/ store[b][f] = NoMsg

\* A listed message that is in the store still stands under its own name.
ListedThere(s) ==
    \A n \in DOMAIN list[s], b \in Mailboxes, f \in Files :
        store[b][f] = list[s][n].msg => list[s][n].box = b /\ list[s][n].file = f

NumbersAgree(s) ==
    state[s] = "Transaction" =>
        /\ DOMAIN numbered[s] = DOMAIN list[s]
        /\ \A n \in DOMAIN list[s] : numbered[s][n] = list[s][n].msg

SentFits(s) ==
    /\ sent[s] # Nothing => pc[s] \in {"read", "closed"}
    /\ state[s] = "Transaction" /\ sent[s] # Nothing =>
        /\ sent[s].number \in DOMAIN numbered[s]
        /\ \/ sent[s].msg = numbered[s][sent[s].number]
           \/ /\ Gone(numbered[s][sent[s].number])
              /\ \A n \in DOMAIN numbered[s] : sent[s].msg # numbered[s][n]

NumberTypes ==
    numbered \in [Sessions -> Seq(Nat)] /\ sent \in [Sessions -> [number : Nat, msg : Nat]]

IInv ==
    /\ TypeInv /\ NumberTypes /\ StoredOnce
    /\ \A s \in Sessions :
        /\ Stage(s) /\ MarksAgree(s) /\ SplitSoFar(s) /\ SearchSoFar(s)
        /\ ListSoFar(s) /\ ListedThere(s) /\ NumbersAgree(s) /\ SentFits(s)

-----------------------------------------------------------------------------
(* Types                                                                   *)

\* An entry of n messages is one of more.
LEMMA EntriesGrow ==
    ASSUME NEW n \in Nat, NEW m \in Nat, n <= m
    PROVE  /\ Entry(n) \subseteq Entry(m)
           /\ Seq(Entry(n)) \subseteq Seq(Entry(m))
<1>1. Entry(n) \subseteq Entry(m)
    BY DEF Entry
<1>2. QED BY <1>1

\* Words of lines are words, and not empty.
LEMMA WordsOfLines ==
    ASSUME NEW l \in Lines, NEW i \in 1..Len(l)
    PROVE  l[i] \in Word /\ l[i] # NoWord
<1>1. l \in Seq(Word \ {NoWord})
    BY ConstAssumption
<1>2. QED BY <1>1

\* What stands at a place is a word.
LEMMA TextIsWord ==
    ASSUME TypeInv, NEW p \in Places
    PROVE  Text(p) \in Word
<1>1. NoWord \in Word
    BY DEF Word
<1>2. ASSUME p # NoPlace, p.at <= Len(line[p.buf]) PROVE line[p.buf][p.at] \in Word
    <2>1. p.buf \in Sessions /\ p.at \in Nat /\ p.at > 0
        BY <1>2 DEF Places
    <2>2. line[p.buf] # <<>> /\ line[p.buf] \in Lines
        BY <1>2, <2>1 DEF TypeInv
    <2>3. line[p.buf] \in Seq(Word \ {NoWord})
        BY <2>2, ConstAssumption
    <2>4. p.at \in 1..Len(line[p.buf])
        BY <1>2, <2>1, <2>3
    <2>5. QED BY <2>2, <2>4, WordsOfLines
<1>3. QED BY <1>1, <1>2 DEF Text

\* A sequence with one element put in behind the first k.
Put(l, k, e) == Append(SubSeq(l, 1, k), e) \o SubSeq(l, k + 1, Len(l))

HasBehind(r, l, k, e) ==
    /\ Len(r) = Len(l) + 1
    /\ \A i \in 1..k : r[i] = l[i]
    /\ r[k + 1] = e
    /\ \A i \in (k + 1)..Len(l) : r[i + 1] = l[i]

LEMMA Inserted ==
    ASSUME NEW S, NEW l \in Seq(S), NEW e \in S, NEW k \in 0..Len(l)
    PROVE  Put(l, k, e) \in Seq(S) /\ HasBehind(Put(l, k, e), l, k, e)
<1> DEFINE a == SubSeq(l, 1, k)
           c == SubSeq(l, k + 1, Len(l))
           b == Append(a, e)
           r == b \o c
<1>1. Len(l) \in Nat /\ k \in Nat /\ k <= Len(l) /\ \A i \in 1..Len(l) : l[i] \in S
    BY LenProperties, ElementOfSeq
<1>2. a \in Seq(S) /\ Len(a) = k /\ \A i \in 1..k : a[i] = l[i]
    <2>1. /\ a \in Seq(S) /\ Len(a) = IF 1 <= k THEN k - 1 + 1 ELSE 0
          /\ \A i \in 1..(k - 1 + 1) : a[i] = l[1 + i - 1]
        BY <1>1, SubSeqProperties
    <2>2. QED BY <1>1, <2>1
<1>3. c \in Seq(S) /\ Len(c) = Len(l) - k /\ \A i \in (k + 1)..Len(l) : c[i - k] = l[i]
    <2>1. /\ c \in Seq(S) /\ Len(c) = IF k + 1 <= Len(l) THEN Len(l) - (k + 1) + 1 ELSE 0
          /\ \A i \in 1..(Len(l) - (k + 1) + 1) : c[i] = l[(k + 1) + i - 1]
        BY <1>1, SubSeqProperties
    <2>2. ASSUME NEW i \in (k + 1)..Len(l) PROVE c[i - k] = l[i]
        <3>1. i - k \in 1..(Len(l) - (k + 1) + 1) /\ (k + 1) + (i - k) - 1 = i
            BY <1>1
        <3>2. QED BY <2>1, <3>1
    <2>3. QED BY <1>1, <2>1, <2>2
<1> HIDE DEF a, c
<1>4. b \in Seq(S) /\ Len(b) = k + 1 /\ (\A i \in 1..k : b[i] = l[i]) /\ b[k + 1] = e
    BY <1>1, <1>2, AppendProperties
<1> HIDE DEF b
<1>5. /\ r \in Seq(S) /\ Len(r) = Len(b) + Len(c)
      /\ \A i \in 1..(Len(b) + Len(c)) : r[i] = IF i <= Len(b) THEN b[i] ELSE c[i - Len(b)]
    BY <1>3, <1>4, ConcatProperties
<1> HIDE DEF r
<1>6. Len(r) = Len(l) + 1 /\ (\A i \in 1..k : r[i] = l[i]) /\ r[k + 1] = e
    <2>1. Len(r) = Len(l) + 1
        BY <1>1, <1>3, <1>4, <1>5
    <2>2. ASSUME NEW i \in 1..k PROVE r[i] = l[i]
        <3>1. i \in 1..(Len(b) + Len(c)) /\ i <= Len(b)
            BY <1>1, <1>3, <1>4
        <3>2. QED BY <1>4, <1>5, <3>1
    <2>3. k + 1 \in 1..(Len(b) + Len(c)) /\ k + 1 <= Len(b)
        BY <1>1, <1>3, <1>4
    <2>4. r[k + 1] = e
        BY <1>4, <1>5, <2>3
    <2>5. QED BY <2>1, <2>2, <2>4
<1>7. ASSUME NEW i \in (k + 1)..Len(l) PROVE r[i + 1] = l[i]
    <2>1. i + 1 \in 1..(Len(b) + Len(c)) /\ ~(i + 1 <= Len(b)) /\ (i + 1) - Len(b) = i - k
        BY <1>1, <1>3, <1>4
    <2>2. QED BY <1>3, <1>5, <2>1
<1>8. QED BY <1>5, <1>6, <1>7 DEF r, a, b, c, Put, HasBehind

LEMMA TypeInit == Init => TypeInv
<1> SUFFICES ASSUME Init PROVE TypeInv
    OBVIOUS
<1>1. NoPlace \in Places /\ NoWord \in Word
    BY DEF Places, Word
<1>2. QED BY <1>1, ConstAssumption DEF Init, TypeInv, Stages

LEMMA TypeNext == TypeInv /\ (\A s \in Sessions : Stage(s)) /\ [Next]_vars => TypeInv'
<1> SUFFICES ASSUME TypeInv, \A s \in Sessions : Stage(s), [Next]_vars PROVE TypeInv'
    OBVIOUS
<1> USE DEF Goto, Answer, Set, Stages, lineVars, userVars, mailVars, bounds, history, retrVars
<1>0. CASE UNCHANGED vars
    BY <1>0 DEF vars, TypeInv
<1>1. ASSUME NEW s \in Sessions, Accept(s) PROVE TypeInv'
    <2>1. NoWord \in Word /\ \A t \in Sessions : username[t] \in Word
        BY DEF Word, TypeInv
    <2>2. username' \in [Sessions -> Word]
        BY <1>1, <2>1 DEF Accept, TypeInv
    <2>3. rest' \in [Sessions -> Seq(Lines)]
        BY <1>1, ConstAssumption DEF Accept, TypeInv
    <2>4. QED BY <1>1, <2>2, <2>3 DEF Accept, TypeInv
<1>2. ASSUME NEW s \in Sessions, ReadLine(s) PROVE TypeInv'
    <2>1. Head(rest[s]) \in Lines /\ Tail(rest[s]) \in Seq(Lines)
        BY <1>2, HeadTailProperties DEF ReadLine, TypeInv
    <2>2. line' \in [Sessions -> Lines \cup {<<>>}] /\ rest' \in [Sessions -> Seq(Lines)]
        BY <1>2, <2>1 DEF ReadLine, TypeInv
    <2>3. QED BY <1>2, <2>2 DEF ReadLine, TypeInv
<1>3. ASSUME NEW s \in Sessions, Hangup(s) PROVE TypeInv'
    BY <1>3, ConstAssumption DEF Hangup, TypeInv
<1>4. ASSUME NEW s \in Sessions, SplitFirst(s) PROVE TypeInv'
    <2>1. Place(s, 1) \in Places /\ Place(s, 2) \in Places /\ NoPlace \in Places
        BY DEF Places, Place
    <2>2. <<NoPlace>> \in Seq(Places) /\ <<Place(s, 1)>> \in Seq(Places)
        BY <2>1
    <2>3. words' \in [Sessions -> Seq(Places)] /\ olds' \in Places
        BY <1>4, <2>1, <2>2 DEF SplitFirst, TypeInv
    <2>4. QED BY <1>4, <2>3 DEF SplitFirst, Disturb, TypeInv
<1>5. ASSUME NEW s \in Sessions, SplitNext(s) PROVE TypeInv'
    <2>1. CASE Text(olds) # NoWord
        <3>1. olds \in [buf : Sessions, at : Nat \ {0}]
            BY <2>1 DEF Text, Places, TypeInv
        <3>2. [olds EXCEPT !.at = @ + 1] \in [buf : Sessions, at : Nat \ {0}]
            BY <3>1
        <3>3. olds' \in Places
            BY <1>5, <2>1, <3>2 DEF SplitNext, Places
        <3>4. words' \in [Sessions -> Seq(Places)]
            <4>1. words[s] \in Seq(Places) /\ olds \in Places
                BY DEF TypeInv
            <4>2. Append(words[s], olds) \in Seq(Places)
                BY <4>1, AppendProperties
            <4>3. QED BY <1>5, <2>1, <4>2 DEF SplitNext, TypeInv
        <3>5. QED BY <1>5, <2>1, <3>3, <3>4 DEF SplitNext, Disturb, TypeInv
    <2>2. CASE Text(olds) = NoWord
        BY <1>5, <2>2 DEF SplitNext, Disturb, TypeInv
    <2>3. QED BY <2>1, <2>2
<1>6. ASSUME NEW s \in Sessions, RewindUser(s) PROVE TypeInv'
    BY <1>6, ConstAssumption DEF RewindUser, Rewind, Disturb, TypeInv
<1>7. ASSUME NEW s \in Sessions, RewindPass(s) PROVE TypeInv'
    BY <1>7, ConstAssumption DEF RewindPass, Rewind, Disturb, TypeInv
<1>8. ASSUME NEW s \in Sessions, ScanEnd(s) PROVE TypeInv'
    BY <1>8, ConstAssumption DEF ScanEnd, TypeInv
<1>9. ASSUME NEW s \in Sessions, ScanUser(s) PROVE TypeInv'
    BY <1>9, ConstAssumption DEF ScanUser, Disturb, TypeInv
<1>10. ASSUME NEW s \in Sessions, CopyUser(s) PROVE TypeInv'
    <2>1. words[s] \in Seq(Places) /\ Len(words[s]) = 2
        BY <1>10 DEF CopyUser, Stage, HasArgs, TypeInv
    <2>2. Arg(s) \in Word
        BY <2>1, TextIsWord DEF Arg
    <2>3. QED BY <1>10, <2>2 DEF CopyUser, TypeInv
<1>11. ASSUME NEW s \in Sessions, ScanPass(s) PROVE TypeInv'
    <2> DEFINE other == Fold[username[s]] # Fold[UserFile[scan].name]
               right == Arg(s) = UserFile[scan].password
    <2>1. CASE other
        BY <1>11, <2>1 DEF ScanPass, Disturb, TypeInv
    <2>2. CASE ~other /\ ~right
        <3>1. Answer(s, "err") /\ UNCHANGED todo
            BY <1>11, <2>2 DEF ScanPass
        <3>2. pc' \in [Sessions -> Stages] /\ reply' \in [Sessions -> {"none", "ok", "err"}]
            BY <3>1 DEF TypeInv
        <3>3. QED BY <1>11, <3>1, <3>2 DEF ScanPass, Disturb, TypeInv
    <2>3. CASE ~other /\ right
        <3>1. /\ reply' = Set(reply, s, "ok") /\ Goto(s, "load")
              /\ todo' = Set(todo, s, IF username[s] \in Mailboxes THEN Files ELSE {})
            BY <1>11, <2>3 DEF ScanPass
        <3>2. pc' \in [Sessions -> Stages] /\ reply' \in [Sessions -> {"none", "ok", "err"}]
            BY <3>1 DEF TypeInv
        <3>3. todo' \in [Sessions -> SUBSET Files]
            BY <3>1 DEF TypeInv
        <3>4. QED BY <1>11, <3>2, <3>3 DEF ScanPass, Disturb, TypeInv
    <2>4. QED BY <2>1, <2>2, <2>3
<1>12. ASSUME NEW s \in Sessions, LoadEntry(s) PROVE TypeInv'
    <2>1. PICK f \in todo[s], k \in 0..Len(list[s]) :
            list' = Set(list, s, Listed(s, f, k)) /\ todo' = Set(todo, s, todo[s] \ {f})
        BY <1>12 DEF LoadEntry
    <2>2. username[s] \in Mailboxes /\ f \in Files /\ list[s] \in Seq(Entry(arrived))
        BY <2>1 DEF Stage, TypeInv
    <2>3. Listed(s, f, k) \in Seq(Entry(arrived))
        <3> DEFINE e == [box |-> username[s], file |-> f, msg |-> store[username[s]][f],
                         deleted |-> FALSE]
        <3>1. CASE store[username[s]][f] = NoMsg
            BY <2>2, <3>1 DEF Listed
        <3>2. CASE store[username[s]][f] # NoMsg
            <4>1. store[username[s]][f] \in 1..arrived
                BY <2>2, <3>2 DEF TypeInv, NoMsg
            <4>2. e \in Entry(arrived)
                BY <2>2, <4>1 DEF Entry
            <4>3. Listed(s, f, k) = Put(list[s], k, e)
                BY <3>2 DEF Listed, Put
            <4> HIDE DEF e
            <4>4. QED BY <2>2, <4>2, <4>3, Inserted
        <3>3. QED BY <3>1, <3>2
    <2>4. list' \in [Sessions -> Seq(Entry(arrived))] /\ todo' \in [Sessions -> SUBSET Files]
        BY <2>1, <2>3 DEF TypeInv
    <2>5. QED BY <1>12, <2>4 DEF LoadEntry, TypeInv
<1>13. ASSUME NEW s \in Sessions, Loaded(s) PROVE TypeInv'
    BY <1>13, ConstAssumption DEF Loaded, TypeInv
<1>14. ASSUME NEW s \in Sessions, Unlink(s) PROVE TypeInv'
    <2>1. list[s] \in Seq(Entry(arrived)) /\ list[s] # <<>>
        BY <1>14 DEF Unlink, TypeInv
    <2>2. Head(list[s]) \in Entry(arrived) /\ Tail(list[s]) \in Seq(Entry(arrived))
        BY <2>1, HeadTailProperties
    <2>3. list' \in [Sessions -> Seq(Entry(arrived))]
        BY <1>14, <2>2 DEF Unlink, TypeInv
    <2>4. store' \in [Mailboxes -> [Files -> 0..arrived]]
        <3> DEFINE e == Head(list[s])
        <3>1. /\ store \in [Mailboxes -> [Files -> 0..arrived]] /\ 0 \in 0..arrived
              /\ e.box \in Mailboxes /\ e.file \in Files
            BY <2>2 DEF TypeInv, Entry
        <3>2. store' = store \/ store' = [store EXCEPT ![e.box][e.file] = 0]
            BY <1>14 DEF Unlink, NoMsg
        <3> HIDE DEF e
        <3>3. QED BY <3>1, <3>2
    <2>5. QED BY <1>14, <2>3, <2>4 DEF Unlink, TypeInv
<1>15. ASSUME NEW s \in Sessions, Unlinked(s) PROVE TypeInv'
    BY <1>15, ConstAssumption DEF Unlinked, TypeInv
<1>16. ASSUME NEW s \in Sessions, Empty(s) PROVE TypeInv'
    BY <1>16, ConstAssumption DEF Empty, Crash, TypeInv
<1>17. ASSUME NEW s \in Sessions, Refuse(s) PROVE TypeInv'
    BY <1>17, ConstAssumption DEF Refuse, TypeInv
<1>18. ASSUME NEW s \in Sessions, User(s) PROVE TypeInv'
    BY <1>18, ConstAssumption DEF User, Check, TypeInv
<1>19. ASSUME NEW s \in Sessions, Pass(s) PROVE TypeInv'
    BY <1>19, ConstAssumption DEF Pass, Check, TypeInv
<1>20. ASSUME NEW s \in Sessions, Stat(s) PROVE TypeInv'
    BY <1>20, ConstAssumption DEF Stat, TypeInv
<1>21. ASSUME NEW s \in Sessions, List(s) PROVE TypeInv'
    BY <1>21, ConstAssumption DEF List, TypeInv
<1>22. ASSUME NEW s \in Sessions, Retr(s) PROVE TypeInv'
    BY <1>22, ConstAssumption DEF Retr, Crash, TypeInv
<1>23. ASSUME NEW s \in Sessions, Dele(s) PROVE TypeInv'
    <2>1. ASSUME NEW n \in DOMAIN list[s]
          PROVE  list[s][n] \in Entry(arrived) /\ Deleted(list[s], n) \in Seq(Entry(arrived))
        <3>1. list[s] \in Seq(Entry(arrived)) /\ list[s][n] \in Entry(arrived)
            BY DEF TypeInv
        <3>2. [list[s][n] EXCEPT !.deleted = TRUE] \in Entry(arrived)
            BY <3>1 DEF Entry
        <3>3. QED BY <3>1, <3>2 DEF Deleted
    <2>2. ASSUME NEW n \in DOMAIN list[s], list' = Set(list, s, Deleted(list[s], n)),
                 marked' = Set(marked, s, marked[s] \cup {list[s][n]})
          PROVE  /\ list' \in [Sessions -> Seq(Entry(arrived))]
                 /\ marked' \in [Sessions -> SUBSET Entry(arrived)]
        BY <2>1, <2>2 DEF TypeInv
    <2>3. /\ list' \in [Sessions -> Seq(Entry(arrived))]
          /\ marked' \in [Sessions -> SUBSET Entry(arrived)]
        BY <1>23, <2>2 DEF Dele, TypeInv
    <2>4. QED BY <1>23, <2>3 DEF Dele, TypeInv
<1>24. ASSUME NEW s \in Sessions, Rset(s) PROVE TypeInv'
    <2>1. Undeleted(list[s]) \in Seq(Entry(arrived))
        <3>1. list[s] \in Seq(Entry(arrived)) /\ Len(list[s]) \in Nat /\ DOMAIN list[s] = 1..Len(list[s])
            BY DEF TypeInv
        <3>2. ASSUME NEW n \in 1..Len(list[s])
              PROVE  [list[s][n] EXCEPT !.deleted = FALSE] \in Entry(arrived)
            <4>1. list[s][n] \in Entry(arrived)
                BY <3>1, ElementOfSeq
            <4>2. QED BY <4>1 DEF Entry
        <3>3. Undeleted(list[s]) \in [1..Len(list[s]) -> Entry(arrived)]
            BY <3>1, <3>2 DEF Undeleted
        <3>4. QED BY <3>1, <3>3
    <2>2. list' \in [Sessions -> Seq(Entry(arrived))]
        BY <1>24, <2>1 DEF Rset, TypeInv
    <2>3. QED BY <1>24, <2>2 DEF Rset, TypeInv
<1>25. ASSUME NEW s \in Sessions, QuitEarly(s) PROVE TypeInv'
    BY <1>25, ConstAssumption DEF QuitEarly, TypeInv
<1>26. ASSUME NEW s \in Sessions, QuitLate(s) PROVE TypeInv'
    BY <1>26, ConstAssumption DEF QuitLate, TypeInv
<1>30. ASSUME NEW b \in Mailboxes, Deliver(b) PROVE TypeInv'
    BY <1>30, EntriesGrow DEF Deliver, TypeInv
<1>40. QED
    BY <1>0, <1>1, <1>2, <1>3, <1>4, <1>5, <1>6, <1>7, <1>8, <1>9, <1>10, <1>11, <1>12, <1>13,
       <1>14, <1>15, <1>16, <1>17, <1>18, <1>19, <1>20, <1>21, <1>22, <1>23, <1>24, <1>25, <1>26, <1>30
       DEF Next, Work, Client, Split, Lookup, Maildrop, Exec

-----------------------------------------------------------------------------
(* Where threads stand                                                     *)

LEMMA StageInit == Init => \A t \in Sessions : Stage(t)
BY DEF Init, Stage

LEMMA StageNext ==
    ASSUME TypeInv, \A t \in Sessions : Stage(t), [Next]_vars
    PROVE  \A t \in Sessions : Stage(t)'
<1> SUFFICES ASSUME NEW t \in Sessions PROVE Stage(t)'
    OBVIOUS
<1> USE DEF Goto, Answer, Set, lineVars, userVars, mailVars, bounds, history, retrVars,
            TypeInv, Stage, HasArgs
<1>0. CASE UNCHANGED vars
    BY <1>0 DEF vars
<1>1. ASSUME NEW s \in Sessions, Accept(s) PROVE Stage(t)'
    BY <1>1 DEF Accept
<1>2. ASSUME NEW s \in Sessions, ReadLine(s) PROVE Stage(t)'
    BY <1>2 DEF ReadLine
<1>3. ASSUME NEW s \in Sessions, Hangup(s) PROVE Stage(t)'
    BY <1>3 DEF Hangup
<1>4. ASSUME NEW s \in Sessions, SplitFirst(s) PROVE Stage(t)'
    BY <1>4 DEF SplitFirst
<1>5. ASSUME NEW s \in Sessions, SplitNext(s) PROVE Stage(t)'
    BY <1>5 DEF SplitNext
<1>6. ASSUME NEW s \in Sessions, RewindUser(s) PROVE Stage(t)'
    BY <1>6 DEF RewindUser, Rewind
<1>7. ASSUME NEW s \in Sessions, RewindPass(s) PROVE Stage(t)'
    BY <1>7 DEF RewindPass, Rewind
<1>8. ASSUME NEW s \in Sessions, ScanEnd(s) PROVE Stage(t)'
    BY <1>8 DEF ScanEnd
<1>9. ASSUME NEW s \in Sessions, ScanUser(s) PROVE Stage(t)'
    BY <1>9 DEF ScanUser
<1>10. ASSUME NEW s \in Sessions, CopyUser(s) PROVE Stage(t)'
    BY <1>10 DEF CopyUser
<1>11. ASSUME NEW s \in Sessions, ScanPass(s) PROVE Stage(t)'
    <2> DEFINE known == Fold[username[s]] = Fold[UserFile[scan].name]
               right == Arg(s) = UserFile[scan].password
    <2>1. CASE ~known
        BY <1>11, <2>1 DEF ScanPass
    <2>2. CASE known /\ ~right
        BY <1>11, <2>2 DEF ScanPass
    <2>3. CASE known /\ right
        <3> DEFINE names == IF username[s] \in Mailboxes THEN Files ELSE {}
        <3>1. /\ pc[s] = "scanPass" /\ pc' = [pc EXCEPT ![s] = "load"]
              /\ todo' = [todo EXCEPT ![s] = names]
              /\ UNCHANGED <<state, words, username, marked>>
            BY <1>11, <2>3 DEF ScanPass
        <3>2. names # {} => username[s] \in Mailboxes
            OBVIOUS
        <3> HIDE DEF names
        <3>3. QED BY <3>1, <3>2
    <2>4. QED BY <2>1, <2>2, <2>3
<1>12. ASSUME NEW s \in Sessions, LoadEntry(s) PROVE Stage(t)'
    BY <1>12 DEF LoadEntry
<1>13. ASSUME NEW s \in Sessions, Loaded(s) PROVE Stage(t)'
    BY <1>13 DEF Loaded
<1>14. ASSUME NEW s \in Sessions, Unlink(s) PROVE Stage(t)'
    BY <1>14 DEF Unlink
<1>15. ASSUME NEW s \in Sessions, Unlinked(s) PROVE Stage(t)'
    BY <1>15 DEF Unlinked
<1>16. ASSUME NEW s \in Sessions, Empty(s) PROVE Stage(t)'
    BY <1>16 DEF Empty, Crash
<1>17. ASSUME NEW s \in Sessions, Refuse(s) PROVE Stage(t)'
    BY <1>17 DEF Refuse, Asks
<1>18. ASSUME NEW s \in Sessions, User(s) PROVE Stage(t)'
    BY <1>18 DEF User, Check, Asks
<1>19. ASSUME NEW s \in Sessions, Pass(s) PROVE Stage(t)'
    BY <1>19 DEF Pass, Check, Asks
<1>20. ASSUME NEW s \in Sessions, Stat(s) PROVE Stage(t)'
    BY <1>20 DEF Stat, Asks
<1>21. ASSUME NEW s \in Sessions, List(s) PROVE Stage(t)'
    BY <1>21 DEF List, Asks
<1>22. ASSUME NEW s \in Sessions, Retr(s) PROVE Stage(t)'
    BY <1>22 DEF Retr, Crash, Asks
<1>23. ASSUME NEW s \in Sessions, Dele(s) PROVE Stage(t)'
    <2>1. /\ state[s] = "Transaction" /\ pc[s] = "exec"
          /\ Answer(s, "ok") \/ Answer(s, "err")
          /\ \A r \in Sessions : r # s => marked'[r] = marked[r]
          /\ UNCHANGED <<state, words, username, todo>>
        BY <1>23 DEF Dele, Asks
    <2>2. QED BY <2>1
<1>24. ASSUME NEW s \in Sessions, Rset(s) PROVE Stage(t)'
    BY <1>24 DEF Rset, Asks
<1>25. ASSUME NEW s \in Sessions, QuitEarly(s) PROVE Stage(t)'
    BY <1>25 DEF QuitEarly, Asks
<1>26. ASSUME NEW s \in Sessions, QuitLate(s) PROVE Stage(t)'
    BY <1>26 DEF QuitLate, Asks
<1>27. ASSUME NEW b \in Mailboxes, Deliver(b) PROVE Stage(t)'
    BY <1>27 DEF Deliver
<1>28. QED
    BY <1>0, <1>1, <1>2, <1>3, <1>4, <1>5, <1>6, <1>7, <1>8, <1>9, <1>10, <1>11, <1>12, <1>13,
       <1>14, <1>15, <1>16, <1>17, <1>18, <1>19, <1>20, <1>21, <1>22, <1>23, <1>24, <1>25, <1>26, <1>27
       DEF Next, Work, Client, Split, Lookup, Maildrop, Exec

-----------------------------------------------------------------------------
(* Marks, lists and the mail store                                         *)

\* The steps that change them.
LEMMA MailSteps ==
    ASSUME [Next]_vars
    PROVE  \/ UNCHANGED <<list, store, arrived, marked>>
           \/ \E s \in Sessions : \/ Hangup(s) \/ LoadEntry(s) \/ Unlink(s) \/ Unlinked(s)
                                  \/ Dele(s) \/ Rset(s)
           \/ \E b \in Mailboxes : Deliver(b)
<1> USE DEF mailVars, history, retrVars
<1>1. CASE UNCHANGED vars
    BY <1>1 DEF vars
<1>2. ASSUME NEW s \in Sessions, Client(s), ~Hangup(s)
      PROVE  UNCHANGED <<list, store, arrived, marked>>
    BY <1>2 DEF Client, Accept, ReadLine
<1>3. ASSUME NEW s \in Sessions, Split(s) \/ Lookup(s)
      PROVE  UNCHANGED <<list, store, arrived, marked>>
    BY <1>3 DEF Split, SplitFirst, SplitNext, Lookup, RewindUser, RewindPass, Rewind, ScanEnd,
                ScanUser, CopyUser, ScanPass
<1>4. ASSUME NEW s \in Sessions, Loaded(s)
      PROVE  UNCHANGED <<list, store, arrived, marked>>
    BY <1>4 DEF Loaded
<1>5. ASSUME NEW s \in Sessions, Exec(s), ~Dele(s), ~Rset(s)
      PROVE  UNCHANGED <<list, store, arrived, marked>>
    BY <1>5 DEF Exec, Empty, Refuse, User, Pass, Check, Stat, List, Retr, QuitEarly, QuitLate
<1>6. QED BY <1>1, <1>2, <1>3, <1>4, <1>5 DEF Next, Work, Client, Maildrop

LEMMA MarksInit == Init => \A t \in Sessions : MarksAgree(t)
BY DEF Init, MarksAgree

LEMMA MarksNext ==
    ASSUME TypeInv, \A t \in Sessions : Stage(t) /\ MarksAgree(t), [Next]_vars
    PROVE  \A t \in Sessions : MarksAgree(t)'
<1> SUFFICES ASSUME NEW t \in Sessions PROVE MarksAgree(t)'
    OBVIOUS
<1> DEFINE l == list[t]
<1>0. /\ l \in Seq(Entry(arrived)) /\ Len(l) \in Nat /\ DOMAIN l = 1..Len(l)
      /\ \A n \in DOMAIN l : l[n] \in Entry(arrived)
      /\ \A e \in marked[t] : e \in Entry(arrived)
    BY DEF TypeInv
<1>1. CASE UNCHANGED <<list, store, arrived, marked>>
    BY <1>1 DEF MarksAgree, ToDelete
<1>2. ASSUME NEW s \in Sessions, Hangup(s) PROVE MarksAgree(t)'
    BY <1>2 DEF Hangup, Set, mailVars, MarksAgree, ToDelete, TypeInv
<1>3. ASSUME NEW s \in Sessions, LoadEntry(s) PROVE MarksAgree(t)'
    <2>1. UNCHANGED <<store, marked>> /\ pc[s] = "load"
        BY <1>3 DEF LoadEntry, history, retrVars
    <2>2. PICK f \in todo[s], k \in 0..Len(list[s]) : list' = Set(list, s, Listed(s, f, k))
        BY <1>3 DEF LoadEntry
    <2>3. CASE t # s
        <3>1. list'[t] = list[t]
            BY <2>2, <2>3 DEF Set, TypeInv
        <3>2. QED BY <2>1, <3>1 DEF MarksAgree, ToDelete
    <2>4. CASE t = s
        <3>1. marked[t] = {} /\ \A n \in DOMAIN l : l[n].deleted = FALSE
            <4>1. marked[t] = {}
                BY <2>1, <2>4 DEF Stage
            <4>2. ASSUME NEW n \in DOMAIN l PROVE ~l[n].deleted /\ l[n].deleted \in BOOLEAN
                BY <4>1, <1>0 DEF MarksAgree, Entry
            <4>3. QED BY <4>1, <4>2
        <3>2. list'[t] = Listed(t, f, k)
            BY <2>2, <2>4 DEF Set, TypeInv
        <3>3. \A n \in DOMAIN list'[t] : list'[t][n].deleted = FALSE
            <4> DEFINE e == [box |-> username[t], file |-> f, msg |-> store[username[t]][f],
                             deleted |-> FALSE]
                       E == {d \in Entry(arrived) : d.deleted = FALSE} \cup {e}
            <4>1. CASE store[username[t]][f] = NoMsg
                BY <3>1, <3>2, <4>1 DEF Listed
            <4>2. CASE store[username[t]][f] # NoMsg
                <5>1. list'[t] = Put(l, k, e)
                    BY <3>2, <4>2 DEF Listed, Put
                <5>2. \A d \in E : d.deleted = FALSE
                    OBVIOUS
                <5>3. e \in E
                    OBVIOUS
                <5>4. l \in Seq(E)
                    BY <1>0, <3>1
                <5> HIDE DEF E, e, l
                <5>5. list'[t] \in Seq(E)
                    BY <2>4, <5>1, <5>3, <5>4, Inserted DEF l
                <5>6. QED BY <5>2, <5>5
            <4>3. QED BY <4>1, <4>2
        <3>4. QED BY <2>1, <3>1, <3>3 DEF MarksAgree
    <2>5. QED BY <2>3, <2>4
<1>4. ASSUME NEW s \in Sessions, Unlink(s) PROVE MarksAgree(t)'
    <2> DEFINE e == Head(list[s])
    <2>1. /\ list[s] \in Seq(Entry(arrived)) /\ list[s] # <<>> /\ e = list[s][1]
          /\ e \in Entry(arrived)
        BY <1>4 DEF Unlink, TypeInv
    <2>2. /\ store' = IF e.deleted THEN [store EXCEPT ![e.box][e.file] = NoMsg] ELSE store
          /\ list' = Set(list, s, Tail(list[s])) /\ UNCHANGED marked
        BY <1>4 DEF Unlink, history, retrVars
    <2> HIDE DEF e
    <2>3. ASSUME NEW d \in Entry(arrived)
          PROVE  /\ store'[d.box][d.file] = store[d.box][d.file] \/ store'[d.box][d.file] = NoMsg
                 /\ e.deleted /\ SameFile(e, d) => store'[d.box][d.file] = NoMsg
                 /\ d.msg # NoMsg
        <3>1. /\ d.box \in Mailboxes /\ d.file \in Files /\ d.msg \in 1..arrived
              /\ e.box \in Mailboxes /\ e.file \in Files
            BY <2>1 DEF Entry
        <3>2. CASE ~e.deleted
            BY <2>2, <3>1, <3>2 DEF NoMsg
        <3>3. CASE e.deleted
            BY <2>2, <3>1, <3>3 DEF NoMsg, TypeInv, SameFile
        <3>4. QED BY <3>2, <3>3
    <2>5. CASE t # s
        <3>1. list'[t] = list[t]
            BY <2>2, <2>5 DEF Set, TypeInv
        <3>2. QED BY <1>0, <2>2, <2>3, <3>1 DEF MarksAgree, ToDelete
    <2>6. CASE t = s
        <3>1. list'[t] = Tail(l) /\ Len(Tail(l)) = Len(l) - 1 /\ DOMAIN Tail(l) = 1..(Len(l) - 1)
              /\ \A n \in 1..(Len(l) - 1) : Tail(l)[n] = l[n + 1]
            BY <1>0, <2>1, <2>2, <2>6 DEF Set, TypeInv
        <3>2. ASSUME NEW n \in DOMAIN list'[t], list'[t][n].deleted
              PROVE  \E d \in marked'[t] : SameFile(d, list'[t][n])
            <4>1. n + 1 \in DOMAIN l /\ list'[t][n] = l[n + 1]
                BY <1>0, <3>1
            <4>2. QED BY <2>2, <3>2, <4>1 DEF MarksAgree
        <3>3. ASSUME NEW d \in marked'[t], store'[d.box][d.file] = d.msg
              PROVE  ToDelete(t, d)'
            <4>1. d \in marked[t] /\ d \in Entry(arrived) /\ store[d.box][d.file] = d.msg
                BY <1>0, <2>2, <2>3, <3>3
            <4>2. PICK n \in DOMAIN l : l[n].deleted /\ SameFile(l[n], d)
                BY <4>1 DEF MarksAgree, ToDelete
            <4>3. n # 1
                BY <2>1, <2>3, <2>6, <3>3, <4>1, <4>2
            <4>4. n - 1 \in DOMAIN list'[t] /\ list'[t][n - 1] = l[n]
                BY <1>0, <3>1, <4>3
            <4>5. QED BY <4>2, <4>4 DEF ToDelete
        <3>4. QED BY <3>2, <3>3 DEF MarksAgree
    <2>7. QED BY <2>5, <2>6
<1>5. ASSUME NEW s \in Sessions, Unlinked(s) PROVE MarksAgree(t)'
    BY <1>5 DEF Unlinked, Set, mailVars, MarksAgree, ToDelete, TypeInv
<1>6. ASSUME NEW s \in Sessions, Dele(s) PROVE MarksAgree(t)'
    <2>1. UNCHANGED store
        BY <1>6 DEF Dele
    <2>2. CASE UNCHANGED <<list, marked>>
        BY <2>1, <2>2 DEF MarksAgree, ToDelete
    <2>3. ASSUME NEW m \in DOMAIN list[s], list' = Set(list, s, Deleted(list[s], m)),
                 marked' = Set(marked, s, marked[s] \cup {list[s][m]})
          PROVE  MarksAgree(t)'
        <3>1. CASE t # s
            BY <2>1, <2>3, <3>1 DEF Set, TypeInv, MarksAgree, ToDelete
        <3>2. CASE t = s
            <4>1. list'[t] = Deleted(l, m) /\ marked'[t] = marked[t] \cup {l[m]} /\ m \in DOMAIN l
                BY <2>3, <3>2 DEF Set, TypeInv
            <4>2. /\ DOMAIN Deleted(l, m) = DOMAIN l /\ Deleted(l, m)[m].deleted
                  /\ \A n \in DOMAIN l : /\ n # m => Deleted(l, m)[n] = l[n]
                                         /\ \A e : SameFile(Deleted(l, m)[n], e) <=> SameFile(l[n], e)
                                         /\ \A e : SameFile(e, Deleted(l, m)[n]) <=> SameFile(e, l[n])
                BY <1>0, <4>1 DEF Deleted, SameFile, Entry
            <4>3. ASSUME NEW n \in DOMAIN list'[t], list'[t][n].deleted
                  PROVE  \E e \in marked'[t] : SameFile(e, list'[t][n])
                <5>1. CASE n = m
                    BY <4>1, <4>2, <5>1 DEF SameFile
                <5>2. CASE n # m
                    BY <4>1, <4>2, <4>3, <5>2 DEF MarksAgree
                <5>3. QED BY <5>1, <5>2
            <4>4. ASSUME NEW e \in marked'[t], store'[e.box][e.file] = e.msg PROVE ToDelete(t, e)'
                <5>1. CASE e = l[m]
                    BY <4>1, <4>2, <5>1 DEF ToDelete, SameFile
                <5>2. CASE e \in marked[t]
                    <6>1. PICK n \in DOMAIN l : l[n].deleted /\ SameFile(l[n], e)
                        BY <2>1, <4>4, <5>2 DEF MarksAgree, ToDelete
                    <6>2. Deleted(l, m)[n].deleted /\ SameFile(Deleted(l, m)[n], e)
                        BY <4>2, <6>1
                    <6>3. QED BY <4>1, <4>2, <6>2 DEF ToDelete
                <5>3. QED BY <4>1, <5>1, <5>2
            <4>5. QED BY <4>3, <4>4 DEF MarksAgree
        <3>3. QED BY <3>1, <3>2
    <2>4. QED BY <1>6, <2>2, <2>3 DEF Dele
<1>7. ASSUME NEW s \in Sessions, Rset(s) PROVE MarksAgree(t)'
    <2>1. /\ UNCHANGED store /\ list' = Set(list, s, Undeleted(list[s]))
          /\ marked' = Set(marked, s, {})
        BY <1>7 DEF Rset
    <2>2. CASE t # s
        BY <2>1, <2>2 DEF Set, TypeInv, MarksAgree, ToDelete
    <2>3. CASE t = s
        <3>1. list'[t] = Undeleted(l) /\ marked'[t] = {}
            BY <2>1, <2>3 DEF Set, TypeInv
        <3>2. \A n \in DOMAIN Undeleted(l) : ~Undeleted(l)[n].deleted
            BY <1>0 DEF Undeleted, Entry
        <3>3. QED BY <3>1, <3>2 DEF MarksAgree
    <2>4. QED BY <2>2, <2>3
<1>8. ASSUME NEW b \in Mailboxes, Deliver(b) PROVE MarksAgree(t)'
    <2>1. PICK f \in Files : /\ store' = [store EXCEPT ![b][f] = arrived + 1]
                             /\ UNCHANGED <<list, marked>>
        BY <1>8 DEF Deliver, history, retrVars
    <2>2. \A e \in Entry(arrived) : store'[e.box][e.file] = store[e.box][e.file]
                                   \/ store'[e.box][e.file] # e.msg
        BY <2>1 DEF TypeInv, Entry
    <2>3. QED BY <1>0, <2>1, <2>2 DEF MarksAgree, ToDelete
<1>9. QED BY <1>1, <1>2, <1>3, <1>4, <1>5, <1>6, <1>7, <1>8, MailSteps

-----------------------------------------------------------------------------
(* The shared positions                                                    *)

\* What a step of another thread leaves to thread t: all, if t is not disturbed.
Apart(t) ==
    /\ UNCHANGED <<pc[t], line[t], words[t], state[t], reply[t]>>
    /\ ~disturbed'[t] => ~disturbed[t] /\ (Busy(t) => UNCHANGED <<olds, scan>>)

Step(s) == Work(s) \/ Client(s)

LEMMA OthersApart ==
    ASSUME TypeInv, NEW t \in Sessions, [Next]_vars, ~Step(t)
    PROVE  Apart(t)
<1> USE DEF Goto, Answer, Set, Apart, lineVars, userVars, mailVars, bounds, history, retrVars,
            TypeInv
<1>1. CASE UNCHANGED vars
    BY <1>1 DEF vars
<1>2. ASSUME NEW b \in Mailboxes, Deliver(b) PROVE Apart(t)
    BY <1>2 DEF Deliver
<1>3. ASSUME NEW s \in Sessions, s # t, Client(s) PROVE Apart(t)
    BY <1>3 DEF Client, Accept, ReadLine, Hangup
<1>4. ASSUME NEW s \in Sessions, s # t, Split(s) PROVE Apart(t)
    BY <1>4 DEF Split, SplitFirst, SplitNext, Disturb
<1>5. ASSUME NEW s \in Sessions, s # t, Lookup(s) PROVE Apart(t)
    <2>1. CASE RewindUser(s) \/ RewindPass(s) \/ ScanEnd(s) \/ ScanUser(s) \/ CopyUser(s)
        BY <1>5, <2>1 DEF RewindUser, RewindPass, Rewind, ScanEnd, ScanUser, CopyUser, Disturb
    <2>2. CASE ScanPass(s)
        BY <1>5, <2>2 DEF ScanPass, Disturb
    <2>3. QED BY <1>5, <2>1, <2>2 DEF Lookup
<1>6. ASSUME NEW s \in Sessions, s # t, Maildrop(s) PROVE Apart(t)
    BY <1>6 DEF Maildrop, LoadEntry, Loaded, Unlink, Unlinked
<1>7. ASSUME NEW s \in Sessions, s # t, Exec(s) PROVE Apart(t)
    <2>1. CASE Empty(s) \/ Refuse(s) \/ User(s) \/ Pass(s) \/ Stat(s) \/ List(s)
        BY <1>7, <2>1 DEF Empty, Crash, Refuse, User, Pass, Check, Stat, List
    <2>2. CASE Retr(s) \/ Dele(s) \/ Rset(s) \/ QuitEarly(s) \/ QuitLate(s)
        BY <1>7, <2>2 DEF Retr, Crash, Dele, Rset, QuitEarly, QuitLate
    <2>3. QED BY <1>7, <2>1, <2>2 DEF Exec
<1>8. QED BY <1>1, <1>2, <1>3, <1>4, <1>5, <1>6, <1>7 DEF Next, Step, Work

\* The text at a place of a line is its word, and nothing beyond the line.
LEMMA TextOfPlace ==
    ASSUME TypeInv, NEW t \in Sessions, NEW n \in Nat \ {0}
    PROVE  /\ n <= Len(line[t]) => Text(Place(t, n)) = line[t][n]
           /\ Text(Place(t, n)) # NoWord <=> n <= Len(line[t])
<1>1. Place(t, n) # NoPlace /\ Place(t, n).at = n /\ Place(t, n).buf = t
    BY DEF Place, NoPlace
<1>2. Len(line[t]) \in Nat
    BY ConstAssumption DEF TypeInv
<1>3. CASE n <= Len(line[t])
    <2>1. line[t] # <<>>
        BY <1>3
    <2>2. line[t] \in Lines /\ n \in 1..Len(line[t])
        BY <1>2, <1>3, <2>1 DEF TypeInv
    <2>3. line[t][n] # NoWord
        BY <2>2, WordsOfLines
    <2>4. Text(Place(t, n)) = line[t][n]
        BY <1>1, <1>3 DEF Text
    <2>5. QED BY <1>3, <2>3, <2>4
<1>4. CASE ~(n <= Len(line[t]))
    BY <1>1, <1>4 DEF Text
<1>5. QED BY <1>3, <1>4

\* The steps that find no word leave the words of the thread alone.
LEMMA KeepsWords ==
    ASSUME TypeInv, NEW t \in Sessions, Lookup(t) \/ Maildrop(t) \/ Exec(t)
    PROVE  /\ UNCHANGED <<line, words>> /\ disturbed'[t] = disturbed[t]
           /\ pc'[t] \in Executing => pc[t] \in Executing
           /\ pc'[t] # "next"
<1> USE DEF Goto, Answer, Set, Executing, lineVars, userVars, mailVars, bounds, history, retrVars,
            TypeInv
<1>1. CASE RewindUser(t) \/ RewindPass(t) \/ ScanEnd(t) \/ ScanUser(t) \/ CopyUser(t)
    BY <1>1 DEF RewindUser, RewindPass, Rewind, ScanEnd, ScanUser, CopyUser, Disturb
<1>2. CASE ScanPass(t)
    BY <1>2 DEF ScanPass, Disturb
<1>3. CASE Maildrop(t)
    BY <1>3 DEF Maildrop, LoadEntry, Loaded, Unlink, Unlinked
<1>4. CASE Empty(t) \/ Refuse(t) \/ User(t) \/ Pass(t) \/ Stat(t) \/ List(t)
    BY <1>4 DEF Empty, Crash, Refuse, User, Pass, Check, Stat, List, Asks
<1>5. CASE Retr(t) \/ Dele(t) \/ Rset(t) \/ QuitEarly(t) \/ QuitLate(t)
    BY <1>5 DEF Retr, Crash, Dele, Rset, QuitEarly, QuitLate, Asks
<1>6. QED BY <1>1, <1>2, <1>3, <1>4, <1>5 DEF Lookup, Exec

LEMMA SplitSoFarInit == Init => \A t \in Sessions : SplitSoFar(t)
BY DEF Init, SplitSoFar

LEMMA SplitSoFarNext ==
    ASSUME TypeInv, NEW t \in Sessions, SplitSoFar(t), [Next]_vars
    PROVE  SplitSoFar(t)'
<1>1. CASE ~Step(t)
    <2>1. Apart(t)
        BY <1>1, OthersApart
    <2>2. QED BY <2>1 DEF Apart, SplitSoFar, FirstWords, Busy
<1>2. CASE Client(t)
    BY <1>2 DEF Client, Accept, ReadLine, Hangup, Goto, Answer, Set, SplitSoFar, Executing, TypeInv
<1>3. CASE SplitFirst(t)
    <2>1. pc'[t] = "next" /\ UNCHANGED line
        BY <1>3 DEF SplitFirst, Goto, Set, TypeInv
    <2>2. CASE line[t] # <<>>
        <3>1. words'[t] = <<Place(t, 1)>> /\ olds' = Place(t, 2)
            BY <1>3, <2>2 DEF SplitFirst, Set, TypeInv
        <3>2. <<Place(t, 1)>> = [i \in 1..1 |-> Place(t, i)]
            OBVIOUS
        <3>3. 1 \in 1..Len(line[t])
            BY <2>2, ConstAssumption DEF TypeInv
        <3>4. QED BY <2>1, <3>1, <3>2, <3>3 DEF SplitSoFar, FirstWords, Executing
    <2>3. QED BY <2>1, <2>2 DEF SplitSoFar
<1>4. CASE SplitNext(t)
    <2>1. SUFFICES ASSUME ~disturbed[t], line[t] # <<>> PROVE SplitSoFar(t)'
        BY <1>4 DEF SplitNext, SplitSoFar, Disturb, TypeInv
    <2>2. PICK n \in 1..Len(line[t]) : FirstWords(t, n) /\ olds = Place(t, n + 1)
        BY <1>4, <2>1 DEF SplitNext, SplitSoFar
    <2>3. n \in Nat /\ Len(line[t]) \in Nat
        BY ConstAssumption DEF TypeInv
    <2>4. Text(olds) # NoWord <=> n + 1 <= Len(line[t])
        BY <2>2, <2>3, TextOfPlace
    <2>5. CASE Text(olds) # NoWord
        <3>1. /\ words'[t] = Append(words[t], Place(t, n + 1))
              /\ olds' = [Place(t, n + 1) EXCEPT !.at = @ + 1]
              /\ pc'[t] = "next" /\ UNCHANGED line
            BY <1>4, <2>2, <2>5 DEF SplitNext, Set, TypeInv
        <3>2. olds' = Place(t, (n + 1) + 1)
            BY <3>1 DEF Place
        <3>3. Append([i \in 1..n |-> Place(t, i)], Place(t, n + 1)) = [i \in 1..(n + 1) |-> Place(t, i)]
            BY <2>3
        <3>4. n + 1 \in 1..Len(line[t])
            BY <2>3, <2>4, <2>5
        <3>5. words'[t] = [i \in 1..(n + 1) |-> Place(t, i)]
            BY <2>2, <3>1, <3>3 DEF FirstWords
        <3>6. QED BY <3>1, <3>2, <3>4, <3>5 DEF SplitSoFar, FirstWords, Executing
    <2>6. CASE Text(olds) = NoWord
        <3>1. pc'[t] = "exec" /\ UNCHANGED <<line, words>>
            BY <1>4, <2>6 DEF SplitNext, Goto, Set, TypeInv
        <3>2. n = Len(line[t])
            BY <2>3, <2>4, <2>6
        <3>3. QED BY <2>2, <3>1, <3>2 DEF SplitSoFar, FirstWords, Executing
    <2>7. QED BY <2>5, <2>6
<1>5. CASE Lookup(t) \/ Maildrop(t) \/ Exec(t)
    <2>1. /\ UNCHANGED <<line, words>> /\ disturbed'[t] = disturbed[t]
          /\ pc'[t] \in Executing => pc[t] \in Executing
          /\ pc'[t] # "next"
        BY <1>5, KeepsWords
    <2>2. QED BY <2>1 DEF SplitSoFar, FirstWords
<1>6. QED BY <1>1, <1>2, <1>3, <1>4, <1>5 DEF Step, Work, Split

-----------------------------------------------------------------------------
(* The search of users.txt                                                 *)

LEMMA SearchSoFarInit == Init => \A t \in Sessions : SearchSoFar(t)
BY DEF Init, SearchSoFar

\* An undisturbed command of two words reads them as they were sent.
LEMMA UndisturbedWords ==
    ASSUME TypeInv, NEW t \in Sessions, SplitSoFar(t), ~disturbed[t], Len(line[t]) = 2,
           pc[t] \in Executing
    PROVE  HasArgs(t, 1) /\ Command(t) = line[t][1] /\ Arg(t) = line[t][2]
<1>1. line[t] # <<>>
    OBVIOUS
<1>2. words[t] = [i \in 1..2 |-> Place(t, i)]
    BY <1>1 DEF SplitSoFar, FirstWords
<1>3. Len(words[t]) = 2 /\ words[t][1] = Place(t, 1) /\ words[t][2] = Place(t, 2)
    BY <1>2
<1>4. Text(Place(t, 1)) = line[t][1] /\ Text(Place(t, 2)) = line[t][2]
    BY TextOfPlace
<1>5. QED BY <1>3, <1>4 DEF HasArgs, Command, Arg

LEMMA SearchSoFarNext ==
    ASSUME TypeInv, NEW t \in Sessions, Stage(t), SplitSoFar(t), SearchSoFar(t), [Next]_vars
    PROVE  SearchSoFar(t)'
<1> USE DEF Goto, Answer, Set, lineVars, userVars, mailVars, bounds, history, retrVars
<1>1. CASE ~Step(t)
    <2>1. Apart(t)
        BY <1>1, OthersApart
    <2>2. line'[t] = line[t] /\ pc'[t] = pc[t] /\ state'[t] = state[t] /\ reply'[t] = reply[t]
        BY <2>1 DEF Apart
    <2>3. SUFFICES ASSUME ~disturbed'[t], Len(line[t]) = 2, line[t][1] = "USER"
                   PROVE  SearchSoFar(t)'
        BY <2>2 DEF SearchSoFar
    <2>4. ~disturbed[t] /\ (pc[t] = "scanUser" => scan' = scan)
        BY <2>1, <2>3 DEF Apart, Busy, TypeInv
    <2>5. InUserFile(t)' = InUserFile(t) /\ \A i \in 1..Len(UserFile) : Matches(t, i)' = Matches(t, i)
        BY <2>2 DEF InUserFile, Matches
    <2>6. QED BY <2>2, <2>3, <2>4, <2>5 DEF SearchSoFar
<1>2. CASE Client(t)
    BY <1>2 DEF Client, Accept, ReadLine, Hangup, SearchSoFar, TypeInv
<1>3. CASE Split(t)
    BY <1>3 DEF Split, SplitFirst, SplitNext, SearchSoFar, TypeInv
<1>4. CASE Lookup(t) \/ Maildrop(t) \/ Exec(t)
    <2>1. UNCHANGED <<line, words>> /\ disturbed'[t] = disturbed[t]
        BY <1>4, KeepsWords
    <2>2. SUFFICES ASSUME ~disturbed[t], Len(line[t]) = 2, line[t][1] = "USER"
                   PROVE  SearchSoFar(t)'
        BY <2>1 DEF SearchSoFar
    <2>3. pc[t] \notin {"rewindPass", "scanPass", "load"}
        BY <2>2 DEF SearchSoFar
    <2>4. pc[t] \in Executing => HasArgs(t, 1) /\ Command(t) = "USER" /\ Arg(t) = line[t][2]
        BY <2>2, UndisturbedWords
    <2>5. CASE RewindUser(t)
        BY <2>1, <2>5 DEF RewindUser, Rewind, SearchSoFar, TypeInv
    <2>6. CASE RewindPass(t) \/ ScanPass(t) \/ LoadEntry(t) \/ Loaded(t)
        BY <2>3, <2>6 DEF RewindPass, ScanPass, LoadEntry, Loaded
    <2>7. CASE ScanEnd(t)
        <3>1. pc[t] = "scanUser" /\ scan > Len(UserFile) /\ pc'[t] = "read" /\ reply'[t] = "err"
            BY <2>3, <2>7 DEF ScanEnd, TypeInv
        <3>2. ~InUserFile(t)
            BY <2>2, <3>1, ConstAssumption DEF SearchSoFar, InUserFile, TypeInv
        <3>3. QED BY <2>1, <3>1, <3>2 DEF SearchSoFar, InUserFile, Matches
    <2>8. CASE ScanUser(t)
        <3>1. /\ pc[t] = "scanUser" /\ scan <= Len(UserFile) /\ scan' = scan + 1
              /\ pc'[t] = IF Matches(t, scan) THEN "copy" ELSE "scanUser"
            BY <2>4, <2>8 DEF ScanUser, Executing, Matches, TypeInv
        <3>2. scan \in 1..Len(UserFile) /\ scan \in Nat
            BY <3>1, ConstAssumption DEF TypeInv
        <3>3. CASE Matches(t, scan)
            BY <2>1, <3>1, <3>2, <3>3 DEF SearchSoFar, InUserFile, Matches
        <3>4. CASE ~Matches(t, scan)
            <4>1. \A i \in 1..Len(UserFile) : i < scan + 1 => ~Matches(t, i)
                BY <2>2, <3>1, <3>2, <3>4 DEF SearchSoFar
            <4>2. QED BY <2>1, <3>1, <3>4, <4>1 DEF SearchSoFar, Matches
        <3>5. QED BY <3>3, <3>4
    <2>9. CASE CopyUser(t)
        <3>1. pc[t] = "copy" /\ pc'[t] = "read" /\ reply'[t] = "ok"
            BY <2>9 DEF CopyUser, TypeInv
        <3>2. InUserFile(t)
            BY <2>2, <3>1 DEF SearchSoFar
        <3>3. QED BY <2>1, <3>1, <3>2 DEF SearchSoFar, InUserFile, Matches
    <2>10. CASE Unlink(t) \/ Unlinked(t)
        BY <2>10 DEF Unlink, Unlinked, SearchSoFar, TypeInv
    <2>11. CASE Exec(t)
        <3>1. pc[t] = "exec" /\ pc[t] \in Executing
            BY <2>11 DEF Exec, Empty, Refuse, User, Pass, Stat, List, Retr, Dele, Rset, QuitEarly,
                         QuitLate, Asks, Executing
        <3>2. CASE Empty(t) \/ Retr(t) \/ Stat(t) \/ List(t) \/ Dele(t) \/ Rset(t)
            BY <3>1, <3>2 DEF Empty, Crash, Retr, Stat, List, Dele, Rset, Asks, SearchSoFar, TypeInv
        <3>3. CASE QuitEarly(t) \/ QuitLate(t)
            BY <3>1, <3>3 DEF QuitEarly, QuitLate, SearchSoFar, TypeInv
        <3>4. CASE Refuse(t)
            <4>1. pc'[t] = "read" /\ state' = state /\ "USER" \notin Known[state[t]]
                BY <2>4, <3>1, <3>4 DEF Refuse, Asks, TypeInv
            <4>2. state[t] # "Authorization"
                BY <4>1 DEF Known
            <4>3. QED BY <4>1, <4>2 DEF SearchSoFar
        <3>5. CASE User(t)
            <4>1. pc'[t] = "rewindUser"
                BY <2>4, <3>1, <3>5 DEF User, Check, TypeInv
            <4>2. QED BY <4>1 DEF SearchSoFar
        <3>6. CASE Pass(t)
            BY <2>4, <3>1, <3>6 DEF Pass, Asks
        <3>7. QED BY <2>11, <3>2, <3>3, <3>4, <3>5, <3>6 DEF Exec
    <2>12. QED
        BY <1>4, <2>5, <2>6, <2>7, <2>8, <2>9, <2>10, <2>11 DEF Lookup, Maildrop
<1>5. QED BY <1>1, <1>2, <1>3, <1>4 DEF Step, Work

-----------------------------------------------------------------------------
(* The numbers of messages                                                 *)

LEMMA NumberingInit ==
    ASSUME Init
    PROVE  /\ NumberTypes /\ StoredOnce
           /\ \A t \in Sessions : ListSoFar(t) /\ ListedThere(t) /\ NumbersAgree(t) /\ SentFits(t)
<1>1. NumberTypes
    BY DEF Init, NumberTypes, Nothing, NoMsg
<1>2. StoredOnce
    BY StoredAssumption DEF Init, StoredOnce
<1>3. \A t \in Sessions : ListSoFar(t) /\ ListedThere(t) /\ NumbersAgree(t) /\ SentFits(t)
    BY DEF Init, ListSoFar, DifferentFiles, ListedThere, NumbersAgree, SentFits, Loading
<1>4. QED BY <1>1, <1>2, <1>3

\* The steps that change what is numbered and what is sent.
LEMMA NumberSteps ==
    ASSUME [Next]_vars
    PROVE  \/ UNCHANGED <<numbered, sent>>
           \/ \E s \in Sessions : ReadLine(s) \/ Hangup(s) \/ Loaded(s) \/ Unlinked(s) \/ Retr(s)
<1> USE DEF history, retrVars
<1>1. CASE UNCHANGED vars \/ \E b \in Mailboxes : Deliver(b)
    BY <1>1 DEF vars, Deliver
<1>2. ASSUME NEW s \in Sessions, Accept(s) \/ Split(s) \/ Lookup(s) \/ LoadEntry(s) \/ Unlink(s)
      PROVE  UNCHANGED <<numbered, sent>>
    BY <1>2 DEF Accept, Split, SplitFirst, SplitNext, Lookup, RewindUser, RewindPass, Rewind,
                ScanEnd, ScanUser, CopyUser, ScanPass, LoadEntry, Unlink
<1>3. ASSUME NEW s \in Sessions, Exec(s), ~Retr(s)
      PROVE  UNCHANGED <<numbered, sent>>
    BY <1>3 DEF Exec, Empty, Refuse, User, Pass, Check, Stat, List, Dele, Rset, QuitEarly, QuitLate
<1>4. QED BY <1>1, <1>2, <1>3 DEF Next, Work, Client, Maildrop

LEMMA NumberTypesNext ==
    ASSUME TypeInv, NumberTypes, [Next]_vars
    PROVE  NumberTypes'
<1> USE DEF Set
<1>1. CASE UNCHANGED <<numbered, sent>>
    BY <1>1 DEF NumberTypes
<1>2. ASSUME NEW s \in Sessions, ReadLine(s) PROVE NumberTypes'
    BY <1>2 DEF ReadLine, NumberTypes, Nothing, NoMsg
<1>3. ASSUME NEW s \in Sessions, Hangup(s) \/ Unlinked(s) PROVE NumberTypes'
    <2>1. numbered' = [numbered EXCEPT ![s] = <<>>] /\ sent' = sent /\ <<>> \in Seq(Nat)
        BY <1>3 DEF Hangup, Unlinked
    <2>2. QED BY <2>1 DEF NumberTypes
<1>4. ASSUME NEW s \in Sessions, Loaded(s) PROVE NumberTypes'
    <2> DEFINE r == [n \in DOMAIN list[s] |-> list[s][n].msg]
    <2>1. /\ list[s] \in Seq(Entry(arrived)) /\ Len(list[s]) \in Nat
          /\ DOMAIN list[s] = 1..Len(list[s])
        BY DEF TypeInv
    <2>2. ASSUME NEW n \in 1..Len(list[s]) PROVE list[s][n].msg \in Nat
        <3>1. list[s][n] \in Entry(arrived)
            BY <2>1, ElementOfSeq
        <3>2. list[s][n].msg \in 1..arrived /\ arrived \in Nat
            BY <3>1 DEF Entry, TypeInv
        <3>3. QED BY <3>2
    <2>3. r \in Seq(Nat)
        BY <2>1, <2>2
    <2> HIDE DEF r
    <2>4. numbered' = [numbered EXCEPT ![s] = r] /\ sent' = sent
        BY <1>4 DEF Loaded, r
    <2>5. QED BY <2>3, <2>4 DEF NumberTypes
<1>5. ASSUME NEW s \in Sessions, Retr(s) PROVE NumberTypes'
    <2>1. numbered' = numbered
        BY <1>5 DEF Retr
    <2>2. ASSUME NEW n \in DOMAIN list[s], NEW e, e = list[s][n],
                 sent' = Set(sent, s, [number |-> n, msg |-> Stands(e)])
          PROVE  sent' \in [Sessions -> [number : Nat, msg : Nat]]
        <3>1. e \in Entry(arrived) /\ n \in Nat
            BY <2>2 DEF TypeInv
        <3>2. e.box \in Mailboxes /\ e.file \in Files
            BY <3>1 DEF Entry
        <3>3. Stands(e) \in 0..arrived /\ arrived \in Nat
            BY <3>2 DEF Stands, TypeInv
        <3> DEFINE z == [number |-> n, msg |-> Stands(e)]
        <3>4. z \in [number : Nat, msg : Nat]
            BY <3>1, <3>3
        <3> HIDE DEF z
        <3>5. sent' = [sent EXCEPT ![s] = z]
            BY <2>2 DEF z
        <3>6. QED BY <3>4, <3>5 DEF NumberTypes
    <2>3. sent' \in [Sessions -> [number : Nat, msg : Nat]]
        BY <1>5, <2>2 DEF Retr, NumberTypes
    <2>4. QED BY <2>1, <2>3 DEF NumberTypes
<1>6. QED BY <1>1, <1>2, <1>3, <1>4, <1>5, NumberSteps

\* Other threads leave alone what a thread has numbered and sent, and what it still reads.
LEMMA OthersNumbers ==
    ASSUME TypeInv, NumberTypes, NEW t \in Sessions, [Next]_vars, ~Step(t)
    PROVE  UNCHANGED <<numbered[t], sent[t], todo[t]>>
<1> USE DEF Set
<1>1. UNCHANGED <<numbered[t], sent[t]>>
    <2>1. ASSUME NEW s \in Sessions, s # t,
                 ReadLine(s) \/ Hangup(s) \/ Loaded(s) \/ Unlinked(s) \/ Retr(s)
          PROVE  UNCHANGED <<numbered[t], sent[t]>>
        BY <2>1 DEF ReadLine, Hangup, Loaded, Unlinked, Retr, NumberTypes
    <2>2. ~(ReadLine(t) \/ Hangup(t) \/ Loaded(t) \/ Unlinked(t) \/ Retr(t))
        BY DEF Step, Work, Client, Maildrop, Exec
    <2>3. QED BY <2>1, <2>2, NumberSteps
<1>2. todo'[t] = todo[t]
    <2>1. CASE UNCHANGED vars \/ \E b \in Mailboxes : Deliver(b)
        BY <2>1 DEF vars, mailVars, Deliver
    <2>2. ASSUME NEW s \in Sessions, Client(s) \/ Split(s) \/ Exec(s) \/ (Lookup(s) /\ ~ScanPass(s))
          PROVE  todo' = todo
        BY <2>2 DEF Client, Accept, ReadLine, Hangup, Split, SplitFirst, SplitNext, Lookup,
                    RewindUser, RewindPass, Rewind, ScanEnd, ScanUser, CopyUser, Exec, Empty, Refuse,
                    User, Pass, Check, Stat, List, Retr, Dele, Rset, QuitEarly, QuitLate, mailVars
    <2>3. ASSUME NEW s \in Sessions, s # t, ScanPass(s) \/ Maildrop(s)
          PROVE  todo'[t] = todo[t]
        BY <2>3 DEF ScanPass, Maildrop, LoadEntry, Loaded, Unlink, Unlinked, mailVars, TypeInv
    <2>4. ~ScanPass(t) /\ ~Maildrop(t)
        BY DEF Step, Work, Lookup
    <2>5. QED BY <2>1, <2>2, <2>3, <2>4 DEF Next, Work
<1>3. QED BY <1>1, <1>2

\* A place of the store keeps its message, loses it, or gets the next one.
LEMMA StoreSteps ==
    ASSUME TypeInv, [Next]_vars
    PROVE  /\ arrived' \in Nat /\ arrived <= arrived'
           /\ \/ \A b \in Mailboxes, f \in Files : store'[b][f] \in {store[b][f], NoMsg}
              \/ \E c \in Mailboxes, g \in Files :
                    /\ store'[c][g] = arrived + 1
                    /\ \A b \in Mailboxes, f \in Files :
                        (b # c \/ f # g) => store'[b][f] = store[b][f]
<1>1. CASE UNCHANGED <<list, store, arrived, marked>>
    BY <1>1 DEF TypeInv
<1>2. ASSUME NEW s \in Sessions, Hangup(s) \/ LoadEntry(s) \/ Unlinked(s) \/ Dele(s) \/ Rset(s)
      PROVE  UNCHANGED <<store, arrived>>
    BY <1>2 DEF Hangup, LoadEntry, Unlinked, mailVars, Dele, Rset
<1>3. ASSUME NEW s \in Sessions, Unlink(s)
      PROVE  /\ arrived' = arrived
             /\ \A b \in Mailboxes, f \in Files : store'[b][f] \in {store[b][f], NoMsg}
    <2> DEFINE e == Head(list[s])
    <2>1. /\ store' = IF e.deleted THEN [store EXCEPT ![e.box][e.file] = NoMsg] ELSE store
          /\ arrived' = arrived
        BY <1>3 DEF Unlink
    <2>2. store \in [Mailboxes -> [Files -> 0..arrived]]
        BY DEF TypeInv
    <2> HIDE DEF e
    <2>3. QED BY <2>1, <2>2
<1>4. ASSUME NEW c \in Mailboxes, Deliver(c)
      PROVE  /\ arrived' = arrived + 1
             /\ \E g \in Files :
                    /\ store'[c][g] = arrived + 1
                    /\ \A b \in Mailboxes, f \in Files :
                        (b # c \/ f # g) => store'[b][f] = store[b][f]
    <2>1. store \in [Mailboxes -> [Files -> 0..arrived]]
        BY DEF TypeInv
    <2>2. PICK g \in Files : store' = [store EXCEPT ![c][g] = arrived + 1]
        BY <1>4 DEF Deliver
    <2>3. store'[c][g] = arrived + 1
        BY <2>1, <2>2
    <2>4. ASSUME NEW b \in Mailboxes, NEW f \in Files, b # c \/ f # g
          PROVE  store'[b][f] = store[b][f]
        BY <2>1, <2>2, <2>4
    <2>5. QED BY <1>4, <2>3, <2>4 DEF Deliver
<1>5. arrived \in Nat
    BY DEF TypeInv
<1>6. QED BY <1>1, <1>2, <1>3, <1>4, <1>5, MailSteps

LEMMA StoredOnceNext ==
    ASSUME TypeInv, StoredOnce, [Next]_vars
    PROVE  StoredOnce'
<1>1. ASSUME NEW b \in Mailboxes, NEW f \in Files
      PROVE  store[b][f] \in 0..arrived /\ store[b][f] # arrived + 1
    BY DEF TypeInv
<1>2. CASE \A b \in Mailboxes, f \in Files : store'[b][f] \in {store[b][f], NoMsg}
    BY <1>2 DEF StoredOnce
<1>3. CASE \E c \in Mailboxes, g \in Files :
                /\ store'[c][g] = arrived + 1
                /\ \A b \in Mailboxes, f \in Files : (b # c \/ f # g) => store'[b][f] = store[b][f]
    BY <1>1, <1>3 DEF StoredOnce
<1>4. QED BY <1>2, <1>3, StoreSteps

\* A message that has arrived does not come to a new place.
LEMMA NoneReturns ==
    ASSUME TypeInv, [Next]_vars, NEW m \in 1..arrived,
           NEW b \in Mailboxes, NEW f \in Files, store'[b][f] = m
    PROVE  store[b][f] = m
<1>1. arrived \in Nat /\ m # NoMsg /\ m # arrived + 1
    BY DEF TypeInv, NoMsg
<1>2. QED BY <1>1, StoreSteps

\* The list of t after a step of its own or of another thread.
LEMMA ListSteps ==
    ASSUME TypeInv, [Next]_vars, NEW t \in Sessions
    PROVE  \/ list'[t] = list[t]
           \/ Hangup(t) \/ LoadEntry(t) \/ Unlink(t) \/ Dele(t) \/ Rset(t)
<1>1. ASSUME NEW s \in Sessions, s # t, Hangup(s) \/ LoadEntry(s) \/ Unlink(s) \/ Dele(s) \/ Rset(s)
      PROVE  list'[t] = list[t]
    BY <1>1 DEF Hangup, LoadEntry, Unlink, Dele, Rset, Set, TypeInv
<1>2. ASSUME NEW s \in Sessions, Unlinked(s) PROVE list' = list
    BY <1>2 DEF Unlinked, mailVars
<1>3. ASSUME NEW b \in Mailboxes, Deliver(b) PROVE list' = list
    BY <1>3 DEF Deliver
<1>4. QED BY <1>1, <1>2, <1>3, MailSteps

\* What DELE and RSET leave alone in a list.
SameEntries(l, r) ==
    /\ DOMAIN r = DOMAIN l
    /\ \A n \in DOMAIN l : r[n].box = l[n].box /\ r[n].file = l[n].file /\ r[n].msg = l[n].msg

LEMMA MarkingKeeps ==
    ASSUME TypeInv, NEW t \in Sessions, Dele(t) \/ Rset(t)
    PROVE  SameEntries(list[t], list'[t])
<1> DEFINE l == list[t]
<1>1. l \in Seq(Entry(arrived)) /\ \A n \in DOMAIN l : l[n] \in Entry(arrived)
    BY DEF TypeInv
<1>2. CASE list' = list
    BY <1>2 DEF SameEntries
<1>3. ASSUME NEW n \in DOMAIN l, list' = Set(list, t, Deleted(l, n))
      PROVE  SameEntries(l, list'[t])
    <2>1. list'[t] = [l EXCEPT ![n] = [l[n] EXCEPT !.deleted = TRUE]]
        BY <1>3 DEF Set, Deleted, TypeInv
    <2> DEFINE d == [l[n] EXCEPT !.deleted = TRUE]
    <2>2. l[n] \in Entry(arrived) /\ d.box = l[n].box /\ d.file = l[n].file /\ d.msg = l[n].msg
        BY <1>1, <1>3 DEF Entry
    <2>3. list'[t] = [l EXCEPT ![n] = d]
        BY <2>1
    <2> HIDE DEF l, d
    <2>4. QED BY <1>1, <1>3, <2>2, <2>3 DEF SameEntries
<1>4. CASE Rset(t)
    <2>1. list'[t] = [n \in DOMAIN l |-> [l[n] EXCEPT !.deleted = FALSE]]
        BY <1>4 DEF Rset, Set, Undeleted, TypeInv
    <2>2. ASSUME NEW n \in DOMAIN l
          PROVE  /\ list'[t][n].box = l[n].box /\ list'[t][n].file = l[n].file
                 /\ list'[t][n].msg = l[n].msg
        <3>1. list'[t][n] = [l[n] EXCEPT !.deleted = FALSE] /\ l[n] \in Entry(arrived)
            BY <1>1, <2>1
        <3>2. QED BY <3>1 DEF Entry
    <2>3. DOMAIN list'[t] = DOMAIN l
        BY <2>1
    <2>4. QED BY <2>2, <2>3 DEF SameEntries
<1>5. QED BY <1>2, <1>3, <1>4 DEF Dele

\* A file put into a list of others, none of which has its name.
LEMMA FileAdded ==
    ASSUME NEW S, NEW l \in Seq(S), NEW e \in S, NEW k \in 0..Len(l)
    PROVE  /\ \A n \in DOMAIN Put(l, k, e) :
                Put(l, k, e)[n] = e \/ \E m \in DOMAIN l : Put(l, k, e)[n] = l[m]
           /\ DifferentFiles(l) /\ (\A n \in DOMAIN l : l[n].file # e.file) =>
                DifferentFiles(Put(l, k, e))
<1> DEFINE r == Put(l, k, e)
           old(n) == IF n <= k THEN n ELSE n - 1
<1>0. r \in Seq(S) /\ HasBehind(r, l, k, e)
    BY Inserted
<1> HIDE DEF r
<1>1. /\ r \in Seq(S) /\ Len(r) = Len(l) + 1
      /\ \A i \in 1..k : r[i] = l[i]
      /\ r[k + 1] = e
      /\ \A i \in (k + 1)..Len(l) : r[i + 1] = l[i]
    BY <1>0 DEF HasBehind
<1>2. PICK z \in Nat : z = Len(l) /\ DOMAIN l = 1..z /\ k \in 0..z
    OBVIOUS
<1>3. DOMAIN r = 1..(z + 1)
    BY <1>1, <1>2
<1>4. ASSUME NEW n \in DOMAIN r, n # k + 1
      PROVE  old(n) \in DOMAIN l /\ r[n] = l[old(n)]
    <2>1. CASE n <= k
        BY <1>1, <1>2, <1>3, <2>1
    <2>2. CASE ~(n <= k)
        <3>1. n - 1 \in (k + 1)..z /\ (n - 1) + 1 = n /\ n - 1 \in 1..z
            BY <1>2, <1>3, <1>4, <2>2
        <3>2. r[(n - 1) + 1] = l[n - 1]
            BY <1>1, <1>2, <3>1
        <3>3. QED BY <1>2, <2>2, <3>1, <3>2
    <2>3. QED BY <2>1, <2>2
<1>5. ASSUME NEW n \in DOMAIN r, NEW m \in DOMAIN r, n # k + 1, m # k + 1, old(n) = old(m)
      PROVE  n = m
    BY <1>2, <1>3, <1>5
<1> HIDE DEF old
<1>6. ASSUME NEW n \in DOMAIN r PROVE r[n] = e \/ \E m \in DOMAIN l : r[n] = l[m]
    BY <1>1, <1>4
<1>7. ASSUME DifferentFiles(l), \A n \in DOMAIN l : l[n].file # e.file PROVE DifferentFiles(r)
    <2>1. ASSUME NEW n \in DOMAIN r, NEW m \in DOMAIN r, r[n].file = r[m].file PROVE n = m
        BY <1>1, <1>4, <1>5, <1>7, <2>1 DEF DifferentFiles
    <2>2. QED BY <2>1 DEF DifferentFiles
<1>8. QED BY <1>6, <1>7 DEF r

\* A thread that leaves the mail list, or goes, leaves it empty.
LEMMA ListEmptied ==
    ASSUME TypeInv, NEW t \in Sessions, Stage(t), [Next]_vars,
           state'[t] \in {"Undefined", "Authorization"}, ~Loading(t)'
    PROVE  \/ state[t] \in {"Undefined", "Authorization"} /\ ~Loading(t)
           \/ list'[t] = <<>>
<1> USE DEF Goto, Answer, Set, TypeInv, Loading
<1>1. CASE ~Step(t)
    BY <1>1, OthersApart DEF Apart
<1>2. CASE Client(t)
    BY <1>2 DEF Client, Accept, ReadLine, Hangup, Stage
<1>3. CASE Split(t)
    BY <1>3 DEF Split, SplitFirst, SplitNext
<1>4. CASE Lookup(t)
    BY <1>4 DEF Lookup, RewindUser, RewindPass, Rewind, ScanEnd, ScanUser, CopyUser, ScanPass
<1>5. CASE Maildrop(t)
    BY <1>5 DEF Maildrop, LoadEntry, Loaded, Unlink, Unlinked, mailVars, Stage
<1>6. CASE Exec(t)
    BY <1>6 DEF Exec, Empty, Crash, Refuse, User, Pass, Check, Stat, List, Retr, Dele, Rset,
                QuitEarly, QuitLate, Asks
<1>7. QED BY <1>1, <1>2, <1>3, <1>4, <1>5, <1>6 DEF Step, Work

\* The directory is read from the moment the password is found right.
LEMMA LoadBegun ==
    ASSUME TypeInv, NumberTypes, NEW t \in Sessions, [Next]_vars, Loading(t)'
    PROVE  \/ Loading(t) /\ todo'[t] \subseteq todo[t]
           \/ pc[t] = "scanPass"
<1> USE DEF Goto, Answer, Set, TypeInv, Loading
<1>1. CASE ~Step(t)
    BY <1>1, OthersApart, OthersNumbers DEF Apart
<1>2. CASE Client(t)
    BY <1>2 DEF Client, Accept, ReadLine, Hangup
<1>3. CASE Split(t)
    BY <1>3 DEF Split, SplitFirst, SplitNext
<1>4. CASE Lookup(t)
    BY <1>4 DEF Lookup, RewindUser, RewindPass, Rewind, ScanEnd, ScanUser, CopyUser, ScanPass
<1>5. CASE Maildrop(t)
    BY <1>5 DEF Maildrop, LoadEntry, Loaded, Unlink, Unlinked
<1>6. CASE Exec(t)
    BY <1>6 DEF Exec, Empty, Crash, Refuse, User, Pass, Check, Stat, List, Retr, Dele, Rset,
                QuitEarly, QuitLate, Asks
<1>7. QED BY <1>1, <1>2, <1>3, <1>4, <1>5, <1>6 DEF Step, Work

LEMMA ListNext ==
    ASSUME TypeInv, NumberTypes, StoredOnce, [Next]_vars,
           NEW t \in Sessions, Stage(t), ListSoFar(t), ListedThere(t)
    PROVE  ListSoFar(t)' /\ ListedThere(t)'
<1> USE DEF Loading
<1> DEFINE l == list[t]
<1>1. /\ l \in Seq(Entry(arrived)) /\ DOMAIN l = 1..Len(l) /\ Len(l) \in Nat
      /\ \A n \in DOMAIN l : l[n] \in Entry(arrived) /\ l[n].msg \in 1..arrived
    <2>1. l \in Seq(Entry(arrived)) /\ \A n \in DOMAIN l : l[n] \in Entry(arrived)
        BY DEF TypeInv
    <2>2. QED BY <2>1 DEF Entry
\* The messages of a list that only shrinks stand where they stood.
<1>2. ASSUME \A n \in DOMAIN list'[t] : \E m \in DOMAIN l :
                 /\ list'[t][n].box = l[m].box /\ list'[t][n].file = l[m].file
                 /\ list'[t][n].msg = l[m].msg
      PROVE  ListedThere(t)'
    <2>1. ASSUME NEW n \in DOMAIN list'[t], NEW b \in Mailboxes, NEW f \in Files,
                 store'[b][f] = list'[t][n].msg
          PROVE  list'[t][n].box = b /\ list'[t][n].file = f
        <3>1. PICK m \in DOMAIN l : /\ list'[t][n].box = l[m].box /\ list'[t][n].file = l[m].file
                                    /\ list'[t][n].msg = l[m].msg
            BY <1>2
        <3>2. store[b][f] = l[m].msg
            BY <1>1, <2>1, <3>1, NoneReturns
        <3>3. QED BY <3>1, <3>2 DEF ListedThere
    <2>2. QED BY <2>1 DEF ListedThere
<1>3. CASE list'[t] = l
    <2>1. ListedThere(t)'
        BY <1>2, <1>3
    <2>2. state'[t] \in {"Undefined", "Authorization"} /\ ~Loading(t)' => list'[t] = <<>>
        BY <1>3, ListEmptied DEF ListSoFar
    <2>3. Loading(t)' => \A n \in DOMAIN list'[t] : list'[t][n].file \notin todo'[t]
        BY <1>3, LoadBegun DEF ListSoFar, Stage
    <2>4. QED BY <1>3, <2>1, <2>2, <2>3 DEF ListSoFar
<1>4. CASE Hangup(t)
    BY <1>4 DEF Hangup, Goto, Set, ListSoFar, DifferentFiles, ListedThere, TypeInv
<1>5. CASE LoadEntry(t)
    <2>1. PICK f \in todo[t], k \in 0..Len(l) :
            list' = Set(list, t, Listed(t, f, k)) /\ todo' = Set(todo, t, todo[t] \ {f})
        BY <1>5 DEF LoadEntry
    <2>2. /\ list'[t] = Listed(t, f, k) /\ todo'[t] = todo[t] \ {f} /\ pc[t] = "load"
          /\ UNCHANGED <<pc, state, store>>
        BY <1>5, <2>1 DEF LoadEntry, Set, TypeInv
    <2>3. username[t] \in Mailboxes /\ f \in Files /\ state[t] = "Authorization"
        BY <2>1, <2>2 DEF Stage, TypeInv
    <2> DEFINE e == [box |-> username[t], file |-> f, msg |-> store[username[t]][f],
                     deleted |-> FALSE]
    <2>4. CASE store[username[t]][f] = NoMsg
        <3>1. list'[t] = l
            BY <2>2, <2>4 DEF Listed
        <3>2. QED BY <1>3, <3>1
    <2>5. CASE store[username[t]][f] # NoMsg
        <3>1. list'[t] = Put(l, k, e)
            BY <2>2, <2>5 DEF Listed, Put
        <3>2. store[username[t]][f] \in 1..arrived
            BY <2>3, <2>5 DEF TypeInv, NoMsg
        <3>3. e \in Entry(arrived)
            BY <2>3, <3>2 DEF Entry
        <3>4. DifferentFiles(l) /\ \A n \in DOMAIN l : l[n].file # e.file
            BY <2>1, <2>2 DEF ListSoFar
        <3>5. e.file = f /\ e.box = username[t] /\ e.msg = store[username[t]][f]
            OBVIOUS
        <3> HIDE DEF e, l
        <3>6. /\ DifferentFiles(list'[t])
              /\ \A n \in DOMAIN list'[t] :
                    list'[t][n] = e \/ \E m \in DOMAIN l : list'[t][n] = l[m]
            BY <1>1, <2>1, <3>1, <3>3, <3>4, FileAdded
        <3>7. \A n \in DOMAIN list'[t] : list'[t][n].file \notin todo'[t]
            BY <2>2, <3>5, <3>6 DEF ListSoFar, l
        <3>8. ListedThere(t)'
            <4>1. ASSUME NEW n \in DOMAIN list'[t], NEW b \in Mailboxes, NEW g \in Files,
                         store[b][g] = list'[t][n].msg
                  PROVE  list'[t][n].box = b /\ list'[t][n].file = g
                <5>1. CASE list'[t][n] = e
                    BY <2>3, <2>5, <3>5, <4>1, <5>1 DEF StoredOnce
                <5>2. CASE \E m \in DOMAIN l : list'[t][n] = l[m]
                    BY <4>1, <5>2 DEF ListedThere, l
                <5>3. QED BY <3>6, <5>1, <5>2
            <4>2. QED BY <2>2, <4>1 DEF ListedThere
        <3>9. QED BY <2>2, <3>6, <3>7, <3>8 DEF ListSoFar
    <2>6. QED BY <2>4, <2>5
<1>6. CASE Unlink(t)
    <2>1. l # <<>> /\ list'[t] = Tail(l) /\ pc'[t] = "unlink" /\ state'[t] = "Update"
        BY <1>6 DEF Unlink, Set, Stage, TypeInv
    <2>2. /\ DOMAIN list'[t] = 1..(Len(l) - 1)
          /\ \A n \in 1..(Len(l) - 1) : list'[t][n] = l[n + 1] /\ n + 1 \in DOMAIN l
        BY <1>1, <2>1
    <2>3. ListedThere(t)'
        BY <1>2, <2>2
    <2>4. ASSUME NEW n \in DOMAIN list'[t], NEW m \in DOMAIN list'[t],
                 list'[t][n].file = list'[t][m].file
          PROVE  n = m
        <3>1. n + 1 = m + 1
            BY <2>2, <2>4 DEF ListSoFar, DifferentFiles
        <3>2. QED BY <1>1, <2>2, <3>1
    <2>5. QED BY <2>1, <2>3, <2>4 DEF ListSoFar, DifferentFiles
<1>7. CASE Dele(t) \/ Rset(t)
    <2>1. SameEntries(l, list'[t])
        BY <1>7, MarkingKeeps
    <2>2. state'[t] = "Transaction" /\ pc'[t] = "read"
        BY <1>7 DEF Dele, Rset, Asks, Answer, Goto, Set, TypeInv
    <2>3. ListedThere(t)'
        BY <1>2, <2>1 DEF SameEntries
    <2>4. QED BY <2>1, <2>2, <2>3 DEF ListSoFar, DifferentFiles, SameEntries
<1>8. QED BY <1>3, <1>4, <1>5, <1>6, <1>7, ListSteps

\* A thread comes to Transaction with the list numbered, and keeps the numbers there.
LEMMA NumbersKept ==
    ASSUME TypeInv, NumberTypes, NEW t \in Sessions, Stage(t), [Next]_vars,
           state'[t] = "Transaction"
    PROVE  \/ /\ Loaded(t)
              /\ numbered'[t] = [n \in DOMAIN list[t] |-> list[t][n].msg] /\ list' = list
           \/ /\ state[t] = "Transaction" /\ numbered'[t] = numbered[t]
              /\ SameEntries(list[t], list'[t])
<1> USE DEF Goto, Answer, Set, TypeInv, NumberTypes
<1>1. CASE ~Step(t)
    <2>1. state[t] = "Transaction" /\ numbered'[t] = numbered[t]
        BY <1>1, OthersApart, OthersNumbers DEF Apart
    <2>2. list'[t] = list[t]
        BY <1>1, ListSteps DEF Step, Work, Client, Maildrop, Exec
    <2>3. QED BY <2>1, <2>2 DEF SameEntries
<1>2. CASE Loaded(t)
    BY <1>2 DEF Loaded, mailVars
<1>3. CASE Step(t) /\ ~Loaded(t)
    <2>1. /\ state[t] = "Transaction" /\ numbered'[t] = numbered[t]
          /\ ~Hangup(t) /\ ~LoadEntry(t) /\ ~Unlink(t)
        <3>1. ASSUME Hangup(t) \/ LoadEntry(t) \/ Unlink(t) PROVE FALSE
            BY <3>1 DEF Hangup, LoadEntry, Unlink, Stage
        <3>2. ASSUME Client(t) PROVE state[t] = "Transaction" /\ numbered'[t] = numbered[t]
            BY <3>1, <3>2 DEF Client, Accept, ReadLine, retrVars
        <3>3. ASSUME Split(t) PROVE state[t] = "Transaction" /\ numbered'[t] = numbered[t]
            BY <3>3 DEF Split, SplitFirst, SplitNext, retrVars
        <3>4. ASSUME Lookup(t) PROVE state[t] = "Transaction" /\ numbered'[t] = numbered[t]
            BY <3>4 DEF Lookup, RewindUser, RewindPass, Rewind, ScanEnd, ScanUser, CopyUser,
                        ScanPass, retrVars
        <3>5. ASSUME Maildrop(t) PROVE FALSE
            BY <1>3, <3>1, <3>5 DEF Maildrop, Unlinked
        <3>6. ASSUME Exec(t) PROVE state[t] = "Transaction" /\ numbered'[t] = numbered[t]
            BY <3>6 DEF Exec, Empty, Refuse, User, Pass, Check, Stat, List, Retr, Dele, Rset,
                        QuitEarly, QuitLate, retrVars
        <3>7. QED BY <1>3, <3>1, <3>2, <3>3, <3>4, <3>5, <3>6 DEF Step, Work
    <2>2. SameEntries(list[t], list'[t])
        BY <2>1, ListSteps, MarkingKeeps DEF SameEntries
    <2>3. QED BY <2>1, <2>2
<1>4. QED BY <1>1, <1>2, <1>3

LEMMA NumbersNext ==
    ASSUME TypeInv, NumberTypes, NEW t \in Sessions, Stage(t), NumbersAgree(t), [Next]_vars
    PROVE  NumbersAgree(t)'
<1>1. CASE /\ numbered'[t] = [n \in DOMAIN list[t] |-> list[t][n].msg] /\ list' = list
    BY <1>1 DEF NumbersAgree
<1>2. CASE /\ state[t] = "Transaction" /\ numbered'[t] = numbered[t]
           /\ SameEntries(list[t], list'[t])
    <2>1. /\ DOMAIN numbered[t] = DOMAIN list[t]
          /\ \A n \in DOMAIN list[t] : numbered[t][n] = list[t][n].msg
        BY <1>2 DEF NumbersAgree
    <2>2. QED BY <1>2, <2>1 DEF NumbersAgree, SameEntries
<1>3. QED BY <1>1, <1>2, NumbersKept DEF NumbersAgree

\* What RETR sends, against the numbers.
LEMMA RetrSends ==
    ASSUME TypeInv, NEW t \in Sessions, ListSoFar(t), ListedThere(t), NumbersAgree(t),
           state[t] = "Transaction", NEW n \in DOMAIN list[t],
           Stands(list[t][n]) # numbered[t][n]
    PROVE  /\ Gone(numbered[t][n])
           /\ \A m \in DOMAIN numbered[t] : Stands(list[t][n]) # numbered[t][m]
<1>1. /\ DOMAIN numbered[t] = DOMAIN list[t]
      /\ \A m \in DOMAIN list[t] : numbered[t][m] = list[t][m].msg
    BY DEF NumbersAgree
<1>2. list[t][n].box \in Mailboxes /\ list[t][n].file \in Files
    <2>1. list[t] \in Seq(Entry(arrived)) /\ list[t][n] \in Entry(arrived)
        BY DEF TypeInv
    <2>2. QED BY <2>1 DEF Entry
<1>3. Gone(numbered[t][n])
    BY <1>1 DEF Gone, ListedThere, Stands
<1>4. ASSUME NEW m \in DOMAIN numbered[t], Stands(list[t][n]) = numbered[t][m] PROVE FALSE
    <2>1. list[t][m].file = list[t][n].file
        BY <1>1, <1>2, <1>4 DEF ListedThere, Stands
    <2>2. m = n
        BY <1>1, <2>1 DEF ListSoFar, DifferentFiles
    <2>3. QED BY <1>4, <2>2
<1>5. QED BY <1>3, <1>4

\* Only RETR sends a message, and it is forgotten when the next command is read.
LEMMA SentSteps ==
    ASSUME TypeInv, NumberTypes, NEW t \in Sessions, [Next]_vars
    PROVE  \/ Retr(t) /\ sent'[t] # sent[t]
           \/ sent'[t] = Nothing
           \/ /\ sent'[t] = sent[t]
              /\ pc[t] \in {"read", "closed"} => pc'[t] \in {"read", "closed"}
<1> USE DEF Goto, Answer, Set, TypeInv, NumberTypes, history, retrVars
<1>1. CASE ~Step(t)
    BY <1>1, OthersApart, OthersNumbers DEF Apart
<1>2. CASE Client(t)
    BY <1>2 DEF Client, Accept, ReadLine, Hangup
<1>3. CASE Split(t)
    BY <1>3 DEF Split, SplitFirst, SplitNext
<1>4. CASE Lookup(t)
    BY <1>4 DEF Lookup, RewindUser, RewindPass, Rewind, ScanEnd, ScanUser, CopyUser, ScanPass
<1>5. CASE Maildrop(t)
    BY <1>5 DEF Maildrop, LoadEntry, Loaded, Unlink, Unlinked
<1>6. CASE Exec(t)
    BY <1>6 DEF Exec, Empty, Crash, Refuse, User, Pass, Check, Stat, List, Retr, Dele, Rset,
                QuitEarly, QuitLate, Asks
<1>7. QED BY <1>1, <1>2, <1>3, <1>4, <1>5, <1>6 DEF Step, Work

LEMMA SentNext ==
    ASSUME TypeInv, NumberTypes, NEW t \in Sessions, Stage(t), ListSoFar(t), ListedThere(t),
           NumbersAgree(t), SentFits(t), [Next]_vars
    PROVE  SentFits(t)'
<1> USE DEF Goto, Answer, Set
<1>1. CASE Retr(t) /\ sent'[t] # sent[t]
    <2>1. PICK n \in DOMAIN list[t] : sent'[t] = [number |-> n, msg |-> Stands(list[t][n])]
        BY <1>1 DEF Retr, NumberTypes
    <2>2. state[t] = "Transaction" /\ UNCHANGED <<store, numbered>>
        BY <1>1 DEF Retr, Asks, mailVars
    <2>3. pc'[t] = "read"
        BY <1>1 DEF Retr, TypeInv
    <2>4. n \in DOMAIN numbered[t]
        BY <2>2 DEF NumbersAgree
    <2>5. \/ Stands(list[t][n]) = numbered[t][n]
          \/ /\ Gone(numbered[t][n])
             /\ \A m \in DOMAIN numbered[t] : Stands(list[t][n]) # numbered[t][m]
        BY <2>2, RetrSends
    <2>6. sent'[t].number = n /\ sent'[t].msg = Stands(list[t][n])
        BY <2>1
    <2>7. QED BY <2>2, <2>3, <2>4, <2>5, <2>6 DEF SentFits, Gone
<1>2. CASE sent'[t] = Nothing
    BY <1>2 DEF SentFits
<1>3. CASE /\ sent'[t] = sent[t] /\ sent[t] # Nothing
           /\ pc[t] \in {"read", "closed"} => pc'[t] \in {"read", "closed"}
    <2>1. pc[t] \in {"read", "closed"}
        BY <1>3 DEF SentFits
    <2>2. pc'[t] \in {"read", "closed"} /\ ~Loaded(t)
        BY <1>3, <2>1 DEF Loaded
    <2>3. SUFFICES ASSUME state'[t] = "Transaction"
                   PROVE  SentFits(t)'
        BY <1>3, <2>2 DEF SentFits
    <2>4. state[t] = "Transaction" /\ numbered'[t] = numbered[t]
        BY <2>2, <2>3, NumbersKept
    <2>5. sent[t].number \in DOMAIN numbered[t]
        BY <1>3, <2>4 DEF SentFits
    <2>6. numbered[t][sent[t].number] \in 1..arrived
        <3>1. sent[t].number \in DOMAIN list[t]
            BY <2>4, <2>5 DEF NumbersAgree
        <3>2. list[t] \in Seq(Entry(arrived)) /\ list[t][sent[t].number] \in Entry(arrived)
            BY <3>1 DEF TypeInv
        <3>3. QED BY <2>4, <3>1, <3>2 DEF NumbersAgree, Entry
    <2>7. Gone(numbered[t][sent[t].number]) => Gone(numbered[t][sent[t].number])'
        BY <1>3, <2>4, <2>6, NoneReturns DEF Gone
    <2>8. QED BY <1>3, <2>2, <2>4, <2>5, <2>7 DEF SentFits
<1>4. QED BY <1>1, <1>2, <1>3, SentSteps

-----------------------------------------------------------------------------
(* Theorems                                                                *)

LEMMA Inductive ==
    /\ Init => IInv
    /\ IInv /\ [Next]_vars => IInv'
<1>1. Init => IInv
    BY TypeInit, StageInit, MarksInit, SplitSoFarInit, SearchSoFarInit, NumberingInit DEF IInv
<1>2. ASSUME IInv, [Next]_vars PROVE IInv'
    <2>1. TypeInv' /\ (\A t \in Sessions : Stage(t)' /\ MarksAgree(t)')
        BY <1>2, TypeNext, StageNext, MarksNext DEF IInv
    <2>2. \A t \in Sessions : SplitSoFar(t)' /\ SearchSoFar(t)'
        BY <1>2, SplitSoFarNext, SearchSoFarNext DEF IInv
    <2>3. NumberTypes' /\ StoredOnce'
        BY <1>2, NumberTypesNext, StoredOnceNext DEF IInv
    <2>4. \A t \in Sessions : ListSoFar(t)' /\ ListedThere(t)'
        BY <1>2, ListNext DEF IInv
    <2>5. \A t \in Sessions : NumbersAgree(t)' /\ SentFits(t)'
        BY <1>2, NumbersNext, SentNext DEF IInv
    <2>6. QED BY <2>1, <2>2, <2>3, <2>4, <2>5 DEF IInv
<1>3. QED BY <1>1, <1>2

\* The inductive invariant: types, where each thread stands, and what it has in hand
\* of the mail store, of its line, of users.txt and of its list (mypopd.c:handle_client).
THEOREM Invariant == Spec => []IInv
BY Inductive, PTL DEF Spec

\* split() yields the words of its own line, all of them and in order, unless another
\* thread is in strtok meanwhile (util.c:41).
THEOREM OwnWords == Spec => []WordsAreOwn
<1>1. IInv => WordsAreOwn
    BY DEF IInv, SplitSoFar, FirstWords, Executing, WordsAreOwn
<1>2. QED BY <1>1, Invariant, PTL

\* USER is accepted exactly for the names of users.txt, unless another thread
\* searches the file meanwhile (mailuser.c:50-56).
THEOREM UsersAnswered == Spec => []UserAnswered
<1>1. IInv => UserAnswered
    BY DEF IInv, SearchSoFar, InUserFile, Matches, UserAnswered
<1>2. QED BY <1>1, Invariant, PTL

\* A file goes only under a thread that has confirmed its deletion, has not taken
\* it back with RSET, and was told to quit (mailuser.c:239-252, mypopd.c:294-302).
THEOREM OnlyConfirmed == Spec => OnlyConfirmedRemoved
<1>1. ASSUME IInv, [Next]_vars, NEW b \in Mailboxes, NEW f \in Files,
             store[b][f] # NoMsg, store'[b][f] = NoMsg
      PROVE  \E s \in Sessions : /\ state[s] = "Update"
                                 /\ \E e \in marked[s] : e.box = b /\ e.file = f
    <2>1. ASSUME NEW s \in Sessions, Hangup(s) \/ LoadEntry(s) \/ Unlinked(s) \/ Dele(s) \/ Rset(s)
          PROVE  FALSE
        BY <1>1, <2>1 DEF Hangup, LoadEntry, Unlinked, mailVars, Dele, Rset
    <2>2. ASSUME NEW c \in Mailboxes, Deliver(c) PROVE FALSE
        BY <1>1, <2>2 DEF Deliver, IInv, TypeInv, NoMsg
    <2>3. PICK s \in Sessions : Unlink(s)
        BY <1>1, <2>1, <2>2, MailSteps
    <2>4. /\ list[s] \in Seq(Entry(arrived)) /\ list[s] # <<>>
          /\ Head(list[s]) = list[s][1] /\ 1 \in DOMAIN list[s] /\ list[s][1] \in Entry(arrived)
        BY <1>1, <2>3 DEF Unlink, IInv, TypeInv
    <2>5. list[s][1].deleted /\ list[s][1].box = b /\ list[s][1].file = f
        <3> DEFINE e == list[s][1]
        <3>1. store' = IF e.deleted THEN [store EXCEPT ![e.box][e.file] = NoMsg] ELSE store
            BY <2>3, <2>4 DEF Unlink
        <3>2. e.box \in Mailboxes /\ e.file \in Files
            BY <2>4 DEF Entry
        <3> HIDE DEF e
        <3>3. QED BY <1>1, <3>1, <3>2 DEF IInv, TypeInv, e
    <2>6. \E e \in marked[s] : SameFile(e, list[s][1])
        BY <1>1, <2>4, <2>5 DEF IInv, MarksAgree
    <2>7. state[s] = "Update"
        BY <1>1, <2>3 DEF Unlink, IInv, Stage
    <2>8. QED BY <2>5, <2>6, <2>7 DEF SameFile
<1>2. IInv /\ [Next]_vars =>
        [\A b \in Mailboxes, f \in Files :
            store[b][f] # NoMsg /\ store'[b][f] = NoMsg =>
                \E s \in Sessions : /\ state[s] = "Update"
                                    /\ \E e \in marked[s] : e.box = b /\ e.file = f]_vars
    BY <1>1
<1>3. QED BY <1>2, Invariant, PTL DEF Spec, OnlyConfirmedRemoved

\* A thread leaves "unlink" for "closed" only when its list is empty.
LEMMA ClosesWhenEmpty ==
    ASSUME TypeInv, NEW s \in Sessions, pc[s] = "unlink", pc'[s] = "closed", [Next]_vars
    PROVE  Unlinked(s)
<1> USE DEF Goto, Answer, Set, TypeInv
<1>1. Step(s)
    BY OthersApart DEF Apart
<1>2. ~Client(s)
    BY DEF Client, Accept, ReadLine, Hangup
<1>3. ~Split(s) /\ ~Lookup(s)
    BY DEF Split, SplitFirst, SplitNext, Lookup, RewindUser, RewindPass, ScanEnd, ScanUser, CopyUser,
           ScanPass
<1>4. ~Exec(s)
    BY DEF Exec, Empty, Refuse, User, Pass, Stat, List, Retr, Dele, Rset, QuitEarly, QuitLate, Asks
<1>5. ~LoadEntry(s) /\ ~Loaded(s) /\ ~Unlink(s)
    BY DEF LoadEntry, Loaded, Unlink
<1>6. QED BY <1>1, <1>2, <1>3, <1>4, <1>5 DEF Step, Work, Maildrop

\* When a thread closes after QUIT no message is left whose deletion it has confirmed,
\* whoever else emptied or filled the mailbox (mailuser.c:233-252).
THEOREM QuitRemoves == Spec => QuitRemovesAll
<1>1. ASSUME IInv, [Next]_vars, NEW s \in Sessions, pc[s] = "unlink", pc'[s] = "closed",
             NEW e \in marked[s]
      PROVE  store'[e.box][e.file] # e.msg
    <2>1. list[s] = <<>> /\ UNCHANGED store
        BY <1>1, ClosesWhenEmpty DEF IInv, Unlinked, mailVars
    <2>2. ~ToDelete(s, e)
        BY <2>1 DEF ToDelete
    <2>3. QED BY <1>1, <2>1, <2>2 DEF IInv, MarksAgree
<1>2. IInv /\ [Next]_vars =>
        [\A s \in Sessions :
            pc[s] = "unlink" /\ pc'[s] = "closed" =>
                \A e \in marked[s] : store'[e.box][e.file] # e.msg]_vars
    BY <1>1
<1>3. QED BY <1>2, Invariant, PTL DEF Spec, QuitRemovesAll

\* RETR n sends the message that had number n at PASS, or, only when another connection
\* has removed that one, a message without a number (mailuser.c:275-289, 338).
THEOREM Retrieves == Spec => []RetrievesNumbered
<1>1. IInv => RetrievesNumbered
    BY DEF IInv, SentFits, RetrievesNumbered
<1>2. QED BY <1>1, Invariant, PTL
=============================================================================
