----------------------------- MODULE DnsMessage -----------------------------
(***************************************************************************)
(* A DNS response as bytes (assignment 2, DNSMessage.java): written with   *)
(* compressed names by DNSMessage itself, as its tests do, or by a server, *)
(* and read by processResponse, which puts its records into the cache.  A  *)
(* cell of the buffer is a label, a pointer, the end of a name or a field. *)
(***************************************************************************)
EXTENDS Integers, SequencesExt

CONSTANTS
  Names,        \* names: sequences of labels
  Shapes,       \* bound: which types of records there are in which sections
  MaxRecords,   \* bound: records of a message
  RawTargets    \* whether servers compress names against those in data that is kept raw


\* RecordType: the codes; data of types other than these is kept raw as well.
A == 1
NS == 2
SOA == 6
MX == 15
Types == {A, NS, SOA, MX}
Sections == 1..3     \* answer, nameserver, additional

ASSUME MessageAssumption ==
  /\ Names \subseteq Seq(Nat) /\ MaxRecords \in Nat /\ RawTargets \in BOOLEAN
  /\ Shapes \subseteq Sections \X Types

Record == [section : Sections, owner : Names, type : Types, data : Names \cup {<<>>}]

\* Those written; data other than a name is left out.
Written == {rr \in Record : /\ <<rr.section, rr.type>> \in Shapes
                           /\ (rr.data = <<>>) = (rr.type \in {A, SOA})}

\* Java's null in the place of a name.
Null == <<-1>>

VARIABLES
  writer,     \* who writes the message
  phase,
  msg,        \* the buffer; nameToPosition; history: what name stands where
  count,      \* the counts of the header
  sent,       \* history: the records written
  cut,        \* history: not all of the message has come
  pos,        \* the reader's position
  known,      \* positionToName
  left,       \* records that are still to be read
  got         \* records put into the cache

vars == <<writer, phase, msg, count, sent, cut, pos, known, left, got>>
readVars == <<cut, pos, known, left, got>>

-----------------------------------------------------------------------------
\* Writing

Label(l) == <<"label", l>>
Pointer(p) == <<"pointer", p>>
End == <<"end", 0>>
Data == <<"data", 0>>
Type(t) == <<"type", t>>
Length(n) == <<"length", n>>

Put(m, cell) == [m EXCEPT !.buf = Append(@, cell)]

\* A map with the entries of another put into it.
PutAll(f, g) == [x \in DOMAIN f \cup DOMAIN g |-> IF x \in DOMAIN g THEN g[x] ELSE f[x]]

Suffix(name, i) == SubSeq(name, i, Len(name))

\* The labels before the i-th, and a pointer to the rest, or the end of the name.
Encode(m, name, i, p) ==
  LET rest == IF i > Len(name) THEN End ELSE Pointer(p)
      place(j) == Len(m.buf) + j
  IN [buf |-> m.buf \o [j \in 1..(i - 1) |-> Label(name[j])] \o <<rest>>,
      names |-> PutAll(m.names, [n \in {Suffix(name, j) : j \in 1..(i - 1)} |->
                                   place(Len(name) - Len(n) + 1)]),
      at |-> PutAll(m.at, [q \in {place(j) : j \in 1..Min({i, Len(name)})} |->
                             Suffix(name, q - Len(m.buf))])]

\* Mutant: what is remembered is the place after the label.
addNameLate(m, name) ==
  LET hits == {i \in 1..Len(name) : Suffix(name, i) \in DOMAIN m.names}
      i == IF hits = {} THEN Len(name) + 1 ELSE Min(hits)
      e == Encode(m, name, i, IF hits = {} THEN 0 ELSE m.names[Suffix(name, i)])
  IN [e EXCEPT !.names = [n \in DOMAIN e.names |->
        IF n \in DOMAIN m.names THEN m.names[n] ELSE e.names[n] + 1]]

\* The longest suffix that has been written before is pointed to.
addName(m, name) ==
  LET hits == {i \in 1..Len(name) : Suffix(name, i) \in DOMAIN m.names}
      i == IF hits = {} THEN Len(name) + 1 ELSE Min(hits)
  IN Encode(m, name, i, IF hits = {} THEN 0 ELSE m.names[Suffix(name, i)])

\* A server points to any place where the rest stands, or to none.
ServerNames(m, name) ==
  {Encode(m, name, Len(name) + 1, 0)} \cup
  UNION {{Encode(m, name, i, p) : p \in {q \in DOMAIN m.at : m.at[q] = Suffix(name, i)}} :
         i \in 1..Len(name)}

AddName(m, name) == IF writer = "DNSMessage" THEN {addName(m, name)} ELSE ServerNames(m, name)

\* Names in the data of a SOA record, which DNSMessage keeps and writes as it is.
AddRaw(m) ==
  IF writer = "DNSMessage" THEN {Put(m, Data)}
  ELSE {[Put(d, Data) EXCEPT !.at = IF RawTargets THEN @ ELSE m.at] :
        d \in UNION {ServerNames(m, n) : n \in Names}}

AddData(m, rr) ==
  CASE rr.type = A -> {Put(m, Data)}
    [] rr.type = NS -> AddName(m, rr.data)
    [] rr.type = MX -> AddName(Put(m, Data), rr.data)
    [] rr.type = SOA -> AddRaw(m)

\* The length is filled in afterwards.
WithData(m, rr) ==
  LET place == Len(m.buf) + 1
  IN {[d EXCEPT !.buf[place] = Length(Len(d.buf) - place)] : d \in AddData(Put(m, Length(0)), rr)}

Init ==
  /\ writer \in {"DNSMessage", "server"} /\ phase = "empty"
  /\ msg = [buf |-> <<>>, names |-> <<>>, at |-> <<>>]
  /\ count = [s \in Sections |-> 0] /\ sent = <<>>
  /\ cut = FALSE /\ pos = 1 /\ known = <<>> /\ left = count /\ got = <<>>

addQuestion ==
  /\ phase = "empty" /\ phase' = "write"
  /\ \E name \in Names : \E m \in AddName(msg, name) : msg' = Put(m, Type(A))
  /\ UNCHANGED <<writer, count, sent, readVars>>

\* Sections are written in order.
addResourceRecord(rr) ==
  /\ phase = "write" /\ Len(sent) < MaxRecords
  /\ \A i \in 1..Len(sent) : sent[i].section <= rr.section
  /\ \E m \in AddName(msg, rr.owner) : msg' \in WithData(Put(m, Type(rr.type)), rr)
  /\ count' = [count EXCEPT ![rr.section] = @ + 1]
  /\ sent' = Append(sent, rr)
  /\ UNCHANGED <<writer, phase, readVars>>

\* The message is received, up to the size of the packet.
Receive ==
  /\ phase = "write" /\ phase' = "question"
  /\ \E n \in 0..Len(msg.buf) :
       msg' = [msg EXCEPT !.buf = SubSeq(@, 1, n)] /\ cut' = (n < Len(msg.buf))
  /\ left' = count
  /\ UNCHANGED <<writer, count, sent, pos, known, got>>

-----------------------------------------------------------------------------
\* Reading: the set of what may be read, empty for an exception.  Assertions are those
\* of Java by default: not enabled.

Kind(p) == msg.buf[p][1]
Value(p) == msg.buf[p][2]

\* Mutant: every place in a name is remembered with the whole name.
getNameWhole(start, names) ==
  UNION {LET rest == IF Kind(last) = "end" THEN {<<>>}
                     ELSE {names[p] : p \in {Value(last)} \cap DOMAIN names}
             labels == [j \in 1..(last - start) |-> Value(start + j - 1)]
         IN {[name |-> labels \o r, next |-> last + 1,
              known |-> PutAll(names, [p \in start..last |-> labels \o r])] : r \in rest} :
         last \in {q \in start..Len(msg.buf) : /\ Kind(q) \in {"end", "pointer"}
                                               /\ \A p \in start..(q - 1) : Kind(p) = "label"}}

\* Labels up to an end or a pointer to a place that has been read; each place of a
\* label or pointer is remembered with the name that begins there.  A pointer to another
\* place gives null, and labels before it an exception.
getName(start, names) ==
  UNION {LET target == IF Kind(last) = "end" THEN <<>>
                       ELSE IF Value(last) \in DOMAIN names THEN names[Value(last)] ELSE Null
             rest == IF target = Null /\ last > start THEN {} ELSE {target}
             labels == [j \in 1..(last - start) |-> Value(start + j - 1)]
             from(p, r) == Suffix(labels, p - start + 1) \o r
             places == start..(IF Kind(last) = "end" THEN last - 1 ELSE last)
         IN {[name |-> labels \o r, next |-> last + 1,
              known |-> PutAll(names, [p \in places |-> from(p, r)])] : r \in rest} :
         last \in {q \in start..Len(msg.buf) : /\ Kind(q) \in {"end", "pointer"}
                                               /\ \A p \in start..(q - 1) : Kind(p) = "label"}}

\* The data of a record: a name, after the preference of MX; fields; or raw bytes.
getData(type, length, start, names) ==
  CASE type = NS -> getName(start, names)
    [] type = MX -> IF start <= Len(msg.buf) THEN getName(start + 1, names) ELSE {}
    [] OTHER -> LET n == IF type = A THEN 1 ELSE length
                IN IF start + n - 1 <= Len(msg.buf)
                   THEN {[name |-> <<>>, next |-> start + n, known |-> names]} ELSE {}

getRR(section) ==
  UNION {IF o.next + 1 > Len(msg.buf) THEN {}
         ELSE {[rr |-> [section |-> section, owner |-> o.name, type |-> Value(o.next),
                        data |-> d.name],
                next |-> d.next, known |-> d.known] :
               d \in getData(Value(o.next), Value(o.next + 1), o.next + 2, o.known)} :
         o \in getName(pos, known)}

\* One question is read, whatever its count.
getQuestion ==
  /\ phase = "question" /\ phase' = "records"
  /\ \E o \in getName(pos, known) :
       /\ o.next <= Len(msg.buf)
       /\ pos' = o.next + 1 /\ known' = o.known
  /\ UNCHANGED <<writer, msg, count, sent, cut, left, got>>

\* The section whose turn it is.
Reading(s) == left[s] > 0 /\ \A r \in 1..(s - 1) : left[r] = 0

ReadRecord(s) ==
  /\ phase = "records" /\ Reading(s)
  /\ \E r \in getRR(s) : pos' = r.next /\ known' = r.known /\ got' = Append(got, r.rr)
  /\ left' = [left EXCEPT ![s] = @ - 1]
  /\ UNCHANGED <<writer, phase, msg, count, sent, cut>>

\* processResponse ends with an exception; the records before it are in the cache.
Fail ==
  /\ \/ phase = "question" /\ \A o \in getName(pos, known) : o.next > Len(msg.buf)
     \/ phase = "records" /\ \E s \in Sections : Reading(s) /\ getRR(s) = {}
  /\ phase' = "failed"
  /\ UNCHANGED <<writer, msg, count, sent, readVars>>

Finish ==
  /\ phase = "records" /\ (\A s \in Sections : left[s] = 0) /\ phase' = "done"
  /\ UNCHANGED <<writer, msg, count, sent, readVars>>

Next ==
  \/ addQuestion \/ Receive \/ getQuestion \/ Fail \/ Finish
  \/ (\E rr \in Written : addResourceRecord(rr))
  \/ \E s \in Sections : ReadRecord(s)

Spec == Init /\ [][Next]_vars

-----------------------------------------------------------------------------

\* The cache gets what was sent, record by record, however names are compressed and
\* wherever the message is cut (DNSMessage.java:188-217, 403-431).
CacheGetsWhatWasSent == IsPrefix(got, sent)

\* ... and all of it, unless the message is cut.
AllIsRead == cut \/ (phase # "failed" /\ (phase = "done" => got = sent))

\* "keep track of all the positions in the message that contain names, since they can
\* be the target of a pointer" (DNSMessage.java:192-193): a whole message is read, and no
\* name in it is null.
PointersFollowed ==
  /\ phase = "failed" => cut
  /\ \A i \in DOMAIN got : Null \notin {got[i].owner, got[i].data}
=============================================================================
