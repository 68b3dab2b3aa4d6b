-------------------------- MODULE DnsMessageProofs --------------------------
(***************************************************************************)
(* What processResponse puts into the cache is what was sent, for every    *)
(* set of names, every choice of types and sections, any number of records *)
(* and every cut.  The invariant: the buffer is a row of records as they   *)
(* were written, with a name behind every pointer, and the reader's map    *)
(* positionToName is the history of the writer up to where it has read.    *)
(***************************************************************************)
EXTENDS DnsMessage, WellFoundedInduction, TLAPS

-----------------------------------------------------------------------------
\* Names as sequences of labels

LEMMA SuffixIs ==
  ASSUME NEW S, NEW x \in Seq(S), NEW i \in 1..(Len(x) + 1)
  PROVE  /\ Suffix(x, i) \in Seq(S) /\ Len(Suffix(x, i)) = Len(x) - i + 1
         /\ \A k \in 1..(Len(x) - i + 1) : Suffix(x, i)[k] = x[i + k - 1]
<1>1. PICK n \in Nat : n = Len(x)
  OBVIOUS
<1> QED BY <1>1 DEF Suffix

\* Two pieces that agree with a sequence make it up.
LEMMA Joined ==
  ASSUME NEW S, NEW w \in Seq(S), NEW y \in Seq(S), NEW z \in Seq(S),
         Len(w) = Len(y) + Len(z),
         \A k \in 1..Len(y) : y[k] = w[k],
         \A k \in 1..Len(z) : z[k] = w[Len(y) + k]
  PROVE  y \o z = w
<1>1. PICK c \in Nat : c = Len(y)
  OBVIOUS
<1>2. PICK n \in Nat : n = Len(z)
  OBVIOUS
<1> DEFINE l == y \o z
<1>3. l \in Seq(S) /\ Len(l) = c + n /\ Len(w) = c + n
  BY <1>1, <1>2
<1>4. ASSUME NEW k \in 1..(c + n) PROVE l[k] = w[k]
  <2>1. CASE k <= c
    BY <1>1, <1>2, <2>1
  <2>2. CASE k > c
    <3>1. PICK h \in 1..n : k = c + h
      <4>1. k - c \in 1..n /\ k = c + (k - c)
        BY <2>2
      <4> QED BY <4>1
    <3>2. l[c + h] = z[h]
      BY <1>1, <1>2, <3>1
    <3>3. h \in 1..Len(z)
      BY <1>2
    <3>4. z[h] = w[c + h]
      BY <1>1, <3>3
    <3> HIDE DEF l
    <3>5. l[k] = l[c + h] /\ w[k] = w[c + h]
      BY <3>1
    <3> QED BY <3>2, <3>4, <3>5
  <2> QED BY <1>1, <1>2, <2>1, <2>2
<1> HIDE DEF l
<1>5. l = w
  BY <1>3, <1>4
<1> QED BY <1>5 DEF l

\* A name is the labels before its i-th and its suffix from there; so is each of its suffixes.
LEMMA LabelsAndRest ==
  ASSUME NEW S, NEW x \in Seq(S), NEW i \in 1..(Len(x) + 1), NEW j \in 1..i
  PROVE  /\ Suffix([k \in 1..(i - 1) |-> x[k]], j) \o Suffix(x, i) = Suffix(x, j)
         /\ [k \in 1..(i - 1) |-> x[k]] \o Suffix(x, i) = x
<1> DEFINE y == [k \in 1..(i - 1) |-> x[k]]
<1>1. PICK n \in Nat : n = Len(x)
  OBVIOUS
<1>2. y \in Seq(S) /\ Len(y) = i - 1 /\ \A k \in 1..(i - 1) : y[k] = x[k]
  <2>1. \A k \in 1..(i - 1) : x[k] \in S
    BY <1>1
  <2>2. i - 1 \in Nat
    BY <1>1
  <2> QED BY <2>1, <2>2
<1> HIDE DEF y
<1>3. Suffix(y, j) \in Seq(S) /\ Len(Suffix(y, j)) = i - j
      /\ \A k \in 1..(i - j) : Suffix(y, j)[k] = x[j + k - 1]
  <2>1. j \in 1..(Len(y) + 1)
    BY <1>1, <1>2
  <2>2. \A k \in 1..(i - j) : j + k - 1 \in 1..(i - 1)
    BY <1>1
  <2> QED BY <1>1, <1>2, <2>1, <2>2, SuffixIs
<1>4. /\ Suffix(x, i) \in Seq(S) /\ Len(Suffix(x, i)) = n - i + 1
      /\ \A k \in 1..(n - i + 1) : Suffix(x, i)[k] = x[i + k - 1]
  BY <1>1, SuffixIs
<1>5. /\ Suffix(x, j) \in Seq(S) /\ Len(Suffix(x, j)) = n - j + 1
      /\ \A k \in 1..(n - j + 1) : Suffix(x, j)[k] = x[j + k - 1]
  <2>1. j \in 1..(Len(x) + 1)
    BY <1>1
  <2> QED BY <1>1, <2>1, SuffixIs
<1>6. Suffix(y, j) \o Suffix(x, i) = Suffix(x, j)
  <2> DEFINE u == Suffix(y, j)
             v == Suffix(x, i)
             w == Suffix(x, j)
  <2>1. \A k \in 1..(i - j) : u[k] = w[k]
    BY <1>1, <1>3, <1>5
  <2>2. \A k \in 1..(n - i + 1) : v[k] = w[(i - j) + k]
    <3>1. ASSUME NEW k \in 1..(n - i + 1) PROVE v[k] = w[(i - j) + k]
      <4>1. (i - j) + k \in 1..(n - j + 1) /\ j + ((i - j) + k) - 1 = i + k - 1
        BY <1>1
      <4> QED BY <1>4, <1>5, <4>1
    <3> QED BY <3>1
  <2>3. Len(w) = Len(u) + Len(v)
    BY <1>1, <1>3, <1>4, <1>5
  <2>4. /\ w \in Seq(S) /\ u \in Seq(S) /\ v \in Seq(S)
        /\ Len(u) = i - j /\ Len(v) = n - i + 1
    BY <1>3, <1>4, <1>5
  <2> HIDE DEF u, v, w
  <2>5. /\ \A k \in 1..Len(u) : u[k] = w[k]
        /\ \A k \in 1..Len(v) : v[k] = w[Len(u) + k]
    BY <2>1, <2>2, <2>4
  <2>6. u \o v = w
    BY <2>3, <2>4, <2>5, Joined
  <2> QED BY <2>6 DEF u, v, w
<1>7. y \o Suffix(x, i) = x
  <2> DEFINE v == Suffix(x, i)
  <2>1. \A k \in 1..(i - 1) : y[k] = x[k]
    BY <1>2
  <2>2. \A k \in 1..(n - i + 1) : v[k] = x[(i - 1) + k]
    <3>1. ASSUME NEW k \in 1..(n - i + 1) PROVE v[k] = x[(i - 1) + k]
      <4>1. (i - 1) + k = i + k - 1
        BY <1>1
      <4> QED BY <1>4, <4>1
    <3> QED BY <3>1
  <2>3. Len(x) = Len(y) + Len(v)
    BY <1>1, <1>2, <1>4
  <2>4. v \in Seq(S) /\ Len(v) = n - i + 1
    BY <1>4
  <2> HIDE DEF v
  <2>5. /\ \A k \in 1..Len(y) : y[k] = x[k]
        /\ \A k \in 1..Len(v) : v[k] = x[Len(y) + k]
    BY <1>2, <2>1, <2>2, <2>4
  <2>6. y \o v = x
    BY <1>2, <2>3, <2>4, <2>5, Joined
  <2> QED BY <2>6 DEF v
<1> QED BY <1>6, <1>7 DEF y

-----------------------------------------------------------------------------
\* What is written

\* What a cell of the buffer holds.
Cells == {"label", "pointer", "end", "data", "type", "length"} \X Int

\* The part of a map that is about the places before p.
Before(at, p) == [q \in {q \in DOMAIN at : q < p} |-> at[q]]

\* From s up to e a name stands in the buffer b: labels, then its end or a pointer to a
\* place before it where the rest stands.  at has the places of its labels and pointer.
NameAt(b, at, s, e, name) ==
  \E i \in 1..(Len(name) + 1) :
    /\ e = s + i
    /\ \A j \in 1..(i - 1) : b[s + j - 1] = Label(name[j])
    /\ i > Len(name) => b[e - 1] = End
    /\ i <= Len(name) =>
         \E p \in DOMAIN at : p < s /\ at[p] = Suffix(name, i) /\ b[e - 1] = Pointer(p)
    /\ \A q \in s..(e - 1) : /\ q \in DOMAIN at <=> q - s + 1 <= Len(name)
                             /\ q \in DOMAIN at => at[q] = Suffix(name, q - s + 1)

NoNames(at, s, e) == \A q \in s..(e - 1) : q \notin DOMAIN at

\* ... the data of a record,
DataAt(b, at, s, e, rr) ==
  /\ rr.type = A => e = s + 1 /\ NoNames(at, s, e)
  /\ rr.type = NS => NameAt(b, at, s, e, rr.data)
  /\ rr.type = MX => NoNames(at, s, s + 1) /\ NameAt(b, at, s + 1, e, rr.data)
  /\ rr.type = SOA => s <= e /\ NoNames(at, s, e)

\* ... and a record.
RecordAt(b, at, s, e, rr) ==
  \E o \in 1..e :
    /\ NameAt(b, at, s, o, rr.owner)
    /\ b[o] = Type(rr.type) /\ b[o + 1] = Length(e - o - 2)
    /\ NoNames(at, o, o + 2)
    /\ DataAt(b, at, o + 2, e, rr)

\* The message: a question, and the records sent, each from its start to the next one.
Layout(b, at, starts) ==
  /\ starts \in [1..(Len(sent) + 1) -> 1..(Len(b) + 1)]
  /\ starts[Len(sent) + 1] = Len(b) + 1
  /\ \E name \in Names : NameAt(b, at, 1, starts[1] - 1, name)
  /\ NoNames(at, starts[1] - 1, starts[1])
  /\ \A i \in 1..Len(sent) : RecordAt(b, at, starts[i], starts[i + 1], sent[i])

\* What a map of places says is so, and DNSMessage knows the places of its names.
Places(m) ==
  /\ m = [buf |-> m.buf, names |-> m.names, at |-> m.at]
  /\ m.buf \in Seq(Cells)
  /\ \A p \in DOMAIN m.at : p \in 1..Len(m.buf) /\ m.at[p] \in Seq(Nat)
  /\ writer = "DNSMessage" =>
       \A n \in DOMAIN m.names : m.names[n] \in DOMAIN m.at /\ m.at[m.names[n]] = n

\* The records are those of the sections one after the other, as the header counts them.
Counted ==
  /\ count \in [Sections -> Nat]
  /\ Len(sent) = count[1] + count[2] + count[3]
  /\ \A i \in 1..Len(sent) :
       sent[i].section = IF i <= count[1] THEN 1 ELSE IF i <= count[1] + count[2] THEN 2 ELSE 3

\* What is left to read of each section, the first ones first.
ReadSoFar ==
  /\ left \in [Sections -> Nat] /\ \A s \in Sections : left[s] <= count[s]
  /\ Len(got) + left[1] + left[2] + left[3] = Len(sent)
  /\ left[2] < count[2] => left[1] = 0
  /\ left[3] < count[3] => left[1] = 0 /\ left[2] = 0
  /\ Len(got) <= Len(sent) /\ \A i \in 1..Len(got) : got[i] = sent[i]

\* The part that has come of the message b, and how far it is read.
Reads(b, starts) ==
  /\ Layout(b, msg.at, starts)
  /\ b \in Seq(Cells) /\ Len(msg.buf) <= Len(b) /\ (cut <=> Len(msg.buf) < Len(b))
  /\ \A q \in 1..Len(msg.buf) : msg.buf[q] = b[q]
  /\ phase \in {"write", "question"} => pos = 1
  /\ phase \in {"records", "done"} => pos = starts[Len(got) + 1]

\* The cells from s up to e, and the places before e, are the same.
SameCells(b, c, s, e) == \A q \in s..(e - 1) : c[q] = b[q]

SamePlaces(at, bt, e) ==
  \A q \in 1..(e - 1) : /\ q \in DOMAIN bt <=> q \in DOMAIN at
                        /\ q \in DOMAIN at => bt[q] = at[q]

\* What has been written stays as it is when more is written after it.
LEMMA NameStays ==
  ASSUME NEW b, NEW c, NEW at, NEW bt, NEW s \in Nat \ {0}, NEW e \in Nat, NEW name \in Seq(Nat),
         \A q \in DOMAIN at : q \in Nat \ {0},
         NameAt(b, at, s, e, name), SameCells(b, c, s, e), SamePlaces(at, bt, e)
  PROVE  NameAt(c, bt, s, e, name)
<1>1. PICK n \in Nat : n = Len(name)
  OBVIOUS
<1>2. PICK i \in 1..(n + 1) :
        /\ e = s + i
        /\ \A j \in 1..(i - 1) : b[s + j - 1] = Label(name[j])
        /\ i > n => b[e - 1] = End
        /\ i <= n =>
             \E p \in DOMAIN at : p < s /\ at[p] = Suffix(name, i) /\ b[e - 1] = Pointer(p)
        /\ \A q \in s..(e - 1) : /\ q \in DOMAIN at <=> q - s + 1 <= n
                                 /\ q \in DOMAIN at => at[q] = Suffix(name, q - s + 1)
  BY <1>1 DEF NameAt
<1>3. \A j \in 1..(i - 1) : c[s + j - 1] = Label(name[j])
  <2>1. \A j \in 1..(i - 1) : s + j - 1 \in s..(e - 1)
    BY <1>2
  <2> QED BY <1>2, <2>1 DEF SameCells
<1>4. c[e - 1] = b[e - 1]
  BY <1>2 DEF SameCells
<1>5. i <= n =>
        \E p \in DOMAIN bt : p < s /\ bt[p] = Suffix(name, i) /\ c[e - 1] = Pointer(p)
  <2>1. SUFFICES ASSUME i <= n
        PROVE  \E p \in DOMAIN bt : p < s /\ bt[p] = Suffix(name, i) /\ c[e - 1] = Pointer(p)
    OBVIOUS
  <2>2. PICK p \in DOMAIN at : p < s /\ at[p] = Suffix(name, i) /\ b[e - 1] = Pointer(p)
    BY <1>2, <2>1
  <2>3. p \in 1..(e - 1)
    BY <1>2, <2>2
  <2> QED BY <1>4, <2>2, <2>3 DEF SamePlaces
<1>6. \A q \in s..(e - 1) : /\ q \in DOMAIN bt <=> q - s + 1 <= n
                            /\ q \in DOMAIN bt => bt[q] = Suffix(name, q - s + 1)
  <2>1. \A q \in s..(e - 1) : q \in 1..(e - 1)
    OBVIOUS
  <2> QED BY <1>2, <2>1 DEF SamePlaces
<1> QED BY <1>1, <1>2, <1>3, <1>4, <1>5, <1>6 DEF NameAt

LEMMA NoNamesStays ==
  ASSUME NEW at, NEW bt, NEW s \in Nat \ {0}, NEW e \in Nat, NEW g \in Nat, e <= g,
         NoNames(at, s, e), SamePlaces(at, bt, g)
  PROVE  NoNames(bt, s, e)
<1>1. \A q \in s..(e - 1) : q \in 1..(g - 1)
  OBVIOUS
<1> QED BY <1>1 DEF NoNames, SamePlaces

LEMMA CellsAre ==
  ASSUME NEW n \in Int
  PROVE  Label(n) \in Cells /\ Pointer(n) \in Cells /\ End \in Cells /\ Data \in Cells
         /\ Type(n) \in Cells /\ Length(n) \in Cells
BY DEF Cells, Label, Pointer, End, Data, Type, Length

LEMMA Followed ==
  ASSUME NEW S, NEW b \in Seq(S), NEW n \in Nat, NEW f \in [1..n -> S]
  PROVE  /\ b \o f \in Seq(S) /\ Len(b \o f) = Len(b) + n
         /\ \A q \in 1..Len(b) : (b \o f)[q] = b[q]
         /\ \A j \in 1..n : (b \o f)[Len(b) + j] = f[j]
<1>1. PICK k \in Nat : k = Len(b)
  OBVIOUS
<1>2. f \in Seq(S) /\ Len(f) = n
  OBVIOUS
<1> QED BY <1>1, <1>2

\* A set of numbers that is not empty has its minimum.
LEMMA FirstHit ==
  ASSUME NEW T \in SUBSET Nat, T # {}
  PROVE  Min(T) \in T
<1>1. PICK x \in T : \A y \in T : ~ (<<y, x>> \in OpToRel(<, Nat))
  BY WFMin, NatLessThanWellFounded, Zenon
<1>2. \A y \in T : x <= y
  <2>1. \A y \in T : ~ (y < x)
    BY <1>1, Zenon DEF OpToRel
  <2> QED BY <2>1
<1> QED BY <1>2 DEF Min

LEMMA MinOfTwo ==
  ASSUME NEW a \in Nat, NEW b \in Nat
  PROVE  Min({a, b}) = IF a <= b THEN a ELSE b
BY DEF Min

\* Every name has been parsed before it is pointed to: no server compresses against names in
\* data that is kept raw, or the message is one of DNSMessage itself.
Parseable == writer = "DNSMessage" \/ ~ RawTargets

\* d is m with more in it.
Extends(m, d) ==
  /\ Len(m.buf) <= Len(d.buf)
  /\ SameCells(m.buf, d.buf, 1, Len(m.buf) + 1)
  /\ SamePlaces(m.at, d.at, Len(m.buf) + 1)

LEMMA PutIs ==
  ASSUME NEW m, Places(m), NEW c \in Cells
  PROVE  /\ Put(m, c).buf = Append(m.buf, c) /\ Put(m, c).names = m.names /\ Put(m, c).at = m.at
         /\ Len(Put(m, c).buf) = Len(m.buf) + 1 /\ Put(m, c).buf[Len(m.buf) + 1] = c
         /\ Len(m.buf) + 1 \notin DOMAIN m.at
         /\ Places(Put(m, c)) /\ Extends(m, Put(m, c))
<1> DEFINE d == [buf |-> Append(m.buf, c), names |-> m.names, at |-> m.at]
<1>1. Put(m, c) = d
  <2>1. \A b, ns, at : Put([buf |-> b, names |-> ns, at |-> at], c)
                        = [buf |-> Append(b, c), names |-> ns, at |-> at]
    BY DEF Put
  <2>2. m = [buf |-> m.buf, names |-> m.names, at |-> m.at]
    BY DEF Places
  <2>3. Put([buf |-> m.buf, names |-> m.names, at |-> m.at], c) = d
    BY <2>1
  <2> HIDE DEF d
  <2> QED BY <2>2, <2>3
<1>2. PICK n \in Nat : n = Len(m.buf)
  BY DEF Places
<1>3. /\ d.buf = Append(m.buf, c) /\ d.names = m.names /\ d.at = m.at
      /\ d = [buf |-> d.buf, names |-> d.names, at |-> d.at]
  OBVIOUS
<1> HIDE DEF d
<1>4. /\ d.buf \in Seq(Cells) /\ Len(d.buf) = n + 1 /\ d.buf[n + 1] = c
      /\ \A q \in 1..n : d.buf[q] = m.buf[q]
  BY <1>2, <1>3 DEF Places
<1>5. Places(d)
  <2>1. \A p \in DOMAIN d.at : p \in 1..Len(d.buf) /\ d.at[p] \in Seq(Nat)
    BY <1>2, <1>3, <1>4 DEF Places
  <2> QED BY <1>3, <1>4, <2>1 DEF Places
<1>6. Extends(m, d)
  <2>1. SameCells(m.buf, d.buf, 1, Len(m.buf) + 1)
    BY <1>2, <1>4 DEF SameCells
  <2>2. SamePlaces(m.at, d.at, Len(m.buf) + 1)
    BY <1>3 DEF SamePlaces
  <2> QED BY <1>2, <1>4, <2>1, <2>2 DEF Extends
<1>7. n + 1 \notin DOMAIN m.at
  BY <1>2 DEF Places
<1> QED BY <1>1, <1>2, <1>3, <1>4, <1>5, <1>6, <1>7

\* A name stands where Encode puts it, if its pointer is to a place where the rest stands.
LEMMA EncodeIs ==
  ASSUME NEW m, Places(m), NEW name \in Seq(Nat), NEW i \in 1..(Len(name) + 1), NEW p \in Int,
         i <= Len(name) => p \in DOMAIN m.at /\ m.at[p] = Suffix(name, i)
  PROVE  LET d == Encode(m, name, i, p)
         IN Places(d) /\ Extends(m, d)
            /\ NameAt(d.buf, d.at, Len(m.buf) + 1, Len(d.buf) + 1, name)
<1>1. PICK n \in Nat : n = Len(name)
  OBVIOUS
<1>2. i \in Int
  BY <1>1
<1>3. PICK l \in Nat : l = Len(m.buf)
  BY DEF Places
<1> DEFINE d == Encode(m, name, i, p)
           rest == IF i > n THEN End ELSE Pointer(p)
           f == [j \in 1..(i - 1) |-> Label(name[j])]
           new == {l + j : j \in 1..Min({i, n})}
<1>4. /\ d = [buf |-> d.buf, names |-> d.names, at |-> d.at]
      /\ d.buf = m.buf \o f \o <<rest>>
      /\ d.names = PutAll(m.names, [x \in {Suffix(name, j) : j \in 1..(i - 1)} |->
                                        l + (n - Len(x) + 1)])
      /\ d.at = PutAll(m.at, [q \in new |-> Suffix(name, q - l)])
  BY <1>1, <1>3 DEF Encode
<1>5. /\ d.buf \in Seq(Cells) /\ Len(d.buf) = l + i
      /\ \A q \in 1..l : d.buf[q] = m.buf[q]
      /\ \A j \in 1..(i - 1) : d.buf[l + j] = Label(name[j])
      /\ d.buf[l + i] = rest
  <2>1. rest \in Cells
    BY CellsAre
  <2>2. f \in [1..(i - 1) -> Cells]
    <3>1. \A j \in 1..(i - 1) : name[j] \in Nat
      BY <1>1
    <3> QED BY <3>1, CellsAre
  <2>3. PICK k \in Nat : i = k + 1
    <3>1. i - 1 \in Nat /\ i = (i - 1) + 1
      BY <1>1
    <3> QED BY <3>1
  <2>4. m.buf \in Seq(Cells) /\ i - 1 = k
    BY <2>3 DEF Places
  <2>5. \A j \in 1..(i - 1) : f[j] = Label(name[j])
    OBVIOUS
  <2> HIDE DEF f, rest, d
  <2>6. /\ d.buf \in Seq(Cells) /\ Len(d.buf) = Len(m.buf) + k + 1
        /\ \A q \in 1..Len(m.buf) : d.buf[q] = m.buf[q]
        /\ \A j \in 1..k : d.buf[Len(m.buf) + j] = f[j]
        /\ d.buf[Len(m.buf) + k + 1] = rest
    <3> DEFINE b == m.buf
               y == b \o f
               x == d.buf
    <3>1. /\ y \in Seq(Cells) /\ Len(y) = Len(b) + k
          /\ \A q \in 1..Len(b) : y[q] = b[q]
          /\ \A j \in 1..k : y[Len(b) + j] = f[j]
      BY <2>2, <2>4, Followed
    <3>2. x = y \o <<rest>>
      BY <1>4
    <3>3. Len(b) = l
      BY <1>3
    <3> HIDE DEF b, y, x
    <3>4. /\ x \in Seq(Cells) /\ Len(x) = l + k + 1
          /\ \A q \in 1..(l + k) : x[q] = y[q]
          /\ x[l + k + 1] = rest
      <4>1. Append(y, rest) = y \o <<rest>>
        BY <3>1
      <4> QED BY <2>1, <3>1, <3>2, <3>3, <4>1
    <3>5. \A j \in 1..k : l + j \in 1..(l + k)
      OBVIOUS
    <3>6. \A q \in 1..l : q \in 1..(l + k)
      OBVIOUS
    <3>7. \A q \in 1..l : x[q] = b[q]
      BY <3>1, <3>3, <3>4, <3>6
    <3>8. \A j \in 1..k : x[l + j] = f[j]
      BY <3>1, <3>3, <3>4, <3>5
    <3> QED BY <3>3, <3>4, <3>7, <3>8 DEF b, x
  <2>7. l + k + 1 = l + i
    BY <2>3
  <2> QED BY <1>3, <2>4, <2>5, <2>6, <2>7
<1>6. \A q \in new : q - l \in 1..n /\ q - l <= i /\ q \in 1..(l + i) /\ q > l
  BY <1>1, MinOfTwo
<1>7. \A j \in 1..i : j <= n => l + j \in new
  BY <1>1, MinOfTwo
<1>8. /\ DOMAIN d.at = DOMAIN m.at \cup new
      /\ \A q \in new : d.at[q] = Suffix(name, q - l)
      /\ \A q \in DOMAIN m.at : q \notin new => d.at[q] = m.at[q]
  <2> HIDE DEF d, new
  <2> QED BY <1>4 DEF PutAll
<1>9. \A q \in DOMAIN m.at : q \in 1..l /\ m.at[q] \in Seq(Nat)
  BY <1>3 DEF Places
<1>10. \A q \in DOMAIN m.at : q \notin new
  <2> HIDE DEF new
  <2> QED BY <1>6, <1>9
<1> HIDE DEF d, f, new
<1>11. Extends(m, d)
  <2>1. SameCells(m.buf, d.buf, 1, Len(m.buf) + 1)
    BY <1>3, <1>5 DEF SameCells
  <2>2. SamePlaces(m.at, d.at, Len(m.buf) + 1)
    BY <1>3, <1>6, <1>8, <1>10 DEF SamePlaces
  <2> QED BY <1>3, <1>5, <2>1, <2>2 DEF Extends
<1>12. \A j \in 1..(i - 1) : /\ Suffix(name, j) \in Seq(Nat) /\ Len(Suffix(name, j)) = n - j + 1
                            /\ j \in 1..i /\ j <= n
  <2>1. \A j \in 1..(i - 1) : j \in 1..(n + 1) /\ j \in 1..i /\ j <= n
    BY <1>1
  <2> QED BY <1>1, <2>1, SuffixIs
<1>13. Places(d)
  <2>1. \A q \in DOMAIN d.at : q \in 1..Len(d.buf) /\ d.at[q] \in Seq(Nat)
    <3>1. ASSUME NEW q \in DOMAIN d.at PROVE q \in 1..Len(d.buf) /\ d.at[q] \in Seq(Nat)
      <4>1. CASE q \in new
        <5>1. q - l \in 1..(n + 1)
          BY <1>1, <1>6, <4>1
        <5> QED BY <1>1, <1>5, <1>6, <1>8, <4>1, <5>1, SuffixIs
      <4>2. CASE q \notin new
        BY <1>1, <1>3, <1>5, <1>8, <1>9, <4>2
      <4> QED BY <4>1, <4>2
    <3> QED BY <3>1
  <2>2. ASSUME writer = "DNSMessage", NEW x \in DOMAIN d.names
        PROVE  d.names[x] \in DOMAIN d.at /\ d.at[d.names[x]] = x
    <3> DEFINE T == {Suffix(name, j) : j \in 1..(i - 1)}
    <3>1. /\ DOMAIN d.names = DOMAIN m.names \cup T
          /\ x \in T => d.names[x] = l + (n - Len(x) + 1)
          /\ x \notin T => d.names[x] = m.names[x]
      BY <1>4 DEF PutAll
    <3>2. CASE x \in T
      <4>1. PICK j \in 1..(i - 1) : x = Suffix(name, j)
        BY <3>2
      <4>2. n - Len(x) + 1 = j
        <5>1. Len(x) = n - j + 1
          BY <1>12, <4>1
        <5> QED BY <1>2, <5>1
      <4>3. l + j \in new
        BY <1>7, <1>12
      <4>4. (l + j) - l = j
        BY <1>2
      <4> QED BY <1>8, <3>1, <3>2, <4>1, <4>2, <4>3, <4>4
    <3>3. CASE x \notin T
      <4>1. m.names[x] \in DOMAIN m.at /\ m.at[m.names[x]] = x
        BY <2>2, <3>1, <3>3 DEF Places
      <4> QED BY <1>8, <1>10, <3>1, <3>3, <4>1
    <3> QED BY <3>2, <3>3
  <2> QED BY <1>4, <1>5, <2>1, <2>2 DEF Places
<1>14. NameAt(d.buf, d.at, l + 1, l + i + 1, name)
  <2>1. \A j \in 1..(i - 1) : d.buf[(l + 1) + j - 1] = Label(name[j])
    <3>1. \A j \in 1..(i - 1) : (l + 1) + j - 1 = l + j
      OBVIOUS
    <3> QED BY <1>5, <3>1
  <2>2. d.buf[(l + i + 1) - 1] = rest
    <3>1. (l + i + 1) - 1 = l + i
      BY <1>1
    <3> QED BY <1>5, <3>1
  <2>3. i > n => d.buf[(l + i + 1) - 1] = End
    BY <2>2
  <2>4. ASSUME i <= n
        PROVE  \E q \in DOMAIN d.at : /\ q < l + 1 /\ d.at[q] = Suffix(name, i)
                                      /\ d.buf[(l + i + 1) - 1] = Pointer(q)
    <3>1. p \in DOMAIN m.at /\ m.at[p] = Suffix(name, i) /\ rest = Pointer(p)
      BY <1>1, <2>4
    <3>2. p \in DOMAIN d.at /\ p < l + 1 /\ d.at[p] = m.at[p]
      BY <1>8, <1>9, <1>10, <3>1
    <3> QED BY <2>2, <3>1, <3>2
  <2>5. \A q \in (l + 1)..((l + i + 1) - 1) :
          /\ q \in DOMAIN d.at <=> q - (l + 1) + 1 <= n
          /\ q \in DOMAIN d.at => d.at[q] = Suffix(name, q - (l + 1) + 1)
    <3>1. ASSUME NEW q \in (l + 1)..((l + i + 1) - 1)
          PROVE  /\ q \in DOMAIN d.at <=> q - (l + 1) + 1 <= n
                 /\ q \in DOMAIN d.at => d.at[q] = Suffix(name, q - (l + 1) + 1)
      <4>1. PICK j \in 1..i : q = l + j
        <5>1. q - l \in 1..i /\ q = l + (q - l)
          BY <1>1
        <5> QED BY <5>1
      <4>2. q - (l + 1) + 1 = j /\ q - l = j
        BY <4>1
      <4>3. q \notin DOMAIN m.at
        BY <1>9, <4>1
      <4>4. q \in new <=> j <= n
        BY <1>6, <1>7, <4>1, <4>2
      <4> QED BY <1>8, <4>2, <4>3, <4>4
    <3> QED BY <3>1
  <2>6. l + i + 1 = (l + 1) + i
    BY <1>1
  <2> QED BY <1>1, <2>1, <2>3, <2>4, <2>5, <2>6 DEF NameAt
<1> QED BY <1>3, <1>5, <1>11, <1>13, <1>14 DEF d

\* Both writers only point to such places.
LEMMA AddNameIs ==
  ASSUME NEW m, Places(m), NEW name \in Seq(Nat), NEW d \in AddName(m, name)
  PROVE  /\ Places(d) /\ Extends(m, d)
         /\ NameAt(d.buf, d.at, Len(m.buf) + 1, Len(d.buf) + 1, name)
<1>1. PICK n \in Nat : n = Len(name)
  OBVIOUS
<1>2. \A p \in DOMAIN m.at : p \in Int
  BY DEF Places
<1>3. SUFFICES \E i \in 1..(Len(name) + 1), p \in Int :
                 /\ d = Encode(m, name, i, p)
                 /\ i <= Len(name) => p \in DOMAIN m.at /\ m.at[p] = Suffix(name, i)
  BY EncodeIs
<1>4. CASE writer = "DNSMessage"
  <2> DEFINE hits == {i \in 1..Len(name) : Suffix(name, i) \in DOMAIN m.names}
             i == IF hits = {} THEN Len(name) + 1 ELSE Min(hits)
             p == IF hits = {} THEN 0 ELSE m.names[Suffix(name, i)]
  <2>1. d = Encode(m, name, i, p)
    BY <1>4 DEF AddName, addName
  <2>2. CASE hits = {}
    BY <1>1, <2>1, <2>2
  <2>3. CASE hits # {}
    <3>1. hits \in SUBSET Nat
      BY <1>1
    <3>2. i \in hits
      BY <2>3, <3>1, FirstHit
    <3>3. p = m.names[Suffix(name, i)] /\ Suffix(name, i) \in DOMAIN m.names
      BY <2>3, <3>2
    <3> HIDE DEF p
    <3>4. p \in DOMAIN m.at /\ m.at[p] = Suffix(name, i)
      BY <1>4, <3>3 DEF Places
    <3>5. i \in 1..(Len(name) + 1)
      BY <1>1, <3>2
    <3> HIDE DEF i
    <3> QED BY <1>2, <2>1, <3>4, <3>5
  <2> QED BY <2>2, <2>3
<1>5. CASE writer # "DNSMessage"
  <2>1. CASE d = Encode(m, name, Len(name) + 1, 0)
    BY <1>1, <2>1
  <2>2. CASE d # Encode(m, name, Len(name) + 1, 0)
    <3>1. PICK i \in 1..Len(name), p \in DOMAIN m.at :
            m.at[p] = Suffix(name, i) /\ d = Encode(m, name, i, p)
      BY <1>5, <2>2 DEF AddName, ServerNames
    <3>2. i \in 1..(Len(name) + 1) /\ p \in Int
      BY <1>1, <1>2, <3>1
    <3> QED BY <3>1, <3>2
  <2> QED BY <2>1, <2>2
<1> QED BY <1>4, <1>5

LEMMA ExtendsOn ==
  ASSUME NEW l, NEW m, NEW d, Places(l), Places(m), Places(d), Extends(l, m), Extends(m, d)
  PROVE  Extends(l, d)
<1>1. PICK n \in Nat : n = Len(l.buf)
  BY DEF Places
<1>2. PICK k \in Nat : k = Len(m.buf)
  BY DEF Places
<1>3. PICK o \in Nat : o = Len(d.buf)
  BY DEF Places
<1>4. n <= k /\ k <= o
  BY <1>1, <1>2, <1>3 DEF Extends
<1>5. \A q \in 1..n : q \in 1..k
  BY <1>4
<1>6. \A q \in 1..((n + 1) - 1) : q \in 1..((k + 1) - 1)
  BY <1>4
<1>7. SameCells(l.buf, d.buf, 1, n + 1)
  BY <1>1, <1>2, <1>6 DEF Extends, SameCells
<1>8. SamePlaces(l.at, d.at, n + 1)
  BY <1>1, <1>2, <1>6 DEF Extends, SamePlaces
<1> QED BY <1>1, <1>3, <1>4, <1>7, <1>8 DEF Extends

LEMMA AddRawIs ==
  ASSUME Parseable, NEW m, Places(m), NEW d \in AddRaw(m)
  PROVE  /\ Places(d) /\ Extends(m, d)
         /\ NoNames(d.at, Len(m.buf) + 1, Len(d.buf) + 1)
<1>1. CASE writer = "DNSMessage"
  <2>1. d = Put(m, Data) /\ Data \in Cells
    BY <1>1, CellsAre DEF AddRaw
  <2>2. PICK n \in Nat : n = Len(m.buf)
    BY DEF Places
  <2>3. /\ d.at = m.at /\ Len(d.buf) = n + 1 /\ n + 1 \notin DOMAIN m.at
        /\ Places(d) /\ Extends(m, d)
    BY <2>1, <2>2, PutIs
  <2>4. NoNames(d.at, n + 1, (n + 1) + 1)
    BY <2>3 DEF NoNames
  <2> QED BY <2>2, <2>3, <2>4
<1>2. CASE writer # "DNSMessage"
  <2>1. PICK name \in Names :
          \E e \in ServerNames(m, name) : d = [Put(e, Data) EXCEPT !.at = m.at]
    BY <1>2, MessageAssumption DEF AddRaw, Parseable
  <2>2. PICK e \in ServerNames(m, name) : d = [Put(e, Data) EXCEPT !.at = m.at]
    BY <2>1
  <2>3. Places(e) /\ Extends(m, e)
    <3>1. e \in AddName(m, name)
      BY <1>2 DEF AddName
    <3>2. name \in Seq(Nat)
      BY MessageAssumption
    <3> QED BY <3>1, <3>2, AddNameIs
  <2> DEFINE g == Put(e, Data)
  <2>4. Places(g) /\ Extends(e, g)
    BY <2>3, CellsAre, PutIs
  <2> HIDE DEF g
  <2>5. d = [buf |-> g.buf, names |-> g.names, at |-> m.at]
    <3>1. \A b, ns, at, bt : [[buf |-> b, names |-> ns, at |-> at] EXCEPT !.at = bt]
                            = [buf |-> b, names |-> ns, at |-> bt]
      OBVIOUS
    <3>2. g = [buf |-> g.buf, names |-> g.names, at |-> g.at]
      BY <2>4 DEF Places
    <3>3. d = [g EXCEPT !.at = m.at]
      BY <2>2 DEF g
    <3> QED BY <3>1, <3>2, <3>3
  <2>6. d.buf = g.buf /\ d.at = m.at /\ d = [buf |-> d.buf, names |-> d.names, at |-> d.at]
    BY <2>5
  <2>7. Extends(m, g)
    BY <2>3, <2>4, ExtendsOn
  <2>8. PICK n \in Nat : n = Len(m.buf)
    BY DEF Places
  <2>9. PICK k \in Nat : k = Len(d.buf)
    BY <2>4, <2>6 DEF Places
  <2>10. n <= k
    BY <2>6, <2>7, <2>8, <2>9 DEF Extends
  <2>11. \A p \in DOMAIN m.at : p \in 1..n /\ m.at[p] \in Seq(Nat)
    BY <2>8 DEF Places
  <2>12. Places(d)
    <3>1. \A p \in DOMAIN d.at : p \in 1..Len(d.buf) /\ d.at[p] \in Seq(Nat)
      BY <2>6, <2>9, <2>10, <2>11
    <3>2. d.buf \in Seq(Cells)
      BY <2>4, <2>6 DEF Places
    <3> QED BY <1>2, <2>6, <3>1, <3>2 DEF Places
  <2>13. Extends(m, d)
    <3>1. SamePlaces(m.at, d.at, Len(m.buf) + 1)
      BY <2>6 DEF SamePlaces
    <3> QED BY <2>6, <2>7, <3>1 DEF Extends
  <2>14. NoNames(d.at, n + 1, k + 1)
    <3>1. \A q \in (n + 1)..((k + 1) - 1) : q \notin 1..n
      OBVIOUS
    <3> QED BY <2>6, <2>11, <3>1 DEF NoNames
  <2> QED BY <2>8, <2>9, <2>12, <2>13, <2>14
<1> QED BY <1>1, <1>2

LEMMA RecordIs ==
  ASSUME NEW rr \in Written
  PROVE  /\ rr = [section |-> rr.section, owner |-> rr.owner, type |-> rr.type, data |-> rr.data]
         /\ rr.section \in Sections /\ rr.owner \in Seq(Nat) /\ rr.type \in Types
         /\ rr.data \in Seq(Nat) /\ (rr.data = <<>> <=> rr.type \in {A, SOA})
<1>1. rr \in Record /\ (rr.data = <<>> <=> rr.type \in {A, SOA})
  BY DEF Written
<1>2. /\ rr = [section |-> rr.section, owner |-> rr.owner, type |-> rr.type, data |-> rr.data]
      /\ rr.section \in Sections /\ rr.owner \in Names /\ rr.type \in Types
      /\ rr.data \in Names \cup {<<>>}
  BY <1>1 DEF Record
<1>3. <<>> \in Seq(Nat)
  OBVIOUS
<1> QED BY <1>1, <1>2, <1>3, MessageAssumption

LEMMA DataStays ==
  ASSUME NEW b, NEW c, NEW at, NEW bt, NEW s \in Nat \ {0}, NEW e \in Nat, NEW rr \in Written,
         \A q \in DOMAIN at : q \in Nat \ {0},
         DataAt(b, at, s, e, rr), SameCells(b, c, s, e), SamePlaces(at, bt, e)
  PROVE  DataAt(c, bt, s, e, rr)
<1>1. rr.type = A => e = s + 1 /\ NoNames(bt, s, e)
  BY NoNamesStays DEF DataAt
<1>2. rr.type = NS => NameAt(c, bt, s, e, rr.data)
  BY NameStays, RecordIs DEF DataAt
<1>3. ASSUME rr.type = MX
      PROVE  NoNames(bt, s, s + 1) /\ NameAt(c, bt, s + 1, e, rr.data)
  <2>1. NoNames(at, s, s + 1) /\ NameAt(b, at, s + 1, e, rr.data)
    BY <1>3 DEF DataAt
  <2>2. PICK n \in Nat : n = Len(rr.data)
    BY RecordIs
  <2>3. s + 1 <= e
    BY <2>1, <2>2 DEF NameAt
  <2>4. SameCells(b, c, s + 1, e)
    BY DEF SameCells
  <2>5. s + 1 \in Nat \ {0} /\ s + 1 \in Nat
    OBVIOUS
  <2>6. NoNames(bt, s, s + 1)
    BY <2>1, <2>3, <2>5, NoNamesStays
  <2> QED BY <2>1, <2>4, <2>5, <2>6, NameStays, RecordIs
<1>4. rr.type = SOA => s <= e /\ NoNames(bt, s, e)
  BY NoNamesStays DEF DataAt
<1> QED BY <1>1, <1>2, <1>3, <1>4 DEF DataAt

LEMMA AddDataIs ==
  ASSUME Parseable, NEW m, Places(m), NEW rr \in Written, NEW d \in AddData(m, rr)
  PROVE  /\ Places(d) /\ Extends(m, d)
         /\ DataAt(d.buf, d.at, Len(m.buf) + 1, Len(d.buf) + 1, rr)
<1>1. PICK n \in Nat : n = Len(m.buf)
  BY DEF Places
<1>2. rr.type \in {A, NS, SOA, MX} /\ rr.data \in Seq(Nat)
  BY RecordIs DEF Types
<1> DEFINE x == Put(m, Data)
<1>3. /\ x.at = m.at /\ Len(x.buf) = n + 1 /\ n + 1 \notin DOMAIN m.at
      /\ Places(x) /\ Extends(m, x)
  BY <1>1, CellsAre, PutIs
<1> HIDE DEF x
<1>4. CASE rr.type = A
  <2>1. d = x
    BY <1>4 DEF AddData, A, NS, SOA, MX, x
  <2>2. NoNames(x.at, n + 1, (n + 1) + 1)
    BY <1>3 DEF NoNames
  <2> QED BY <1>1, <1>3, <1>4, <2>1, <2>2 DEF DataAt, A, NS, SOA, MX
<1>5. CASE rr.type = NS
  <2>1. d \in AddName(m, rr.data)
    BY <1>5 DEF AddData, A, NS, SOA, MX
  <2> QED BY <1>2, <1>5, <2>1, AddNameIs DEF DataAt, A, NS, SOA, MX
<1>6. CASE rr.type = MX
  <2>1. d \in AddName(x, rr.data)
    BY <1>6 DEF AddData, A, NS, SOA, MX, x
  <2>2. Places(d) /\ Extends(x, d) /\ NameAt(d.buf, d.at, (n + 1) + 1, Len(d.buf) + 1, rr.data)
    BY <1>2, <1>3, <2>1, AddNameIs
  <2>3. Extends(m, d)
    BY <1>3, <2>2, ExtendsOn
  <2>4. NoNames(d.at, n + 1, (n + 1) + 1)
    <3>1. n + 1 \in 1..((Len(x.buf) + 1) - 1)
      BY <1>3
    <3>2. n + 1 \notin DOMAIN d.at
      BY <1>3, <2>2, <3>1 DEF Extends, SamePlaces
    <3> QED BY <3>2 DEF NoNames
  <2> QED BY <1>1, <1>6, <2>2, <2>3, <2>4 DEF DataAt, A, NS, SOA, MX
<1>7. CASE rr.type = SOA
  <2>1. d \in AddRaw(m)
    BY <1>7 DEF AddData, A, NS, SOA, MX
  <2>2. Places(d) /\ Extends(m, d) /\ NoNames(d.at, Len(m.buf) + 1, Len(d.buf) + 1)
    BY <2>1, AddRawIs
  <2>3. PICK k \in Nat : k = Len(d.buf)
    BY <2>2 DEF Places
  <2>4. Len(m.buf) + 1 <= Len(d.buf) + 1
    BY <1>1, <2>2, <2>3 DEF Extends
  <2> QED BY <1>7, <2>2, <2>4 DEF DataAt, A, NS, SOA, MX
<1> QED BY <1>2, <1>4, <1>5, <1>6, <1>7

LEMMA WithDataIs ==
  ASSUME Parseable, NEW m, Places(m), NEW rr \in Written, NEW d \in WithData(m, rr),
         NEW o, o = Len(m.buf) + 1
  PROVE  /\ Places(d) /\ Extends(m, d) /\ o <= Len(d.buf)
         /\ o \notin DOMAIN d.at /\ d.buf[o] = Length(Len(d.buf) - o)
         /\ DataAt(d.buf, d.at, o + 1, Len(d.buf) + 1, rr)
<1>1. PICK n \in Nat : n = Len(m.buf)
  BY DEF Places
<1> DEFINE g == Put(m, Length(0))
<1>2. PICK x \in AddData(g, rr) : d = [x EXCEPT !.buf[o] = Length(Len(x.buf) - o)]
  BY DEF WithData
<1>3. /\ g.at = m.at /\ Len(g.buf) = n + 1 /\ n + 1 \notin DOMAIN m.at
      /\ Places(g) /\ Extends(m, g)
  BY <1>1, CellsAre, PutIs
<1> HIDE DEF g
<1>4. Places(x) /\ Extends(g, x) /\ DataAt(x.buf, x.at, (n + 1) + 1, Len(x.buf) + 1, rr)
  BY <1>3, AddDataIs
<1>5. PICK k \in Nat : k = Len(x.buf)
  BY <1>4 DEF Places
<1>6. o = n + 1 /\ n + 1 <= k
  BY <1>1, <1>3, <1>4, <1>5 DEF Extends
<1> DEFINE c == Length(k - o)
<1>7. d = [buf |-> [x.buf EXCEPT ![o] = c], names |-> x.names, at |-> x.at]
  <2>1. \A b, ns, at : [[buf |-> b, names |-> ns, at |-> at] EXCEPT !.buf[o] = c]
                      = [buf |-> [b EXCEPT ![o] = c], names |-> ns, at |-> at]
    OBVIOUS
  <2>2. x = [buf |-> x.buf, names |-> x.names, at |-> x.at]
    BY <1>4 DEF Places
  <2>3. d = [x EXCEPT !.buf[o] = c]
    BY <1>2, <1>5
  <2> HIDE DEF c
  <2> QED BY <2>1, <2>2, <2>3
<1>8. /\ d.buf = [x.buf EXCEPT ![o] = c] /\ d.names = x.names /\ d.at = x.at
      /\ d = [buf |-> d.buf, names |-> d.names, at |-> d.at]
  BY <1>7
<1>9. c \in Cells
  BY <1>6, CellsAre
<1> HIDE DEF c
<1>10. /\ d.buf \in Seq(Cells) /\ Len(d.buf) = k /\ d.buf[o] = c
       /\ \A q \in 1..k : q # o => d.buf[q] = x.buf[q]
  <2>1. x.buf \in Seq(Cells) /\ o \in 1..Len(x.buf)
    BY <1>4, <1>5, <1>6 DEF Places
  <2> QED BY <1>5, <1>8, <1>9, <2>1
<1>11. Places(d)
  <2>1. \A p \in DOMAIN d.at : p \in 1..Len(d.buf) /\ d.at[p] \in Seq(Nat)
    BY <1>4, <1>5, <1>8, <1>10 DEF Places
  <2> QED BY <1>4, <1>8, <1>10, <2>1 DEF Places
<1>12. Extends(m, x)
  BY <1>3, <1>4, ExtendsOn
<1>13. Extends(m, d)
  <2>1. SameCells(m.buf, d.buf, 1, Len(m.buf) + 1)
    <3>1. \A q \in 1..((n + 1) - 1) : q \in 1..k /\ q # n + 1
      BY <1>6
    <3> QED BY <1>1, <1>6, <1>10, <1>12, <3>1 DEF Extends, SameCells
  <2> QED BY <1>1, <1>5, <1>8, <1>10, <1>12, <2>1 DEF Extends
<1>14. o \notin DOMAIN d.at
  <2>1. n + 1 \in 1..((Len(g.buf) + 1) - 1)
    BY <1>3
  <2> QED BY <1>3, <1>4, <1>6, <1>8, <2>1 DEF Extends, SamePlaces
<1>15. DataAt(d.buf, d.at, (n + 1) + 1, k + 1, rr)
  <2>1. SameCells(x.buf, d.buf, (n + 1) + 1, k + 1)
    <3>1. \A q \in ((n + 1) + 1)..((k + 1) - 1) : q \in 1..k /\ q # n + 1
      OBVIOUS
    <3> QED BY <1>6, <1>10, <3>1 DEF SameCells
  <2>2. SamePlaces(x.at, d.at, k + 1)
    BY <1>8 DEF SamePlaces
  <2>3. \A q \in DOMAIN x.at : q \in Nat \ {0}
    BY <1>4, <1>5 DEF Places
  <2>4. (n + 1) + 1 \in Nat \ {0} /\ k + 1 \in Nat
    OBVIOUS
  <2>5. DataAt(x.buf, x.at, (n + 1) + 1, k + 1, rr)
    BY <1>4, <1>5
  <2> QED BY <2>1, <2>2, <2>3, <2>4, <2>5, DataStays
<1> QED BY <1>6, <1>10, <1>11, <1>13, <1>14, <1>15 DEF c

LEMMA AddRecordIs ==
  ASSUME Parseable, NEW m, Places(m), NEW rr \in Written, NEW x \in AddName(m, rr.owner),
         NEW d \in WithData(Put(x, Type(rr.type)), rr)
  PROVE  /\ Places(d) /\ Extends(m, d)
         /\ RecordAt(d.buf, d.at, Len(m.buf) + 1, Len(d.buf) + 1, rr)
<1>1. PICK n \in Nat : n = Len(m.buf)
  BY DEF Places
<1>2. Places(x) /\ Extends(m, x) /\ NameAt(x.buf, x.at, n + 1, Len(x.buf) + 1, rr.owner)
  BY <1>1, RecordIs, AddNameIs
<1>3. PICK k \in Nat : k = Len(x.buf)
  BY <1>2 DEF Places
<1> DEFINE g == Put(x, Type(rr.type))
<1>4. /\ g.at = x.at /\ Len(g.buf) = k + 1 /\ g.buf[k + 1] = Type(rr.type)
      /\ k + 1 \notin DOMAIN x.at /\ Places(g) /\ Extends(x, g)
  <2>1. Type(rr.type) \in Cells
    BY RecordIs, CellsAre DEF Types, A, NS, SOA, MX
  <2> QED BY <1>2, <1>3, <2>1, PutIs
<1> HIDE DEF g
<1>5. /\ Places(d) /\ Extends(g, d) /\ k + 2 <= Len(d.buf)
      /\ k + 2 \notin DOMAIN d.at /\ d.buf[k + 2] = Length(Len(d.buf) - (k + 2))
      /\ DataAt(d.buf, d.at, (k + 2) + 1, Len(d.buf) + 1, rr)
  <2>1. k + 2 = Len(g.buf) + 1 /\ d \in WithData(g, rr)
    BY <1>4 DEF g
  <2> QED BY <1>4, <2>1, WithDataIs
<1>6. PICK h \in Nat : h = Len(d.buf)
  <2>1. d.buf \in Seq(Cells)
    BY <1>5 DEF Places
  <2> QED BY <2>1
<1>7. Extends(x, d)
  BY <1>2, <1>4, <1>5, ExtendsOn
<1>8. Extends(m, d)
  BY <1>2, <1>5, <1>7, ExtendsOn
<1>9. NameAt(d.buf, d.at, n + 1, k + 1, rr.owner)
  <2>1. SameCells(x.buf, d.buf, n + 1, k + 1)
    BY <1>3, <1>7 DEF Extends, SameCells
  <2>2. SamePlaces(x.at, d.at, k + 1)
    BY <1>3, <1>7 DEF Extends
  <2>3. \A q \in DOMAIN x.at : q \in Nat \ {0}
    BY <1>2, <1>3 DEF Places
  <2>4. n + 1 \in Nat \ {0} /\ k + 1 \in Nat
    OBVIOUS
  <2>5. NameAt(x.buf, x.at, n + 1, k + 1, rr.owner)
    BY <1>2, <1>3
  <2> QED BY <2>1, <2>2, <2>3, <2>4, <2>5, NameStays, RecordIs
<1>10. d.buf[k + 1] = Type(rr.type) /\ k + 1 \notin DOMAIN d.at
  <2>1. k + 1 \in 1..((Len(g.buf) + 1) - 1)
    BY <1>4
  <2> QED BY <1>4, <1>5, <2>1 DEF Extends, SameCells, SamePlaces
<1> DEFINE o == k + 1
           e == h + 1
<1>11. o \in 1..e
  BY <1>5, <1>6
<1>12. d.buf[o + 1] = Length(e - o - 2)
  <2>1. o + 1 = k + 2 /\ e - o - 2 = h - (k + 2)
    OBVIOUS
  <2> QED BY <1>5, <1>6, <2>1
<1>13. NoNames(d.at, o, o + 2)
  <2>1. \A q \in o..((o + 2) - 1) : q = k + 1 \/ q = k + 2
    OBVIOUS
  <2> QED BY <1>5, <1>10, <2>1 DEF NoNames
<1>14. DataAt(d.buf, d.at, o + 2, e, rr)
  <2>1. o + 2 = (k + 2) + 1
    OBVIOUS
  <2> QED BY <1>5, <1>6, <2>1
<1>15. RecordAt(d.buf, d.at, n + 1, e, rr)
  <2>1. NameAt(d.buf, d.at, n + 1, o, rr.owner) /\ d.buf[o] = Type(rr.type)
    BY <1>9, <1>10
  <2> HIDE DEF o, e
  <2> QED BY <1>11, <1>12, <1>13, <1>14, <2>1 DEF RecordAt
<1> QED BY <1>1, <1>5, <1>6, <1>8, <1>15

LEMMA RecordStays ==
  ASSUME NEW b, NEW c, NEW at, NEW bt, NEW s \in Nat \ {0}, NEW e \in Nat, NEW rr \in Written,
         \A q \in DOMAIN at : q \in Nat \ {0},
         RecordAt(b, at, s, e, rr), SameCells(b, c, s, e), SamePlaces(at, bt, e)
  PROVE  RecordAt(c, bt, s, e, rr)
<1>1. PICK o \in 1..e :
        /\ NameAt(b, at, s, o, rr.owner)
        /\ b[o] = Type(rr.type) /\ b[o + 1] = Length(e - o - 2)
        /\ NoNames(at, o, o + 2)
        /\ DataAt(b, at, o + 2, e, rr)
  BY DEF RecordAt
<1>2. s < o
  <2>1. PICK n \in Nat : n = Len(rr.owner)
    BY RecordIs
  <2> QED BY <1>1, <2>1 DEF NameAt
<1>3. o + 2 <= e
  <2>1. PICK n \in Nat : n = Len(rr.data)
    BY RecordIs
  <2>2. rr.type \in {A, NS, SOA, MX}
    BY RecordIs DEF Types
  <2> QED BY <1>1, <2>1, <2>2 DEF DataAt, NameAt
<1>4. /\ SameCells(b, c, s, o) /\ SamePlaces(at, bt, o)
      /\ SameCells(b, c, o + 2, e) /\ c[o] = b[o] /\ c[o + 1] = b[o + 1]
  BY <1>2, <1>3 DEF SameCells, SamePlaces
<1>5. NameAt(c, bt, s, o, rr.owner)
  <2>1. o \in Nat
    OBVIOUS
  <2> QED BY <1>1, <1>4, <2>1, NameStays, RecordIs
<1>6. o \in Nat \ {0} /\ o + 2 \in Nat \ {0} /\ o + 2 \in Nat
  OBVIOUS
<1>7. NoNames(bt, o, o + 2)
  BY <1>1, <1>3, <1>6, NoNamesStays
<1>8. DataAt(c, bt, o + 2, e, rr)
  BY <1>1, <1>4, <1>6, DataStays
<1> QED BY <1>1, <1>4, <1>5, <1>7, <1>8 DEF RecordAt

-----------------------------------------------------------------------------
\* What is read

LEMMA NotNull ==
  ASSUME NEW x \in Seq(Nat)
  PROVE  x # Null
<1>1. ASSUME x = Null PROVE FALSE
  <2>1. x = <<-1>>
    BY <1>1 DEF Null
  <2>2. Len(x) = 1 /\ x[1] = -1
    BY <2>1
  <2>3. x[1] \in Nat
    BY <2>2
  <2> QED BY <2>2, <2>3
<1> QED BY <1>1

\* The reader gets the name that stands at s, and knows the places up to its end; if what has
\* come ends before that, it throws.
LEMMA GetNameIs ==
  ASSUME NEW b, NEW at, NEW s \in Nat \ {0}, NEW e \in Nat, NEW name \in Seq(Nat),
         msg.buf \in Seq(Cells), \A q \in DOMAIN at : q \in Nat \ {0} /\ at[q] \in Seq(Nat),
         NameAt(b, at, s, e, name), \A q \in 1..Len(msg.buf) : msg.buf[q] = b[q]
  PROVE  getName(s, Before(at, s)) =
           IF e <= Len(msg.buf) + 1
           THEN {[name |-> name, next |-> e, known |-> Before(at, e)]} ELSE {}
<1>1. PICK n \in Nat : n = Len(name)
  OBVIOUS
<1>2. PICK l \in Nat : l = Len(msg.buf)
  OBVIOUS
<1>3. PICK i \in 1..(n + 1) :
        /\ e = s + i
        /\ \A j \in 1..(i - 1) : b[s + j - 1] = Label(name[j])
        /\ i > n => b[e - 1] = End
        /\ i <= n =>
             \E p \in DOMAIN at : p < s /\ at[p] = Suffix(name, i) /\ b[e - 1] = Pointer(p)
        /\ \A q \in s..(e - 1) : /\ q \in DOMAIN at <=> q - s + 1 <= n
                                 /\ q \in DOMAIN at => at[q] = Suffix(name, q - s + 1)
  BY <1>1 DEF NameAt
<1> DEFINE K == Before(at, s)
           ends == {q \in s..Len(msg.buf) : /\ Kind(q) \in {"end", "pointer"}
                                            /\ \A p \in s..(q - 1) : Kind(p) = "label"}
           target(last) == IF Kind(last) = "end" THEN <<>>
                           ELSE IF Value(last) \in DOMAIN K THEN K[Value(last)] ELSE Null
           rest(last) == IF target(last) = Null /\ last > s THEN {} ELSE {target(last)}
           labels(last) == [j \in 1..(last - s) |-> Value(s + j - 1)]
           places(last) == s..(IF Kind(last) = "end" THEN last - 1 ELSE last)
           R(last) == {[name |-> labels(last) \o r, next |-> last + 1,
                        known |-> PutAll(K, [p \in places(last) |->
                                               Suffix(labels(last), p - s + 1) \o r])] :
                       r \in rest(last)}
<1>4. getName(s, K) = UNION {R(last) : last \in ends}
  BY DEF getName
<1>5. \A j \in 1..(i - 1) : s + j - 1 <= l =>
        Kind(s + j - 1) = "label" /\ Value(s + j - 1) = name[j]
  <2>1. \A j \in 1..(i - 1) : s + j - 1 <= l => msg.buf[s + j - 1] = <<"label", name[j]>>
    <3>1. ASSUME NEW j \in 1..(i - 1), s + j - 1 <= l
          PROVE  msg.buf[s + j - 1] = <<"label", name[j]>>
      <4>1. b[s + j - 1] = Label(name[j])
        BY <1>3
      <4>2. s + j - 1 \in 1..Len(msg.buf)
        BY <1>2, <3>1
      <4> QED BY <4>1, <4>2 DEF Label
    <3> QED BY <3>1
  <2> QED BY <2>1 DEF Kind, Value
<1>6. e - 1 \in Nat \ {0} /\ e - 1 >= s /\ e - 1 = s + i - 1
  BY <1>3
<1>7. e - 1 <= l => /\ i > n => Kind(e - 1) = "end"
                    /\ i <= n => /\ Kind(e - 1) = "pointer"
                                 /\ Value(e - 1) \in DOMAIN at /\ Value(e - 1) < s
                                 /\ at[Value(e - 1)] = Suffix(name, i)
  <2>1. e - 1 <= l => msg.buf[e - 1] = b[e - 1]
    BY <1>2, <1>6
  <2>2. e - 1 <= l /\ i > n => msg.buf[e - 1] = <<"end", 0>>
    BY <1>3, <2>1 DEF End
  <2>3. ASSUME e - 1 <= l, i <= n
        PROVE  \E p \in DOMAIN at : /\ p < s /\ at[p] = Suffix(name, i)
                                   /\ msg.buf[e - 1] = <<"pointer", p>>
    BY <1>3, <2>1, <2>3 DEF Pointer
  <2> QED BY <2>2, <2>3 DEF Kind, Value
<1>8. \A q \in s..(e - 2) : q <= l => Kind(q) = "label"
  <2>1. ASSUME NEW q \in s..(e - 2), q <= l PROVE Kind(q) = "label"
    <3>1. q - s + 1 \in 1..(i - 1) /\ q = s + (q - s + 1) - 1
      BY <1>3
    <3> QED BY <1>5, <2>1, <3>1
  <2> QED BY <2>1
<1>9. ends = IF e <= l + 1 THEN {e - 1} ELSE {}
  <2>1. \A q \in ends : q = e - 1
    <3>1. ASSUME NEW q \in ends PROVE q = e - 1
      <4>1. q \in s..l /\ Kind(q) # "label" /\ \A p \in s..(q - 1) : Kind(p) = "label"
        BY <1>2
      <4>2. CASE q < e - 1
        <5>1. q \in s..(e - 2) /\ q <= l
          BY <4>1, <4>2
        <5> QED BY <1>8, <4>1, <5>1
      <4>3. CASE q > e - 1
        <5>1. e - 1 \in s..(q - 1) /\ e - 1 <= l
          BY <1>6, <4>1, <4>3
        <5>2. Kind(e - 1) # "label"
          BY <1>3, <1>7, <5>1
        <5> QED BY <4>1, <5>1, <5>2
      <4> QED BY <1>6, <4>1, <4>2, <4>3
    <3> QED BY <3>1
  <2>2. CASE e <= l + 1
    <3>1. e - 1 \in s..l /\ e - 1 <= l
      BY <1>6, <2>2
    <3>2. Kind(e - 1) \in {"end", "pointer"}
      BY <1>3, <1>7, <3>1
    <3>3. \A p \in s..((e - 1) - 1) : Kind(p) = "label"
      BY <1>8, <3>1
    <3>4. e - 1 \in ends
      BY <1>2, <3>1, <3>2, <3>3
    <3> HIDE DEF ends
    <3> QED BY <2>1, <2>2, <3>4
  <2>3. CASE ~ (e <= l + 1)
    <3>1. \A q \in ends : q <= l
      BY <1>2
    <3> HIDE DEF ends
    <3> QED BY <1>6, <2>1, <2>3, <3>1
  <2> HIDE DEF ends
  <2> QED BY <2>2, <2>3
<1>10. ASSUME e <= l + 1
       PROVE  R(e - 1) = {[name |-> name, next |-> e, known |-> Before(at, e)]}
  <2> DEFINE r == Suffix(name, i)
             y == [j \in 1..(i - 1) |-> name[j]]
             w == e - 1
             P == places(w)
             f == [p \in P |-> Suffix(y, p - s + 1) \o r]
  <2>1. w <= l /\ i \in 1..(Len(name) + 1)
    BY <1>1, <1>3, <1>10
  <2>2. r \in Seq(Nat) /\ Len(r) = n - i + 1
    BY <1>1, <2>1, SuffixIs
  <2>3. i > n => r = <<>>
    <3>1. i > n => Len(r) = 0
      BY <2>2
    <3> HIDE DEF r
    <3> QED BY <2>2, <3>1
  <2>4. target(w) = r
    <3>1. CASE i > n
      BY <1>7, <2>1, <2>3, <3>1
    <3>2. CASE i <= n
      <4>1. Kind(w) # "end" /\ Value(w) \in DOMAIN K /\ K[Value(w)] = r
        BY <1>7, <2>1, <3>2 DEF Before
      <4> HIDE DEF K, r, w
      <4> QED BY <4>1
    <3> QED BY <3>1, <3>2
  <2>5. rest(w) = {r}
    <3>1. r # Null
      BY <2>2, NotNull
    <3> HIDE DEF target, r
    <3> QED BY <2>4, <3>1
  <2>6. labels(w) = y
    <3>1. w - s = i - 1
      BY <1>6
    <3>2. \A j \in 1..(i - 1) : Value(s + j - 1) = name[j]
      <4>1. \A j \in 1..(i - 1) : s + j - 1 <= l
        BY <1>6, <2>1
      <4> QED BY <1>5, <4>1
    <3> HIDE DEF w
    <3> QED BY <3>1, <3>2
  <2>7. y \o r = name /\ \A j \in 1..i : Suffix(y, j) \o r = Suffix(name, j)
    <3>1. y \o r = name
      <4>1. i \in 1..i
        BY <2>1
      <4> QED BY <2>1, <4>1, LabelsAndRest
    <3>2. ASSUME NEW j \in 1..i PROVE Suffix(y, j) \o r = Suffix(name, j)
      BY <2>1, LabelsAndRest
    <3> QED BY <3>1, <3>2
  <2>8. \A q \in P : q \in s..w /\ q - s + 1 \in 1..i /\ q - s + 1 <= n
    BY <1>3, <1>6, <1>7, <2>1
  <2>9. \A q \in s..w : q \in DOMAIN at => q \in P /\ at[q] = Suffix(name, q - s + 1)
    BY <1>3, <1>6, <1>7, <2>1
  <2>10. \A q \in P : q \in DOMAIN at
    BY <1>3, <2>8
  <2>11. PutAll(K, f) = Before(at, e)
    <3>1. DOMAIN f = P /\ \A q \in P : f[q] = at[q]
      <4>1. \A q \in P : f[q] = Suffix(name, q - s + 1)
        <5> HIDE DEF r, y, P
        <5> QED BY <2>7, <2>8
      <4> HIDE DEF r, y, P
      <4> QED BY <2>8, <2>9, <2>10, <4>1
    <3>2. DOMAIN K = {q \in DOMAIN at : q < s} /\ \A q \in DOMAIN K : K[q] = at[q]
      BY DEF Before
    <3>3. {q \in DOMAIN at : q < e} = DOMAIN K \cup P
      <4>1. \A q \in DOMAIN at : q < e <=> q < s \/ q \in s..w
        BY <1>3
      <4> HIDE DEF K, P, w
      <4> QED BY <2>8, <2>9, <2>10, <3>2, <4>1
    <3> HIDE DEF K, P, f
    <3> QED BY <3>1, <3>2, <3>3 DEF PutAll, Before
  <2>12. w + 1 = e
    BY <1>3
  <2>13. R(w) = {[name |-> y \o r, next |-> e, known |-> PutAll(K, f)]}
    <3> HIDE DEF rest, labels, places, K, r, y, w
    <3> QED BY <2>5, <2>6, <2>12
  <2> HIDE DEF R, f, K, y, r
  <2> QED BY <2>7, <2>11, <2>13
<1> HIDE DEF R, ends
<1>11. CASE e <= l + 1
  BY <1>2, <1>4, <1>9, <1>10, <1>11 DEF K
<1>12. CASE ~ (e <= l + 1)
  BY <1>2, <1>4, <1>9, <1>12 DEF K
<1> QED BY <1>11, <1>12

LEMMA NothingBetween ==
  ASSUME NEW at, NEW s \in Nat, NEW e \in Nat, s <= e, \A q \in DOMAIN at : q \in Nat \ {0},
         NoNames(at, s, e)
  PROVE  Before(at, s) = Before(at, e)
<1>1. \A q \in DOMAIN at : q < s <=> q < e
  BY DEF NoNames
<1>2. {q \in DOMAIN at : q < s} = {q \in DOMAIN at : q < e}
  BY <1>1
<1> QED BY <1>2 DEF Before

LEMMA GetDataIs ==
  ASSUME NEW b, NEW at, NEW s \in Nat \ {0}, NEW e \in Nat, NEW rr \in Written,
         msg.buf \in Seq(Cells), \A q \in DOMAIN at : q \in Nat \ {0} /\ at[q] \in Seq(Nat),
         DataAt(b, at, s, e, rr), \A q \in 1..Len(msg.buf) : msg.buf[q] = b[q]
  PROVE  getData(rr.type, e - s, s, Before(at, s)) =
           IF e <= Len(msg.buf) + 1
           THEN {[name |-> rr.data, next |-> e, known |-> Before(at, e)]} ELSE {}
<1>1. PICK l \in Nat : l = Len(msg.buf)
  OBVIOUS
<1>2. rr.type \in {A, NS, SOA, MX} /\ rr.data \in Seq(Nat)
  BY RecordIs DEF Types
<1>3. ASSUME NEW n \in Nat, e = s + n, NoNames(at, s, e), rr.data = <<>>,
             getData(rr.type, e - s, s, Before(at, s)) =
               IF s + n - 1 <= Len(msg.buf)
               THEN {[name |-> <<>>, next |-> s + n, known |-> Before(at, s)]} ELSE {}
      PROVE  getData(rr.type, e - s, s, Before(at, s)) =
               IF e <= Len(msg.buf) + 1
               THEN {[name |-> rr.data, next |-> e, known |-> Before(at, e)]} ELSE {}
  <2>1. Before(at, s) = Before(at, e)
    BY <1>3, NothingBetween
  <2>2. s + n - 1 <= Len(msg.buf) <=> e <= Len(msg.buf) + 1
    BY <1>1, <1>3
  <2> QED BY <1>3, <2>1, <2>2
<1>4. CASE rr.type = A
  <2>1. e = s + 1 /\ NoNames(at, s, e) /\ rr.data = <<>>
    BY <1>4, RecordIs DEF DataAt
  <2>2. getData(rr.type, e - s, s, Before(at, s)) =
          IF s + 1 - 1 <= Len(msg.buf)
          THEN {[name |-> <<>>, next |-> s + 1, known |-> Before(at, s)]} ELSE {}
    BY <1>4 DEF getData, A, NS, SOA, MX
  <2>3. 1 \in Nat
    OBVIOUS
  <2> QED BY <1>3, <2>1, <2>2, <2>3
<1>5. CASE rr.type = SOA
  <2>1. s <= e /\ NoNames(at, s, e) /\ rr.data = <<>>
    BY <1>5, RecordIs DEF DataAt
  <2>2. PICK n \in Nat : e = s + n /\ e - s = n
    <3>1. e - s \in Nat /\ e = s + (e - s)
      BY <2>1
    <3> QED BY <3>1
  <2>3. getData(rr.type, n, s, Before(at, s)) =
          IF s + n - 1 <= Len(msg.buf)
          THEN {[name |-> <<>>, next |-> s + n, known |-> Before(at, s)]} ELSE {}
    BY <1>5 DEF getData, A, NS, SOA, MX
  <2> QED BY <1>3, <2>1, <2>2, <2>3
<1>6. CASE rr.type = NS
  <2>1. NameAt(b, at, s, e, rr.data)
    BY <1>6 DEF DataAt
  <2>2. getData(rr.type, e - s, s, Before(at, s)) = getName(s, Before(at, s))
    BY <1>6 DEF getData, A, NS, SOA, MX
  <2> QED BY <1>2, <2>1, <2>2, GetNameIs
<1>7. CASE rr.type = MX
  <2>1. NoNames(at, s, s + 1) /\ NameAt(b, at, s + 1, e, rr.data)
    BY <1>7 DEF DataAt
  <2>2. s + 1 < e
    <3>1. PICK n \in Nat : n = Len(rr.data)
      BY <1>2
    <3> QED BY <2>1, <3>1 DEF NameAt
  <2>3. Before(at, s) = Before(at, s + 1)
    BY <2>1, NothingBetween
  <2>4. getData(rr.type, e - s, s, Before(at, s)) =
          IF s <= Len(msg.buf) THEN getName(s + 1, Before(at, s)) ELSE {}
    BY <1>7 DEF getData, A, NS, SOA, MX
  <2>5. getName(s + 1, Before(at, s + 1)) =
          IF e <= Len(msg.buf) + 1
          THEN {[name |-> rr.data, next |-> e, known |-> Before(at, e)]} ELSE {}
    <3>1. s + 1 \in Nat \ {0}
      OBVIOUS
    <3> QED BY <1>2, <2>1, <3>1, GetNameIs
  <2>6. e <= Len(msg.buf) + 1 => s <= Len(msg.buf)
    BY <1>1, <2>2
  <2> QED BY <2>3, <2>4, <2>5, <2>6
<1> QED BY <1>2, <1>4, <1>5, <1>6, <1>7

LEMMA GetRRIs ==
  ASSUME NEW b, NEW at, NEW s \in Nat \ {0}, NEW e \in Nat, NEW rr \in Written,
         msg.buf \in Seq(Cells), \A q \in DOMAIN at : q \in Nat \ {0} /\ at[q] \in Seq(Nat),
         RecordAt(b, at, s, e, rr), \A q \in 1..Len(msg.buf) : msg.buf[q] = b[q],
         pos = s, known = Before(at, s)
  PROVE  getRR(rr.section) =
           IF e <= Len(msg.buf) + 1
           THEN {[rr |-> rr, next |-> e, known |-> Before(at, e)]} ELSE {}
<1>1. PICK l \in Nat : l = Len(msg.buf)
  OBVIOUS
<1>2. PICK o \in 1..e :
        /\ NameAt(b, at, s, o, rr.owner)
        /\ b[o] = Type(rr.type) /\ b[o + 1] = Length(e - o - 2)
        /\ NoNames(at, o, o + 2)
        /\ DataAt(b, at, o + 2, e, rr)
  BY DEF RecordAt
<1>3. o \in Nat \ {0} /\ o + 2 \in Nat \ {0} /\ o \in Nat /\ o + 2 \in Nat
  OBVIOUS
<1>4. o + 2 <= e
  <2>1. PICK n \in Nat : n = Len(rr.data)
    <3>1. rr.data \in Seq(Nat)
      BY RecordIs
    <3> QED BY <3>1
  <2>2. rr.type \in {A, NS, SOA, MX}
    BY RecordIs DEF Types
  <2> QED BY <1>2, <2>1, <2>2 DEF DataAt, NameAt
<1>5. getName(pos, known) =
        IF o <= l + 1 THEN {[name |-> rr.owner, next |-> o, known |-> Before(at, o)]} ELSE {}
  <2>1. getName(s, Before(at, s)) =
          IF o <= Len(msg.buf) + 1
          THEN {[name |-> rr.owner, next |-> o, known |-> Before(at, o)]} ELSE {}
    BY <1>2, <1>3, RecordIs, GetNameIs
  <2> QED BY <1>1, <2>1
<1>6. Before(at, o) = Before(at, o + 2)
  BY <1>2, <1>3, NothingBetween
<1>7. getData(rr.type, e - (o + 2), o + 2, Before(at, o)) =
        IF e <= l + 1
        THEN {[name |-> rr.data, next |-> e, known |-> Before(at, e)]} ELSE {}
  <2>1. getData(rr.type, e - (o + 2), o + 2, Before(at, o + 2)) =
          IF e <= Len(msg.buf) + 1
          THEN {[name |-> rr.data, next |-> e, known |-> Before(at, e)]} ELSE {}
    BY <1>2, <1>3, GetDataIs
  <2> QED BY <1>1, <1>6, <2>1
<1>8. o + 1 <= l => Value(o) = rr.type /\ Value(o + 1) = e - (o + 2)
  <2>1. ASSUME o + 1 <= l
        PROVE  msg.buf[o] = <<"type", rr.type>> /\ msg.buf[o + 1] = <<"length", e - (o + 2)>>
    <3>1. o \in 1..Len(msg.buf) /\ o + 1 \in 1..Len(msg.buf) /\ e - (o + 2) = e - o - 2
      BY <1>1, <2>1
    <3> QED BY <1>2, <3>1 DEF Type, Length
  <2> QED BY <2>1 DEF Value
<1> DEFINE G(x) == IF x.next + 1 > Len(msg.buf) THEN {}
                   ELSE {[rr |-> [section |-> rr.section, owner |-> x.name,
                                  type |-> Value(x.next), data |-> d.name],
                          next |-> d.next, known |-> d.known] :
                         d \in getData(Value(x.next), Value(x.next + 1), x.next + 2, x.known)}
           u == [name |-> rr.owner, next |-> o, known |-> Before(at, o)]
<1>9. getRR(rr.section) = UNION {G(x) : x \in getName(pos, known)}
  BY DEF getRR
<1>10. o + 1 <= l =>
         G(u) = IF e <= l + 1 THEN {[rr |-> rr, next |-> e, known |-> Before(at, e)]} ELSE {}
  <2>1. SUFFICES ASSUME o + 1 <= l
        PROVE  G(u) = IF e <= l + 1
                      THEN {[rr |-> rr, next |-> e, known |-> Before(at, e)]} ELSE {}
    OBVIOUS
  <2> DEFINE D == getData(rr.type, e - (o + 2), o + 2, Before(at, o))
  <2>2. G(u) = {[rr |-> [section |-> rr.section, owner |-> rr.owner,
                         type |-> rr.type, data |-> d.name],
                 next |-> d.next, known |-> d.known] : d \in D}
    <3>1. ~ (o + 1 > Len(msg.buf))
      BY <1>1, <2>1
    <3> QED BY <1>8, <2>1, <3>1
  <2>3. rr = [section |-> rr.section, owner |-> rr.owner, type |-> rr.type, data |-> rr.data]
    BY RecordIs
  <2> HIDE DEF D, G, u
  <2>4. CASE e <= l + 1
    <3>1. D = {[name |-> rr.data, next |-> e, known |-> Before(at, e)]}
      BY <1>7, <2>4 DEF D
    <3>2. G(u) = {[rr |-> [section |-> rr.section, owner |-> rr.owner,
                           type |-> rr.type, data |-> rr.data],
                   next |-> e, known |-> Before(at, e)]}
      BY <2>2, <3>1
    <3> QED BY <2>3, <2>4, <3>2
  <2>5. CASE ~ (e <= l + 1)
    <3>1. D = {}
      BY <1>7, <2>5 DEF D
    <3> QED BY <2>2, <2>5, <3>1
  <2> QED BY <2>4, <2>5
<1>11. ~ (o + 1 <= l) => G(u) = {}
  BY <1>1
<1> HIDE DEF G
<1>12. CASE o <= l + 1
  <2>1. getRR(rr.section) = G(u)
    BY <1>5, <1>9, <1>12
  <2>2. ~ (o + 1 <= l) => ~ (e <= l + 1)
    BY <1>4
  <2> HIDE DEF u
  <2> QED BY <1>1, <1>10, <1>11, <2>1, <2>2
<1>13. CASE ~ (o <= l + 1)
  <2>1. getRR(rr.section) = {}
    BY <1>5, <1>9, <1>13
  <2>2. ~ (e <= l + 1)
    BY <1>4, <1>13
  <2> QED BY <1>1, <2>1, <2>2
<1> QED BY <1>12, <1>13

-----------------------------------------------------------------------------
\* The invariant

\* In "failed" nothing is said of where the reader is.
IInv ==
  /\ phase \in {"empty", "write", "question", "records", "failed", "done"}
  /\ sent \in Seq(Written) /\ got \in Seq(Written)
  /\ msg.buf \in Seq(Cells)
  /\ \A q \in DOMAIN msg.at : q \in Nat \ {0} /\ msg.at[q] \in Seq(Nat)
  /\ Counted
  /\ phase = "empty" => msg.buf = <<>> /\ sent = <<>>
  /\ phase \in {"empty", "write"} => Places(msg) /\ ~ cut /\ pos = 1
  /\ phase \in {"empty", "write", "question"} => got = <<>>
  /\ phase \notin {"empty", "write"} => ReadSoFar
  /\ phase # "failed" => known = Before(msg.at, pos)
  /\ phase = "done" => \A s \in Sections : left[s] = 0
  /\ phase = "failed" => cut
  /\ phase # "empty" => \E b, starts : Reads(b, starts)

LEMMA BeforeFirst ==
  ASSUME NEW at, \A q \in DOMAIN at : q \in Nat \ {0}
  PROVE  Before(at, 1) = <<>>
<1>1. {q \in DOMAIN at : q < 1} = {}
  OBVIOUS
<1> QED BY <1>1 DEF Before

LEMMA IInvInit == Init => IInv
<1> SUFFICES ASSUME Init PROVE IInv
  OBVIOUS
<1>1. /\ msg.buf = <<>> /\ msg.names = <<>> /\ msg.at = <<>>
      /\ msg = [buf |-> msg.buf, names |-> msg.names, at |-> msg.at]
      /\ phase = "empty" /\ sent = <<>> /\ got = <<>> /\ ~ cut /\ pos = 1 /\ known = <<>>
      /\ count = [s \in Sections |-> 0]
  BY DEF Init
<1>2. \A q \in DOMAIN msg.at : FALSE
  BY <1>1
<1>3. \A x \in DOMAIN msg.names : FALSE
  BY <1>1
<1>4. Places(msg)
  <2>1. msg.buf \in Seq(Cells)
    BY <1>1
  <2> QED BY <1>1, <1>2, <1>3, <2>1 DEF Places
<1>5. known = Before(msg.at, pos)
  BY <1>1, <1>2, BeforeFirst
<1>6. Counted
  BY <1>1 DEF Counted, Sections
<1>7. sent \in Seq(Written) /\ got \in Seq(Written) /\ msg.buf \in Seq(Cells)
  BY <1>1
<1> QED BY <1>1, <1>2, <1>4, <1>5, <1>6, <1>7 DEF IInv

LEMMA AddQuestionKeeps ==
  ASSUME IInv, addQuestion
  PROVE  IInv'
<1>1. PICK name \in Names : \E m \in AddName(msg, name) : msg' = Put(m, Type(A))
  BY DEF addQuestion
<1>2. PICK m \in AddName(msg, name) : msg' = Put(m, Type(A))
  BY <1>1
<1>3. PICK d : d = Put(m, Type(A)) /\ msg' = d
  BY <1>2
<1>4. /\ msg.buf = <<>> /\ sent = <<>> /\ got = <<>> /\ Places(msg) /\ ~ cut /\ pos = 1
      /\ known = Before(msg.at, pos) /\ Counted
      /\ \A q \in DOMAIN msg.at : q \in Nat \ {0}
  BY DEF addQuestion, IInv
<1>5. Len(msg.buf) = 0 /\ name \in Seq(Nat)
  BY <1>4, MessageAssumption
<1>6. Places(m) /\ NameAt(m.buf, m.at, 1, Len(m.buf) + 1, name)
  <2>1. /\ Places(m)
        /\ NameAt(m.buf, m.at, Len(msg.buf) + 1, Len(m.buf) + 1, name)
    BY <1>4, <1>5, AddNameIs
  <2>2. Len(msg.buf) + 1 = 1
    BY <1>5
  <2> QED BY <2>1, <2>2
<1>7. PICK n \in Nat : n = Len(m.buf)
  BY <1>6 DEF Places
<1>8. /\ d.at = m.at /\ Len(d.buf) = n + 1 /\ n + 1 \notin DOMAIN m.at
      /\ Places(d) /\ Extends(m, d)
  <2>1. Type(A) \in Cells
    BY CellsAre DEF A
  <2> QED BY <1>3, <1>6, <1>7, <2>1, PutIs
<1>9. d.buf \in Seq(Cells) /\ \A q \in DOMAIN d.at : q \in Nat \ {0} /\ d.at[q] \in Seq(Nat)
  BY <1>8 DEF Places
<1> DEFINE starts == [i \in 1..1 |-> n + 2]
<1>10. NameAt(d.buf, d.at, 1, n + 1, name)
  <2>1. SameCells(m.buf, d.buf, 1, n + 1) /\ SamePlaces(m.at, d.at, n + 1)
    BY <1>7, <1>8 DEF Extends
  <2>2. \A q \in DOMAIN m.at : q \in Nat \ {0}
    BY <1>8, <1>9
  <2>3. 1 \in Nat \ {0} /\ n + 1 \in Nat
    OBVIOUS
  <2> QED BY <1>5, <1>6, <1>7, <2>1, <2>2, <2>3, NameStays
<1>11. (phase' = "write" /\ UNCHANGED <<writer, count, sent, readVars>>)
  BY DEF addQuestion
<1>12. /\ writer' = writer /\ count' = count /\ sent' = sent /\ cut' = cut /\ pos' = pos
       /\ known' = known /\ left' = left /\ got' = got
  BY <1>11 DEF readVars
<1>13. Reads(d.buf, starts)'
  <2>1. starts[1] = n + 2 /\ starts[1] - 1 = n + 1
    OBVIOUS
  <2>2. NoNames(d.at, n + 1, n + 2)
    BY <1>8 DEF NoNames
  <2>3. Len(sent) = 0
    BY <1>4
  <2>4. starts \in [1..(Len(sent) + 1) -> 1..(Len(d.buf) + 1)]
    BY <1>8, <2>3
  <2>5. starts[Len(sent) + 1] = Len(d.buf) + 1
    BY <1>8, <2>3
  <2> HIDE DEF starts
  <2>6. Layout(d.buf, d.at, starts)'
    BY <1>10, <1>12, <2>1, <2>2, <2>3, <2>4, <2>5 DEF Layout
  <2> QED BY <1>3, <1>4, <1>8, <1>9, <1>11, <1>12, <2>6 DEF Reads
<1>14. known' = Before(msg'.at, pos')
  BY <1>3, <1>4, <1>9, <1>12, BeforeFirst
<1>15. Places(msg)'
  BY <1>3, <1>8, <1>12 DEF Places
<1>16. Counted'
  BY <1>4, <1>12 DEF Counted
<1>17. (sent \in Seq(Written) /\ got \in Seq(Written))'
  BY <1>12 DEF IInv
<1> QED BY <1>3, <1>4, <1>9, <1>11, <1>12, <1>13, <1>14, <1>15, <1>16, <1>17 DEF IInv

\* The sections stay in order.
LEMMA CountedOn ==
  ASSUME IInv, NEW rr \in Written, addResourceRecord(rr)
  PROVE  Counted'
<1>1. /\ \A i \in 1..Len(sent) : sent[i].section <= rr.section
      /\ count' = [count EXCEPT ![rr.section] = @ + 1]
      /\ sent' = Append(sent, rr)
  BY DEF addResourceRecord
<1>2. sent \in Seq(Written) /\ count \in [Sections -> Nat] /\ rr.section \in 1..3
  BY RecordIs DEF IInv, Counted, Sections
<1>3. PICK c1 \in Nat : c1 = count[1]
  BY <1>2 DEF Sections
<1>4. PICK c2 \in Nat : c2 = count[2]
  BY <1>2 DEF Sections
<1>5. PICK c3 \in Nat : c3 = count[3]
  BY <1>2 DEF Sections
<1>6. PICK n \in Nat : n = Len(sent)
  BY <1>2
<1>7. /\ n = c1 + c2 + c3
      /\ \A i \in 1..n : sent[i].section = IF i <= c1 THEN 1 ELSE IF i <= c1 + c2 THEN 2 ELSE 3
  BY <1>3, <1>4, <1>5, <1>6 DEF IInv, Counted
<1>8. /\ sent' \in Seq(Written) /\ Len(sent') = n + 1 /\ sent'[n + 1] = rr
      /\ \A i \in 1..n : sent'[i] = sent[i]
  BY <1>1, <1>2, <1>6
<1>9. rr.section = 1 => c2 = 0 /\ c3 = 0
  <2>1. ASSUME rr.section = 1, n > c1 PROVE FALSE
    <3>1. n \in 1..n /\ sent[n].section <= 1
      BY <1>1, <1>6, <2>1
    <3> QED BY <1>7, <2>1, <3>1
  <2> QED BY <1>7, <2>1
<1>10. rr.section = 2 => c3 = 0
  <2>1. ASSUME rr.section = 2, n > c1 + c2 PROVE FALSE
    <3>1. n \in 1..n /\ sent[n].section <= 2
      BY <1>1, <1>6, <2>1
    <3> QED BY <1>7, <2>1, <3>1
  <2> QED BY <1>7, <2>1
<1>11. /\ count' \in [Sections -> Nat]
       /\ count'[1] = IF rr.section = 1 THEN c1 + 1 ELSE c1
       /\ count'[2] = IF rr.section = 2 THEN c2 + 1 ELSE c2
       /\ count'[3] = IF rr.section = 3 THEN c3 + 1 ELSE c3
  BY <1>1, <1>2, <1>3, <1>4, <1>5 DEF Sections
<1>12. Len(sent') = count'[1] + count'[2] + count'[3]
  BY <1>2, <1>7, <1>8, <1>11
<1>13. ASSUME NEW i \in 1..(n + 1)
       PROVE  sent'[i].section = IF i <= count'[1] THEN 1
                                 ELSE IF i <= count'[1] + count'[2] THEN 2 ELSE 3
  <2>1. CASE i = n + 1
    BY <1>2, <1>7, <1>8, <1>9, <1>10, <1>11, <2>1
  <2>2. CASE i # n + 1
    <3>1. i \in 1..n /\ sent'[i] = sent[i]
      BY <1>8, <2>2
    <3> QED BY <1>2, <1>7, <1>9, <1>10, <1>11, <3>1
  <2> QED BY <2>1, <2>2
<1> QED BY <1>8, <1>11, <1>12, <1>13 DEF Counted

LEMMA AddResourceRecordKeeps ==
  ASSUME Parseable, IInv, NEW rr \in Written, addResourceRecord(rr)
  PROVE  IInv'
<1>1. PICK m \in AddName(msg, rr.owner) : msg' \in WithData(Put(m, Type(rr.type)), rr)
  BY DEF addResourceRecord
<1>2. PICK d : d \in WithData(Put(m, Type(rr.type)), rr) /\ msg' = d
  BY <1>1
<1>3. /\ phase = "write" /\ phase' = phase /\ sent' = Append(sent, rr) /\ writer' = writer
      /\ cut' = cut /\ pos' = pos /\ known' = known /\ left' = left /\ got' = got
  BY DEF addResourceRecord, readVars
<1>4. /\ sent \in Seq(Written) /\ got = <<>> /\ got \in Seq(Written) /\ Places(msg) /\ ~ cut
      /\ pos = 1 /\ known = Before(msg.at, pos) /\ msg.buf \in Seq(Cells)
      /\ \A q \in DOMAIN msg.at : q \in Nat \ {0}
  BY <1>3 DEF IInv
<1>5. PICK n \in Nat : n = Len(sent)
  BY <1>4
<1>6. PICK l \in Nat : l = Len(msg.buf)
  BY <1>4
<1>7. /\ Places(d) /\ Extends(msg, d)
      /\ RecordAt(d.buf, d.at, l + 1, Len(d.buf) + 1, rr)
  BY <1>2, <1>4, <1>6, AddRecordIs
<1>8. d.buf \in Seq(Cells) /\ \A q \in DOMAIN d.at : q \in Nat \ {0} /\ d.at[q] \in Seq(Nat)
  BY <1>7 DEF Places
<1>9. PICK h \in Nat : h = Len(d.buf)
  BY <1>8
<1>10. /\ l <= h /\ SameCells(msg.buf, d.buf, 1, l + 1) /\ SamePlaces(msg.at, d.at, l + 1)
  BY <1>6, <1>7, <1>9 DEF Extends
<1>11. PICK b, starts : Reads(b, starts)
  BY <1>3 DEF IInv
<1>12. /\ b \in Seq(Cells) /\ Len(b) = l /\ \A q \in 1..l : msg.buf[q] = b[q]
       /\ Layout(b, msg.at, starts)
  <2>1. b \in Seq(Cells) /\ Len(msg.buf) <= Len(b) /\ ~ (Len(msg.buf) < Len(b))
    BY <1>4, <1>11 DEF Reads
  <2>2. PICK k \in Nat : k = Len(b)
    BY <2>1
  <2>3. k = l
    BY <1>6, <2>1, <2>2
  <2> QED BY <1>6, <1>11, <2>1, <2>2, <2>3 DEF Reads
<1>13. PICK name \in Names : NameAt(b, msg.at, 1, starts[1] - 1, name)
  BY <1>12 DEF Layout
<1>14. /\ starts \in [1..(n + 1) -> 1..(l + 1)] /\ starts[n + 1] = l + 1
       /\ NoNames(msg.at, starts[1] - 1, starts[1])
       /\ \A i \in 1..n : RecordAt(b, msg.at, starts[i], starts[i + 1], sent[i])
  BY <1>5, <1>12 DEF Layout
<1>15. \A q \in 1..((l + 1) - 1) : d.buf[q] = b[q]
  BY <1>10, <1>12 DEF SameCells
<1>16. ASSUME NEW e \in 1..(l + 1), NEW s \in Nat \ {0}
       PROVE  SameCells(b, d.buf, s, e) /\ SamePlaces(msg.at, d.at, e)
  <2>1. \A q \in s..(e - 1) : q \in 1..((l + 1) - 1)
    OBVIOUS
  <2>2. \A q \in 1..(e - 1) : q \in 1..((l + 1) - 1)
    OBVIOUS
  <2> QED BY <1>10, <1>15, <2>1, <2>2 DEF SameCells, SamePlaces
<1>17. ASSUME NEW i \in 1..(n + 1) PROVE starts[i] \in 1..(l + 1) /\ starts[i] \in Nat \ {0}
  <2>1. starts[i] \in 1..(l + 1)
    BY <1>14
  <2> QED BY <2>1
<1> DEFINE news == [i \in 1..(n + 2) |-> IF i = n + 2 THEN h + 1 ELSE starts[i]]
<1>18. /\ news \in [1..(n + 2) -> 1..(h + 1)] /\ news[n + 2] = h + 1
       /\ \A i \in 1..(n + 1) : news[i] = starts[i]
  <2>1. \A i \in 1..(n + 2) : i = n + 2 \/ i \in 1..(n + 1)
    OBVIOUS
  <2>2. \A i \in 1..(n + 1) : i \in 1..(n + 2) /\ i # n + 2
    OBVIOUS
  <2>3. \A i \in 1..(n + 1) : starts[i] \in 1..(h + 1)
    BY <1>10, <1>17
  <2> QED BY <2>1, <2>2, <2>3
<1> HIDE DEF news
<1>19. NameAt(d.buf, d.at, 1, news[1] - 1, name) /\ NoNames(d.at, news[1] - 1, news[1])
  <2>1. 1 \in 1..(n + 1)
    OBVIOUS
  <2>2. news[1] = starts[1] /\ starts[1] \in 1..(l + 1)
    BY <1>17, <1>18, <2>1
  <2>3. name \in Seq(Nat)
    BY MessageAssumption
  <2>4. starts[1] - 1 >= 2
    <3>1. PICK k \in Nat : k = Len(name)
      BY <2>3
    <3> QED BY <1>13, <2>2, <3>1 DEF NameAt
  <2>5. starts[1] - 1 \in Nat \ {0} /\ starts[1] - 1 \in Nat /\ starts[1] - 1 \in 1..(l + 1)
    BY <2>2, <2>4
  <2>6. /\ SameCells(b, d.buf, 1, starts[1] - 1) /\ SamePlaces(msg.at, d.at, starts[1] - 1)
        /\ SamePlaces(msg.at, d.at, starts[1])
    BY <1>16, <2>2, <2>5
  <2>7. NameAt(d.buf, d.at, 1, starts[1] - 1, name)
    BY <1>4, <1>13, <2>3, <2>5, <2>6, NameStays
  <2>8. NoNames(d.at, starts[1] - 1, starts[1])
    BY <1>14, <2>2, <2>5, <2>6, NoNamesStays
  <2> QED BY <2>2, <2>7, <2>8
<1>20. /\ sent' \in Seq(Written) /\ Len(sent') = n + 1 /\ sent'[n + 1] = rr
       /\ \A i \in 1..n : sent'[i] = sent[i]
  BY <1>3, <1>4, <1>5
<1>21. ASSUME NEW i \in 1..(n + 1)
       PROVE  RecordAt(d.buf, d.at, news[i], news[i + 1], sent'[i])
  <2>1. CASE i = n + 1
    <3>1. news[i] = l + 1 /\ news[i + 1] = h + 1
      BY <1>14, <1>18, <2>1
    <3> QED BY <1>7, <1>9, <1>20, <2>1, <3>1
  <2>2. CASE i # n + 1
    <3>1. i \in 1..n /\ i \in 1..(n + 1) /\ i + 1 \in 1..(n + 1)
      BY <2>2
    <3>2. /\ news[i] = starts[i] /\ news[i + 1] = starts[i + 1] /\ sent'[i] = sent[i]
          /\ RecordAt(b, msg.at, starts[i], starts[i + 1], sent[i])
      BY <1>14, <1>18, <1>20, <3>1
    <3>3. sent[i] \in Written
      BY <1>4, <1>5, <3>1
    <3>4. starts[i] \in Nat \ {0} /\ starts[i + 1] \in Nat /\ starts[i + 1] \in 1..(l + 1)
      BY <1>17, <3>1
    <3>5. SameCells(b, d.buf, starts[i], starts[i + 1]) /\ SamePlaces(msg.at, d.at, starts[i + 1])
      BY <1>16, <3>4
    <3> QED BY <1>4, <3>2, <3>3, <3>4, <3>5, RecordStays
  <2> QED BY <2>1, <2>2
<1>22. Layout(d.buf, d.at, news)'
  <2>1. /\ news \in [1..(Len(sent') + 1) -> 1..(Len(d.buf) + 1)]
        /\ news[Len(sent') + 1] = Len(d.buf) + 1
    BY <1>9, <1>18, <1>20
  <2>2. \A i \in 1..Len(sent') : RecordAt(d.buf, d.at, news[i], news[i + 1], sent'[i])
    BY <1>20, <1>21
  <2> QED BY <1>19, <2>1, <2>2 DEF Layout
<1>23. Reads(d.buf, news)'
  <2>1. \A q \in 1..Len(d.buf) : d.buf[q] = d.buf[q]
    OBVIOUS
  <2> QED BY <1>2, <1>3, <1>4, <1>8, <1>9, <1>22 DEF Reads
<1>24. known' = Before(msg'.at, pos')
  BY <1>2, <1>3, <1>4, <1>8, BeforeFirst
<1>25. Places(msg)'
  BY <1>2, <1>3, <1>7 DEF Places
<1>26. Counted'
  BY CountedOn
<1> QED BY <1>2, <1>3, <1>4, <1>8, <1>20, <1>23, <1>24, <1>25, <1>26 DEF IInv

LEMMA ReceiveKeeps ==
  ASSUME IInv, Receive
  PROVE  IInv'
<1>1. PICK n \in 0..Len(msg.buf) :
        msg' = [msg EXCEPT !.buf = SubSeq(@, 1, n)] /\ cut' = (n < Len(msg.buf))
  BY DEF Receive
<1>2. /\ phase = "write" /\ phase' = "question" /\ left' = count /\ count' = count
      /\ sent' = sent /\ pos' = pos /\ known' = known /\ got' = got
  BY DEF Receive
<1>3. /\ Places(msg) /\ ~ cut /\ pos = 1 /\ got = <<>> /\ known = Before(msg.at, pos)
      /\ Counted /\ msg.buf \in Seq(Cells) /\ sent \in Seq(Written)
      /\ \A q \in DOMAIN msg.at : q \in Nat \ {0} /\ msg.at[q] \in Seq(Nat)
  BY <1>2 DEF IInv
<1>4. PICK l \in Nat : l = Len(msg.buf)
  BY <1>3
<1>5. PICK c : c = SubSeq(msg.buf, 1, n)
  OBVIOUS
<1>6. msg'.buf = c /\ msg'.at = msg.at
  <2>1. \A b, ns, at, x : [[buf |-> b, names |-> ns, at |-> at] EXCEPT !.buf = x]
                         = [buf |-> x, names |-> ns, at |-> at]
    OBVIOUS
  <2>2. msg = [buf |-> msg.buf, names |-> msg.names, at |-> msg.at]
    BY <1>3 DEF Places
  <2>3. msg' = [buf |-> c, names |-> msg.names, at |-> msg.at]
    <3>1. msg' = [msg EXCEPT !.buf = c]
      BY <1>1, <1>5
    <3> QED BY <2>1, <2>2, <3>1
  <2> QED BY <2>3
<1>7. n \in 0..l /\ c \in Seq(Cells) /\ Len(c) = n /\ \A q \in 1..n : c[q] = msg.buf[q]
  BY <1>3, <1>4, <1>5
<1>8. PICK b, starts : Reads(b, starts)
  BY <1>2 DEF IInv
<1>9. /\ b \in Seq(Cells) /\ Len(b) = l /\ \A q \in 1..l : msg.buf[q] = b[q]
      /\ Layout(b, msg.at, starts)
  <2>1. b \in Seq(Cells) /\ Len(msg.buf) <= Len(b) /\ ~ (Len(msg.buf) < Len(b))
    BY <1>3, <1>8 DEF Reads
  <2>2. PICK k \in Nat : k = Len(b)
    BY <2>1
  <2>3. k = l
    BY <1>4, <2>1, <2>2
  <2> QED BY <1>4, <1>8, <2>1, <2>2, <2>3 DEF Reads
<1>10. Layout(b, msg.at, starts)'
  BY <1>2, <1>6, <1>9 DEF Layout
<1>11. Reads(b, starts)'
  <2>1. \A q \in 1..n : q \in 1..l /\ c[q] = b[q]
    BY <1>7, <1>9
  <2>2. cut' <=> n < l
    BY <1>1, <1>4
  <2>3. n <= l
    BY <1>7
  <2> QED BY <1>2, <1>3, <1>6, <1>7, <1>9, <1>10, <2>1, <2>2, <2>3 DEF Reads
<1>12. ReadSoFar'
  <2>1. PICK k \in Nat : k = Len(sent)
    BY <1>3
  <2>2. Len(got) = 0 /\ \A i \in 1..0 : FALSE
    BY <1>3
  <2>3. count \in [Sections -> Nat] /\ k = count[1] + count[2] + count[3]
    BY <1>3, <2>1 DEF Counted
  <2>4. count[1] \in Nat /\ count[2] \in Nat /\ count[3] \in Nat
    BY <2>3 DEF Sections
  <2>5. /\ Len(got) + count[1] + count[2] + count[3] = Len(sent)
        /\ ~ (count[2] < count[2]) /\ ~ (count[3] < count[3]) /\ Len(got) <= Len(sent)
    BY <2>1, <2>2, <2>3, <2>4
  <2>6. \A s \in Sections : count[s] <= count[s]
    BY <2>3
  <2> QED BY <1>2, <2>2, <2>3, <2>5, <2>6 DEF ReadSoFar
<1>13. Counted'
  BY <1>2, <1>3 DEF Counted
<1>14. (got \in Seq(Written))'
  BY <1>2 DEF IInv
<1> QED BY <1>2, <1>3, <1>6, <1>7, <1>11, <1>12, <1>13, <1>14 DEF IInv

\* The question, as far as it is read.
LEMMA QuestionIs ==
  ASSUME IInv, phase = "question", NEW b, NEW starts, Reads(b, starts)
  PROVE  /\ starts[1] \in Nat /\ starts[1] - 1 \in Nat \ {0} /\ starts[1] <= Len(b) + 1
         /\ NoNames(msg.at, starts[1] - 1, starts[1])
         /\ \E name \in Names :
              getName(pos, known) =
                IF starts[1] - 1 <= Len(msg.buf) + 1
                THEN {[name |-> name, next |-> starts[1] - 1,
                       known |-> Before(msg.at, starts[1] - 1)]} ELSE {}
<1>1. PICK n \in Nat : n = Len(sent)
  BY DEF IInv
<1>2. PICK h \in Nat : h = Len(b)
  BY DEF Reads
<1>3. /\ starts \in [1..(n + 1) -> 1..(h + 1)]
      /\ NoNames(msg.at, starts[1] - 1, starts[1])
  BY <1>1, <1>2 DEF Reads, Layout
<1>4. PICK name \in Names : NameAt(b, msg.at, 1, starts[1] - 1, name)
  BY DEF Reads, Layout
<1>5. starts[1] \in 1..(h + 1)
  <2>1. 1 \in 1..(n + 1)
    OBVIOUS
  <2> QED BY <1>3, <2>1
<1>6. name \in Seq(Nat)
  BY MessageAssumption
<1>7. starts[1] - 1 \in Nat \ {0}
  <2>1. PICK k \in Nat : k = Len(name)
    BY <1>6
  <2> QED BY <1>4, <1>5, <2>1 DEF NameAt
<1>8. getName(1, Before(msg.at, 1)) =
        IF starts[1] - 1 <= Len(msg.buf) + 1
        THEN {[name |-> name, next |-> starts[1] - 1,
               known |-> Before(msg.at, starts[1] - 1)]} ELSE {}
  <2>1. /\ msg.buf \in Seq(Cells)
        /\ \A q \in DOMAIN msg.at : q \in Nat \ {0} /\ msg.at[q] \in Seq(Nat)
        /\ \A q \in 1..Len(msg.buf) : msg.buf[q] = b[q]
    BY DEF IInv, Reads
  <2>2. 1 \in Nat \ {0} /\ starts[1] - 1 \in Nat
    BY <1>7
  <2> QED BY <1>4, <1>6, <2>1, <2>2, GetNameIs
<1>9. pos = 1 /\ known = Before(msg.at, 1)
  BY DEF IInv, Reads
<1>10. getName(pos, known) =
         IF starts[1] - 1 <= Len(msg.buf) + 1
         THEN {[name |-> name, next |-> starts[1] - 1,
                known |-> Before(msg.at, starts[1] - 1)]} ELSE {}
  BY <1>8, <1>9
<1>11. starts[1] \in Nat /\ starts[1] <= Len(b) + 1
  BY <1>2, <1>5
<1> QED BY <1>3, <1>7, <1>10, <1>11

LEMMA GetQuestionKeeps ==
  ASSUME IInv, getQuestion
  PROVE  IInv'
<1>1. /\ phase = "question" /\ phase' = "records" /\ msg' = msg /\ count' = count /\ cut' = cut
      /\ sent' = sent /\ left' = left /\ got' = got
  BY DEF getQuestion
<1>2. PICK o \in getName(pos, known) :
        o.next <= Len(msg.buf) /\ pos' = o.next + 1 /\ known' = o.known
  BY DEF getQuestion
<1>3. PICK b, starts : Reads(b, starts)
  BY <1>1 DEF IInv
<1>4. /\ starts[1] \in Nat /\ starts[1] - 1 \in Nat \ {0}
      /\ NoNames(msg.at, starts[1] - 1, starts[1])
      /\ o.next = starts[1] - 1 /\ o.known = Before(msg.at, starts[1] - 1)
  BY <1>1, <1>3, QuestionIs
<1>5. pos' = starts[1]
  BY <1>2, <1>4
<1>6. \A q \in DOMAIN msg.at : q \in Nat \ {0}
  BY DEF IInv
<1>7. known' = Before(msg.at, starts[1])
  <2>1. starts[1] - 1 \in Nat /\ starts[1] - 1 <= starts[1]
    BY <1>4
  <2>2. Before(msg.at, starts[1] - 1) = Before(msg.at, starts[1])
    BY <1>4, <1>6, <2>1, NothingBetween
  <2> QED BY <1>2, <1>4, <2>2
<1>8. Reads(b, starts)'
  <2>1. starts[Len(got) + 1] = starts[1]
    <3>1. got = <<>>
      BY <1>1 DEF IInv
    <3>2. Len(got) + 1 = 1
      BY <3>1
    <3> QED BY <3>2
  <2>2. Layout(b, msg.at, starts)'
    BY <1>1, <1>3 DEF Reads, Layout
  <2> QED BY <1>1, <1>3, <1>5, <2>1, <2>2 DEF Reads
<1>9. Counted' /\ ReadSoFar'
  BY <1>1 DEF IInv, Counted, ReadSoFar
<1> QED BY <1>1, <1>5, <1>7, <1>8, <1>9 DEF IInv

\* The record whose turn it is, as far as it is read.
LEMMA TurnIs ==
  ASSUME IInv, phase = "records", NEW s \in Sections, Reading(s),
         NEW b, NEW starts, Reads(b, starts), NEW k, k = Len(got) + 1
  PROVE  /\ k \in 1..Len(sent)
         /\ starts[k + 1] \in 1..(Len(b) + 1)
         /\ getRR(s) = IF starts[k + 1] <= Len(msg.buf) + 1
                       THEN {[rr |-> sent[k], next |-> starts[k + 1],
                              known |-> Before(msg.at, starts[k + 1])]} ELSE {}
<1>1. PICK n \in Nat : n = Len(sent)
  BY DEF IInv
<1>2. PICK h \in Nat : h = Len(b)
  BY DEF Reads
<1>3. PICK g \in Nat : g = Len(got)
  BY DEF IInv
<1>4. Counted /\ ReadSoFar
  BY DEF IInv
<1>5. PICK c1 \in Nat, c2 \in Nat, c3 \in Nat : c1 = count[1] /\ c2 = count[2] /\ c3 = count[3]
  BY <1>4 DEF Counted, Sections
<1>6. PICK l1 \in Nat, l2 \in Nat, l3 \in Nat : l1 = left[1] /\ l2 = left[2] /\ l3 = left[3]
  BY <1>4 DEF ReadSoFar, Sections
<1>7. /\ l1 <= c1 /\ l2 <= c2 /\ l3 <= c3 /\ n = c1 + c2 + c3 /\ g + l1 + l2 + l3 = n
      /\ l2 < c2 => l1 = 0
      /\ l3 < c3 => l1 = 0 /\ l2 = 0
  BY <1>1, <1>3, <1>4, <1>5, <1>6 DEF Counted, ReadSoFar, Sections
<1>8. s = 1 => l1 > 0
  BY <1>6 DEF Reading
<1>9. s = 2 => l1 = 0 /\ l2 > 0
  BY <1>6 DEF Reading
<1>10. s = 3 => l1 = 0 /\ l2 = 0 /\ l3 > 0
  BY <1>6 DEF Reading
<1>11. k = g + 1 /\ k \in 1..n /\ s = IF k <= c1 THEN 1 ELSE IF k <= c1 + c2 THEN 2 ELSE 3
  BY <1>3, <1>7, <1>8, <1>9, <1>10 DEF Sections
<1>12. sent[k].section = s
  BY <1>1, <1>4, <1>5, <1>11 DEF Counted
<1>13. /\ starts \in [1..(n + 1) -> 1..(h + 1)]
       /\ RecordAt(b, msg.at, starts[k], starts[k + 1], sent[k])
  BY <1>1, <1>2, <1>11 DEF Reads, Layout
<1>14. starts[k] \in 1..(h + 1) /\ starts[k + 1] \in 1..(h + 1)
  BY <1>11, <1>13
<1>15. sent[k] \in Written
  BY <1>1, <1>11 DEF IInv
<1>16. pos = starts[k] /\ known = Before(msg.at, starts[k])
  BY <1>3, <1>11 DEF IInv, Reads
<1>17. /\ msg.buf \in Seq(Cells)
       /\ \A q \in DOMAIN msg.at : q \in Nat \ {0} /\ msg.at[q] \in Seq(Nat)
       /\ \A q \in 1..Len(msg.buf) : msg.buf[q] = b[q]
  BY DEF IInv, Reads
<1>18. starts[k] \in Nat \ {0} /\ starts[k + 1] \in Nat
  BY <1>14
<1>19. getRR(sent[k].section) = IF starts[k + 1] <= Len(msg.buf) + 1
                                THEN {[rr |-> sent[k], next |-> starts[k + 1],
                                       known |-> Before(msg.at, starts[k + 1])]} ELSE {}
  <2>1. PICK x \in Nat \ {0}, e \in Nat, rr \in Written :
          x = starts[k] /\ e = starts[k + 1] /\ rr = sent[k]
    BY <1>15, <1>18
  <2>2. RecordAt(b, msg.at, x, e, rr) /\ pos = x /\ known = Before(msg.at, x)
    BY <1>13, <1>16, <2>1
  <2>3. getRR(rr.section) = IF e <= Len(msg.buf) + 1
                            THEN {[rr |-> rr, next |-> e, known |-> Before(msg.at, e)]} ELSE {}
    BY <1>17, <2>2, GetRRIs
  <2> QED BY <2>1, <2>3
<1> QED BY <1>1, <1>2, <1>11, <1>12, <1>14, <1>19

LEMMA ReadRecordKeeps ==
  ASSUME IInv, NEW s \in Sections, ReadRecord(s)
  PROVE  IInv'
<1>1. /\ phase = "records" /\ Reading(s) /\ left' = [left EXCEPT ![s] = @ - 1]
      /\ phase' = phase /\ msg' = msg /\ count' = count /\ sent' = sent /\ cut' = cut
  BY DEF ReadRecord
<1>2. PICK r \in getRR(s) : pos' = r.next /\ known' = r.known /\ got' = Append(got, r.rr)
  BY DEF ReadRecord
<1>3. PICK b, starts : Reads(b, starts)
  BY <1>1 DEF IInv
<1>4. PICK g \in Nat : g = Len(got)
  BY DEF IInv
<1>5. PICK n \in Nat : n = Len(sent)
  BY DEF IInv
<1> DEFINE k == g + 1
<1>6. /\ k \in 1..n /\ r.rr = sent[k] /\ r.next = starts[k + 1]
      /\ r.known = Before(msg.at, starts[k + 1])
  <2>1. k = Len(got) + 1
    BY <1>4
  <2> HIDE DEF k
  <2>2. /\ k \in 1..n
        /\ getRR(s) = IF starts[k + 1] <= Len(msg.buf) + 1
                      THEN {[rr |-> sent[k], next |-> starts[k + 1],
                             known |-> Before(msg.at, starts[k + 1])]} ELSE {}
    BY <1>1, <1>3, <1>5, <2>1, TurnIs
  <2> QED BY <2>2
<1>7. sent[k] \in Written /\ got \in Seq(Written)
  BY <1>5, <1>6 DEF IInv
<1>8. /\ got' \in Seq(Written) /\ Len(got') = g + 1 /\ got'[g + 1] = sent[k]
      /\ \A i \in 1..g : got'[i] = got[i]
  BY <1>2, <1>4, <1>6, <1>7
<1>9. \A i \in 1..(g + 1) : got'[i] = sent[i]
  <2>1. \A i \in 1..g : got[i] = sent[i]
    BY <1>1, <1>4 DEF IInv, ReadSoFar
  <2>2. \A i \in 1..(g + 1) : i = g + 1 \/ i \in 1..g
    OBVIOUS
  <2> QED BY <1>8, <2>1, <2>2
<1>10. ReadSoFar'
  <2>1. Counted /\ ReadSoFar
    BY <1>1 DEF IInv
  <2>2. PICK c1 \in Nat, c2 \in Nat, c3 \in Nat : c1 = count[1] /\ c2 = count[2] /\ c3 = count[3]
    BY <2>1 DEF Counted, Sections
  <2>3. PICK l1 \in Nat, l2 \in Nat, l3 \in Nat : l1 = left[1] /\ l2 = left[2] /\ l3 = left[3]
    BY <2>1 DEF ReadSoFar, Sections
  <2>4. /\ l1 <= c1 /\ l2 <= c2 /\ l3 <= c3 /\ g + l1 + l2 + l3 = n
        /\ l2 < c2 => l1 = 0
        /\ l3 < c3 => l1 = 0 /\ l2 = 0
    BY <1>4, <1>5, <2>1, <2>2, <2>3 DEF ReadSoFar, Sections
  <2>5. /\ s = 1 => l1 > 0
        /\ s = 2 => l1 = 0 /\ l2 > 0
        /\ s = 3 => l1 = 0 /\ l2 = 0 /\ l3 > 0
    BY <1>1, <2>3 DEF Reading
  <2>6. left \in [1..3 -> Nat] /\ s \in 1..3
    BY <2>1 DEF ReadSoFar, Sections
  <2>7. /\ left' \in [1..3 -> Int]
        /\ left'[1] = IF s = 1 THEN l1 - 1 ELSE l1
        /\ left'[2] = IF s = 2 THEN l2 - 1 ELSE l2
        /\ left'[3] = IF s = 3 THEN l3 - 1 ELSE l3
    BY <1>1, <2>3, <2>6
  <2>8. /\ left'[1] \in Nat /\ left'[2] \in Nat /\ left'[3] \in Nat
        /\ left'[1] <= c1 /\ left'[2] <= c2 /\ left'[3] <= c3
        /\ (g + 1) + left'[1] + left'[2] + left'[3] = n
        /\ left'[2] < c2 => left'[1] = 0
        /\ left'[3] < c3 => left'[1] = 0 /\ left'[2] = 0
    BY <2>4, <2>5, <2>6, <2>7
  <2>9. left' \in [1..3 -> Nat]
    <3>1. \A i \in 1..3 : left'[i] \in Nat
      <4>1. \A i \in 1..3 : i = 1 \/ i = 2 \/ i = 3
        OBVIOUS
      <4> QED BY <2>8, <4>1
    <3> QED BY <2>7, <3>1
  <2>10. \A i \in 1..3 : left'[i] <= count[i]
    <3>1. \A i \in 1..3 : i = 1 \/ i = 2 \/ i = 3
      OBVIOUS
    <3> QED BY <2>2, <2>8, <3>1
  <2>11. g + 1 <= n
    BY <1>6
  <2> QED BY <1>1, <1>5, <1>8, <1>9, <2>2, <2>8, <2>9, <2>10, <2>11 DEF ReadSoFar, Sections
<1>11. Reads(b, starts)'
  <2>1. Layout(b, msg.at, starts)'
    BY <1>1, <1>3 DEF Reads, Layout
  <2>2. pos' = starts[Len(got') + 1]
    BY <1>2, <1>6, <1>8
  <2> QED BY <1>1, <1>3, <2>1, <2>2 DEF Reads
<1>12. Counted'
  BY <1>1 DEF IInv, Counted
<1>13. known' = Before(msg.at, pos')
  BY <1>2, <1>6
<1> QED BY <1>1, <1>8, <1>10, <1>11, <1>12, <1>13 DEF IInv

LEMMA FailKeeps ==
  ASSUME IInv, Fail
  PROVE  IInv'
<1>1. /\ phase' = "failed" /\ msg' = msg /\ count' = count /\ sent' = sent /\ cut' = cut
      /\ pos' = pos /\ known' = known /\ left' = left /\ got' = got
  BY DEF Fail, readVars
<1>2. phase \in {"question", "records"}
  BY DEF Fail
<1>3. PICK b, starts : Reads(b, starts)
  BY <1>2 DEF IInv
<1>4. PICK l \in Nat : l = Len(msg.buf)
  BY DEF IInv
<1>5. PICK h \in Nat : h = Len(b)
  BY <1>3 DEF Reads
<1>6. l <= h /\ (cut <=> l < h)
  BY <1>3, <1>4, <1>5 DEF Reads
<1>7. ASSUME ~ cut PROVE FALSE
  <2>1. l = h
    BY <1>6, <1>7
  <2>2. CASE phase = "question" /\ \A o \in getName(pos, known) : o.next > Len(msg.buf)
    <3>1. /\ starts[1] \in Nat /\ starts[1] - 1 \in Nat /\ starts[1] <= h + 1
          /\ \E name \in Names :
               getName(pos, known) =
                 IF starts[1] - 1 <= l + 1
                 THEN {[name |-> name, next |-> starts[1] - 1,
                        known |-> Before(msg.at, starts[1] - 1)]} ELSE {}
      BY <1>3, <1>4, <1>5, <2>2, QuestionIs
    <3>2. starts[1] - 1 <= l /\ starts[1] - 1 <= l + 1 /\ ~ (starts[1] - 1 > l)
      BY <2>1, <3>1
    <3>3. PICK name \in Names :
            getName(pos, known) = {[name |-> name, next |-> starts[1] - 1,
                                    known |-> Before(msg.at, starts[1] - 1)]}
      BY <3>1, <3>2
    <3>4. [name |-> name, next |-> starts[1] - 1, known |-> Before(msg.at, starts[1] - 1)].next
            > Len(msg.buf)
      BY <2>2, <3>3
    <3> QED BY <1>4, <3>2, <3>4
  <2>3. CASE phase = "records" /\ \E s \in Sections : Reading(s) /\ getRR(s) = {}
    <3>1. PICK s \in Sections : Reading(s) /\ getRR(s) = {}
      BY <2>3
    <3>2. PICK k : k = Len(got) + 1
      OBVIOUS
    <3>3. /\ starts[k + 1] \in 1..(h + 1)
          /\ getRR(s) = IF starts[k + 1] <= l + 1
                        THEN {[rr |-> sent[k], next |-> starts[k + 1],
                               known |-> Before(msg.at, starts[k + 1])]} ELSE {}
      BY <1>3, <1>4, <1>5, <2>3, <3>1, <3>2, TurnIs
    <3>4. starts[k + 1] <= l + 1
      BY <2>1, <3>3
    <3>5. getRR(s) # {}
      BY <3>3, <3>4
    <3> QED BY <3>1, <3>5
  <2> QED BY <2>2, <2>3 DEF Fail
<1>8. Reads(b, starts)'
  <2>1. Layout(b, msg.at, starts)'
    BY <1>1, <1>3 DEF Reads, Layout
  <2> QED BY <1>1, <1>3, <2>1 DEF Reads
<1>9. Counted' /\ ReadSoFar'
  BY <1>1, <1>2 DEF IInv, Counted, ReadSoFar
<1> QED BY <1>1, <1>7, <1>8, <1>9 DEF IInv

LEMMA FinishKeeps ==
  ASSUME IInv, Finish
  PROVE  IInv'
<1>1. /\ phase = "records" /\ phase' = "done" /\ msg' = msg /\ count' = count /\ sent' = sent
      /\ cut' = cut /\ pos' = pos /\ known' = known /\ left' = left /\ got' = got
      /\ \A s \in Sections : left[s] = 0
  BY DEF Finish, readVars
<1>2. PICK b, starts : Reads(b, starts)
  BY <1>1 DEF IInv
<1>3. Reads(b, starts)'
  <2>1. Layout(b, msg.at, starts)'
    BY <1>1, <1>2 DEF Reads, Layout
  <2> QED BY <1>1, <1>2, <2>1 DEF Reads
<1>4. Counted' /\ ReadSoFar'
  BY <1>1 DEF IInv, Counted, ReadSoFar
<1> QED BY <1>1, <1>3, <1>4 DEF IInv

LEMMA IInvNext ==
  ASSUME Parseable, IInv, [Next]_vars
  PROVE  IInv'
<1>1. CASE addQuestion
  BY <1>1, AddQuestionKeeps
<1>2. CASE Receive
  BY <1>2, ReceiveKeeps
<1>3. CASE getQuestion
  BY <1>3, GetQuestionKeeps
<1>4. CASE Fail
  BY <1>4, FailKeeps
<1>5. CASE Finish
  BY <1>5, FinishKeeps
<1>6. ASSUME NEW rr \in Written, addResourceRecord(rr) PROVE IInv'
  BY <1>6, AddResourceRecordKeeps
<1>7. ASSUME NEW s \in Sections, ReadRecord(s) PROVE IInv'
  BY <1>7, ReadRecordKeeps
<1>8. CASE UNCHANGED vars
  <2>1. /\ writer' = writer /\ phase' = phase /\ msg' = msg /\ count' = count /\ sent' = sent
        /\ cut' = cut /\ pos' = pos /\ known' = known /\ left' = left /\ got' = got
    BY <1>8 DEF vars
  <2>2. Counted' <=> Counted
    BY <2>1 DEF Counted
  <2>3. ReadSoFar' <=> ReadSoFar
    BY <2>1 DEF ReadSoFar
  <2>4. Places(msg)' <=> Places(msg)
    BY <2>1 DEF Places
  <2>5. ASSUME phase # "empty" PROVE (\E b, starts : Reads(b, starts))'
    <3>1. PICK b, starts : Reads(b, starts)
      BY <2>5 DEF IInv
    <3>2. Reads(b, starts)'
      BY <2>1, <3>1 DEF Reads, Layout
    <3> QED BY <3>2
  <2> QED BY <2>1, <2>2, <2>3, <2>4, <2>5 DEF IInv
<1> QED BY <1>1, <1>2, <1>3, <1>4, <1>5, <1>6, <1>7, <1>8 DEF Next

\* What is in the cache is a part of what was sent.
LEMMA PrefixRead ==
  ASSUME IInv, NEW n \in Nat, n = Len(sent), NEW g \in Nat, g = Len(got)
  PROVE  g <= n /\ \A i \in 1..g : got[i] = sent[i]
<1>1. CASE phase \in {"empty", "write"}
  <2>1. got = <<>>
    BY <1>1 DEF IInv
  <2>2. g = 0
    BY <2>1
  <2> QED BY <2>2
<1>2. CASE phase \notin {"empty", "write"}
  BY <1>2 DEF IInv, ReadSoFar
<1> QED BY <1>1, <1>2

LEMMA IInvHolds == Spec => [](Parseable => IInv)
<1>1. Init => (Parseable => IInv)
  BY IInvInit
<1>2. ASSUME Parseable => IInv, [Next]_vars
      PROVE  (Parseable => IInv)'
  <2>1. writer' = writer
    BY <1>2 DEF Next, vars, addQuestion, addResourceRecord, Receive, getQuestion, ReadRecord,
                Fail, Finish
  <2>2. Parseable' => Parseable
    BY <2>1 DEF Parseable
  <2>3. ASSUME Parseable' PROVE IInv'
    BY <1>2, <2>2, <2>3, IInvNext
  <2> QED BY <2>3
<1> QED BY <1>1, <1>2, PTL DEF Spec

\* The cache gets what was sent, record by record: whatever the names, the types, the number
\* of records, the compression and the place where the message is cut
\* (DNSMessage.java:188-217, 403-431).
THEOREM Faithful == Spec => [](Parseable => CacheGetsWhatWasSent)
<1>1. ASSUME IInv PROVE CacheGetsWhatWasSent
  <2>1. sent \in Seq(Written) /\ got \in Seq(Written)
    BY <1>1 DEF IInv
  <2>2. PICK n \in Nat : n = Len(sent)
    BY <2>1
  <2>3. PICK g \in Nat : g = Len(got)
    BY <2>1
  <2>4. g <= n /\ \A i \in 1..g : got[i] = sent[i]
    BY <1>1, <2>2, <2>3, PrefixRead
  <2> QED BY <2>1, <2>2, <2>3, <2>4 DEF CacheGetsWhatWasSent, IsPrefix
<1> QED BY <1>1, IInvHolds, PTL

\* ... and all of it, unless the message is cut: the reader neither throws nor stops early.
THEOREM Complete == Spec => [](Parseable => AllIsRead)
<1>1. ASSUME IInv PROVE AllIsRead
  <2>1. sent \in Seq(Written) /\ got \in Seq(Written) /\ (phase = "failed" => cut)
    BY <1>1 DEF IInv
  <2>2. ASSUME phase = "done" PROVE got = sent
    <3>1. ReadSoFar /\ \A s \in Sections : left[s] = 0
      BY <1>1, <2>2 DEF IInv
    <3>2. PICK n \in Nat : n = Len(sent)
      BY <2>1
    <3>3. PICK g \in Nat : g = Len(got)
      BY <2>1
    <3>4. g = n /\ \A i \in 1..g : got[i] = sent[i]
      <4>1. left[1] = 0 /\ left[2] = 0 /\ left[3] = 0
        BY <3>1 DEF Sections
      <4> QED BY <3>1, <3>2, <3>3, <4>1 DEF ReadSoFar
    <3>5. Len(got) = Len(sent) /\ \A i \in 1..Len(sent) : got[i] = sent[i]
      BY <3>2, <3>3, <3>4
    <3> QED BY <2>1, <3>5
  <2> QED BY <2>1, <2>2 DEF AllIsRead
<1> QED BY <1>1, IInvHolds, PTL

\* "keep track of all the positions in the message that contain names, since they can be the
\* target of a pointer" (DNSMessage.java:192-193) holds of these messages: what refutes it is
\* only a pointer into data that is kept raw.
THEOREM Followable == Spec => [](Parseable => PointersFollowed)
<1>1. ASSUME IInv PROVE PointersFollowed
  <2>1. phase = "failed" => cut
    BY <1>1 DEF IInv
  <2>2. ASSUME NEW i \in DOMAIN got PROVE Null \notin {got[i].owner, got[i].data}
    <3>1. got[i] \in Written
      BY <1>1 DEF IInv
    <3>2. got[i].owner \in Seq(Nat) /\ got[i].data \in Seq(Nat)
      BY <3>1, RecordIs
    <3> QED BY <3>2, NotNull
  <2> QED BY <2>1, <2>2 DEF PointersFollowed
<1> QED BY <1>1, IInvHolds, PTL
=============================================================================
