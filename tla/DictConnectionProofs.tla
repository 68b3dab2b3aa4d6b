------------------------ MODULE DictConnectionProofs ------------------------
(***************************************************************************)
(* DictConnection implements RequestReply, for all texts and any number of *)
(* definitions, with a server that says what the methods expect.           *)
(***************************************************************************)
EXTENDS DictConnection, TLAPS

\* Two atoms where two are read, and SHOW INFO refused with the one status that is tested.
Expected == Atoms = {2} /\ InfoErrors = {550}

-----------------------------------------------------------------------------
(* The invariant: a method and the answer that it reads are in step.       *)

Lists == Seq(SUBSET Texts)

\* The first n lists are collected as the server has them.
Collected(n) == \A i \in 1..n : got[i] = reply[i]

\* As many lists as have begun are collected, and what is missing of the last one the
\* server has still to say.
InStep(a) ==
  /\ a = Answer(call, reply, pc, Len(got), a.texts)
  /\ got \in Lists
  /\ pc = "status" => got = <<>> /\ left = 0
  /\ pc # "status" => /\ reply # Refused /\ Len(got) <= Len(reply)
                      /\ left = Len(reply) - Len(got)
  /\ pc = "definition" => call = "DEFINE" /\ left > 0 /\ Collected(Len(got))
  /\ pc = "text" => /\ Len(got) > 0 /\ Collected(Len(got) - 1) /\ a.texts \subseteq Texts
                    /\ got[Len(got)] \cup a.texts = reply[Len(got)]
  /\ pc = "final" => left = 0 /\ Collected(Len(got))

\* Between calls nothing is left to read; in a call the answer is, or the connection is down.
IInv ==
  /\ pc \in {"welcome", "refused", "idle"} \cup InCall
  /\ pc \in InCall => /\ call \in Commands /\ reply \in Contents(call) \cup {Refused}
                      /\ (due = <<>> /\ ~ up) \/ \E a : due = <<a>> /\ InStep(a)
  /\ pc \notin InCall => call = NoCall /\ left = 0
  /\ pc = "idle" => due = <<>>
  /\ pc = "welcome" => due \in {<<>>, <<Welcome>>}

\* What a step does as seen by the caller.
Visible == Server!Next \/ UNCHANGED <<call, reply, result, up>>

-----------------------------------------------------------------------------
\* A sequence of one list.
LEMMA OneList ==
    ASSUME NEW s \in SUBSET Texts
    PROVE  <<s>> \in Lists /\ Len(<<s>>) = 1 /\ <<s>> # <<>>
BY DEF Lists

\* What a server says is a sequence of lists, and of one at most but for definitions.
LEMMA ContentIs ==
    ASSUME NEW c \in Commands, NEW content \in Contents(c)
    PROVE  /\ content # Refused /\ content \in Lists
           /\ c # "DEFINE" => content = <<>> \/ Len(content) = 1
           /\ c = "SHOW_INFO" => content # <<>>
<1>1. content # Refused
    BY DictAssumption
<1>2. CASE c = "DEFINE"
    <2>1. PICK n \in 0..MaxDefs : content \in [1..n -> SUBSET Texts]
        BY <1>2 DEF Contents
    <2>2. n \in Nat
        BY DictAssumption
    <2>3. content \in Lists
        BY <2>1, <2>2 DEF Lists
    <2>4. QED BY <1>1, <1>2, <2>3
<1>3. CASE c = "SHOW_INFO"
    <2>1. PICK s \in SUBSET Texts : content = <<s>>
        BY <1>3 DEF Contents
    <2>2. content \in Lists /\ Len(content) = 1 /\ content # <<>>
        BY <2>1, OneList
    <2>3. QED BY <1>1, <1>3, <2>2
<1>4. CASE c \notin {"DEFINE", "SHOW_INFO"}
    <2>1. content = <<>> \/ \E s \in SUBSET Texts : content = <<s>>
        BY <1>4 DEF Contents
    <2>2. <<>> \in Lists
        BY DEF Lists
    <2>3. content \in Lists /\ (content = <<>> \/ Len(content) = 1)
        BY <2>1, <2>2, OneList
    <2>4. QED BY <1>1, <1>4, <2>3
<1>5. QED BY <1>2, <1>3, <1>4

\* A sequence of one element, and what follows it.
LEMMA OneAnswer ==
    ASSUME NEW a, NEW s, s = <<a>>
    PROVE  s # <<>> /\ Head(s) = a /\ Tail(s) = <<>>
OBVIOUS

\* Sequences of the same length that agree everywhere are the same.
LEMMA SameLists ==
    ASSUME NEW s \in Lists, NEW t \in Lists, Len(s) = Len(t), \A i \in 1..Len(s) : s[i] = t[i]
    PROVE  s = t
BY DEF Lists

\* A further list, with nothing in it yet.
LEMMA NewList ==
    ASSUME NEW s \in Lists
    PROVE  /\ Append(s, {}) \in Lists /\ Len(Append(s, {})) = Len(s) + 1
           /\ \A i \in 1..Len(s) : Append(s, {})[i] = s[i]
           /\ Append(s, {})[Len(s) + 1] = {}
BY DEF Lists

\* The numbers of texts are numbers.
LEMMA LenIsNat ==
    ASSUME NEW s \in Lists
    PROVE  \E n \in Nat : Len(s) = n
BY DEF Lists

\* What the steps of an answer make of it.
LEMMA Goes ==
    ASSUME NEW c, NEW r, NEW p, NEW n, NEW t, NEW q, NEW a, a = Answer(c, r, p, n, t)
    PROVE  /\ Begun(a) = Answer(c, r, "text", n + 1, r[n + 1])
           /\ [a EXCEPT !.at = q] = Answer(c, r, q, n, t)
           /\ a.call = c /\ a.content = r /\ a.at = p /\ a.n = n /\ a.texts = t
BY DEF Begun, Answer

-----------------------------------------------------------------------------
\* A line that ends the call.
LEMMA Ends ==
    ASSUME IInv, pc \in InCall, NEW value, Return(value), UNCHANGED <<reply, up>>, due' = <<>>,
           (value = reply /\ reply # Refused) \/ (value = Failed /\ (reply = Refused \/ ~ up))
    PROVE  IInv' /\ Visible
<1>1. IInv'
    BY DEF Return, IInv, InCall
<1>2. call # NoCall
    BY DEF IInv, Commands, NoCall
<1>3. Server!Return
    BY <1>2 DEF Return, Server!Return
<1>4. QED BY <1>1, <1>3 DEF Visible, Server!Next

\* A line after which the call goes on.
LEMMA GoesOn ==
    ASSUME IInv, pc \in InCall, UNCHANGED <<call, result, reply, up>>, pc' \in InCall,
           NEW a, due' = <<a>>, InStep(a)'
    PROVE  IInv' /\ Visible
<1>1. IInv'
    BY DEF IInv, InCall
<1>2. QED BY <1>1 DEF Visible

\* The codes that a server may send tell what they mean.
LEMMA Codes ==
    ASSUME NEW c \in Commands
    PROVE  /\ Announcing[c] >= 100 /\ Announcing[c] # 550 /\ Announcing[c] \notin Nothing[c]
           /\ Nothing["SHOW_INFO"] = {}
<1>1. CASE c = "DEFINE"
    BY <1>1 DEF Commands, Announcing, Nothing, Refusals
<1>2. CASE c = "MATCH"
    BY <1>2 DEF Commands, Announcing, Nothing, Refusals
<1>3. CASE c = "SHOW_DB"
    BY <1>3 DEF Commands, Announcing, Nothing, Refusals
<1>4. CASE c = "SHOW_STRAT"
    BY <1>4 DEF Commands, Announcing, Nothing, Refusals
<1>5. CASE c = "SHOW_INFO"
    BY <1>5 DEF Commands, Announcing, Nothing, Refusals, Expected
<1>6. QED BY <1>1, <1>2, <1>3, <1>4, <1>5 DEF Commands

\* A refusal is neither an announcement nor an empty answer.
LEMMA Refuses ==
    ASSUME Expected, NEW c \in Commands, NEW e \in Refusals(c)
    PROVE  e # Announcing[c] /\ e \notin Nothing[c] /\ (c = "SHOW_INFO" => e = 550)
<1>1. CASE c = "SHOW_INFO"
    BY <1>1 DEF Commands, Announcing, Nothing, Refusals, Expected
<1>2. CASE c # "SHOW_INFO"
    <2>1. e = 420
        BY <1>2 DEF Refusals
    <2>2. QED BY <1>2, <2>1 DEF Commands, Announcing, Nothing
<1>3. QED BY <1>1, <1>2

\* The first line of an answer.
LEMMA ReadStatus ==
    ASSUME Expected, IInv, pc = "status", NEW a, due = <<a>>, InStep(a), ReadLine
    PROVE  IInv' /\ Visible
<1>1. /\ pc \in InCall /\ call \in Commands /\ reply \in Contents(call) \cup {Refused}
      /\ UNCHANGED <<reply, up>>
    BY DEF IInv, InCall, ReadLine
<1>2. PICK s \in Says(a) : due' = s.rest \o <<>> /\ Handle(s.line)
    BY OneAnswer DEF ReadLine
<1>3. s \in Opens(a) /\ a.call = call /\ a.content = reply
    BY <1>2 DEF Says, InStep, Answer
<1>4. Begin(s.line) \/ None(s.line) \/ (Unexpected(s.line) /\ ~Announces(s.line)
                                           /\ s.line.code \notin Nothing[call])
    BY <1>2 DEF Handle, Definition, AddText, EndText, Complete, Unexpected
<1>5. CASE reply = Refused
    <2>1. PICK e \in Refusals(call) : s = Said(Status(e), <<>>)
        BY <1>3, <1>5 DEF Opens, Last
    <2>2. s.line.code = e /\ due' = <<>>
        BY <1>2, <2>1 DEF Said, Status, Line
    <2>3. /\ e # Announcing[call] /\ e \notin Nothing[call]
          /\ call = "SHOW_INFO" => e = 550
        BY <1>1, <2>1, Refuses
    <2>4. ~Announces(s.line)
        BY <2>2, <2>3 DEF Announces
    <2>5. Return(Failed)
        BY <1>4, <2>2, <2>3, <2>4 DEF Begin, None, Unexpected
    <2>6. QED BY <1>1, <1>5, <2>2, <2>5, Ends
<1>6. CASE reply # Refused /\ reply = <<>>
    <2>1. PICK e \in Nothing[call] : s = Said(Status(e), <<>>)
        BY <1>3, <1>6 DEF Opens, Last
    <2>2. s.line.code = e /\ due' = <<>>
        BY <1>2, <2>1 DEF Said, Status, Line
    <2>3. call # "SHOW_INFO" /\ ~Announces(s.line)
        BY <1>1, <2>1, <2>2, Codes DEF Announces
    <2>4. Return(<<>>)
        BY <1>4, <2>1, <2>2, <2>3 DEF Begin, None
    <2>5. QED BY <1>1, <1>6, <2>2, <2>4, Ends
<1>7. CASE reply # Refused /\ reply # <<>>
    <2>1. PICK b : /\ s = Said(Line(Announcing[call], 2, Len(reply)), <<b>>)
                   /\ b = IF call = "DEFINE" THEN [a EXCEPT !.at = "definition"] ELSE Begun(a)
        BY <1>3, <1>7 DEF Opens
    <2>2. s.line.code = Announcing[call] /\ s.line.val = Len(reply) /\ due' = <<b>>
        BY <1>2, <2>1 DEF Said, Line
    <2>3. /\ Announcing[call] >= 100 /\ Announcing[call] # 550
          /\ Announcing[call] \notin Nothing[call]
        BY <1>1, Codes
    <2>4. Announces(s.line) /\ s.line.code \notin Nothing[call]
        BY <2>2, <2>3 DEF Announces
    <2>5. Begin(s.line)
        BY <1>4, <2>4 DEF None
    <2>6. PICK n \in Nat \ {0} : Len(reply) = n
        BY <1>1, <1>7, ContentIs, LenIsNat DEF Lists
    <2>7. CASE call = "DEFINE"
        <3>1. a = Answer(call, reply, pc, 0, a.texts) /\ got = <<>>
            BY DEF InStep
        <3>2. b = Answer(call, reply, "definition", 0, a.texts) /\ b.texts = a.texts
            BY <2>1, <2>7, <3>1, Goes
        <3>3. /\ pc' = "definition" /\ got' = <<>> /\ call' = call /\ reply' = reply
              /\ left' = n /\ Len(got') = 0 /\ got' \in Lists
            BY <1>1, <2>2, <2>5, <2>6, <2>7, <3>1 DEF Begin, Lists
        <3>4. InStep(b)'
            BY <1>7, <2>6, <2>7, <3>2, <3>3 DEF InStep, Collected
        <3>5. QED BY <1>1, <2>2, <2>5, <2>7, <3>4, GoesOn DEF Begin, InCall
    <2>8. CASE call # "DEFINE"
        <3>1. n = 1 /\ reply \in Lists
            BY <1>1, <1>7, <2>6, <2>8, ContentIs
        <3>2. reply[1] \subseteq Texts
            BY <2>6, <3>1 DEF Lists
        <3>3. a = Answer(call, reply, pc, 0, a.texts)
            BY DEF InStep
        <3>4. /\ b = Answer(call, reply, "text", 1, reply[1])
              /\ b.texts = reply[1]
            BY <2>1, <2>8, <3>3, Goes
        <3>5. /\ pc' = "text" /\ got' = <<{}>> /\ call' = call /\ reply' = reply
              /\ left' = 0 /\ left = 0
            BY <1>1, <2>5, <2>8 DEF Begin, InStep
        <3>6. /\ got' \in Lists /\ Len(got') = 1 /\ got'[1] = {}
            BY <3>5, OneList
        <3>7. InStep(b)'
            BY <1>7, <2>6, <3>1, <3>2, <3>4, <3>5, <3>6 DEF InStep, Collected
        <3>8. QED BY <1>1, <2>2, <2>5, <2>8, <3>7, GoesOn DEF Begin, InCall
    <2>9. QED BY <2>7, <2>8
<1>8. QED BY <1>5, <1>6, <1>7

\* The line before the texts of a definition.
LEMMA ReadDefinition ==
    ASSUME Expected, IInv, pc = "definition", NEW a, due = <<a>>, InStep(a), ReadLine
    PROVE  IInv' /\ Visible
<1>1. /\ pc \in InCall /\ call \in Commands /\ reply \in Contents(call) \cup {Refused}
      /\ UNCHANGED <<reply, up>>
    BY DEF IInv, InCall, ReadLine
<1>2. PICK s \in Says(a) : due' = s.rest \o <<>> /\ Handle(s.line)
    BY OneAnswer DEF ReadLine
<1>3. s = Said(Line(151, 2, 0), <<Begun(a)>>)
    BY <1>2 DEF Says, InStep, Answer, Expected
<1>4. s.line.code = 151 /\ s.line.atoms = 2 /\ due' = <<Begun(a)>>
    BY <1>2, <1>3 DEF Said, Line
<1>5. Definition(s.line)
    BY <1>2, <1>4 DEF Handle, Begin, None, AddText, EndText, Complete, Unexpected
<1>6. reply \in Lists /\ got \in Lists
    BY <1>1, ContentIs DEF InStep
<1>7. PICK n \in Nat : Len(reply) = n
    BY <1>6, LenIsNat
<1>8. PICK m \in Nat : Len(got) = m
    BY <1>6, LenIsNat
<1>9. left = n - m /\ m < n /\ reply # Refused /\ \A i \in 1..m : got[i] = reply[i]
    BY <1>7, <1>8 DEF InStep, Collected
<1>10. a = Answer(call, reply, "definition", m, a.texts)
    BY <1>8 DEF InStep
<1>11. /\ Begun(a) = Answer(call, reply, "text", m + 1, reply[m + 1])
       /\ Begun(a).texts = reply[m + 1]
    BY <1>10, Goes
<1>12. reply[m + 1] \subseteq Texts
    BY <1>6, <1>7, <1>9 DEF Lists
<1>13. /\ pc' = "text" /\ got' = Append(got, {}) /\ left' = n - m - 1
       /\ UNCHANGED <<call, result, reply>>
    BY <1>1, <1>5, <1>9 DEF Definition
<1>14. /\ got' \in Lists /\ Len(got') = m + 1 /\ got'[m + 1] = {}
       /\ \A i \in 1..m : got'[i] = reply[i]
    BY <1>6, <1>8, <1>9, <1>13, NewList
<1>15. InStep(Begun(a))'
    <2>1. Len(got') - 1 = m /\ Len(got') > 0
        BY <1>14
    <2>2. Len(reply') = n /\ m + 1 <= n /\ left' = n - (m + 1)
        BY <1>7, <1>9, <1>13
    <2>3. QED BY <1>9, <1>11, <1>12, <1>13, <1>14, <2>1, <2>2 DEF InStep, Collected
<1>16. QED BY <1>1, <1>4, <1>13, <1>15, GoesOn DEF InCall

\* A line of text, or the one that ends it.
LEMMA ReadText ==
    ASSUME Expected, IInv, pc = "text", NEW a, due = <<a>>, InStep(a), ReadLine
    PROVE  IInv' /\ Visible
<1>1. /\ pc \in InCall /\ call \in Commands /\ reply \in Contents(call) \cup {Refused}
      /\ UNCHANGED <<reply, up>>
    BY DEF IInv, InCall, ReadLine
<1>2. PICK s \in Says(a) : due' = s.rest \o <<>> /\ Handle(s.line)
    BY OneAnswer DEF ReadLine
<1>3. reply \in Lists /\ got \in Lists
    BY <1>1, ContentIs DEF InStep
<1>4. PICK n \in Nat : Len(reply) = n
    BY <1>3, LenIsNat
<1>5. PICK m \in Nat : Len(got) = m
    BY <1>3, LenIsNat
<1>6. /\ left = n - m /\ 0 < m /\ m <= n /\ reply # Refused
      /\ \A i \in 1..(m - 1) : got[i] = reply[i]
      /\ a.texts \subseteq Texts /\ got[m] \cup a.texts = reply[m]
    BY <1>4, <1>5 DEF InStep, Collected
<1>7. a = Answer(call, reply, "text", m, a.texts)
    BY <1>5 DEF InStep
<1>8. a.at = "text" /\ a.n = m /\ a.content = reply
    BY <1>7, Goes
<1>9. CASE a.texts # {}
    <2>1. PICK v \in a.texts :
            s = Said(Line(TextCode, 2, v), <<[a EXCEPT !.texts = a.texts \ {v}]>>)
        BY <1>2, <1>9, <1>8 DEF Says, Expected
    <2>2. PICK b : b = Answer(call, reply, "text", m, a.texts \ {v})
        OBVIOUS
    <2>3. [a EXCEPT !.texts = a.texts \ {v}] = b
        BY <1>7, <2>2 DEF Answer
    <2>4. b.texts = a.texts \ {v}
        BY <2>2 DEF Answer
    <2>5. s = Said(Line(TextCode, 2, v), <<b>>) /\ b.texts = a.texts \ {v}
        BY <2>1, <2>3, <2>4
    <2>6. s.line.code = TextCode /\ s.line.atoms = 2 /\ s.line.val = v /\ due' = <<b>>
        BY <1>2, <2>5 DEF Said, Line
    <2>7. AddText(s.line)
        BY <1>2, <2>6 DEF Handle, Begin, None, Definition, EndText, Complete, Unexpected,
                          TextCode, DotCode
    <2>8. /\ pc' = "text" /\ left' = n - m /\ UNCHANGED <<call, result, reply>>
          /\ got' = [got EXCEPT ![Len(got)] = @ \cup {v}]
        BY <1>1, <1>6, <2>6, <2>7 DEF AddText
    <2>9. v \in Texts /\ Len(got) > 0
        BY <1>5, <1>6
    <2>10. /\ got' \in Lists /\ Len(got') = Len(got)
           /\ got'[Len(got)] = got[Len(got)] \cup {v}
           /\ \A i \in 1..(Len(got) - 1) : got'[i] = got[i]
        BY <1>3, <2>8, <2>9 DEF Lists
    <2>11. /\ got' \in Lists /\ Len(got') = m /\ got'[m] = got[m] \cup {v}
          /\ \A i \in 1..(m - 1) : got'[i] = reply[i]
        BY <1>5, <1>6, <2>10
    <2>12. got'[m] \cup b.texts = reply[m]
        BY <1>6, <2>5, <2>11
    <2>13. InStep(b)'
        <3>1. Len(reply') = n /\ Len(got') > 0 /\ Len(got') - 1 = m - 1
            BY <1>4, <1>6, <2>8, <2>11
        <3>2. b.texts \subseteq Texts /\ reply' = reply /\ call' = call
            BY <1>6, <2>5, <2>8
        <3>3. b = Answer(call', reply', pc', Len(got'), b.texts)
            BY <2>2, <2>5, <2>8, <2>11, <3>2
        <3>4. QED BY <1>6, <2>8, <2>11, <2>12, <3>1, <3>2, <3>3 DEF InStep, Collected
    <2>14. QED BY <1>1, <2>6, <2>8, <2>13, GoesOn DEF InCall
<1>10. CASE a.texts = {}
    <2>1. PICK q : q = IF m < n THEN "definition" ELSE "final"
        OBVIOUS
    <2>2. s = Said(Line(DotCode, 1, 0), <<[a EXCEPT !.at = q]>>)
        BY <1>2, <1>4, <1>10, <1>8, <2>1 DEF Says
    <2>3. PICK b : b = Answer(call, reply, q, m, {})
        OBVIOUS
    <2>4. s = Said(Line(DotCode, 1, 0), <<b>>)
        BY <1>7, <1>10, <2>2, <2>3, Goes
    <2>5. s.line.code = DotCode /\ due' = <<b>>
        BY <1>2, <2>4 DEF Said, Line
    <2>6. EndText(s.line)
        BY <1>2, <2>5 DEF Handle, Begin, None, Definition, AddText, Complete, Unexpected
    <2>7. pc' = q /\ UNCHANGED <<call, left, got, result, reply>>
        BY <1>1, <1>6, <2>1, <2>6 DEF EndText
    <2>8. \A i \in 1..m : got[i] = reply[i]
        BY <1>6, <1>10
    <2>9. m < n => call = "DEFINE"
        <3>1. reply = <<>> => n = 0
            BY <1>4
        <3>2. call # "DEFINE" => reply = <<>> \/ n = 1
            BY <1>1, <1>4, <1>6, ContentIs
        <3>3. QED BY <1>6, <3>1, <3>2
    <2>10. InStep(b)'
        <3>1. /\ Len(reply') = n /\ Len(got') = m /\ left' = n - m /\ m <= n
              /\ got' \in Lists /\ reply' # Refused /\ b.texts = {}
            BY <1>3, <1>4, <1>5, <1>6, <2>3, <2>7 DEF Answer
        <3>2. b = Answer(call', reply', pc', Len(got'), b.texts)
            BY <2>3, <2>7, <3>1
        <3>3. CASE m < n
            BY <2>1, <2>7, <2>8, <2>9, <3>1, <3>3, <3>2 DEF InStep, Collected
        <3>4. CASE m = n
            BY <2>1, <2>7, <2>8, <3>1, <3>4, <3>2 DEF InStep, Collected
        <3>5. QED BY <1>6, <3>3, <3>4
    <2>11. QED BY <1>1, <2>1, <2>5, <2>7, <2>10, GoesOn DEF InCall
<1>11. QED BY <1>9, <1>10

\* The status after the texts.
LEMMA ReadFinal ==
    ASSUME Expected, IInv, pc = "final", NEW a, due = <<a>>, InStep(a), ReadLine
    PROVE  IInv' /\ Visible
<1>1. /\ pc \in InCall /\ call \in Commands /\ reply \in Contents(call) \cup {Refused}
      /\ UNCHANGED <<reply, up>>
    BY DEF IInv, InCall, ReadLine
<1>2. PICK s \in Says(a) : due' = s.rest \o <<>> /\ Handle(s.line)
    BY OneAnswer DEF ReadLine
<1>3. s = Said(Status(250), <<>>)
    BY <1>2 DEF Says, InStep, Answer, Last
<1>4. s.line.code = 250 /\ due' = <<>>
    BY <1>2, <1>3 DEF Said, Status, Line
<1>5. Complete(s.line)
    BY <1>2, <1>4 DEF Handle, Begin, None, AddText, EndText, Definition, Unexpected
<1>6. reply \in Lists /\ got \in Lists /\ reply # Refused
    BY <1>1, ContentIs DEF InStep
<1>7. PICK n \in Nat : Len(reply) = n
    BY <1>6, LenIsNat
<1>8. PICK m \in Nat : Len(got) = m
    BY <1>6, LenIsNat
<1>9. n = m
    BY <1>7, <1>8 DEF InStep
<1>10. \A i \in 1..m : got[i] = reply[i]
    BY <1>8 DEF InStep, Collected
<1>11. got = reply
    BY <1>6, <1>7, <1>8, <1>9, <1>10, SameLists
<1>12. QED BY <1>1, <1>4, <1>5, <1>6, <1>11, Ends DEF Complete

\* A line of the answer to the command in progress.
LEMMA LineIsRead ==
    ASSUME Expected, IInv, ReadLine
    PROVE  IInv' /\ Visible
<1>1. pc \in InCall /\ due # <<>>
    BY DEF ReadLine
<1>2. PICK a : due = <<a>> /\ InStep(a)
    BY <1>1 DEF IInv
<1>3. QED BY <1>1, <1>2, ReadStatus, ReadDefinition, ReadText, ReadFinal DEF InCall

-----------------------------------------------------------------------------
\* A command is sent when nothing of an earlier answer is left.
LEMMA CommandIsSent ==
    ASSUME IInv, NEW c \in Commands, Send(c)
    PROVE  IInv' /\ Visible
<1>1. PICK content \in Contents(c) \cup {Refused} :
        /\ pc = "idle" /\ pc' = "status" /\ call' = c /\ got' = <<>>
        /\ reply' = content
        /\ due' = IF up THEN Append(due, Answer(c, content, "status", 0, {})) ELSE due
        /\ UNCHANGED <<left, result, up>>
    BY DEF Send
<1>2. call = NoCall /\ left = 0 /\ due = <<>>
    BY <1>1 DEF IInv, InCall
<1>3. CASE up
    <2>1. PICK a : a = Answer(c, content, "status", 0, {})
        OBVIOUS
    <2>2. due' = <<a>>
        BY <1>1, <1>2, <1>3, <2>1
    <2>3. InStep(a)'
        <3>1. a.texts = {} /\ got' \in Lists /\ Len(got') = 0
            BY <1>1, <2>1 DEF Answer, Lists
        <3>2. QED BY <1>1, <1>2, <2>1, <3>1 DEF InStep
    <2>4. IInv'
        BY <1>1, <2>2, <2>3 DEF IInv, InCall
    <2>5. QED BY <1>1, <1>2, <2>4 DEF Visible, Server!Next, Server!Ask
<1>4. CASE ~ up
    <2>1. IInv'
        BY <1>1, <1>2, <1>4 DEF IInv, InCall
    <2>2. QED BY <1>1, <1>2, <2>1 DEF Visible, Server!Next, Server!Ask
<1>5. QED BY <1>3, <1>4

\* A call is in step with its answer as long as nothing that it reads changes.
LEMMA StaysInStep ==
    ASSUME UNCHANGED <<pc, call, left, got, reply>>, NEW a, InStep(a)
    PROVE  InStep(a)'
BY DEF InStep, Collected

\* The steps that return, lose or end something without a line being read.
LEMMA OthersStep ==
    ASSUME IInv, DictionaryConnection \/ close \/ Interrupt \/ Lose \/ ReadEnd
    PROVE  IInv' /\ Visible
<1>1. CASE DictionaryConnection
    <2>1. CASE due # <<>>
        <3>1. due = <<Welcome>>
            BY <1>1, <2>1 DEF IInv, DictionaryConnection
        <3>2. PICK s \in Says(Welcome) : due' = s.rest \o <<>>
            BY <1>1, <3>1, OneAnswer DEF DictionaryConnection
        <3>3. s.rest = <<>>
            BY <3>2 DEF Says, Welcome, Answer, Last, Said
        <3>4. due' = <<>>
            BY <3>2, <3>3
        <3>5. pc = "welcome" /\ pc' \in {"refused", "idle"}
              /\ UNCHANGED <<call, left, got, result, reply, up>>
            BY <1>1, <2>1 DEF DictionaryConnection
        <3>6. QED BY <3>4, <3>5 DEF IInv, InCall, Visible
    <2>2. CASE due = <<>>
        BY <1>1, <2>2 DEF DictionaryConnection, IInv, InCall, Visible
    <2>3. QED BY <2>1, <2>2
<1>2. CASE close
    BY <1>2 DEF close, IInv, InCall, Visible, Server!Next, Server!Interrupt
<1>3. CASE Interrupt
    <2>1. IInv'
        BY <1>3, StaysInStep DEF Interrupt, IInv, InCall
    <2>2. QED BY <1>3, <2>1 DEF Interrupt, Visible, Server!Next, Server!Interrupt
<1>4. CASE Lose
    BY <1>4 DEF Lose, IInv, InCall, Visible
<1>5. CASE ReadEnd
    <2>1. pc \in InCall /\ Return(Failed) /\ due' = <<>> /\ ~ up /\ UNCHANGED <<reply, up>>
        BY <1>5 DEF ReadEnd
    <2>2. QED BY <2>1, Ends
<1>6. QED BY <1>1, <1>2, <1>3, <1>4, <1>5

-----------------------------------------------------------------------------
\* It holds throughout, and every step is one of the abstract specification or none.
LEMMA EveryStep ==
    ASSUME Expected, IInv, [Next]_vars
    PROVE  IInv' /\ Visible
<1>1. CASE UNCHANGED vars
    <2>1. IInv'
        BY <1>1, StaysInStep DEF vars, IInv, InCall
    <2>2. QED BY <1>1, <2>1 DEF vars, Visible
<1>2. CASE Next
    BY <1>2, LineIsRead, CommandIsSent, OthersStep DEF Next
<1>3. QED BY <1>1, <1>2

\* A method returns what the server had to say to its own command, or fails when it refused
\* or the connection is down: nothing of an earlier answer is read as the answer to a later
\* command (DictionaryConnection.java:81-82, 133-134, 168-169, 201-202, 231-232).
THEOREM ImplementsRequestReply == ASSUME Expected PROVE Spec => RequestReplySpec
<1>1. Init => IInv /\ Server!Init
    BY DEF Init, IInv, InCall, Server!Init
<1>2. IInv /\ [Next]_vars => IInv' /\ [Server!Next]_<<call, reply, result, up>>
    BY EveryStep DEF Visible
<1>3. QED BY <1>1, <1>2, PTL DEF Spec, RequestReplySpec, Server!Spec
=============================================================================
