--------------------------- MODULE DictConnection ---------------------------
(***************************************************************************)
(* One connection to a DICT server (assignment 1,                          *)
(* net/DictionaryConnection.java).  Its methods are synchronized: one runs *)
(* at a time, whichever thread calls it.  Each sends a command and reads   *)
(* the reply line by line; the order of its texts is left out, as in the   *)
(* sets and maps that are returned, and so is getDatabaseInfo of "*" and   *)
(* "!", which sends nothing.                                               *)
(***************************************************************************)
EXTENDS Naturals, Sequences

CONSTANTS
  Texts,        \* what a line of text says
  MaxDefs,      \* definitions of a word
  Atoms,        \* how many atoms lines of text have that need two: 2, and 1 or not
  InfoErrors,   \* with what codes a server refuses SHOW INFO
  Refused,      \* a server's answer that it will not say anything
  Failed        \* a DictConnectionException

Commands == {"DEFINE", "MATCH", "SHOW_DB", "SHOW_STRAT", "SHOW_INFO"}
NoCall == "none"

\* A line: its status code, or one of these; how many atoms follow, and what they say.
TextCode == 0
DotCode == 1
Line(code, atoms, val) == [code |-> code, atoms |-> atoms, val |-> val]
Status(code) == Line(code, 2, 0)

\* The code that announces a reply, and those that say there is nothing.
Announcing ==
  [c \in Commands |-> CASE c = "DEFINE" -> 150 [] c = "MATCH" -> 152 [] c = "SHOW_DB" -> 110
                        [] c = "SHOW_STRAT" -> 111 [] c = "SHOW_INFO" -> 112]
Nothing ==
  [c \in Commands |-> CASE c = "DEFINE" -> {550, 552} [] c = "MATCH" -> {550, 551, 552}
                        [] c = "SHOW_DB" -> {554} [] c = "SHOW_STRAT" -> {555}
                        [] c = "SHOW_INFO" -> {}]
Refusals(c) == IF c = "SHOW_INFO" THEN InfoErrors ELSE {420}

\* What a server has to say: the texts of each definition, or of its one list.
Contents(c) ==
  CASE c = "DEFINE" -> UNION {[1..n -> SUBSET Texts] : n \in 0..MaxDefs}
    [] c = "SHOW_INFO" -> {<<s>> : s \in SUBSET Texts}
    [] OTHER -> {<<>>} \cup {<<s>> : s \in (SUBSET Texts) \ {{}}}

ASSUME DictAssumption ==
  /\ Texts \subseteq Nat /\ MaxDefs \in Nat
  /\ Atoms \subseteq {1, 2} /\ InfoErrors \subseteq 400..599
  /\ \A c \in Commands : Refused \notin Contents(c)

-----------------------------------------------------------------------------
(* A server's answer: what it has to say to a command, where it stands in  *)
(* it, and the texts that it has still to say there, in any order.         *)

Answer(c, content, at, n, texts) ==
  [call |-> c, content |-> content, at |-> at, n |-> n, texts |-> texts]
Welcome == Answer(NoCall, <<>>, "welcome", 0, {})

\* The texts of the next definition, or of the list.
Begun(a) == Answer(a.call, a.content, "text", a.n + 1, a.content[a.n + 1])

\* A line, and what comes after it.
Said(line, rest) == [line |-> line, rest |-> rest]
Last(codes) == {Said(Status(e), <<>>) : e \in codes}

\* How an answer begins ...
Opens(a) ==
  IF a.content = Refused THEN Last(Refusals(a.call))
  ELSE IF a.content = <<>> THEN Last(Nothing[a.call])
  ELSE {Said(Line(Announcing[a.call], 2, Len(a.content)),
             <<IF a.call = "DEFINE" THEN [a EXCEPT !.at = "definition"] ELSE Begun(a)>>)}

\* ... and how it goes on.
Says(a) ==
  CASE a.at = "welcome" -> Last({220, 530})
    [] a.at = "status" -> Opens(a)
    [] a.at = "definition" -> {Said(Line(151, atoms, 0), <<Begun(a)>>) : atoms \in Atoms}
    [] a.at = "text" /\ a.texts # {} ->
         {Said(Line(TextCode, atoms, v), <<[a EXCEPT !.texts = @ \ {v}]>>) :
          atoms \in Atoms, v \in a.texts}
    [] a.at = "text" /\ a.texts = {} ->
         {Said(Line(DotCode, 1, 0),
               <<[a EXCEPT !.at = IF a.n < Len(a.content) THEN "definition" ELSE "final"]>>)}
    [] a.at = "final" -> Last({250})

VARIABLES
  pc,         \* what the next line is read as
  call,       \* the method in progress
  left,       \* definitions still to come
  due,        \* the server's answers, as far as they are not read yet
  got,        \* what the method has collected
  result,     \* what the last method returned
  reply,      \* history: what the server had to say to the last command
  up          \* the connection stands

vars == <<pc, call, left, due, got, result, reply, up>>

InCall == {"status", "definition", "text", "final"}

Init ==
  /\ pc = "welcome" /\ call = NoCall /\ left = 0 /\ got = <<>>
  /\ due = <<Welcome>>
  /\ result = Failed /\ reply = Refused /\ up = TRUE

\* The constructor; when it is refused, or hears nothing, nobody has the connection.
DictionaryConnection ==
  /\ pc = "welcome"
  /\ \/ /\ due # <<>>
        /\ \E s \in Says(Head(due)) :
             /\ due' = s.rest \o Tail(due)
             /\ pc' = IF s.line.code \in 400..599 THEN "refused" ELSE "idle"
     \/ ~ up /\ due = <<>> /\ pc' = "refused" /\ UNCHANGED due
  /\ UNCHANGED <<call, left, got, result, reply, up>>

\* A command; on a connection that is down it goes nowhere.
Send(c) == \E content \in Contents(c) \cup {Refused} :
  /\ pc = "idle" /\ pc' = "status" /\ call' = c /\ got' = <<>>
  /\ reply' = content
  /\ due' = IF up THEN Append(due, Answer(c, content, "status", 0, {})) ELSE due
  /\ UNCHANGED <<left, result, up>>

Return(value) ==
  /\ pc' = "idle" /\ call' = NoCall /\ result' = value
  /\ got' = <<>> /\ left' = 0

\* getDatabaseInfo takes every status but 550.
Announces(l) == IF call = "SHOW_INFO" THEN l.code >= 100 /\ l.code # 550
                ELSE l.code = Announcing[call]

Begin(l) ==
  /\ pc = "status" /\ Announces(l)
  /\ IF call = "DEFINE"
     THEN left' = l.val /\ pc' = "definition" /\ UNCHANGED got
     ELSE pc' = "text" /\ got' = <<{}>> /\ UNCHANGED left
  /\ UNCHANGED <<call, result>>

None(l) == pc = "status" /\ l.code \in Nothing[call] /\ Return(<<>>)

Definition(l) ==
  /\ pc = "definition" /\ l.code = 151 /\ l.atoms = 2
  /\ pc' = "text" /\ got' = Append(got, {}) /\ left' = left - 1
  /\ UNCHANGED <<call, result>>

\* Lists are split into atoms, texts of definitions and databases are not.
Splits == call \in {"MATCH", "SHOW_DB", "SHOW_STRAT"}

AddText(l) ==
  /\ pc = "text" /\ l.code # DotCode /\ (Splits => l.atoms = 2)
  /\ got' = [got EXCEPT ![Len(got)] = @ \cup {l.val}]
  /\ UNCHANGED <<pc, call, left, result>>

EndText(l) ==
  /\ pc = "text" /\ l.code = DotCode
  /\ pc' = IF left > 0 THEN "definition" ELSE "final"
  /\ UNCHANGED <<call, left, got, result>>

Complete(l) == pc = "final" /\ l.code = 250 /\ Return(got)

\* Every other line is an exception, and what comes after it stays unread.
Unexpected(l) ==
  /\ \/ pc = "status" /\ ~ Announces(l) /\ l.code \notin Nothing[call]
     \/ pc = "definition" /\ ~ (l.code = 151 /\ l.atoms = 2)
     \/ pc = "text" /\ l.code # DotCode /\ Splits /\ l.atoms = 1
     \/ pc = "final" /\ l.code # 250
  /\ Return(Failed)

\* Mutant: a list is returned at its ".", and the status after it left unread.
HandleEarly(l) ==
  \/ Begin(l) \/ None(l) \/ Definition(l) \/ AddText(l) \/ Complete(l) \/ Unexpected(l)
  \/ IF Splits /\ pc = "text" /\ l.code = DotCode THEN Return(got) ELSE EndText(l)

Handle(l) ==
  \/ Begin(l) \/ None(l) \/ Definition(l) \/ AddText(l) \/ EndText(l) \/ Complete(l)
  \/ Unexpected(l)

\* readLine gives the next line of the first answer that is due.
ReadLine ==
  /\ pc \in InCall /\ due # <<>>
  /\ \E s \in Says(Head(due)) : due' = s.rest \o Tail(due) /\ Handle(s.line)
  /\ UNCHANGED <<reply, up>>

\* Mutant: the null of readLine does not end a loop.
ReadEndAgain ==
  /\ pc \in InCall \ {"text"} /\ ~ up /\ due = <<>> /\ Return(Failed)
  /\ UNCHANGED <<due, reply, up>>

\* The null of readLine is an exception, in Status or by itself.
ReadEnd ==
  /\ pc \in InCall /\ ~ up /\ due = <<>> /\ Return(Failed)
  /\ UNCHANGED <<due, reply, up>>

\* QUIT is sent and its answer not read.
close ==
  /\ pc = "idle" /\ up /\ up' = FALSE /\ due' = <<>>
  /\ UNCHANGED <<pc, call, left, got, result, reply>>

\* The connection breaks.
Interrupt ==
  /\ up /\ up' = FALSE
  /\ UNCHANGED <<pc, call, left, due, got, result, reply>>

\* What has not arrived by then never will.
Lose ==
  /\ ~ up /\ due # <<>> /\ due' = <<>>
  /\ UNCHANGED <<pc, call, left, got, result, reply, up>>

Next ==
  \/ DictionaryConnection \/ close \/ Interrupt \/ Lose \/ ReadLine \/ ReadEnd
  \/ \E c \in Commands : Send(c)

Spec == Init /\ [][Next]_vars

\* A line that has come is read, and so is the end of the connection.
FairSpec == Spec /\ WF_vars(ReadLine \/ ReadEnd)

-----------------------------------------------------------------------------

Server == INSTANCE RequestReply WITH connected <- up

\* Every method returns what the server had to say to its own command, all of it, or
\* fails when the server refused or the connection broke (DictionaryConnection.java:81-82,
\* 133-134, 168-169, 201-202, 231-232), for a server that sends what the methods expect.
RequestReplySpec == Server!Spec

\* A method gives the connection back, which others wait for.
CallReturns == pc \in InCall ~> pc = "idle"

\* "A set of word matches returned by the server" (DictionaryConnection.java:133): what
\* getMatchList returns is the answer to its MATCH.
MatchesOfServer ==
  [][call = "MATCH" /\ call' = NoCall => result' \in {Failed, reply}]_vars

\* "A string containing the information returned by the server" (DictionaryConnection.java:
\* 231), or an exception: getDatabaseInfo ends.
InfoReturns == call = "SHOW_INFO" ~> call = NoCall
=============================================================================
