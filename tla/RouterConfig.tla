---------------------------- MODULE RouterConfig ----------------------------
(***************************************************************************)
(* The configuration file of the router (assignment 5, config/scan.c and   *)
(* config/parse.c, called from config.c): the scanner's line buffer, and   *)
(* the parser as the tokens that it still expects.  A file is a sequence   *)
(* of lexemes and spaces; what it yields are the lines that Router loads.  *)
(***************************************************************************)
EXTENDS Integers, Sequences, FiniteSets

CONSTANTS
  Files,        \* contents of the configuration file
  LineLength,   \* MAXLINELENGTH - 1: lexemes and spaces that fgets reads at most
  PartSize      \* 256

Kinds == {"port", "forward", "dot", "slash", "nl", "num", "space", "junk"}
Unit == [t : Kinds, v : Nat]

ASSUME RouterConfigAssumption ==
  LineLength \in Nat \ {0} /\ PartSize \in Nat \ {0} /\ Files \subseteq Seq(Unit)

VARIABLES
  file,     \* history: what the file holds
  rest,     \* what fgets has not read yet
  line,     \* s->line
  pos,      \* s->pos, from 1
  expect,   \* tokens that complete the line of the configuration begun
  nums,     \* its numbers so far
  list,     \* the list built by configParseS
  status    \* "parsing", "loaded", or "aborted" by the assertion in configLoad

scanVars == <<rest, line, pos>>
parseVars == <<expect, nums, list>>
configVars == <<file, rest, line, pos, expect, nums, list, status>>

PortLine == <<"port", "num", "nl">>
ForwardLine == <<"forward", "num", "dot", "num", "dot", "num", "dot", "num",
                 "slash", "num", "port", "num", "nl">>

\* The parts of an address are not limited to a byte; the sum is one of 32 bits.
Network(n) == (n[1] * PartSize^3 + n[2] * PartSize^2 + n[3] * PartSize + n[4]) % PartSize^4

\* What Router calls Port(n) and Forward(net, len, n).
ParsedLine(n) ==
  IF Len(n) = 1 THEN [key |-> "port", port |-> n[1]]
  ELSE [key |-> "forward", network |-> Network(n), netlength |-> n[5], port |-> n[6]]

configInit ==
  /\ file \in Files /\ rest = file
  /\ line = <<>> /\ pos = 1
  /\ expect = <<>> /\ nums = <<>> /\ list = <<>>
  /\ status = "parsing"

-----------------------------------------------------------------------------
(* The scanner *)

Is(s, p, t) == p \in DOMAIN s /\ s[p].t = t

IsComment(s, p) == Is(s, p, "slash") /\ Is(s, p + 1, "slash")

\* Where the next token begins: behind spaces, and at the end of the buffer if a
\* comment comes, which takes the line feed with it.
configScanSkip ==
  LET p == CHOOSE p \in pos..(Len(line) + 1) :
             ~ Is(line, p, "space") /\ \A q \in pos..(p - 1) : Is(line, q, "space")
  IN IF IsComment(line, p) THEN Len(line) + 1 ELSE p

configScanEOL == configScanSkip > Len(line)

\* fgets reads a line, or what there is room for.
configScanFill == \E n \in 1..Len(rest) :
  /\ status = "parsing" /\ configScanEOL
  /\ n <= LineLength
  /\ \A i \in 1..(n - 1) : ~ Is(rest, i, "nl")
  /\ n = LineLength \/ n = Len(rest) \/ Is(rest, n, "nl")
  /\ line' = SubSeq(rest, 1, n)
  /\ rest' = SubSeq(rest, n + 1, Len(rest))
  /\ pos' = 1
  /\ UNCHANGED <<file, expect, nums, list, status>>

\* A token has been scanned.
Token(tok) ==
  /\ status = "parsing" /\ ~ configScanEOL
  /\ tok = line[configScanSkip]
  /\ pos' = configScanSkip + 1
  /\ UNCHANGED <<file, rest, line>>

-----------------------------------------------------------------------------
(* The parser: each action takes one token *)

configParseLine(tok) ==
  /\ Token(tok) /\ expect = <<>> /\ tok.t \in {"port", "forward"}
  /\ expect' = Tail(IF tok.t = "port" THEN PortLine ELSE ForwardLine)
  /\ nums' = <<>>
  /\ UNCHANGED <<list, status>>

\* Mutant: the token of a blank line is left for the next turn of the loop.
BlankLineAgain(tok) ==
  /\ status = "parsing" /\ ~ configScanEOL /\ tok = line[configScanSkip]
  /\ expect = <<>> /\ tok.t = "nl"
  /\ UNCHANGED configVars

BlankLine(tok) ==
  /\ Token(tok) /\ expect = <<>> /\ tok.t = "nl"
  /\ UNCHANGED <<parseVars, status>>

\* configParsePort, configParseRule, configParseIP: the token expected.
advance(tok) ==
  /\ Token(tok) /\ expect # <<>> /\ tok.t = Head(expect)
  /\ expect' = Tail(expect)
  /\ nums' = IF tok.t = "num" THEN Append(nums, tok.v) ELSE nums
  /\ list' = IF Len(expect) = 1 THEN Append(list, ParsedLine(nums)) ELSE list
  /\ UNCHANGED status

\* Mutant: an error ends the loop, and what was read so far is loaded.
configParseErrorLenient(tok) ==
  /\ Token(tok)
  /\ tok.t \notin (IF expect = <<>> THEN {"port", "forward", "nl"} ELSE {Head(expect)})
  /\ status' = IF list = <<>> THEN "aborted" ELSE "loaded"
  /\ UNCHANGED parseVars

\* longjmp: configParse returns NULL, and configLoad asserts that it does not.
configParseError(tok) ==
  /\ Token(tok)
  /\ tok.t \notin (IF expect = <<>> THEN {"port", "forward", "nl"} ELSE {Head(expect)})
  /\ status' = "aborted"
  /\ UNCHANGED parseVars

\* The end of the file: an error within a line, and no list if no line was read.
EndOfFile ==
  /\ status = "parsing" /\ configScanEOL /\ rest = <<>>
  /\ status' = IF expect = <<>> /\ list # <<>> THEN "loaded" ELSE "aborted"
  /\ UNCHANGED <<file, scanVars, parseVars>>

Parse(tok) ==
  configParseLine(tok) \/ BlankLine(tok) \/ advance(tok) \/ configParseError(tok)

configNext == configScanFill \/ EndOfFile \/ \E i \in DOMAIN line : Parse(line[i])

configSpec == configInit /\ [][configNext]_configVars /\ WF_configVars(configNext)

-----------------------------------------------------------------------------

\* fgets never cuts a line.
LinesFit == \A i \in DOMAIN file : i + LineLength \in DOMAIN file =>
  \E q \in i..(i + LineLength - 1) : Is(file, q, "nl")

\* The text without buffer or parser: comments and spaces do not count, nor does
\* the line feed behind a comment.
Commented(i) == \E c \in 1..i :
  IsComment(file, c) /\ \A q \in c..(i - 1) : ~ Is(file, q, "nl")

Significant == {i \in DOMAIN file : file[i].t # "space" /\ ~ Commented(i)}

Feeds(S) == {i \in S : file[i].t = "nl"}

\* What is left of the line that ends at e, or what there is of it up to e.
Part(e) == {i \in Significant : i <= e /\ \A f \in Feeds(Significant) : f \in i..e => f = e}

\* The lines that are not blank, by where they end.
Ends(S) == {e \in Feeds(S) : Cardinality(Part(e)) > 1}

\* The elements of a set of places, in order.
InOrder(S) == [k \in 1..Cardinality(S) |->
  CHOOSE i \in S : Cardinality({j \in S : j <= i}) = k]

Shape(S) == LET s == InOrder(S) IN [k \in DOMAIN s |-> file[s[k]].t]
Numbers(S) == LET s == InOrder({i \in S : file[i].t = "num"})
              IN [k \in DOMAIN s |-> file[s[k]].v]
Entries(S) == LET s == InOrder(S) IN [k \in DOMAIN s |-> ParsedLine(Numbers(Part(s[k])))]

\* Each line is blank, a port or a rule, and the last one ends, too.
Grammatical ==
  /\ \A e \in Feeds(Significant) : Shape(Part(e)) \in {<<"nl">>, PortLine, ForwardLine}
  /\ \A i \in Significant : \E e \in Feeds(Significant) : i \in Part(e)

\* The router starts with the lines of its file, all of them, if there are any and
\* each is a port or a rule, and with none otherwise, provided that fgets never
\* cuts a line (scan.c:46-101, parse.c:60-168, config.c:15-16).
LoadsTheFile ==
  status # "parsing" /\ LinesFit =>
    /\ status = "loaded" <=> Grammatical /\ Ends(Significant) # {}
    /\ status = "loaded" => list = Entries(Ends(Significant))

\* Every file is loaded or refused.
ParseEnds == <>(status # "parsing")
=============================================================================
