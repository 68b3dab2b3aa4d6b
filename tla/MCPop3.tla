------------------------------ MODULE MCPop3 ------------------------------
(* Values for TLC: users a and b, and the lines of the clients. *)
EXTENDS Pop3, TLC

Symmetry == Permutations(Sessions)

MCUserFile == <<[name |-> "a", password |-> "p"], [name |-> "b", password |-> "q"]>>

MCFold == [w \in Name |-> IF w = "A" THEN "a" ELSE w]
MCNumber == [w \in Word |-> CASE w = "1" -> 1 [] w = "2" -> 2 [] OTHER -> 0]

MCStored == [b \in {"a"} |-> [f \in {0, 1} |-> f + 1]]

\* Two clients that delete the same message.
Deletions == {<<<<"USER", "a">>, <<"PASS", "p">>, <<"DELE", "1">>, <<"QUIT">>>>}

\* A client that reads a message and one that deletes it.
Rereads == {<<<<"USER", "a">>, <<"PASS", "p">>, <<"RETR", "1">>, <<"QUIT">>>>} \cup Deletions

MCScripts == {
    <<<<"USER", "a">>, <<"PASS", "p">>, <<"DELE", "1">>, <<"DELE", "2">>, <<"QUIT">>>>,
    <<<<"USER", "a">>, <<"PASS", "p">>, <<"DELE", "1">>, <<"RSET">>, <<"RETR", "1">>, <<"QUIT">>>>,
    <<<<"PASS", "p">>, <<"USER", "A">>, <<"PASS", "q">>, <<"QUIT">>>>,
    <<<<"USER", "b">>, <<"PASS", "q">>, <<"LIST", "1">>, <<"NOOP">>, <<>>>>}
=============================================================================
