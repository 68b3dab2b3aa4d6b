---------------------------- MODULE RequestReply ----------------------------
(***************************************************************************)
(* What the comments of DictionaryConnection (assignment 1) promise: each  *)
(* method returns what the server has to say to its own command, or raises *)
(* an exception when the server refuses or the connection is interrupted.  *)
(***************************************************************************)
CONSTANTS
  Commands, NoCall,
  Contents(_),        \* what a server may have to say to a command
  Refused, Failed     \* ... or that it will not; a DictConnectionException

VARIABLES
  call,       \* the method in progress
  reply,      \* what the server has to say to the last command
  result,     \* what the last method returned
  connected   \* the connection stands

Ask(c) ==
  /\ call = NoCall /\ call' = c
  /\ reply' \in Contents(c) \cup {Refused}
  /\ UNCHANGED <<result, connected>>

Return ==
  /\ call # NoCall /\ call' = NoCall
  /\ \/ result' = reply /\ reply # Refused
     \/ result' = Failed /\ (reply = Refused \/ ~ connected)
  /\ UNCHANGED <<reply, connected>>

Interrupt == connected /\ connected' = FALSE /\ UNCHANGED <<call, reply, result>>

Next == (\E c \in Commands : Ask(c)) \/ Return \/ Interrupt

Init == call = NoCall /\ reply = Refused /\ result = Failed /\ connected = TRUE

Spec == Init /\ [][Next]_<<call, reply, result, connected>>
=============================================================================
