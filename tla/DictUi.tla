------------------------------- MODULE DictUi -------------------------------
(***************************************************************************)
(* The window of the dictionary client (assignment 1, ui/): the event      *)
(* dispatch thread with its modal dialogs, the background workers of       *)
(* WordSearchField and showDefinitions, and the connections they share, on *)
(* each of which one method runs at a time.  What a method says is in      *)
(* DictConnection; here it returns or fails.                               *)
(***************************************************************************)
EXTENDS Naturals, Sequences

CONSTANTS
  Words,           \* what may be typed, other than ""
  MaxWorkers,      \* bound: workers that are ever started
  MaxConnections   \* bound: connections that are ever made

ASSUME UiAssumption ==
  /\ "" \notin Words
  /\ MaxWorkers \in Nat /\ MaxConnections \in Nat

VARIABLES
  text,         \* the text field
  suggestions,  \* model: the workers whose matches were added to it, in order
  worker,       \* the workers started, in order
  connection,   \* the connection that methods are called on, 0 for null
  made,         \* connections made so far
  open,         \* those of them that have not been closed
  stack,        \* what the event dispatch thread is in, the innermost first
  refused,      \* history: connections that were refused in the greeting
  inner,        \* history: connections made while another dialog asked for a server
  aborted       \* history: a server name had a port that is no number

connectionVars == <<connection, made, open, refused, inner, aborted>>
vars == <<text, suggestions, worker, connectionVars, stack>>

Dialogs == {"message", "input"}
Calls == {"close", "lists", "info"}

Started(kind, word) == [kind |-> kind, word |-> word, at |-> "started", conn |-> 0]

Init ==
  /\ text = "" /\ suggestions = <<>> /\ worker = <<>>
  /\ connection = 0 /\ made = 0 /\ open = {}
  /\ refused = {} /\ inner = {} /\ aborted = FALSE
  /\ stack = <<"close">>

At(w, place) == w \in DOMAIN worker /\ worker[w].at = place
Goto(w, place) == worker' = [worker EXCEPT ![w].at = place]

\* The monitor of a connection.
Unlocked(c) == \A w \in DOMAIN worker : ~ (At(w, "calling") /\ worker[w].conn = c)

\* Events are dispatched, in the loop of a dialog too; the user has the window.
Top == IF stack = <<>> THEN "window" ELSE Head(stack)
Window == Top = "window"
Dispatching == Top \in Dialogs \cup {"window"}

-----------------------------------------------------------------------------
\* The user

Type(t) ==
  /\ Window /\ t # text /\ text' = t /\ suggestions' = <<>>
  /\ IF t = "" THEN UNCHANGED worker
     ELSE /\ Len(worker) < MaxWorkers
          /\ worker' = Append(worker, Started("match", t))
  /\ UNCHANGED <<connectionVars, stack>>

showDefinitions ==
  /\ Window /\ Len(worker) < MaxWorkers
  /\ worker' = Append(worker, Started("define", ""))
  /\ UNCHANGED <<text, suggestions, connectionVars, stack>>

SelectDatabase ==
  /\ Window /\ connection # 0 /\ stack' = <<"info">>
  /\ UNCHANGED <<text, suggestions, worker, connectionVars>>

Disconnect ==
  /\ Window /\ stack' = <<"close">>
  /\ UNCHANGED <<text, suggestions, worker, connectionVars>>

-----------------------------------------------------------------------------
\* The event dispatch thread

\* Whatever comes of it: an exception is caught here, and nothing reconnects.
getDatabaseInfo ==
  /\ Top = "info" /\ Unlocked(connection)
  /\ stack' = Tail(stack)
  /\ UNCHANGED <<text, suggestions, worker, connectionVars>>

Replace(frame) == stack' = <<frame>> \o Tail(stack)

\* handleException: the dialog is closed, and establishConnection begins.
Dismiss ==
  /\ Top = "message" /\ Replace("close")
  /\ UNCHANGED <<text, suggestions, worker, connectionVars>>

\* Mutant: the old connection is not closed.
CloseNothing ==
  /\ Top = "close" /\ Unlocked(connection)
  /\ text' = "" /\ suggestions' = <<>>
  /\ Replace("input")
  /\ UNCHANGED <<worker, connectionVars>>

\* establishConnection: the fields are reset and the dialog comes up.
Close ==
  /\ Top = "close" /\ Unlocked(connection)
  /\ open' = open \ {connection}
  /\ text' = "" /\ suggestions' = <<>>
  /\ Replace("input")
  /\ UNCHANGED <<worker, connection, made, refused, inner, aborted>>

\* A server name: a connection is made, or is not, or the exception is one that nobody
\* catches and this event's handler is abandoned.
Asked == Top = "input"

\* Another dialog below this one asks, too.
Nested == \E i \in 2..Len(stack) : stack[i] = "input"

\* new Socket: it is open from here on.
Socket == made < MaxConnections /\ made' = made + 1 /\ open' = open \cup {made'}

Connect ==
  /\ Asked /\ Socket /\ connection' = made'
  /\ inner' = IF Nested THEN inner \cup {made'} ELSE inner
  /\ Replace("lists")
  /\ UNCHANGED <<text, suggestions, worker, refused, aborted>>

\* No socket: the host does not exist, or does not answer.
ConnectFails ==
  /\ Asked /\ Replace("message")
  /\ UNCHANGED <<text, suggestions, worker, connectionVars>>

\* A socket, and then a greeting that is an error, or none: the constructor throws, so
\* that there is no object on which close could be called.
ConnectRefused ==
  /\ Asked /\ Socket /\ refused' = refused \cup {made'}
  /\ Replace("message")
  /\ UNCHANGED <<text, suggestions, worker, connection, inner, aborted>>

ConnectAborts ==
  /\ Asked /\ stack' = Tail(stack) /\ aborted' = TRUE
  /\ UNCHANGED <<text, suggestions, worker, connection, made, open, refused, inner>>

\* Mutant: a connection whose lists cannot be had is closed, and that is all.
ListsAnyway ==
  /\ Top = "lists" /\ Unlocked(connection)
  /\ open' \in {open, open \ {connection}} /\ stack' = Tail(stack)
  /\ UNCHANGED <<text, suggestions, worker, connection, made, refused, inner, aborted>>

\* getDatabaseList and getStrategyList
Lists ==
  /\ Top = "lists" /\ Unlocked(connection)
  /\ stack' = Tail(stack) \/ Replace("message")
  /\ UNCHANGED <<text, suggestions, worker, connectionVars>>

-----------------------------------------------------------------------------
\* Workers

\* doInBackground: the connection of that time, ...
Begin(w) ==
  /\ At(w, "started")
  /\ worker' = [worker EXCEPT ![w].conn = connection,
                              ![w].at = IF connection = 0 THEN "failed" ELSE "waiting"]
  /\ UNCHANGED <<text, suggestions, connectionVars, stack>>

\* ... its monitor, ...
Enter(w) ==
  /\ At(w, "waiting") /\ Unlocked(worker[w].conn) /\ Goto(w, "calling")
  /\ UNCHANGED <<text, suggestions, connectionVars, stack>>

\* ... and its answer: what has been closed fails, and anything else may.
Leave(w) ==
  /\ At(w, "calling")
  /\ \/ Goto(w, "failed")
     \/ Goto(w, "returned") /\ worker[w].conn \in open
  /\ UNCHANGED <<text, suggestions, connectionVars, stack>>

Stale(w) == worker[w].kind = "match" /\ text # worker[w].word

\* Mutant: the text is not looked at.
DoneLate(w) ==
  /\ Dispatching /\ At(w, "returned") /\ Goto(w, "handled")
  /\ suggestions' = IF worker[w].kind = "match" THEN Append(suggestions, w) ELSE suggestions
  /\ UNCHANGED <<text, connectionVars, stack>>

\* done(), on the event dispatch thread.
Done(w) ==
  /\ Dispatching /\ At(w, "returned") /\ Goto(w, "handled")
  /\ suggestions' = IF worker[w].kind = "match" /\ ~ Stale(w) THEN Append(suggestions, w)
                    ELSE suggestions
  /\ UNCHANGED <<text, connectionVars, stack>>

\* Mutant: the exception of a worker is not handled while a dialog is up.
DoneFailedLater(w) ==
  /\ Window /\ At(w, "failed") /\ Goto(w, "handled")
  /\ stack' = IF Stale(w) THEN stack ELSE <<"message">> \o stack
  /\ UNCHANGED <<text, suggestions, connectionVars>>

\* done() with an exception: that of a word typed over is lost, others put up a dialog.
DoneFailed(w) ==
  /\ Dispatching /\ At(w, "failed") /\ Goto(w, "handled")
  /\ stack' = IF Stale(w) THEN stack ELSE <<"message">> \o stack
  /\ UNCHANGED <<text, suggestions, connectionVars>>

Dispatch == getDatabaseInfo \/ Close \/ Lists

Background(w) == Begin(w) \/ Enter(w) \/ Leave(w)

Next ==
  \/ (\E t \in Words \cup {""} : Type(t)) \/ showDefinitions \/ SelectDatabase \/ Disconnect
  \/ Dismiss \/ Connect \/ ConnectFails \/ ConnectRefused \/ ConnectAborts \/ Dispatch
  \/ \E w \in 1..MaxWorkers : Background(w) \/ Done(w) \/ DoneFailed(w)

Spec == Init /\ [][Next]_vars

\* Threads run and the server answers; events are dispatched in turn, so that the one
\* of a worker that is done comes even if others keep the thread busy.
FairSpec == Spec /\ WF_vars(Dispatch)
                 /\ \A w \in 1..MaxWorkers : WF_vars(Background(w)) /\ SF_vars(Done(w) \/ DoneFailed(w))

-----------------------------------------------------------------------------

Worker(n) == [kind : {"match", "define"}, word : Words \cup {""},
              at : {"started", "waiting", "calling", "returned", "failed", "handled"},
              conn : 0..n]

TypeOK ==
  /\ text \in Words \cup {""} /\ suggestions \in Seq(DOMAIN worker)
  /\ worker \in Seq(Worker(made))
  /\ connection \in 0..made /\ made \in 0..MaxConnections
  /\ open \subseteq 1..made /\ refused \subseteq 1..made /\ inner \subseteq 1..made
  /\ stack \in Seq(Dialogs \cup Calls) /\ aborted \in BOOLEAN
  \* Only a dialog lets another handler in.
  /\ \A i \in 2..Len(stack) : stack[i] \in Dialogs

\* The drop-down list holds matches of what stands in the text field, however late
\* workers come back and whatever reset has done meanwhile.
SuggestionsFit == \A i \in DOMAIN suggestions : worker[suggestions[i]].word = text

\* When the user has the window, methods are called on a connection that nobody has
\* closed: every failure that is handled goes on to a new one, through any nesting of
\* the dialogs, until a port that is no number breaks it.
WindowConnected == Window /\ ~ aborted => connection \in open

\* A socket that stays open is the connection in use, one whose greeting was a refusal,
\* or one made in a dialog that came up within another's, which replaces it and never
\* closes it: every other connection is closed before the next one is made, however
\* dialogs nest, connections fail and handlers are abandoned.
NoneForgotten == open \subseteq {connection} \cup refused \cup inner

\* Every worker comes to its done(): the dispatch thread, which waits for monitors,
\* and the workers, which wait for monitors and then for it, never wait in a circle.
WorkersEnd == \A w \in 1..MaxWorkers : At(w, "started") ~> At(w, "handled")

\* "If user typed another character since this worker started, stop"
\* (WordSearchField.java:82): only the last worker adds matches.
StopsAfterTyping ==
  [][\A w \in DOMAIN worker : suggestions' = Append(suggestions, w) =>
        \A v \in (w + 1)..Len(worker) : worker[v].kind # "match"]_vars
=============================================================================
