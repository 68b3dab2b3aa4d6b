---------------------------- MODULE DictUiProofs ----------------------------
(***************************************************************************)
(* What holds of the dictionary window for any words, and any number of    *)
(* workers and connections.  The inductive invariant adds to the three     *)
(* properties how the dialogs lie on each other.                           *)
(***************************************************************************)
EXTENDS DictUi, TLAPS

\* A call that ends with the window free has left a connection that is open.
Serving == ~ aborted /\ Top \in {"window", "lists", "info"} => connection \in open

\* While a dialog asks for a server, what is open has no object, or was made in a
\* dialog within it: its own handler has closed the connection there was.
Asks == \E i \in 1..Len(stack) : stack[i] = "input"
OneAsks == Asks => open \subseteq refused \cup inner

Inv == TypeOK /\ SuggestionsFit /\ Serving /\ OneAsks /\ NoneForgotten

-----------------------------------------------------------------------------
\* The stack

LEMMA Replacing ==
  ASSUME NEW S, NEW s \in Seq(S), s # <<>>, NEW f \in S
  PROVE  LET r == <<f>> \o Tail(s) IN
         /\ r \in Seq(S) /\ Len(r) = Len(s) /\ r # <<>> /\ Head(r) = f
         /\ r[1] = f /\ \A i \in 2..Len(s) : r[i] = s[i]
  OBVIOUS

LEMMA Popping ==
  ASSUME NEW S, NEW s \in Seq(S), s # <<>>
  PROVE  /\ Tail(s) \in Seq(S) /\ Len(Tail(s)) = Len(s) - 1
         /\ \A i \in 1..Len(Tail(s)) : Tail(s)[i] = s[i + 1]
         /\ Tail(s) # <<>> => Head(Tail(s)) = s[2] /\ 2 \in 1..Len(s)
  OBVIOUS

LEMMA Pushing ==
  ASSUME NEW S, NEW s \in Seq(S), NEW f \in S
  PROVE  LET r == <<f>> \o s IN
         /\ r \in Seq(S) /\ Len(r) = Len(s) + 1 /\ r # <<>> /\ Head(r) = f
         /\ r[1] = f /\ \A i \in 2..Len(r) : r[i] = s[i - 1]
  OBVIOUS
-----------------------------------------------------------------------------
LEMMA StackType ==
  ASSUME Inv
  PROVE  /\ stack \in Seq(Dialogs \cup Calls)
         /\ \A i \in 2..Len(stack) : stack[i] \in Dialogs
  BY DEF Inv, TypeOK

\* One handler of the dispatch thread: the innermost frame gives way to another.
LEMMA Replaced ==
  ASSUME Inv, stack # <<>>, NEW frame \in Dialogs \cup Calls, Replace(frame)
  PROVE  /\ stack' \in Seq(Dialogs \cup Calls) /\ Top' = frame
         /\ Len(stack') = Len(stack) /\ stack'[1] = frame
         /\ \A i \in 2..Len(stack) : stack'[i] = stack[i] /\ stack[i] \in Dialogs
<1>1. stack' = <<frame>> \o Tail(stack)
  BY DEF Replace
<1>2. /\ stack' \in Seq(Dialogs \cup Calls) /\ Len(stack') = Len(stack)
      /\ stack' # <<>> /\ Head(stack') = frame
      /\ stack'[1] = frame /\ \A i \in 2..Len(stack) : stack'[i] = stack[i]
  BY <1>1, StackType, Replacing
<1>. QED
  BY <1>2, StackType DEF Top

\* ... or ends.
LEMMA Popped ==
  ASSUME Inv, stack # <<>>, stack' = Tail(stack)
  PROVE  /\ stack' \in Seq(Dialogs \cup Calls) /\ Len(stack') = Len(stack) - 1
         /\ \A i \in 1..Len(stack') : stack'[i] = stack[i + 1] /\ stack'[i] \in Dialogs
         /\ Top' \in Dialogs \cup {"window"}
<1>1. /\ stack' \in Seq(Dialogs \cup Calls) /\ Len(stack') = Len(stack) - 1
      /\ \A i \in 1..Len(stack') : stack'[i] = stack[i + 1]
      /\ stack' # <<>> => Head(stack') = stack[2] /\ 2 \in 1..Len(stack)
  BY StackType, Popping
<1>2. \A i \in 1..Len(stack') : i + 1 \in 2..Len(stack)
  BY <1>1, StackType
<1>3. stack' # <<>> => Top' \in Dialogs
  BY <1>1, StackType DEF Top
<1>. QED
  BY <1>1, <1>2, <1>3, StackType DEF Top

LEMMA Innermost ==
  ASSUME Inv, Top # "window"
  PROVE  stack # <<>> /\ stack[1] = Top /\ Len(stack) \in Nat \ {0}
<1>1. stack # <<>>
  BY DEF Top
<1>. QED
  BY <1>1, StackType DEF Top

\* Who asks when a handler has ended, or has put another frame in its place, asked before.
LEMMA PoppedAsks ==
  ASSUME Inv, stack # <<>>, stack' = Tail(stack)
  PROVE  Asks' => Asks
<1>1. \A i \in 1..Len(stack') : stack'[i] = stack[i + 1] /\ i + 1 \in 1..Len(stack)
  BY Popped, StackType
<1>. QED
  BY <1>1 DEF Asks

LEMMA ReplacedAsks ==
  ASSUME Inv, stack # <<>>, NEW frame \in Dialogs \cup Calls, Replace(frame),
         frame # "input"
  PROVE  (Asks' => Asks) /\ (Asks' => Nested)
<1>1. /\ Len(stack') = Len(stack) /\ stack'[1] = frame /\ Len(stack) \in Nat
      /\ \A i \in 2..Len(stack) : stack'[i] = stack[i]
  BY Replaced, StackType
<1>2. \A i \in 1..Len(stack') : stack'[i] = "input" => i \in 2..Len(stack) /\ stack[i] = "input"
  BY <1>1
<1>. QED
  BY <1>1, <1>2 DEF Asks, Nested

-----------------------------------------------------------------------------
\* The workers

LEMMA MadeType ==
  ASSUME Inv
  PROVE  /\ made \in Nat /\ made <= MaxConnections /\ connection \in Nat
         /\ worker \in Seq(Worker(made))
         /\ \A w \in DOMAIN worker : worker[w] \in Worker(made)
<1>1. /\ made \in 0..MaxConnections /\ worker \in Seq(Worker(made)) /\ connection \in 0..made
  BY DEF Inv, TypeOK
<1>2. MaxConnections \in Nat
  BY UiAssumption
<1>. QED
  BY <1>1, <1>2

\* Workers and what they were started with remain.
Keeps == /\ worker' \in Seq(Worker(made')) /\ Len(worker) <= Len(worker')
         /\ \A w \in DOMAIN worker : worker'[w].word = worker[w].word

LEMMA Kept ==
  ASSUME Inv, Keeps, UNCHANGED <<text, suggestions>>
  PROVE  suggestions' \in Seq(DOMAIN worker') /\ SuggestionsFit'
<1>1. /\ suggestions \in Seq(DOMAIN worker)
      /\ worker \in Seq(Worker(made))
      /\ \A i \in DOMAIN suggestions : worker[suggestions[i]].word = text
  BY DEF Inv, TypeOK, SuggestionsFit
<1>2. DOMAIN worker \subseteq DOMAIN worker'
  BY <1>1 DEF Keeps
<1>. QED
  BY <1>1, <1>2 DEF SuggestionsFit, Keeps

LEMMA EmptyFits ==
  ASSUME NEW S, NEW s, s = <<>>
  PROVE  s \in Seq(S) /\ DOMAIN s = {}
  OBVIOUS

LEMMA NoSuggestions ==
  ASSUME suggestions' = <<>>
  PROVE  suggestions' \in Seq(DOMAIN worker') /\ SuggestionsFit'
<1>1. suggestions' \in Seq(DOMAIN worker') /\ DOMAIN suggestions' = {}
  BY EmptyFits
<1>. QED
  BY <1>1, Zenon DEF SuggestionsFit

LEMMA ZeroIn ==
  ASSUME NEW n \in Nat
  PROVE  0 \in 0..n
  OBVIOUS

LEMMA StartedType ==
  ASSUME NEW k \in {"match", "define"}, NEW t \in Words \cup {""}, NEW n \in Nat
  PROVE  Started(k, t) \in Worker(n)
  BY ZeroIn, Zenon DEF Started, Worker

LEMMA MovedType ==
  ASSUME NEW n \in Nat, NEW r \in Worker(n),
         NEW a \in {"started", "waiting", "calling", "returned", "failed", "handled"}
  PROVE  /\ [r EXCEPT !.at = a] \in Worker(n)
         /\ [r EXCEPT !.at = a].word = r.word
  BY DEF Worker

LEMMA Unmoved ==
  ASSUME Inv, worker' = worker, made' = made
  PROVE  Keeps
<1>1. worker \in Seq(Worker(made)) /\ Len(worker) <= Len(worker)
  BY MadeType
<1>. QED
  BY <1>1, Zenon DEF Keeps

LEMMA OneMore ==
  ASSUME Inv, NEW r \in Worker(made), made' = made, worker' = Append(worker, r)
  PROVE  Keeps
<1>1. worker \in Seq(Worker(made))
  BY DEF Inv, TypeOK
<1>2. /\ worker' \in Seq(Worker(made)) /\ Len(worker') = Len(worker) + 1
      /\ \A w \in DOMAIN worker : worker'[w] = worker[w]
  BY <1>1
<1>. QED
  BY <1>1, <1>2 DEF Keeps

LEMMA Changed ==
  ASSUME Inv, NEW w \in DOMAIN worker, NEW r \in Worker(made), r.word = worker[w].word,
         made' = made, worker' = [worker EXCEPT ![w] = r]
  PROVE  Keeps
<1>1. worker \in Seq(Worker(made))
  BY DEF Inv, TypeOK
<1>2. /\ worker' \in Seq(Worker(made)) /\ Len(worker') = Len(worker)
      /\ \A v \in DOMAIN worker : worker'[v] = IF v = w THEN r ELSE worker[v]
  BY <1>1
<1>. QED
  BY <1>1, <1>2 DEF Keeps

LEMMA Moved ==
  ASSUME Inv, NEW w \in DOMAIN worker, made' = made,
         NEW a \in {"started", "waiting", "calling", "returned", "failed", "handled"}, Goto(w, a)
  PROVE  Keeps
<1>1. worker[w] \in Worker(made) /\ made \in Nat
  BY MadeType
<1>2. PICK r : r = [worker[w] EXCEPT !.at = a]
  OBVIOUS
<1>3. r \in Worker(made) /\ r.word = worker[w].word
  BY <1>1, <1>2, MovedType
<1>4. worker' = [worker EXCEPT ![w] = r]
  BY <1>2 DEF Goto
<1>. QED
  BY <1>3, <1>4, Changed

-----------------------------------------------------------------------------
\* Steps of some of the variables

LEMMA WorkerSteps ==
  ASSUME Inv, Keeps, UNCHANGED <<text, suggestions, connectionVars, stack>>
  PROVE  Inv'
<1>1. suggestions' \in Seq(DOMAIN worker') /\ SuggestionsFit'
  BY Kept
<1>2. TypeOK'
  BY <1>1 DEF Inv, TypeOK, Keeps, connectionVars
<1>3. Serving' /\ OneAsks' /\ NoneForgotten'
  BY DEF Inv, Serving, OneAsks, Asks, NoneForgotten, Top, connectionVars
<1>. QED
  BY <1>1, <1>2, <1>3 DEF Inv

StackFits == /\ stack \in Seq(Dialogs \cup Calls)
             /\ \A i \in 2..Len(stack) : stack[i] \in Dialogs

LEMMA StackSteps ==
  ASSUME Inv, UNCHANGED <<text, suggestions, worker, connectionVars>>,
         StackFits', Serving', OneAsks'
  PROVE  Inv'
<1>1. TypeOK'
  BY DEF Inv, TypeOK, StackFits, connectionVars
<1>2. SuggestionsFit' /\ NoneForgotten'
  BY DEF Inv, SuggestionsFit, NoneForgotten, connectionVars
<1>. QED
  BY <1>1, <1>2 DEF Inv

LEMMA ReplacedFits ==
  ASSUME Inv, stack # <<>>, NEW frame \in Dialogs \cup Calls, Replace(frame)
  PROVE  StackFits'
  BY Replaced DEF StackFits

LEMMA PoppedFits ==
  ASSUME Inv, stack # <<>>, stack' = Tail(stack)
  PROVE  StackFits'
  BY Popped DEF StackFits

-----------------------------------------------------------------------------
\* The user

LEMMA TypeStep ==
  ASSUME Inv, NEW t \in Words \cup {""}, Type(t)
  PROVE  Inv'
<1>1. UNCHANGED connectionVars /\ stack' = stack /\ text' = t /\ suggestions' = <<>>
  BY DEF Type
<1>2. Keeps
  <2>1. CASE t = ""
    <3>1. worker' = worker /\ made' = made
      BY <2>1, <1>1, Zenon DEF Type, connectionVars
    <3>. QED
      BY <3>1, Unmoved
  <2>2. CASE t # ""
    BY <2>2, <1>1, MadeType, StartedType, OneMore DEF Type, connectionVars
  <2>. QED
    BY <2>1, <2>2
<1>3. suggestions' \in Seq(DOMAIN worker') /\ SuggestionsFit'
  BY <1>1, NoSuggestions
<1>4. TypeOK'
  BY <1>1, <1>2, <1>3 DEF Inv, TypeOK, Keeps, connectionVars
<1>5. Serving' /\ OneAsks' /\ NoneForgotten'
  BY <1>1 DEF Inv, Serving, OneAsks, Asks, NoneForgotten, Top, connectionVars
<1>. QED
  BY <1>3, <1>4, <1>5 DEF Inv

LEMMA DefineStep ==
  ASSUME Inv, showDefinitions
  PROVE  Inv'
<1>1. Keeps
  BY MadeType, StartedType, OneMore DEF showDefinitions, connectionVars
<1>. QED
  BY <1>1, WorkerSteps DEF showDefinitions

\* A frame that comes up where there was none.
LEMMA OpenedSteps ==
  ASSUME Inv, Window, NEW frame \in {"info", "close"}, stack' = <<frame>>,
         UNCHANGED <<text, suggestions, worker, connectionVars>>
  PROVE  Inv'
<1>1. /\ stack' \in Seq(Dialogs \cup Calls) /\ Len(stack') = 1 /\ stack'[1] = frame
      /\ Top' = frame
  BY DEF Calls, Top
<1>2. StackFits' /\ OneAsks'
  BY <1>1 DEF StackFits, OneAsks, Asks
<1>3. Serving'
  BY <1>1 DEF Inv, Serving, Window, connectionVars
<1>. QED
  BY <1>2, <1>3, StackSteps

-----------------------------------------------------------------------------
\* The event dispatch thread

\* A call that has left a connection returns.
LEMMA ReturnSteps ==
  ASSUME Inv, Top \in {"info", "lists"}, stack' = Tail(stack),
         UNCHANGED <<text, suggestions, worker, connectionVars>>
  PROVE  Inv'
<1>1. stack # <<>> /\ Len(stack) \in Nat \ {0}
  BY Innermost
<1>2. StackFits'
  BY <1>1, PoppedFits
<1>3. OneAsks'
  BY <1>1, PoppedAsks DEF Inv, OneAsks, connectionVars
<1>4. Serving'
  BY DEF Inv, Serving, connectionVars
<1>. QED
  BY <1>2, <1>3, <1>4, StackSteps

\* One that has left none puts up a dialog.
LEMMA FailureSteps ==
  ASSUME Inv, Top \in {"input", "lists"}, Replace("message"),
         UNCHANGED <<text, suggestions, worker, connectionVars>>
  PROVE  Inv'
<1>1. stack # <<>> /\ "message" \in Dialogs \cup Calls
  BY Innermost DEF Dialogs
<1>2. StackFits'
  BY <1>1, ReplacedFits
<1>3. OneAsks'
  BY <1>1, ReplacedAsks DEF Inv, OneAsks, connectionVars
<1>4. Serving'
  BY <1>1, Replaced DEF Serving
<1>. QED
  BY <1>2, <1>3, <1>4, StackSteps

LEMMA AbortStep ==
  ASSUME Inv, ConnectAborts
  PROVE  Inv'
<1>1. stack # <<>> /\ Len(stack) \in Nat \ {0} /\ stack' = Tail(stack)
  BY Innermost DEF ConnectAborts, Asked
<1>2. StackFits'
  BY <1>1, PoppedFits
<1>3. OneAsks'
  BY <1>1, PoppedAsks DEF Inv, OneAsks, ConnectAborts
<1>4. Serving'
  BY DEF Serving, ConnectAborts
<1>5. suggestions' \in Seq(DOMAIN worker') /\ SuggestionsFit'
  BY Unmoved, Kept DEF ConnectAborts
<1>6. TypeOK' /\ NoneForgotten'
  BY <1>2, <1>5 DEF Inv, TypeOK, StackFits, NoneForgotten, ConnectAborts
<1>. QED
  BY <1>3, <1>4, <1>5, <1>6 DEF Inv

LEMMA DismissStep ==
  ASSUME Inv, Dismiss
  PROVE  Inv'
<1>1. stack # <<>> /\ "close" \in Dialogs \cup Calls /\ Replace("close")
  BY Innermost DEF Dismiss, Calls
<1>2. StackFits'
  BY <1>1, ReplacedFits
<1>3. OneAsks'
  BY <1>1, ReplacedAsks DEF Inv, OneAsks, connectionVars, Dismiss
<1>4. Serving'
  BY <1>1, Replaced DEF Serving
<1>. QED
  BY <1>2, <1>3, <1>4, StackSteps DEF Dismiss

LEMMA CloseStep ==
  ASSUME Inv, Close
  PROVE  Inv'
<1>1. stack # <<>> /\ "input" \in Dialogs \cup Calls /\ Replace("input")
  BY Innermost DEF Close, Dialogs
<1>2. StackFits' /\ Top' = "input"
  BY <1>1, ReplacedFits, Replaced
<1>3. open' \subseteq refused' \cup inner'
  BY DEF Inv, NoneForgotten, Close
<1>5. OneAsks'
  BY <1>3 DEF OneAsks
<1>6. NoneForgotten' /\ Serving'
  BY <1>2, <1>3 DEF NoneForgotten, Serving
<1>7. suggestions' \in Seq(DOMAIN worker') /\ SuggestionsFit'
  BY NoSuggestions DEF Close
<1>8. TypeOK'
  <2>1. /\ aborted' \in BOOLEAN /\ open' \subseteq 1..made'
        /\ refused' \subseteq 1..made' /\ inner' \subseteq 1..made'
    BY DEF Inv, TypeOK, Close
  <2>2. text' \in Words \cup {""}
    BY DEF Close
  <2>3. /\ worker' \in Seq(Worker(made')) /\ connection' \in 0..made'
        /\ made' \in 0..MaxConnections
    BY DEF Inv, TypeOK, Close
  <2>. QED
    BY <2>1, <2>2, <2>3, <1>2, <1>7 DEF TypeOK, StackFits
<1>. QED
  BY <1>5, <1>6, <1>7, <1>8 DEF Inv

LEMMA WorkerGrows ==
  ASSUME NEW n \in Nat
  PROVE  Worker(n) \subseteq Worker(n + 1)
<1>1. 0..n \subseteq 0..(n + 1)
  OBVIOUS
<1>. QED
  BY <1>1, Zenon DEF Worker

LEMMA OneConnectionMore ==
  ASSUME NEW n \in Nat, NEW m \in Nat, n < m, NEW s \in SUBSET (1..n)
  PROVE  /\ n + 1 \in 0..m /\ n + 1 \in 0..(n + 1)
         /\ s \cup {n + 1} \subseteq 1..(n + 1) /\ s \subseteq 1..(n + 1)
         /\ 0..n \subseteq 0..(n + 1)
  OBVIOUS

\* A socket more changes no type.
LEMMA SocketTypes ==
  ASSUME Inv, Socket, UNCHANGED <<text, suggestions, worker, aborted>>, StackFits',
         connection' \in {connection, made'},
         refused' \in {refused, refused \cup {made'}},
         inner' \in {inner, inner \cup {made'}}
  PROVE  TypeOK' /\ SuggestionsFit'
<1>1. made' = made + 1 /\ open' = open \cup {made'} /\ made < MaxConnections
  BY DEF Socket
<1>2. made \in Nat /\ MaxConnections \in Nat
  BY MadeType, UiAssumption
<1>3. worker' \in Seq(Worker(made'))
  <2>1. Worker(made) \subseteq Worker(made')
    BY <1>1, <1>2, WorkerGrows
  <2>2. worker \in Seq(Worker(made)) /\ worker' = worker
    BY MadeType
  <2>. QED
    BY <2>1, <2>2
<1>4. Keeps
  BY <1>3, MadeType DEF Keeps
<1>5. suggestions' \in Seq(DOMAIN worker') /\ SuggestionsFit'
  BY <1>4, Kept
<1>6. /\ text \in Words \cup {""} /\ aborted \in BOOLEAN /\ connection \in 0..made
      /\ open \subseteq 1..made /\ refused \subseteq 1..made /\ inner \subseteq 1..made
  BY DEF Inv, TypeOK
<1>7. connection' \in 0..made' /\ made' \in 0..MaxConnections
  <2>1. /\ made + 1 \in 0..MaxConnections /\ made + 1 \in 0..(made + 1)
        /\ 0..made \subseteq 0..(made + 1)
    BY <1>1, <1>2, OneConnectionMore
  <2>2. connection' = connection \/ connection' = made + 1
    BY <1>1
  <2>. QED
    BY <2>1, <2>2, <1>1, <1>6
<1>8. open' \subseteq 1..made' /\ refused' \subseteq 1..made' /\ inner' \subseteq 1..made'
  BY <1>1, <1>2, <1>6, OneConnectionMore
<1>9. text' \in Words \cup {""} /\ aborted' \in BOOLEAN
  BY <1>6
<1>. QED
  BY <1>3, <1>5, <1>7, <1>8, <1>9, Zenon DEF TypeOK, StackFits

LEMMA ConnectStep ==
  ASSUME Inv, Connect
  PROVE  Inv'
<1>1. stack # <<>> /\ "lists" \in Dialogs \cup Calls /\ Replace("lists")
  BY Innermost DEF Connect, Asked, Calls
<1>2. StackFits' /\ Top' = "lists"
  BY <1>1, ReplacedFits, Replaced
<1>3. /\ connection' = made' /\ open' = open \cup {made'} /\ refused' = refused
      /\ inner' = IF Nested THEN inner \cup {made'} ELSE inner
  BY DEF Connect, Socket
<1>4. TypeOK' /\ SuggestionsFit'
  BY <1>2, <1>3, SocketTypes DEF Connect
<1>5. open \subseteq refused \cup inner
  BY Innermost DEF Inv, OneAsks, Asks, Connect, Asked
<1>6. OneAsks'
  <2>1. Asks' => Nested
    BY <1>1, ReplacedAsks
  <2>. QED
    BY <2>1, <1>3, <1>5 DEF OneAsks
<1>7. NoneForgotten' /\ Serving'
  BY <1>3, <1>5 DEF NoneForgotten, Serving
<1>. QED
  BY <1>4, <1>6, <1>7 DEF Inv

LEMMA RefusedStep ==
  ASSUME Inv, ConnectRefused
  PROVE  Inv'
<1>1. stack # <<>> /\ "message" \in Dialogs \cup Calls /\ Replace("message")
  BY Innermost DEF ConnectRefused, Asked, Dialogs
<1>2. StackFits' /\ Top' = "message"
  BY <1>1, ReplacedFits, Replaced
<1>3. /\ connection' = connection /\ open' = open \cup {made'}
      /\ refused' = refused \cup {made'} /\ inner' = inner
  BY DEF ConnectRefused, Socket
<1>4. TypeOK' /\ SuggestionsFit'
  BY <1>2, <1>3, SocketTypes DEF ConnectRefused
<1>5. OneAsks'
  <2>1. Asks' => Asks
    BY <1>1, ReplacedAsks
  <2>2. Asks => open \subseteq refused \cup inner
    BY DEF Inv, OneAsks
  <2>. QED
    BY <2>1, <2>2, <1>3 DEF OneAsks
<1>6. NoneForgotten'
  <2>1. open \subseteq {connection} \cup refused \cup inner
    BY DEF Inv, NoneForgotten
  <2>. QED
    BY <2>1, <1>3 DEF NoneForgotten
<1>7. Serving'
  BY <1>2 DEF Serving
<1>. QED
  BY <1>4, <1>5, <1>6, <1>7 DEF Inv

-----------------------------------------------------------------------------
\* Workers

LEMMA BackgroundStep ==
  ASSUME Inv, NEW w \in 1..MaxWorkers, Background(w)
  PROVE  Inv'
<1>1. w \in DOMAIN worker /\ UNCHANGED <<text, suggestions, connectionVars, stack>>
  BY DEF Background, Begin, Enter, Leave, At
<1>2. made' = made
  BY <1>1 DEF connectionVars
<1>3. Keeps
  <2>1. CASE Begin(w)
    <3>1. PICK a \in {"failed", "waiting"} :
            worker' = [worker EXCEPT ![w].conn = connection, ![w].at = a]
      BY <2>1 DEF Begin
    <3>2. PICK r : r = [worker[w] EXCEPT !.conn = connection, !.at = a]
      OBVIOUS
    <3>3. r \in Worker(made) /\ r.word = worker[w].word
      <4>1. worker[w] \in Worker(made) /\ connection \in 0..made
        BY <1>1, MadeType DEF Inv, TypeOK
      <4>. QED
        BY <3>2, <4>1 DEF Worker
    <3>4. worker' = [worker EXCEPT ![w] = r]
      BY <1>1, <3>1, <3>2, MadeType
    <3>. QED
      BY <1>1, <1>2, <3>3, <3>4, Changed
  <2>2. CASE Enter(w)
    BY <2>2, <1>1, <1>2, Moved DEF Enter
  <2>3. CASE Leave(w)
    BY <2>3, <1>1, <1>2, Moved DEF Leave
  <2>. QED
    BY <2>1, <2>2, <2>3 DEF Background
<1>. QED
  BY <1>1, <1>3, WorkerSteps

LEMMA DoneStep ==
  ASSUME Inv, NEW w \in 1..MaxWorkers, Done(w)
  PROVE  Inv'
<1>1. w \in DOMAIN worker /\ UNCHANGED <<text, connectionVars, stack>> /\ Goto(w, "handled")
  BY DEF Done, At
<1>2. Keeps
  BY <1>1, Moved DEF connectionVars
<1>3. suggestions' \in Seq(DOMAIN worker') /\ SuggestionsFit'
  <2>1. CASE suggestions' = suggestions
    BY <2>1, <1>1, <1>2, Kept
  <2>2. CASE suggestions' = Append(suggestions, w) /\ worker[w].word = text
    <3>1. /\ suggestions \in Seq(DOMAIN worker)
          /\ \A i \in DOMAIN suggestions : worker[suggestions[i]].word = text
      BY DEF Inv, TypeOK, SuggestionsFit
    <3>2. /\ suggestions' \in Seq(DOMAIN worker)
          /\ \A i \in DOMAIN suggestions' : worker[suggestions'[i]].word = text
      BY <2>2, <1>1, <3>1
    <3>3. DOMAIN worker \subseteq DOMAIN worker'
      BY <1>2, MadeType DEF Keeps
    <3>. QED
      BY <3>2, <3>3, <1>1, <1>2 DEF SuggestionsFit, Keeps
  <2>. QED
    BY <2>1, <2>2 DEF Done, Stale
<1>4. TypeOK'
  BY <1>1, <1>2, <1>3 DEF Inv, TypeOK, Keeps, connectionVars
<1>5. Serving' /\ OneAsks' /\ NoneForgotten'
  BY <1>1 DEF Inv, Serving, OneAsks, Asks, NoneForgotten, Top, connectionVars
<1>. QED
  BY <1>3, <1>4, <1>5 DEF Inv

\* The message of a failure comes up over whatever the thread is in, if it is a dialog.
LEMMA DoneFailedStep ==
  ASSUME Inv, NEW w \in 1..MaxWorkers, DoneFailed(w)
  PROVE  Inv'
<1>1. /\ w \in DOMAIN worker /\ UNCHANGED <<text, suggestions, connectionVars>>
      /\ Goto(w, "handled")
  BY DEF DoneFailed, At
<1>2. Keeps
  BY <1>1, Moved DEF connectionVars
<1>3. CASE stack' = stack
  BY <1>1, <1>2, <1>3, WorkerSteps
<1>4. CASE stack' = <<"message">> \o stack
  <2>1. /\ stack \in Seq(Dialogs \cup Calls) /\ "message" \in Dialogs \cup Calls
        /\ \A i \in 2..Len(stack) : stack[i] \in Dialogs
    BY StackType DEF Dialogs
  <2>2. /\ stack' \in Seq(Dialogs \cup Calls) /\ Len(stack') = Len(stack) + 1
        /\ stack' # <<>> /\ Head(stack') = "message"
        /\ stack'[1] = "message" /\ \A i \in 2..Len(stack') : stack'[i] = stack[i - 1]
    BY <1>4, <2>1, Pushing
  <2>3. stack # <<>> => stack[1] \in Dialogs
    <3>1. Top \in Dialogs \cup {"window"}
      BY DEF DoneFailed, Dispatching
    <3>2. stack # <<>> => Top = stack[1] /\ stack[1] \in Dialogs \cup Calls
      BY <2>1 DEF Top
    <3>3. "window" \notin Dialogs \cup Calls
      BY DEF Dialogs, Calls
    <3>. QED
      BY <3>1, <3>2, <3>3
  <2>4. StackFits'
    <3>1. ASSUME NEW i \in 2..Len(stack')
          PROVE  stack[i - 1] \in Dialogs
      <4>1. i - 1 \in 1..Len(stack) /\ (i - 1 = 1 \/ i - 1 \in 2..Len(stack))
        BY <2>1, <2>2
      <4>. QED
        BY <4>1, <2>1, <2>3
    <3>. QED
      BY <2>2, <3>1 DEF StackFits
  <2>5. OneAsks'
    <3>1. ASSUME NEW i \in 1..Len(stack'), stack'[i] = "input"
          PROVE  i - 1 \in 1..Len(stack) /\ stack[i - 1] = "input"
      BY <2>1, <2>2, <3>1
    <3>2. Asks' => Asks
      BY <3>1 DEF Asks
    <3>. QED
      BY <1>1, <3>2 DEF Inv, OneAsks, connectionVars
  <2>6. Serving'
    BY <2>2 DEF Serving, Top
  <2>7. suggestions' \in Seq(DOMAIN worker') /\ SuggestionsFit'
    BY <1>1, <1>2, Kept
  <2>8. TypeOK'
    <3>1. /\ text' \in Words \cup {""} /\ worker' \in Seq(Worker(made'))
          /\ connection' \in 0..made' /\ made' \in 0..MaxConnections
          /\ open' \subseteq 1..made' /\ refused' \subseteq 1..made'
          /\ inner' \subseteq 1..made' /\ aborted' \in BOOLEAN
      BY <1>1, <1>2, Zenon DEF Inv, TypeOK, Keeps, connectionVars
    <3>. QED
      BY <3>1, <2>4, <2>7, Zenon DEF TypeOK, StackFits
  <2>9. NoneForgotten'
    BY <1>1 DEF Inv, NoneForgotten, connectionVars
  <2>. QED
    BY <2>5, <2>6, <2>7, <2>8, <2>9 DEF Inv
<1>. QED
  BY <1>3, <1>4 DEF DoneFailed

-----------------------------------------------------------------------------
\* The invariant

LEMMA FirstFrame ==
  ASSUME stack = <<"close">>
  PROVE  StackFits /\ Top = "close" /\ Len(stack) = 1 /\ stack[1] = "close"
<1>1. /\ stack \in Seq(Dialogs \cup Calls) /\ Len(stack) = 1 /\ stack[1] = "close"
      /\ stack # <<>>
  BY DEF Calls
<1>2. Top = "close"
  BY <1>1 DEF Top
<1>. QED
  BY <1>1, <1>2 DEF StackFits

LEMMA InitInv == ASSUME Init PROVE Inv
<1>1. /\ worker = <<>> /\ suggestions = <<>> /\ text = ""
      /\ connection = 0 /\ made = 0 /\ open = {} /\ refused = {}
      /\ inner = {} /\ aborted = FALSE
  BY DEF Init
<1>2. StackFits /\ Top = "close" /\ Len(stack) = 1 /\ stack[1] = "close"
  BY FirstFrame DEF Init
<1>3. suggestions \in Seq(DOMAIN worker) /\ DOMAIN suggestions = {} /\ worker \in Seq(Worker(made))
  BY <1>1, EmptyFits
<1>4. connection \in 0..made /\ made \in 0..MaxConnections
  <2>1. MaxConnections \in Nat
    BY UiAssumption
  <2>. QED
    BY <1>1, <2>1, ZeroIn
<1>5. TypeOK
  <2>1. text \in Words \cup {""} /\ aborted \in BOOLEAN /\ open \subseteq 1..made
        /\ refused \subseteq 1..made /\ inner \subseteq 1..made
    BY <1>1, Zenon
  <2>. QED
    BY <2>1, <1>2, <1>3, <1>4, Zenon DEF TypeOK, StackFits
<1>6. SuggestionsFit
  BY <1>3, Zenon DEF SuggestionsFit
<1>7. Serving
  BY <1>2 DEF Serving
<1>8. OneAsks
  BY <1>2 DEF OneAsks, Asks
<1>9. NoneForgotten
  BY <1>1, Zenon DEF NoneForgotten
<1>. QED
  BY <1>5, <1>6, <1>7, <1>8, <1>9 DEF Inv

LEMMA StepInv == ASSUME Inv, [Next]_vars PROVE Inv'
<1>1. ASSUME NEW t \in Words \cup {""}, Type(t) PROVE Inv'
  BY <1>1, TypeStep
<1>2. CASE showDefinitions
  BY <1>2, DefineStep
<1>3. CASE SelectDatabase
  BY <1>3, OpenedSteps DEF SelectDatabase
<1>4. CASE Disconnect
  BY <1>4, OpenedSteps DEF Disconnect
<1>5. CASE getDatabaseInfo
  BY <1>5, ReturnSteps DEF getDatabaseInfo
<1>6. CASE Dismiss
  BY <1>6, DismissStep
<1>7. CASE Close
  BY <1>7, CloseStep
<1>8. CASE Connect
  BY <1>8, ConnectStep
<1>9. CASE ConnectFails
  BY <1>9, FailureSteps DEF ConnectFails, Asked
<1>16. CASE ConnectRefused
  BY <1>16, RefusedStep
<1>10. CASE ConnectAborts
  BY <1>10, AbortStep
<1>11. CASE Lists
  BY <1>11, ReturnSteps, FailureSteps DEF Lists
<1>12. ASSUME NEW w \in 1..MaxWorkers, Background(w) PROVE Inv'
  BY <1>12, BackgroundStep
<1>13. ASSUME NEW w \in 1..MaxWorkers, Done(w) PROVE Inv'
  BY <1>13, DoneStep
<1>14. ASSUME NEW w \in 1..MaxWorkers, DoneFailed(w) PROVE Inv'
  BY <1>14, DoneFailedStep
<1>15. CASE UNCHANGED vars
  <2>1. Keeps /\ UNCHANGED <<text, suggestions, connectionVars, stack>>
    BY <1>15, Unmoved DEF vars, connectionVars
  <2>. QED
    BY <2>1, WorkerSteps
<1>. QED
  BY <1>1, <1>2, <1>3, <1>4, <1>5, <1>6, <1>7, <1>8, <1>9, <1>10, <1>11, <1>12, <1>13,
     <1>14, <1>15, <1>16, Zenon DEF Next, Dispatch

LEMMA Invariance == Spec => []Inv
  BY InitInv, StepInv, PTL DEF Spec

-----------------------------------------------------------------------------
\* The variables keep their types, and only dialogs lie under another frame.
THEOREM TypeCorrect == Spec => []TypeOK
<1>1. Inv => TypeOK
  BY DEF Inv
<1>. QED
  BY <1>1, Invariance, PTL

\* The drop-down list never holds a match of another word than the one in the field,
\* whatever the order in which workers come back (WordSearchField.java:80-97).
THEOREM OnlyFittingSuggestions == Spec => []SuggestionsFit
<1>1. Inv => SuggestionsFit
  BY DEF Inv
<1>. QED
  BY <1>1, Invariance, PTL

\* Through any nesting of dialogs and any failures of the workers, the user gets the
\* window back with an open connection (DictionaryMain.java:123-126, 158-194).
THEOREM WindowAlwaysConnected == Spec => []WindowConnected
<1>1. Inv => WindowConnected
  BY DEF Inv, Serving, WindowConnected, Window
<1>. QED
  BY <1>1, Invariance, PTL

\* Whatever fails and however dialogs nest, a connection that stays open is in use, was
\* refused, or was made in a dialog within another (DictionaryMain.java:123-126, 158-194,
\* DictionaryConnection.java:33-43).
THEOREM NoConnectionForgotten == Spec => []NoneForgotten
<1>1. Inv => NoneForgotten
  BY DEF Inv
<1>. QED
  BY <1>1, Invariance, PTL

=============================================================================
