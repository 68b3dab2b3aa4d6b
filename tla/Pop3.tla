-------------------------------- MODULE Pop3 --------------------------------
(***************************************************************************)
(* The POP3 server of assignment 3: one thread per connection              *)
(* (handle_client in mypopd.c), over state that all threads share without  *)
(* a lock -- the position inside strtok (split in util.c), the position in *)
(* users.txt (is_valid_user in mailuser.c) and the mail store.             *)
(*                                                                         *)
(* pc[s] says where thread s stands; an action is one library call or one  *)
(* stretch of code that touches shared state at most once.  A line is a    *)
(* sequence of words: a command of four letters and at most one argument   *)
(* of one character, so that the place of a word in the buffer depends on  *)
(* its number only.                                                        *)
(***************************************************************************)
EXTENDS Naturals, Sequences, FiniteSets

CONSTANTS
    Sessions,      \* threads, each with one client at a time
    Scripts,       \* what clients send: sequences of command lines
    UserFile,      \* users.txt: a sequence of records with a name and a password
    Mailboxes,     \* directories of mail.store
    Files,         \* numbers N of files N.mail
    Fold,          \* a word in lower case: strcasecmp(u, v) = 0 iff Fold[u] = Fold[v]
    Number,        \* atoi()
    Stored,        \* the mail store at the start: a message or NoMsg for each file
    MaxMsg,        \* bound: messages that ever arrive
    MaxConns       \* bound: connections per thread

NoWord == ""       \* the empty string
NoMsg == 0         \* no file of that name
Nothing == [number |-> 0, msg |-> NoMsg]      \* no RETR has sent a message

Lines == UNION {{script[i] : i \in 1..Len(script)} : script \in Scripts}
Word == {NoWord} \cup UNION {{l[i] : i \in 1..Len(l)} : l \in Lines}

Name == Word \cup {UserFile[i].name : i \in 1..Len(UserFile)}

\* Messages at the start, which are numbered from 1.
InStore == Cardinality({p \in Mailboxes \X Files : Stored[p[1]][p[2]] # NoMsg})

ASSUME ConstAssumption ==
    /\ Scripts \subseteq Seq(Lines) /\ Len(UserFile) \in Nat
    /\ \A l \in Lines : l \in Seq(Word \ {NoWord}) /\ Len(l) <= 2
    /\ Number \in [Word -> Nat] /\ DOMAIN Fold = Name
    /\ Files \subseteq 0..9          \* strcmp orders these names as numbers
    /\ MaxMsg \in Nat /\ MaxConns \in Nat
    /\ InStore \in Nat /\ Stored \in [Mailboxes -> [Files -> 0..InStore]]

\* No message is stored twice.
ASSUME StoredAssumption ==
    \A b, c \in Mailboxes, f, g \in Files :
        Stored[b][f] = Stored[c][g] => (b = c /\ f = g) \/ Stored[b][f] = NoMsg

VARIABLES
    up,           \* the process is alive
    pc,           \* where thread s stands
    state,        \* ss->state
    line,         \* ss->recvbuf, as words
    words,        \* ss->words[0 .. nwords-1]: places in a buffer, not copies
    olds,         \* strtok's static pointer: the place after the last word
    username,     \* ss->username
    scan,         \* position in users.txt: number of the next record
                  \* (the file is open: its first fopen is not modelled)
    list,         \* ss->mail_list; msg, the message stored under the name when it
                  \* was listed, is history
    todo,         \* names that readdir in load_user_mail has not come to
    store,        \* the message in each file of each mailbox
    arrived,      \* messages that ever arrived; the next one is arrived + 1
    conns, rest,  \* connections of thread s, what its client has still to send
    \* history, read by the properties only
    reply,        \* status of the last reply
    disturbed,    \* another thread was in strtok or users.txt during this command
    marked,       \* entries whose deletion was confirmed since PASS or RSET
    numbered,     \* the messages by their numbers when the mail list was complete
    sent          \* number and message of the last RETR, until the next command

lineVars  == <<line, words, olds>>
userVars  == <<username, scan>>
mailVars  == <<list, todo, store, arrived>>
bounds    == <<conns, rest>>
retrVars  == <<numbered, sent>>
history   == <<reply, disturbed, marked, retrVars>>
vars == <<up, pc, state, lineVars, userVars, mailVars, bounds, history>>

Set(f, s, v) == [f EXCEPT ![s] = v]

Goto(s, where) == pc' = Set(pc, s, where)

\* The status line goes out and the thread reads on.
Answer(s, status) == Goto(s, "read") /\ reply' = Set(reply, s, status)

Busy(s) == pc[s] \notin {"closed", "read"}

\* Thread s uses what the busy threads share.
Disturb(s) == disturbed' = [t \in Sessions |-> disturbed[t] \/ (t # s /\ Busy(t))]

-----------------------------------------------------------------------------
(* Places in the buffers                                                   *)

Place(s, i) == [buf |-> s, at |-> i]
NoPlace == [buf |-> NoWord, at |-> 0]      \* NULL

\* The string that starts at a place, as the buffer stands now.
Text(p) == IF p # NoPlace /\ p.at <= Len(line[p.buf]) THEN line[p.buf][p.at] ELSE NoWord

Command(s) == Text(words[s][1])
Arg(s) == Text(words[s][2])
HasArgs(s, n) == Len(words[s]) = n + 1

-----------------------------------------------------------------------------
(* A connection                                                            *)

Init ==
    /\ up = TRUE
    /\ pc = [s \in Sessions |-> "closed"]
    /\ state = [s \in Sessions |-> "Undefined"]
    /\ line = [s \in Sessions |-> <<>>] /\ words = [s \in Sessions |-> <<>>]
    /\ olds = NoPlace
    /\ username = [s \in Sessions |-> NoWord] /\ scan = 1
    /\ list = [s \in Sessions |-> <<>>] /\ todo = [s \in Sessions |-> {}]
    /\ store = Stored /\ arrived = InStore
    /\ conns = [s \in Sessions |-> 0] /\ rest = [s \in Sessions |-> <<>>]
    /\ reply = [s \in Sessions |-> "none"]
    /\ disturbed = [s \in Sessions |-> FALSE]
    /\ marked = [s \in Sessions |-> {}] /\ numbered = [s \in Sessions |-> <<>>]
    /\ sent = [s \in Sessions |-> Nothing]

\* A new thread.  Its username is not initialised: it is what the memory of its
\* stack holds, which may be the one of a thread that is gone.
Accept(s) ==
    /\ up /\ pc[s] = "closed" /\ conns[s] < MaxConns
    /\ conns' = Set(conns, s, conns[s] + 1)
    /\ \E script \in Scripts : rest' = Set(rest, s, script)
    /\ state' = Set(state, s, "Authorization")
    /\ \E u \in {NoWord} \cup {username[t] : t \in {t \in Sessions : pc[t] = "closed"}} :
        username' = Set(username, s, u)
    /\ Answer(s, "none")
    /\ UNCHANGED <<up, lineVars, scan, mailVars, disturbed, marked, retrVars>>

ReadLine(s) ==
    /\ up /\ pc[s] = "read" /\ rest[s] # <<>>
    /\ line' = Set(line, s, Head(rest[s]))
    /\ rest' = Set(rest, s, Tail(rest[s]))
    /\ disturbed' = Set(disturbed, s, FALSE)
    /\ reply' = Set(reply, s, "none") /\ sent' = Set(sent, s, Nothing)
    /\ Goto(s, "split")
    /\ UNCHANGED <<up, state, words, olds, userVars, mailVars, conns, marked, numbered>>

\* Mutant: the mail list is destroyed on every way out of the loop.
HangupDestroys(s) ==
    /\ up /\ pc[s] = "read"
    /\ state' = Set(state, s, "Undefined")
    /\ Goto(s, "unlink")
    /\ UNCHANGED <<up, lineVars, userVars, mailVars, bounds, history>>

\* The connection ends, in order or not, or the line has no end.
Hangup(s) ==
    /\ up /\ pc[s] = "read"
    /\ state' = Set(state, s, "Undefined")
    /\ list' = Set(list, s, <<>>)
    /\ marked' = Set(marked, s, {}) /\ numbered' = Set(numbered, s, <<>>)
    /\ Goto(s, "closed")
    /\ UNCHANGED <<up, lineVars, userVars, todo, store, arrived, bounds, reply, disturbed, sent>>
-----------------------------------------------------------------------------
(* split(): one call of strtok at a time                                   *)

\* Mutant: the first call continues where the last one stopped.
SplitContinued(s) ==
    /\ up /\ pc[s] = "split"
    /\ words' = Set(words, s, <<olds>>)
    /\ olds' = IF Text(olds) = NoWord THEN olds ELSE [olds EXCEPT !.at = @ + 1]
    /\ Disturb(s) /\ Goto(s, "next")
    /\ UNCHANGED <<up, state, line, userVars, mailVars, bounds, reply, marked, retrVars>>

\* After the first word, or before nothing at all.
SplitFirst(s) ==
    /\ up /\ pc[s] = "split"
    /\ IF line[s] = <<>>
       THEN words' = Set(words, s, <<NoPlace>>) /\ olds' = Place(s, 1)
       ELSE words' = Set(words, s, <<Place(s, 1)>>) /\ olds' = Place(s, 2)
    /\ Disturb(s) /\ Goto(s, "next")
    /\ UNCHANGED <<up, state, line, userVars, mailVars, bounds, reply, marked, retrVars>>

\* strtok(NULL): wherever the last call of any thread stopped.
SplitNext(s) ==
    /\ up /\ pc[s] = "next"
    /\ IF Text(olds) # NoWord
       THEN /\ words' = Set(words, s, Append(words[s], olds))
            /\ olds' = [olds EXCEPT !.at = @ + 1]
            /\ UNCHANGED pc
       ELSE Goto(s, "exec") /\ UNCHANGED <<words, olds>>
    /\ Disturb(s)
    /\ UNCHANGED <<up, state, line, userVars, mailVars, bounds, reply, marked, retrVars>>

-----------------------------------------------------------------------------
(* is_valid_user(), over the one position in users.txt                     *)

\* Mutant: the file is opened once and never rewound.
NoRewind(s, next) ==
    /\ Disturb(s) /\ Goto(s, next)
    /\ UNCHANGED <<up, state, lineVars, userVars, mailVars, bounds, reply, marked, retrVars>>

Rewind(s, next) ==
    /\ scan' = 1
    /\ Disturb(s) /\ Goto(s, next)
    /\ UNCHANGED <<up, state, lineVars, username, mailVars, bounds, reply, marked, retrVars>>

RewindUser(s) == up /\ pc[s] = "rewindUser" /\ Rewind(s, "scanUser")
RewindPass(s) == up /\ pc[s] = "rewindPass" /\ Rewind(s, "scanPass")

\* fscanf finds no record: the name is unknown.
ScanEnd(s) ==
    /\ up /\ pc[s] \in {"scanUser", "scanPass"} /\ scan > Len(UserFile)
    /\ Answer(s, "err")
    /\ UNCHANGED <<up, state, lineVars, userVars, mailVars, bounds, disturbed, marked, retrVars>>

ScanUser(s) ==
    /\ up /\ pc[s] = "scanUser" /\ scan <= Len(UserFile)
    /\ scan' = scan + 1
    /\ Goto(s, IF Fold[Arg(s)] = Fold[UserFile[scan].name] THEN "copy" ELSE "scanUser")
    /\ Disturb(s)
    /\ UNCHANGED <<up, state, lineVars, username, mailVars, bounds, reply, marked, retrVars>>

\* strncpy reads the word once more.
CopyUser(s) ==
    /\ up /\ pc[s] = "copy"
    /\ username' = Set(username, s, Arg(s))
    /\ Answer(s, "ok")
    /\ UNCHANGED <<up, state, lineVars, scan, mailVars, bounds, disturbed, marked, retrVars>>

\* The answer is sent before the mailbox is read.
ScanPass(s) ==
    /\ up /\ pc[s] = "scanPass" /\ scan <= Len(UserFile)
    /\ scan' = scan + 1
    /\ LET record == UserFile[scan] IN
       CASE Fold[username[s]] # Fold[record.name] ->
                UNCHANGED <<pc, reply, todo>>
         [] Fold[username[s]] = Fold[record.name] /\ Arg(s) # record.password ->
                Answer(s, "err") /\ UNCHANGED todo
         [] OTHER ->
                /\ reply' = Set(reply, s, "ok") /\ Goto(s, "load")
                /\ todo' = Set(todo, s, IF username[s] \in Mailboxes THEN Files ELSE {})
    /\ Disturb(s)
    /\ UNCHANGED <<up, state, lineVars, username, list, store, arrived, bounds, marked, retrVars>>

-----------------------------------------------------------------------------
(* The mail list                                                           *)

\* A name is listed before the first that does not come before it, if its file is there.
Listed(s, f, k) ==
    LET l == list[s]
        entry == [box |-> username[s], file |-> f, msg |-> store[username[s]][f], deleted |-> FALSE]
    IN IF entry.msg = NoMsg THEN l ELSE Append(SubSeq(l, 1, k), entry) \o SubSeq(l, k + 1, Len(l))

\* readdir returns the names in any order.
LoadEntry(s) ==
    /\ up /\ pc[s] = "load"
    /\ \E f \in todo[s], k \in 0..Len(list[s]) :
        /\ \A i \in 1..k : list[s][i].file < f
        /\ k < Len(list[s]) => list[s][k + 1].file >= f
        /\ list' = Set(list, s, Listed(s, f, k))
        /\ todo' = Set(todo, s, todo[s] \ {f})
    /\ UNCHANGED <<up, pc, state, lineVars, userVars, store, arrived, bounds, history>>

Loaded(s) ==
    /\ up /\ pc[s] = "load" /\ todo[s] = {}
    /\ state' = Set(state, s, "Transaction")
    /\ numbered' = Set(numbered, s, [n \in DOMAIN list[s] |-> list[s][n].msg])
    /\ Goto(s, "read")
    /\ UNCHANGED <<up, lineVars, userVars, mailVars, bounds, reply, disturbed, marked, sent>>

\* mail_list_retrieve() finds entry n, counted from 1.
Found(s, n) == n \in 1..Len(list[s]) /\ ~list[s][n].deleted

\* Mutant: the first file that is gone ends the removal.
UnlinkGivesUp(s) ==
    /\ up /\ pc[s] = "unlink" /\ list[s] # <<>>
    /\ LET e == Head(list[s]) IN
       /\ store' = IF e.deleted THEN [store EXCEPT ![e.box][e.file] = NoMsg] ELSE store
       /\ list' = Set(list, s, IF e.deleted /\ store[e.box][e.file] = NoMsg
                               THEN <<>> ELSE Tail(list[s]))
    /\ UNCHANGED <<up, pc, state, lineVars, userVars, todo, arrived, bounds, history>>

\* Mutant: mail_item_delete() unlinks the entry from the list.
Dropped(l, n) == SubSeq(l, 1, n - 1) \o SubSeq(l, n + 1, Len(l))

\* mail_item_delete()
Deleted(l, n) == [l EXCEPT ![n].deleted = TRUE]

\* mail_list_destroy(): one entry, its file under whatever message has it now.
Unlink(s) ==
    /\ up /\ pc[s] = "unlink" /\ list[s] # <<>>
    /\ LET e == Head(list[s]) IN
       store' = IF e.deleted THEN [store EXCEPT ![e.box][e.file] = NoMsg] ELSE store
    /\ list' = Set(list, s, Tail(list[s]))
    /\ UNCHANGED <<up, pc, state, lineVars, userVars, todo, arrived, bounds, history>>

Unlinked(s) ==
    /\ up /\ pc[s] = "unlink" /\ list[s] = <<>>
    /\ state' = Set(state, s, "Undefined")
    /\ marked' = Set(marked, s, {}) /\ numbered' = Set(numbered, s, <<>>)
    /\ Goto(s, "closed")
    /\ UNCHANGED <<up, lineVars, userVars, mailVars, bounds, reply, disturbed, sent>>

\* save_user_mail(), called by another program: the first name that is free.
Deliver(b) ==
    /\ arrived < MaxMsg
    /\ \E f \in Files :
        /\ store[b][f] = NoMsg
        /\ \A g \in Files : g < f => store[b][g] # NoMsg
        /\ store' = [store EXCEPT ![b][f] = arrived + 1]
    /\ arrived' = arrived + 1
    /\ UNCHANGED <<up, pc, state, lineVars, userVars, list, todo, bounds, history>>

-----------------------------------------------------------------------------
(* The commands                                                            *)

Asks(s, where, c) ==
    up /\ pc[s] = "exec" /\ state[s] = where /\ words[s][1] # NoPlace /\ Command(s) = c

\* A line without words, or RETR of a file that is gone, is the end of the process.
Crash == up' = FALSE /\ UNCHANGED <<pc, reply>>

Empty(s) ==
    /\ up /\ pc[s] = "exec" /\ words[s][1] = NoPlace
    /\ Crash
    /\ UNCHANGED <<state, lineVars, userVars, mailVars, bounds, disturbed, marked, retrVars>>

Known == [Authorization |-> {"QUIT", "USER", "PASS"},
          Transaction |-> {"STAT", "LIST", "RETR", "DELE", "RSET", "NOOP", "QUIT"}]

Refuse(s) ==
    /\ \E c \in Word : Asks(s, state[s], c) /\ c \notin Known[state[s]]
    /\ Answer(s, "err")
    /\ UNCHANGED <<up, state, lineVars, userVars, mailVars, bounds, disturbed, marked, retrVars>>

Check(s, next) ==
    /\ IF HasArgs(s, 1) THEN Goto(s, next) /\ UNCHANGED reply ELSE Answer(s, "err")
    /\ UNCHANGED <<up, state, lineVars, userVars, mailVars, bounds, disturbed, marked, retrVars>>

User(s) == Asks(s, "Authorization", "USER") /\ Check(s, "rewindUser")
Pass(s) == Asks(s, "Authorization", "PASS") /\ Check(s, "rewindPass")

Stat(s) ==
    /\ \E c \in {"STAT", "NOOP"} : Asks(s, "Transaction", c)
    /\ Answer(s, "ok")
    /\ UNCHANGED <<up, state, lineVars, userVars, mailVars, bounds, disturbed, marked, retrVars>>

List(s) ==
    /\ Asks(s, "Transaction", "LIST")
    /\ Answer(s, IF \/ list[s] = <<>> \/ HasArgs(s, 0)
                    \/ HasArgs(s, 1) /\ Found(s, Number[Arg(s)])
                 THEN "ok" ELSE "err")
    /\ UNCHANGED <<up, state, lineVars, userVars, mailVars, bounds, disturbed, marked, retrVars>>

\* The entry a command names, if it names one.
Names(s, n) == HasArgs(s, 1) /\ n = Number[Arg(s)] /\ Found(s, n)

\* The message under a name now, whichever was listed there.
Stands(e) == store[e.box][e.file]

Retr(s) ==
    /\ Asks(s, "Transaction", "RETR")
    /\ \/ /\ \E n \in DOMAIN list[s] : Names(s, n) /\ Stands(list[s][n]) = NoMsg
          /\ Crash /\ UNCHANGED sent
       \/ /\ \E n \in DOMAIN list[s] :
                /\ Names(s, n) /\ Stands(list[s][n]) # NoMsg
                /\ sent' = Set(sent, s, [number |-> n, msg |-> Stands(list[s][n])])
          /\ Answer(s, "ok") /\ UNCHANGED up
       \/ /\ ~\E n \in DOMAIN list[s] : Names(s, n)
          /\ Answer(s, "err") /\ UNCHANGED <<up, sent>>
    /\ UNCHANGED <<state, lineVars, userVars, mailVars, bounds, disturbed, marked, numbered>>

Dele(s) ==
    /\ Asks(s, "Transaction", "DELE")
    /\ \/ \E n \in DOMAIN list[s] :
            /\ Names(s, n)
            /\ list' = Set(list, s, Deleted(list[s], n))
            /\ marked' = Set(marked, s, marked[s] \cup {list[s][n]})
            /\ Answer(s, "ok")
       \/ /\ ~\E n \in DOMAIN list[s] : Names(s, n)
          /\ Answer(s, "err")
          /\ UNCHANGED <<list, marked>>
    /\ UNCHANGED <<up, state, lineVars, userVars, todo, store, arrived, bounds, disturbed,
                   retrVars>>

Undeleted(l) == [n \in DOMAIN l |-> [l[n] EXCEPT !.deleted = FALSE]]

Rset(s) ==
    /\ Asks(s, "Transaction", "RSET")
    /\ list' = Set(list, s, Undeleted(list[s]))
    /\ marked' = Set(marked, s, {})
    /\ Answer(s, "ok")
    /\ UNCHANGED <<up, state, lineVars, userVars, todo, store, arrived, bounds, disturbed,
                   retrVars>>

\* QUIT before PASS closes the connection; after it, the mail list goes first.
QuitEarly(s) ==
    /\ Asks(s, "Authorization", "QUIT")
    /\ state' = Set(state, s, "Undefined")
    /\ reply' = Set(reply, s, "ok") /\ Goto(s, "closed")
    /\ UNCHANGED <<up, lineVars, userVars, mailVars, bounds, disturbed, marked, retrVars>>

QuitLate(s) ==
    /\ Asks(s, "Transaction", "QUIT")
    /\ state' = Set(state, s, "Update")
    /\ reply' = Set(reply, s, "ok") /\ Goto(s, "unlink")
    /\ UNCHANGED <<up, lineVars, userVars, mailVars, bounds, disturbed, marked, retrVars>>

-----------------------------------------------------------------------------
Split(s) == SplitFirst(s) \/ SplitNext(s)

Lookup(s) ==
    \/ RewindUser(s) \/ RewindPass(s) \/ ScanEnd(s)
    \/ ScanUser(s) \/ CopyUser(s) \/ ScanPass(s)

Maildrop(s) == LoadEntry(s) \/ Loaded(s) \/ Unlink(s) \/ Unlinked(s)

Exec(s) ==
    \/ Empty(s) \/ Refuse(s) \/ User(s) \/ Pass(s) \/ Stat(s) \/ List(s)
    \/ Retr(s) \/ Dele(s) \/ Rset(s) \/ QuitEarly(s) \/ QuitLate(s)

\* What a thread does by itself, and what it waits for.
Work(s) == Split(s) \/ Lookup(s) \/ Maildrop(s) \/ Exec(s)
Client(s) == Accept(s) \/ ReadLine(s) \/ Hangup(s)

Next ==
    \/ \E s \in Sessions : Work(s) \/ Client(s)
    \/ \E b \in Mailboxes : Deliver(b)

Spec == Init /\ [][Next]_vars

-----------------------------------------------------------------------------
(* Properties                                                              *)

\* split() yields the words of its own line, all of them and in order, when no
\* other thread is in strtok meanwhile: what an earlier command or another
\* connection left in strtok has no part in it (util.c:41).
WordsAreOwn ==
    \A s \in Sessions :
        pc[s] = "exec" /\ ~disturbed[s] /\ line[s] # <<>> =>
            words[s] = [i \in 1..Len(line[s]) |-> Place(s, i)]

\* The same without the condition: what util.c:28-37 says split() does.
SplitsTheLine ==
    \A s \in Sessions :
        pc[s] = "exec" /\ line[s] # <<>> =>
            [i \in 1..Len(words[s]) |-> Text(words[s][i])] = line[s]

\* USER is accepted exactly for the names of users.txt, wherever the last search
\* of the file stopped, when no other thread searches meanwhile (mailuser.c:50-56).
UserAnswered ==
    \A s \in Sessions :
        /\ pc[s] = "read" /\ reply[s] # "none" /\ ~disturbed[s]
        /\ state[s] = "Authorization" /\ Len(line[s]) = 2 /\ line[s][1] = "USER"
        => (reply[s] = "ok") = (\E i \in 1..Len(UserFile) :
                                    Fold[UserFile[i].name] = Fold[line[s][2]])

\* The file of a message disappears only under a thread that has confirmed the
\* deletion of that file since its last RSET and was then told to quit: not when
\* a connection breaks, nor after RSET (mailuser.c:239-252, mypopd.c:294-302).
OnlyConfirmedRemoved ==
    [][\A b \in Mailboxes, f \in Files :
        store[b][f] # NoMsg /\ store'[b][f] = NoMsg =>
            \E s \in Sessions :
                /\ state[s] = "Update"
                /\ \E e \in marked[s] : e.box = b /\ e.file = f]_vars

\* The message that disappears is one whose deletion was confirmed, not one that
\* took its file name since (mailuser.c:341-346).
OnlyThatMessageRemoved ==
    [][\A b \in Mailboxes, f \in Files :
        store[b][f] # NoMsg /\ store'[b][f] = NoMsg =>
            \E s \in Sessions : \E e \in marked[s] : e.msg = store[b][f]]_vars

\* When a thread closes after QUIT, no message that it confirmed to have deleted
\* is left, whoever else emptied or filled the mailbox (mailuser.c:233-252).
QuitRemovesAll ==
    [][\A s \in Sessions :
        pc[s] = "unlink" /\ pc'[s] = "closed" =>
            \A e \in marked[s] : store'[e.box][e.file] # e.msg]_vars

\* No file holds message m.
Gone(m) == \A b \in Mailboxes, f \in Files : store[b][f] # m

\* RETR n sends the message that had number n when the list was read at PASS, whatever
\* DELE and RSET did since.  Only when another connection has removed that message it
\* sends what a delivery has put under the name, and then nothing that has another
\* number (mailuser.c:275-289, 338).
RetrievesNumbered ==
    \A s \in Sessions :
        state[s] = "Transaction" /\ sent[s] # Nothing =>
            \/ sent[s].msg = numbered[s][sent[s].number]
            \/ /\ Gone(numbered[s][sent[s].number])
               /\ \A n \in DOMAIN numbered[s] : sent[s].msg # numbered[s][n]

\* The same without the exception: what mailuser.c:328-336 says the file pointer is.
RetrievesThat ==
    \A s \in Sessions :
        state[s] = "Transaction" /\ sent[s] # Nothing =>
            sent[s].msg = numbered[s][sent[s].number]
=============================================================================
