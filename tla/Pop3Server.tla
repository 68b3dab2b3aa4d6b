----------------------------- MODULE Pop3Server -----------------------------
(***************************************************************************)
(* The threads of the POP3 server and their descriptors (assignment 3):    *)
(* the accept loop and thread_handler of server.c, with handle_client and  *)
(* the file of RETR of mypopd.c as far as they open, use and close         *)
(* numbers.  Pop3 has the sessions, where descriptors do not appear.       *)
(***************************************************************************)
EXTENDS Naturals

CONSTANTS
  Thread,     \* one thread for each client
  Limit       \* numbers above those open for good: there is always a free one

Fd == 1..Limit

ASSUME Pop3ServerAssumption == Limit \in Nat \ {0}

VARIABLES
  pc,         \* where each thread is
  table,      \* what each number denotes: a socket or file of a thread, or nothing
  fd,         \* client_socket, ss->fd
  file,       \* the descriptor in do_retr's FILE
  clean       \* history: threads whose number no other thread held at the start

vars == <<pc, table, fd, file, clean>>

Free == <<"free">>
Socket(t) == <<"socket", t>>
File(t) == <<"file", t>>
Objects == {Free} \cup {Socket(t) : t \in Thread} \cup {File(t) : t \in Thread}

Running == {"created", "greet", "serve", "retr", "close", "close again"}
Locations == Running \cup {"absent", "waiting", "done", "forgotten"}

\* The numbers that a thread is still going to close.
Held(t) ==
  {n \in Fd : \/ pc[t] \in Running /\ n = fd[t]
              \/ pc[t] = "retr" /\ n = file[t]}

Init ==
  /\ pc = [t \in Thread |-> "absent"]
  /\ table = [n \in Fd |-> Free]
  /\ fd = [t \in Thread |-> 1] /\ file = [t \in Thread |-> 1]
  /\ clean = {}

Goto(t, l) == pc' = [pc EXCEPT ![t] = l]

\* open, accept: the lowest number that is free.
Lowest(n) == table[n] = Free /\ \A k \in 1..(n - 1) : table[k] # Free

Connect(t) ==
  /\ pc[t] = "absent" /\ Goto(t, "waiting")
  /\ UNCHANGED <<table, fd, file, clean>>

\* The accept loop; when malloc has nothing for the thread's arguments, it goes on to
\* the next client and leaves this one's socket as it is.
accept(t) == \E n \in Fd :
  /\ pc[t] = "waiting" /\ \A u \in Thread : pc[u] # "created"
  /\ Lowest(n)
  /\ table' = [table EXCEPT ![n] = Socket(t)]
  /\ fd' = [fd EXCEPT ![t] = n]
  /\ clean' = IF \A u \in Thread \ {t} : n \notin Held(u) THEN clean \cup {t} ELSE clean
  /\ Goto(t, "created") \/ Goto(t, "forgotten")
  /\ UNCHANGED file

\* close() of a number, whatever it denotes by now.
Close(n) == table' = [table EXCEPT ![n] = Free]

pthread_create(t) ==
  /\ pc[t] = "created"
  /\ \/ Goto(t, "greet") /\ UNCHANGED table
     \/ Goto(t, "done") /\ Close(fd[t])
  /\ UNCHANGED <<fd, file, clean>>

Sockets == {Socket(t) : t \in Thread}

GreetSent(t) ==
  /\ pc[t] = "greet" /\ table[fd[t]] \in Sockets
  /\ Goto(t, "serve")
  /\ UNCHANGED <<table, fd, file, clean>>

\* Mutant: the thread ends where handle_client returns.
GreetFailedForGood(t) ==
  /\ pc[t] = "greet"
  /\ Goto(t, "done")
  /\ UNCHANGED <<table, fd, file, clean>>

\* handle_client returns without its close; any send may fail.
GreetFailed(t) ==
  /\ pc[t] = "greet"
  /\ Goto(t, "close again")
  /\ UNCHANGED <<table, fd, file, clean>>

\* RETR: fopen of the mail file ...
fopen(t) == \E n \in Fd :
  /\ pc[t] = "serve" /\ table[fd[t]] \in Sockets
  /\ Lowest(n)
  /\ table' = [table EXCEPT ![n] = File(t)]
  /\ file' = [file EXCEPT ![t] = n]
  /\ Goto(t, "retr")
  /\ UNCHANGED <<fd, clean>>

\* ... and fclose, when fgets has come to an end or read what a client sent.
fclose(t) ==
  /\ pc[t] = "retr"
  /\ Close(file[t])
  /\ Goto(t, "serve")
  /\ UNCHANGED <<fd, file, clean>>

\* Mutant: a length that is never negative does not end the loop.
LeaveNever(t) == pc[t] = "serve" /\ UNCHANGED vars

\* QUIT, a line that is too long, or the end of what is at the descriptor.
Leave(t) ==
  /\ pc[t] = "serve"
  /\ Goto(t, "close")
  /\ UNCHANGED <<table, fd, file, clean>>

\* mypopd.c closes the number ...
HandlerCloses(t) ==
  /\ pc[t] = "close"
  /\ Close(fd[t])
  /\ Goto(t, "close again")
  /\ UNCHANGED <<fd, file, clean>>

\* Mutant: the file of the last RETR is closed once more, too.
ThreadClosesFile(t) ==
  /\ pc[t] = "close again"
  /\ table' = [table EXCEPT ![fd[t]] = Free, ![file[t]] = Free]
  /\ Goto(t, "done")
  /\ UNCHANGED <<fd, file, clean>>

\* ... and server.c closes it again.
ThreadCloses(t) ==
  /\ pc[t] = "close again"
  /\ Close(fd[t])
  /\ Goto(t, "done")
  /\ UNCHANGED <<fd, file, clean>>

Greet(t) == GreetSent(t) \/ GreetFailed(t)

Run(t) ==
  \/ accept(t) \/ pthread_create(t) \/ Greet(t)
  \/ fclose(t) \/ Leave(t) \/ HandlerCloses(t) \/ ThreadCloses(t)

Next == \E t \in Thread : Connect(t) \/ fopen(t) \/ Run(t)

Spec == Init /\ [][Next]_vars

\* Threads are scheduled, and a client ends its connection after finitely many
\* commands: reads come back, those of RETR from a descriptor that is by now another
\* client's included.
FairSpec == Spec /\ \A t \in Thread : WF_vars(Run(t)) /\ SF_vars(Leave(t))

-----------------------------------------------------------------------------

TypeOK ==
  /\ pc \in [Thread -> Locations]
  /\ table \in [Fd -> Objects]
  /\ fd \in [Thread -> Fd] /\ file \in [Thread -> Fd]
  /\ clean \subseteq Thread

\* Every path of a thread gives back what it has opened: a socket or a file is open
\* only while its own thread is going to close it, whatever others have closed, or it
\* is the socket of a client for whom malloc failed.
OpenIsHeld == \A n \in Fd, t \in Thread :
  /\ table[n] = Socket(t) => pc[t] \in Running \cup {"forgotten"} /\ fd[t] = n
  /\ table[n] = File(t) => pc[t] = "retr" /\ file[t] = n

\* A client whose descriptor nobody else was still to close at its accept keeps it:
\* later sessions, their files and their double closes do not touch it.
CleanKeepsSocket == \A t \in clean :
  pc[t] \in {"created", "greet", "serve", "retr", "close"} => table[fd[t]] = Socket(t)

\* A client is served, or refused, and its socket is closed in the end, although others
\* close numbers twice and the accept loop waits for nobody, unless malloc fails.
ServedAndClosed == \A t \in Thread :
  pc[t] = "waiting" ~> \/ pc[t] = "done" /\ \A n \in Fd : table[n] # Socket(t)
                       \/ pc[t] = "forgotten"

\* "For each connection, invoke the handler on a new thread" (server.c:33-34): no
\* two threads have one connection.
OneThreadPerConnection == \A t, u \in Thread :
  pc[t] = "serve" /\ pc[u] = "serve" /\ t # u => fd[t] # fd[u]

\* The same sentence, of the accept loop: a client that was accepted has a thread that
\* serves it or has closed its socket (server.c:96-105); malloc may leave it without.
EveryClientHasThread == \A n \in Fd, t \in Thread :
  table[n] = Socket(t) => pc[t] \in Running
=============================================================================
