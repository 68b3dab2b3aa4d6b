# Verification of the CS317 assignments

TLA+ models, TLC runs and TLAPS proofs for the five network programs of this
repository (`src/assignment 1` … `src/assignment 5`). The programs do not call
each other, so the project has one family of modules per program.

`PROJECT.json` is the index: components, runs, the map from each definition to
its source lines, hazards, mutants, findings and theorems. This file explains them.

## 1. Inventory

### Assignment 4: STCP sender (`stcp/sender.c`, `stcp.c`, `stcp.h`)

A reliable byte stream over UDP; one thread, one connection.

* **State.** The control block: connection state, next sequence number, last
  acknowledgement number, count of repeated acknowledgements,
  `number_of_bytes_in_flight` (an unsigned short), the receiver's window, and a
  linked list of packets that are not acknowledged (`window_head` … `window_tail`).
* **Operations.** `stcp_open` (SYN, wait for SYN|ACK), `stcp_send` (wait while the
  window is full, then queue and send a chunk, or split it if it is longer than the
  window), `moveWindow`, `retransmitWindow` (third duplicate acknowledgement),
  `stcp_close` (drain, FIN, wait for FIN|ACK), `main` (a file, one MSS at a time).
* **Interaction.** Everything blocks in `readWithTimeout`, which yields a packet, a
  time-out or an error (ECONNREFUSED). The receiver at the other end is a
  binary that is not in the source: it is external.
* **Hard.** Lost, duplicated and reordered packets of either direction; five read
  loops with five different ideas of what a packet and a time-out mean; arithmetic on a count
  that wraps; a queue freed by one function while another waits on its head.
* **Correct if** the receiver's file is the bytes sent, in order; a sequence number
  stands for one byte; no wait is for nothing; the connection ends.
* **Around it.** `wraparound.c` compares sequence numbers that wrap; the sender does not
  call it, only its own test does. Pure functions: correct if the number that is ahead is
  found across any wrap. Not modelled: `tcp.c` (printing and byte order), `log.c`,
  `waitForPorts.c`.

### Assignment 3: POP3 server (`POP3/mypopd.c`, `mailuser.c`, `util.c`, `server.c`, `netbuffer.c`)

* **State.** For each connection: protocol state, the received line, its words
  (pointers into it), the user name, the mail list. For all threads together, without a lock:
  the static pointer inside `strtok`, the static `FILE *` of `users.txt`, the mail
  store on disk.
* **Operations.** A thread per connection (`server.c`) runs `handle_client`: read a
  line, `split` it, execute USER, PASS, STAT, LIST, RETR, DELE, RSET, NOOP or QUIT.
  `load_user_mail` lists a mailbox, `mail_list_destroy` removes what is marked,
  `save_user_mail` (used by other programs that deliver mail) adds a message.
* **Hard.** Threads that interleave inside a command; a mailbox that changes
  between PASS and QUIT; clients that hang up; files that are gone when they are
  read or removed.
* **Correct if** a command is executed with its own words; users are recognised;
  a message is removed only if its deletion was confirmed and followed by QUIT, and
  then is; RETR sends the message that had the number at PASS.
* **Server loop (`server.c`).** `accept`, one detached thread for each client, and the
  descriptor that the thread's arguments carry. Hard: `handle_client` closes the descriptor and
  `thread_handler` closes the number again, which another thread may own by then; `malloc` and
  `pthread_create` may fail after a client has been accepted. Correct if
  nothing stays open that nobody will close, and a client keeps its socket to its end.
* **Line buffer (`netbuffer.c`).** What was received and not handed out, and its length.
  `nb_read_line` and `nb_read_bytes` call `recv` until there is enough. Hard: lines that arrive in
  pieces or several at once, the end in the middle of one, a full buffer. Correct if
  callers cannot tell in which portions bytes arrived, and no call waits for what cannot come.

### Assignment 5: IP router (`router/router.c`, `ip.c`, `util.c`, `config/`)

* **State.** A bit mask of active interfaces, the forwarding table, the packet in hand.
* **Operations.** `addInterface`, `addForwardEntry` for the lines of a
  configuration, then for ever: read a packet, decrement ttl and increment the
  checksum, look the destination up, and drop or forward.
* **Hard.** Neighbours that return a packet; bytes and words that wrap; a
  table in any order with default and host routes.
* **Correct if** the route is the longest prefix, on an interface that
  exists; a packet in a routing loop dies; the updated header is as valid as it came.
* **Configuration (`config/scan.c`, `parse.c`, `config.c`).** A line buffer filled by `fgets`, a
  position in it, a recursive-descent parser that leaves by `longjmp`, and a list of
  lines. It runs once. Hard: comments that take the line feed with them, the end of the file in any
  place. Correct if all lines of the file are loaded or none, and the loops end.

### Assignment 2: DNS lookup service (`DNSLookupService.java`, `DNSCache.java`, …)

* **State.** The cache of records with expiry; for the lookup in progress the
  questions still to follow, the results, the servers tried, those that replied, and the
  query that waits for a datagram.
* **Operations.** `getResultsFollowingCNames` (recursive, to a level limit),
  `iterativeQuery` (closest nameservers with a known address, one after the other,
  again and again), `individualQueryProcess` (send, wait, retry), the cache's
  `addResult`, `getCachedResults`, `getBestNameservers`, `filterByKnownIPAddress`;
  the commands `lookup` and `reset` of the user interface.
* **Hard.** Loops in loops in a recursion against servers that are silent, late or
  wrong; records that expire between two reads of the cache; 16-bit transaction ids
  that collide.
* **Correct if** every lookup ends; results are about the question; someone is there
  to ask as long as the root servers are known; only nameservers are asked.
* **Message codec (`DNSMessage.java`).** A buffer, a position, a map from names to positions for
  writing and one from positions to names for reading. Hard: names compressed by whoever
  wrote the message, data that is kept raw, a message cut at the size of the packet.
  Correct if what is read is what was written, up to the cut.
* The verbose printer is not modelled.

### Assignment 1: Dictionary client (`DictionaryConnection.java`, `ui/`)

* **State.** One TCP connection with its reader and writer; in the window, the text field, the
  drop-down list, the connection in use, and the handlers in which the event dispatch
  thread is (a modal dialog runs an event loop of its own).
* **Operations.** Five methods (DEFINE, MATCH, SHOW DB, SHOW STRAT, SHOW INFO) that send a command
  and read its reply line by line, one at a time by `synchronized`; the constructor and `close`. In the
  window: typing and searching start background workers; `establishConnection` closes,
  asks for a server and connects; `handleException` shows a dialog and reconnects.
* **Hard.** Exceptions in the middle of a reply; a connection that breaks; workers that come back
  late, to another text or another connection; dialogs within dialogs; a constructor that
  throws after it has opened the socket; monitors that the dispatch thread waits for.
* **Correct if** each method returns its own command's reply or an exception; the list holds
  matches of the text; the user never has a window with a closed connection; no
  connection is forgotten; every worker ends.

### Other projects and texts

Notes, marks, test inputs and binaries in the repository have no behaviour to model.

## 2. Modules

| Module | Models | Lines of code |
|---|---|---|
| `ByteStream` | abstract: what a user of `stcp_send` is promised | – |
| `Stcp` | `sender.c`, the path, the receiver (external) | `sender.c` 60–662 |
| `Wraparound` | `wraparound.c`: operators, no state | `wraparound.c` |
| `Pop3` | `handle_client`, `split`, `is_valid_user`, the mail list and store | `mypopd.c`, `mailuser.c`, `util.c` |
| `Pop3Server` | threads and descriptors | `server.c`, `mypopd.c` |
| `LineReader` | abstract: what `netbuffer.c` promises | – |
| `NetBuffer` | the line buffer over a socket | `netbuffer.c` |
| `Router` | `router.c`, `ip.c` | `router.c`, `ip.c` |
| `RouterConfig` | scanner and parser of the configuration | `scan.c`, `parse.c`, `config.c` |
| `DnsCache` | `DNSCache.java` as operators on a set of records | `DNSCache.java` |
| `DnsLookup` | `DNSLookupService.java`, the datagrams, expiry | `DNSLookupService.java` |
| `DnsMessage` | the message codec and `processResponse` | `DNSMessage.java` |
| `RequestReply` | abstract: what `DictionaryConnection` promises | – |
| `DictConnection` | the methods of a connection, against a server | `DictionaryConnection.java`, `Status.java` |
| `DictUi` | the window, its workers and connections | `DictionaryMain.java`, `WordSearchField.java` |
| `*Proofs` | theorems about `Stcp` and `Wraparound`, `Pop3`, `Pop3Server` and `NetBuffer`, `Router` and `RouterConfig`, `DnsLookup`, `DnsMessage`, `DictConnection`, `DictUi` | – |
| `MC*` | values for TLC | – |

Three modules are shown to implement an abstract one:

* `Stcp` implements `ByteStream` (`StreamSpec`): `delivered` is what the receiver writes, `accepted` a
  history of the bytes of successful `stcp_send` calls.
* `NetBuffer` implements `LineReader` (`ReaderSpec`), with `rest <- buf \o wire`: what has arrived and what
  has not are one sequence to the caller.
* `DictConnection` implements `RequestReply` (`RequestReplySpec`), with `connected <- up`; the lines and the
  position in a reply are hidden.

All three refinements are also proved.

`DnsLookup` EXTENDS `DnsCache`: the cache has no thread of its own, and its operators
take the set of unexpired records as an argument. `RouterConfig` ends with the `list`
of the `lines` that `Router` starts from, in the same records. `NetBuffer` and `RouterConfig` have names
with a prefix (`nbNext`, `configNext`), so that one proof module can extend them together with
`Pop3Server` and `Router`.

Definitions whose comment starts with *Mutant* are plausible bugs of one
definition. No specification uses them; each property is shown to fail once the
mutant takes the place of the definition it varies.

### 2.1 Stcp

`pc` is the read loop in which the thread blocks: `open`, `send`, `rexmit_send`, `rexmit_close`
(`retransmitWindow` called from `stcp_send` or `stcp_close`), `close`, `fin`. An action is one
turn of a loop: a packet arrives (`SendAck`, `CloseAck`, …), the timer fires
(`SendTimeout`, …), or the read is refused. Code between two reads runs within an action,
since nothing else is in the process.

* `MoveWindow(ack)` frees nodes until the head starts at `ack`, *all* of them if none
  does, and takes payload plus header off the count; `flight` is the count before
  it wraps, `InFlight` what the unsigned short holds.
* Split chunks (`sender.c:304-346`): each piece has the full length, sequence numbers
  advance by it, the data pointer by the window. Pieces therefore repeat bytes and
  run past the buffer (byte 0 in the model). The loop that should send them starts at the
  head, which never fits, so nothing is sent or counted (`SplitHeadTooLarge`).
* The header search in `retransmitWindow` swaps byte order in place and does not swap back
  on nodes that it passes over; `RexmitHead`, which is proved, shows that it passes
  over none. The model keeps headers in host order on that ground.
* `CloseTimeout` with an empty queue copies −3 bytes (`sender.c:488-489`): the model
  lets the process crash or go on.
* The path is a set of packets in each direction, of at most `NetCap`: with
  `NetCap = 1` it loses but does not reorder, with 2 it also reorders, so that an
  acknowledgement may be read after a later one has moved the window (`FreedIsAcked`). A copy
  of a packet that is under way already is not told apart from it.
* Left out: failing `send`, checksums that fail (a loss), logging.

### 2.2 Pop3

An action is one library call or one stretch of code that touches shared state
at most once, for one thread. Places in buffers are pairs (thread, number of the
word), as `words[]` holds pointers and `strtok`'s position may lie in another thread's buffer.

Abstractions: commands in upper case and of four letters, at most one argument, so a place
is determined by a word's number; one call of `strtok` is atomic and the delimiters it overwrites
are not seen by another call; the first `fopen` of `users.txt` is done;
one reply status per command; an uninitialised `username` is nothing or a name left by a
thread that is gone; a mailbox that is no directory is an empty one. `Deliver` is
another program that calls `save_user_mail`.

A message has an identity, a file has a name: `store` says which message stands under a name, and a
delivery may give a name that another connection has freed to a new message. RETR and the removal at QUIT
go by the name (`Stands`). Two history variables tell the messages apart: `numbered` is the messages by
their numbers when `load_user_mail` had finished, `sent` what the last RETR sent, and under which number.
`RetrievesNumbered` compares the two, so that it speaks of what other connections and deliveries do to the
store as well as of the thread's own list.

### 2.3 Router

`lines` are the parsed configuration lines still to load; `LookupEntry` is one
turn of the loop of `forwardTableLookup`; `readpkt` includes the update of ttl and
checksum. Widths are parameters: a byte has `Byte` values, a word `Byte^2`. A header
keeps the bytes ttl and protocol, the checksum, the destination and the plain sum of its other
words; `ipchecksum` folds the sum with two carries, which suffice for ten words (the loop in
`ip.c` runs until there is no carry). The file has at most `TableSize` lines, as the
code does not test the size of the table. A neighbour returns what it got on any interface.

### 2.4 DnsCache and DnsLookup

The cache is the set of records that have not expired (every operation begins with
`pruneExpired`); `Expire` may take away any record of `Short` at any moment. `pending` is the
recursion of `getResultsFollowingCNames` as a stack of calls to come, which run depth first
and add to one result set, as in the code. The record list of `filterByKnownIPAddress` is built in one step.
`late` holds datagrams on their way to the socket: a lost one is one never
put there; a late one stays while queries come and go. What servers may answer is the
constant `Replies`. Left out: classes other than IN, OPT, AAAA and MX records, `TCPFallback`
(never called), TTL values beyond "expires during the run or not".

### 2.5 Wraparound

`plus32`, `minus32` and `greater32` over numbers of `Word` values. The differences in `greater32`
are of signed longs, which hold more than an unsigned int: they do not wrap in the model either.

### 2.6 NetBuffer and LineReader

`recv` moves any prefix of `wire` that fits into `buf`; it returns 0 only when `wire` is empty
and may fail at any time. `Has(n)` is the condition of the loop: a line feed at n, or n
bytes asked for. A failed call leaves the buffer as it is and may lose what has not arrived.
The byte 0 after what is copied out is left out; `BufferFits` bounds what is copied by `Max`, so that it fits.

### 2.7 Pop3Server

`table` is the process's descriptor table above the numbers open for good; `accept` and `fopen` take
the lowest free number. `fd` and `file` keep the numbers that a thread holds, whatever they
denote by now: each of the two closes of a number (`HandlerCloses`, `ThreadCloses`) frees whatever
is there. `accept` ends in either of two ways: with the arguments of a thread to be created, or, when `malloc` has
failed (`server.c:98`), with a client that is `forgotten`: its socket stays open, and the loop goes on.
`OpenIsHeld` and `ServedAndClosed` name this as the only way in which a socket is left behind or a client not
served; `EveryClientHasThread` is what the code promises, and is violated (section 6). `clean` is a history variable: the threads whose number nobody else was still going to close
when they got it.

### 2.8 RouterConfig

A file is a sequence of lexemes (words, numbers, punctuation, line feeds) and spaces: `fgets` counts them
instead of bytes, so that a line longer than the buffer is one of more than
`LineLength` lexemes. The parser's stack is the sequence `expect` of tokens that complete the line
begun. `configScanSkip` ends at the end of the buffer when it meets a comment, line feed included, as the code does.
An error leaves by `configParseError` and the assertion in `configLoad`, whatever lines were read before.

`LoadsTheFile` speaks of the text alone. `Significant` is the places of the file that are neither
spaces nor in a comment (the line feed behind a comment is in it), `Part(e)` those of the line that ends at
`e`. The file is `Grammatical` if the words of each part are a blank line, a port or a rule, and the last one
has its end; the `list` is then the `Entries` of the parts that are not blank. `LinesFit` says that `fgets`
never cuts a line; without it a comment that is cut goes on as text.

### 2.9 DnsMessage

A cell of `msg.buf` is a label, a pointer, the end of a name, or one field. The writer is either
`DNSMessage` (`addName`, which points to the longest suffix written before), or a server
that may point to any place where the rest of the name stands. `Receive` cuts the
message anywhere. `getName` yields a set: the name read, or nothing for an exception; labels are counted
in cells. `known` is `positionToName`; `PutAll` puts the places of one name into it. With `RawTargets` a server
may also point to names in the data of SOA records, which the reader keeps raw. Assertions are off, as Java has them by default, so a pointer to an unknown
place gives null.

### 2.10 DictConnection and RequestReply

`due` is what the server has still to say: an answer, with the place in it and the texts that it has still to say there, in
any order. `Says` gives the lines that may come next, each with what comes after it: a status, for each list its texts and
a dot, a final status; or a status that says there is nothing, or a refusal. `Atoms` has 1 in it when lines may
come with one atom only. Every method is the same few steps, told apart by `Announcing`,
`Nothing` and `Splits`. `Interrupt` breaks the connection; what has not arrived by then may still be read, until `Lose` drops the rest. `close` sends
QUIT and reads nothing.

### 2.11 DictUi

`stack` is what the event dispatch thread is in, the innermost first: a dialog (`message`, `input`), which dispatches
other events meanwhile, or a method that it waits for (`close`, `lists`, `info`). A worker is
`started`, waits for the monitor of the connection that it has read, is in the method (`calling`), and comes back to the
dispatch thread (`Done`, `DoneFailed`). What a method says is left to `DictConnection`. The constructor of a
connection ends in one of three ways: `Connect`; `ConnectFails`, when there is no socket; and `ConnectRefused`, when the
greeting is an error or does not come after `new Socket` has opened one (`DictionaryConnection.java:33-43`). The
exception leaves no object to call `close` on, so the socket stays in `open`; the program does not close it (the garbage
collector may, some time, which is not modelled).

The history variables name the cases in which the window goes wrong: `refused` (the connections refused in the greeting),
`inner` (those made in a dialog for a server that came up within another one, and replaced by the outer one's) and
`aborted` (a port that is no number). `NoneForgotten` allows exactly the sockets of the first two to stay open besides the
connection in use.

## 3. Runs

Each run takes less than three minutes with two workers; the sizes are distinct states.

| Run | Bounds | What it shows |
|---|---|---|
| `stcp_core` (670 k) | 3 chunks (5 bytes, MSS 2), header 1, count mod 16, windows 0/2/4, one refused read, a FIN\|ACK of an earlier connection, 2 packets each way | `TypeOK`, `SegmentsDisjoint`, `RexmitHead`, `DriftLaw`, `FreedIsAcked` and the refinement `StreamSpec` over a path that loses and reorders |
| `stcp_fifo` (16 k) | 4 chunks (10 bytes, MSS 3), windows 1/2/6, 1 packet each way, fairness | `WindowContiguous`, `SplitHeadTooLarge`, `Overshoot`, `EarlyFin`, `Terminates` on a path that does not reorder, chunks longer than the window included |
| `pop3` (1.3 M) | 2 threads, 1 connection each, 4 scripts, 2 files, 3 messages | `WordsAreOwn`, `UserAnswered`, `OnlyConfirmedRemoved`, `QuitRemovesAll`, `RetrievesNumbered` |
| `pop3_server` (1 k) | 2 threads, 4 numbers, `malloc` and `pthread_create` that may fail, fairness | `OpenIsHeld`, `CleanKeepsSocket`, `ServedAndClosed` |
| `net_buffer` (4.5 k) | every stream of 5 bytes with line feeds anywhere, a buffer of 3, requests of 0, 2, 3, 4 bytes, fairness | `BufferFits`, the refinement `ReaderSpec`, `CallReturns` |
| `router` (391 k) | bytes of 2 bits, addresses of 3 bits, 2 configurations, every checksum of 4 destinations, fairness | `LongestPrefix`, `SentToActive`, `HopsWithinTtl`, `UpdateKeepsValidity`, `EveryPacketEnds` |
| `router_config` (11 k) | 1121 files of up to 3 pieces, each right or wrong in its way, a buffer of 13 lexemes, fairness | `LoadsTheFile`, `ParseEnds` |
| `dns` (75 k) | a root, a zone with 2 servers, aliases in a loop, ids {0,1}, 2 attempts, 1 level, 1 late datagram, fairness | `ResultsRelated`, `StrandedBelowRoot`, `LookupEnds` |
| `dns_message` (893 k) | 2 names, one under the other, 4 types, 2 records, every cut | `CacheGetsWhatWasSent`, `AllIsRead` |
| `dict_connection` (15 k) | 2 texts, 2 definitions, every command, fairness | the refinement `RequestReplySpec`, `CallReturns` |
| `dict_ui` (283 k) | 2 words, one the beginning of the other, 2 workers, 3 sockets, each a connection or refused, fairness | `SuggestionsFit`, `WindowConnected`, `NoneForgotten`, `WorkersEnd` |
| `stcp_empty_queue` | 3 chunks, a window of one | the violated `WaitsForSomething`: section 6 |

The files `StcpReordered.cfg`, `StcpDropped.cfg`, `Pop3Split.cfg`, `Pop3Reuse.cfg`, `Pop3Reread.cfg`, `Pop3ServerShared.cfg`,
`Pop3ServerForgotten.cfg`, `RouterChecksum.cfg`, `DnsRelated.cfg`, `DnsAsked.cfg`,
`DnsRawNames.cfg`, `DictShortLine.cfg`, `DictInfo.cfg` and `DictUiRetyped.cfg` are not among the runs: each makes TLC show the
counterexample of one finding of section 6 (`tlc -config Pop3Split.cfg MCPop3`, and so on).

Why the bounds are enough to matter:

* **STCP.** Three chunks and two packets each way are the least with a gap that is filled late,
  and a duplicate of a packet from before it, or an acknowledgement read after a later one; six acknowledgements
  are enough for the third duplicate. Windows of
  0, one and two chunks cover closed, shrinking and reopening windows; those of `stcp_fifo` are
  smaller than a chunk, so chunks are split, or hold two. With a header of 1
  and a modulus of 16 the count wraps within a run, as 20 and 65536 do in the code after a
  few packets (a packet freed leaves the count 20 too low). In the code MSS is 280 = 14
  headers, so 14 freed packets cancel one outstanding; here two or three do.
* **POP3.** One connection per thread and two threads: every hazard is between two.
  Two threads interchange, so `Symmetry` is sound, and no property of that run is a liveness
  property. Of the scripts, one deletes two messages, one resets and retrieves, one logs in
  with the commands in the wrong order and a user in another case, one ends in a blank line.
  Three messages are two at the start and a delivery, which may take the name of one that has been removed.
* **POP3 server.** A double close hurts one other thread, and four numbers hold two sockets and two files.
  The safety properties are proved for any number of threads.
* **Line buffer.** Five bytes overrun a buffer of three once, with a rest; a line feed may be anywhere or missing; requests
  are of nothing, less than, exactly and more than the buffer.
* **Router.** Two bits per byte keep the layout (ttl and protocol share a word)
  and all wraps; the packets have every checksum, right or wrong. The first table is out of order,
  with an unknown interface, one beyond the mask, a default and a host route and a
  duplicate; the second has no default route.
* **Configuration.** The pieces are blank lines, ports, rules, comments behind and before a line, each kind of
  error, a file that ends within a line, and a comment longer than the buffer. `LoadsTheFile` is stated for
  lines that fit; what a longer one leads to is explored and must end. It is proved for files of any length and contents.
* **DNS.** Two transaction ids make collisions happen, which 65536 ids make
  rare, not impossible. One level and two attempts reach both limits. A chain of aliases
  usually ends in `SendNowhere` (an alias taken for a nameserver) before the level limit; both occur.
* **DNS messages.** A name and one under it give a label, a pointer, and both; each type is one way to read data
  (a name, a name behind a preference, fields, raw bytes). With a question and two records a pointer can lead to each of
  the places where names are: question, owner, data. The properties are proved for all names and any number of records.
* **Dictionary.** Two definitions are the least after which something is left; two words of which one
  begins the other, two workers and three connections are the least for a late worker of an older connection; three are
  also the least for one refused and one in a nested dialog besides the one in use.

`CHECK_DEADLOCK FALSE` is set where the system really comes to rest: `pop3` and `pop3_server` (clients come to an end, the
process may die), `router` (it waits for packets when all are dropped), `router_config` and `dns_message` (the file or the message has been
read), `dict_connection` (a refused connection; a method waits for a server). `dict_ui`, `dns`, `net_buffer` and the runs of STCP check
for deadlock.

## 4. Fairness

* **STCP** (`Fairness`). Weak for the local steps and the timers: the process is scheduled, and
  `select` has a limit. Strong for each read and for the receiver's steps: a packet that is
  put on the path again and again is in the end received rather than lost each time.
  Without it no protocol over a lossy path ends.
* **Router** (`FairSpec`, `WF_vars(Next)`). One thread that is always scheduled. A neighbour
  that returns a packet is the worst case for `EveryPacketEnds`, so it is made to return it;
  a packet that rests with a neighbour is out of the router.
* **DNS** (`WF_pc(Work)`). One thread, and a `receive` that ends by `SO_TIMEOUT`. The subscript
  `pc` only asks that it moves on; expiry and the arrival of datagrams need no fairness.
* **Line buffer** (`WF_nbVars(Serve)`). The peer sends on or ends the connection; the fairness does not ask
  for an error that would end the call.
* **POP3 server** (`WF_vars(Run(t))`, `SF_vars(Leave(t))`). Threads are scheduled, and a client ends its session after finitely many
  commands: `Leave` competes with RETR for ever otherwise. `Connect` and `fopen` are the clients' choice.
* **Configuration** (`WF_configVars(configNext)`). One thread.
* **Dictionary connection** (`WF_vars(ReadLine \/ ReadEnd)`). What has arrived is read. A server that says nothing more
  on a connection that stands is not among the behaviours of `Says`; the code has no time-out.
* **Dictionary window.** Weak for the dispatch thread inside a method and for each worker: threads run and the server
  answers. Strong for the event of a worker that is done: events are queued, so it is dispatched
  although other events keep the thread busy. The user's actions have no fairness: a
  dialog may stay up for ever, and `WorkersEnd` holds all the same, since dialogs dispatch events.
* The sessions of POP3 have no liveness property: a client may stay silent for ever.

## 5. What is proved

TLAPS checks the theorems for all values of the constants that satisfy
the named assumptions of the modules: window sizes, file
length, loss patterns, packets left from earlier connections; word sizes, tables, packets;
streams and buffer sizes; configuration files; names, records and cuts of messages;
numbers of threads, workers and connections.

**`StcpProofs`**

* `TypeCorrect`, `RetransmitsHead`: from `TypeInv`, which is `TypeOK`, `RexmitHead`, a pending
  chunk is not empty, and nothing is queued before the connection is open. `TypeOK` alone is not inductive:
  `RexmitTimeout` sends `window[1]`, which is a packet because `RexmitHead` says the
  queue is not empty.
* `QueueContiguous`, `SequenceNumbersUnique`: from `QueueInv`, which adds that every data
  packet, queued or under way, ends at or before the next sequence number. Disjointness is
  preserved when data is queued since new data begins where all old data has ended.
  Steps are first classified (`QueueSteps`) as ones that keep the queue, free from its head,
  clear the count, or add a packet or pieces.
* `CountDrifts`: `DriftLaw` is inductive given `TypeInv`. It says exactly how wrong the
  count is: a header for each packet freed, and the whole of a split chunk.
* `SplitHeads`: from `FullPackets`. As long as `main` has something to hand over every queued packet carries a
  full MSS: only the last chunk of a file is shorter. So the head is no shorter than the chunk that is split.
* `OvershootBound`: from `DriftLaw` and `Bounded`, the count stays within a chunk of some advertised window. It
  assumes `WindowsFit`: no window is within a chunk of the range of the count. Without it the theorem is false, and so it is of
  the code, where a window may be as large as `STCP_MAXWIN` = 65535: the count wraps before it reaches it, and the window
  never fills. It also assumes no stray packet: one that ends `stcp_open` leaves the window at 65535.
* `StreamIsDelivered`: the refinement `StreamSpec`, by a step simulation. `StreamInv` says that the packets, queued or under
  way, carry the bytes accepted at their sequence numbers, and that the receiver's file is what was accepted up to what it
  expects next. The first byte has the number after the SYN, or that of the SYN itself when a stray packet
  has ended `stcp_open`; then nothing is ever delivered. It assumes `ChunksFit`: a window is closed or holds a
  chunk, as pieces of a split chunk repeat bytes.
* `EarlyFinExplained`: from `AckInv`, `Handshake` and `Ordered`. On a path with one packet each way
  and none left from before, what the receiver expects, and what it has acknowledged, lies between two packets of the
  queue or at its end (`Boundary`), not before its head; so `moveWindow` finds its node, and frees what lies before it.
* `FreesWhatArrived`: from `ReachInv`, `Handshake` and `Ordered`, for a path of any capacity. An acknowledgement under way
  has a number that the receiver has reached, and that is the start of a queued packet, the end of the queue, or lies
  before its head (`Passed`): queued packets are freed from the head on and their bounds are never moved. In the first two
  cases `moveWindow` frees what has arrived; in the third the number is that of an older acknowledgement, and all
  is freed. That no packet of an earlier connection is under way (`Strays = {}`) is assumed; the property itself leaves out
  the steps in which one has misled the sender (`Misled`), and the run `stcp_core` explores the others.
* `GreaterSurvivesWrap`, `GreaterDecides`, `MinusUndoesPlus` (of `Wraparound`, for every even number of values): from `PlusWraps` and `MinusWraps`, which replace `%` by at
  most one addition or subtraction of the range, and `Half`. `testwraparound.c` tries
  distances below half of the range for some numbers; at exactly half the plain comparison decides.

**`Pop3Proofs`**

* `Invariant`: one inductive invariant `IInv` for all of them. `Stage` relates the place in the code to
  the state of the session; `MarksAgree` says that what is deleted in the list is marked, and what is marked is still to be
  deleted or gone from the store; `SplitSoFar` and `SearchSoFar` say how much of its line, and which records of `users.txt`, a
  thread has passed. The last two are said only of a thread that is not `disturbed`, since others move the same
  positions; the first two hold whatever the others do. `arrived` bounds every message in the store and the lists, so
  that a message that arrives is none that anyone has marked. `StoredOnce` says that no message stands under two names,
  `ListedThere` that the message of an entry is under its name or in no file, `NumbersAgree` that the list still has the
  messages that were numbered, and `SentFits` that nothing counts as sent while the next command is in progress.
* `OwnWords`, `UsersAnswered`: implied by `IInv`. So is `Retrieves`: RETR sends what stands under the name of the entry,
  which is the message listed there or, if that is in no file any more, one that has arrived since and so is in no list of
  before (`StoredOnce`).
* `OnlyConfirmed`, `QuitRemoves`: action properties, by cases over the actions of one thread.

**`RouterProofs`**

* `TypeCorrect`; the table stays within its array because lines and entries together do
  not exceed `TableSize`.
* `LookupIsLongestPrefix`: from `LookupInv`, after *n* entries `best` is the first of the
  longest matches among them.
* `SendsToActive`: from `ActiveInv`, every entry's interface is in `active`.
* `ForwardedWithinTtl`, `UpdateIsExact`: from `HopInv`, which relates the header in hand, the
  one that came and the one first sent. The arithmetic is in `FoldStep` (the folded sum is a
  congruence mod `Word − 1`), `HopHeader` and `TtlWrapDamages` (a ttl that wraps makes the header
  invalid, so the packet is dropped although its ttl is 255).
* `LoadsExactly` (of `RouterConfig`): `LoadsTheFile`, from `ConfigInv`. While the file is parsed, given `LinesFit`:
  * `Scanned`: the buffer and what is unread are the end of the file, so that each place of the buffer is a place of the file;
  * `WholeLine`: the buffer is one whole line, and no comment begins before the position in it. This is where `LinesFit` is
    needed, and why the end of the buffer that `configScanSkip` goes to is the end of what is commented;
  * `ParsedAs`: of the significant places up to the position, the lines that have ended are each in the grammar, the words of
    the open one followed by `expect` are a port or a rule, `nums` is its numbers and `list` the entries of those ended.

  The position moves from one significant place to the next; `expect` tells the line kinds apart, since `PortLine` and
  `ForwardLine` begin differently. After an error no continuation of the file is grammatical. `InOrder` is handled by
  counting: with a place behind all others the row grows at its end (cardinalities, no induction). Where the
  first of several places is needed, it comes from the library's theorem on minimal elements.

**`Pop3ServerProofs`**

* `TypeCorrect`, `NothingLeftOpen` (`OpenIsHeld`, inductive with the types): a forgotten client's number is closed by no
  step, since `accept` and `fopen` give no number that is open, unless another thread closes it a second time.
* `CleanClientsKeepTheirs`: `CleanKeepsSocket` needs to know that no number of a clean thread is held by another thread,
  which an accept or `fopen` preserves because it takes a free number, while that of a clean thread is not free.
* `BufferBounded` (of `NetBuffer`): `BufferFits` is inductive.
* `ImplementsReader` (of `NetBuffer`): `ReaderSpec`, by a step simulation. `recv` is a stutter, as it moves bytes within
  `buf \o wire`. The lemmas are about concatenated sequences: a prefix that lies in `buf` is the prefix of the whole, and
  the first line feed of the one is the first of the other.

**`DictConnectionProofs`** (`Expected`: `Atoms = {2}`, `InfoErrors = {550}`, the server that the methods are written for)

* `ImplementsRequestReply`: `RequestReplySpec`, by a step simulation. `InStep` says that the method and the answer that it reads are at the
  same place: as many lists have begun on both sides, all but the last are collected, and what is missing of that one the server has
  still to say. `IInv` adds that nothing is due between two calls, so that no answer is read by a later command. `left` is what is
  missing, so that a "." ends a method and the server's answer together. Each kind of line has a lemma (`ReadStatus`, `ReadDefinition`,
  `ReadText`, `ReadFinal`). For `Expected` it is needed that no line is unexpected: an exception would leave the rest due.

**`DictUiProofs`**

* `TypeCorrect`: with the fact that only dialogs are under another frame, which the others use.
* `OnlyFittingSuggestions`; `WindowAlwaysConnected`, from an invariant over the whole stack: unless a port was malformed, the
  connection is open below every frame that does not go on to replace it.
* `NoConnectionForgotten`: `NoneForgotten` is inductive with `OneAsks`: while a dialog asks for a server, at any depth of the stack,
  nothing is open but what was refused or is `inner`. A connection made in a dialog below which no other one asks is then the
  only one in use, and one made above another that asks is `inner` from the start.

**`DnsLookupProofs`** (for any servers, replies, late datagrams and expiry)

* `TypesHold`: with the facts that a lookup beyond its first step has a question whose name is counted, that
  only a server with an address is waited for, and that the root servers are in the cache.
* `ResultsAreRelated`: `ResultsRelated` is inductive given the types. What the cache gives is related by the lemma
  `CachedResults`; the servers asked are returned only when one of them has the name asked for.
* `RootIsReached`: `BestServers` says that what `getBestNameservers` gives is what the cache gives for some suffix, and is not
  empty. If the suffix is the root, a root server's address is found; if not, the cache knows something about it.

**`DnsMessageProofs`** (for any names, any choice among the types and sections, any number of records, every cut)

* `Faithful`, `Complete`, `Followable`: `CacheGetsWhatWasSent`, `AllIsRead` and `PointersFollowed`, all from `IInv`. The
  buffer is a row of records as they were written (a question, then an owner, type, length and data for each), with a name
  behind every pointer (`NameAt`); the reader's `positionToName` is the writer's history of names up to where it has
  read; the counts of the header are those of the records, by section, and what has been read is the first of them.
  A cut keeps the row up to the cut: a record that lies before it is read as it was written, one that it goes through is an exception.
* They assume `Parseable`: the message is one of `DNSMessage`, or servers do not compress against raw data. Without it
  `PointersFollowed` is false (`DnsRawNames.cfg`): such a name is in the writer's history, but never in `positionToName`.

**Only model-checked.** Every invariant, action property and refinement of the runs that pass is proved. The liveness properties (`Terminates`,
`EveryPacketEnds`, `LookupEnds`, `CallReturns`, `ServedAndClosed`, `ParseEnds`, `WorkersEnd`) stay with TLC: liveness and ENABLED are out of the prover's
reach, as is induction over data (what a recursive definition computes for
every input) and any module that reaches a RECURSIVE operator; for that reason no module
here declares one.

**Conditions.** `EarlyFin` and `Terminates` rest on a path of one packet each way (`NetCap = 1`): a reordered
acknowledgement matches no node, and `moveWindow` then frees all of them (`MovedByAcks`; `FreedIsAcked` says that this
is the only way in which it frees what has not arrived). `StreamSpec` rests on chunks no longer than the window
they meet, and speaks of the calls of `stcp_send` that succeed (`SendsTheFile`). `RequestReplySpec` rests on a server that
sends two atoms where two are read and refuses SHOW INFO with 550 (`Atoms = {2}`, `InfoErrors = {550}`),
`WindowConnected` on ports that are numbers, `LoadsTheFile` on lines that `fgets` does not cut (`LinesFit`), and
`CacheGetsWhatWasSent`, `AllIsRead` and `PointersFollowed` on servers that do not point into raw data
(`RawTargets = FALSE`). `WordsAreOwn` and `UserAnswered` are about threads that no other one has disturbed.

## 6. Findings

| Shown by | Code | What happens |
|---|---|---|
| `stcp_empty_queue` (run) | `sender.c:271` | after the last packet is freed the count has wrapped to about 65516: `stcp_send` waits for a window with nothing outstanding, and its time-out follows a NULL head |
| `StcpReordered.cfg` | `sender.c:107` | an acknowledgement that a later one has overtaken matches no queued packet: `moveWindow` frees all of them, packets that have not arrived among them, and nothing resends these |
| `StcpDropped.cfg` | `sender.c:649` | a refused read drops a chunk, and the stream goes on without it |
| `Pop3Split.cfg` | `util.c:43` | two threads share `strtok`'s position: a command gets words of another client's line |
| `Pop3Reuse.cfg` | `mailuser.c:243` | files are removed by name: a message that took a freed name since is removed though nobody has listed it |
| `Pop3Reread.cfg` | `mailuser.c:338` | RETR opens by name as well: it sends a message that arrived after PASS and has no number |
| `Pop3ServerForgotten.cfg` | `server.c:98` | when `malloc` fails the accepted socket is neither served nor closed |
| `Pop3ServerShared.cfg` | `server.c:48` | the second close of a number frees a connection just accepted, and the next accept gives the number to a third thread: two threads serve one client |
| `RouterChecksum.cfg` | `router.c:105` | `checksum++` from 0xFFFF is not an end-around carry: a valid header is dropped as damaged |
| `DnsRelated.cfg` | `DNSLookupService.java:119` | a lookup of a nameserver's own address returns the servers asked on the way, the root's address among them |
| `DnsAsked.cfg` | `DNSCache.java:123` | the host that an alias stands for is sent queries as if it were a nameserver |
| `DnsRawNames.cfg` | `DNSMessage.java:205` | a pointer to a name inside data that is kept raw (SOA) gives a record without a name |
| `DictShortLine.cfg` | `DictionaryConnection.java:153` | a line with one atom is an exception in the middle of a reply, and the next method returns the rest of it |
| `DictInfo.cfg` | `DictionaryConnection.java:243` | `getDatabaseInfo` takes a refusal other than 550 for the start of the text, and waits with the monitor held |
| `DictUiRetyped.cfg` | `WordSearchField.java:83` | a word changed and typed anew revives its first worker: the list holds its matches twice |

`EarlyFin` documents a further one: the comment at `sender.c:444-445` has the FIN sent once
all data is acknowledged, while the drift of the count lets it go out with a packet
outstanding. The property states the only case in which this happens.

## 7. Plan

Done in this order: STCP, POP3 sessions, router and DNS lookups first, as the most concurrent or most arithmetic parts; then the
line buffer, the POP3 server, the configuration, the dictionary client, the message codec and
`wraparound.c`. What is left:

1. **Composition** of `RouterConfig` with `Router`: the records of `list` are those of `lines` already.

## 8. Not modelled

Printing, logging and help texts (`tcp.c`, `log.c`, `DNSVerbosePrinter.java`); the Swing layout and the tables; start-up helpers
(`waitForPorts.c`, opening sockets); failing sends and reads of sockets other than ECONNREFUSED and
the end of a connection; memory leaks; reads past the end of a buffer beyond what the models
name (byte 0 after a chunk, a stale user name). `TCPFallback` of the DNS service is never called. These are straight-line
code, generated text or layout: there is no state for a model to tell apart.

Hazards known and left without a property, besides those with a note in `PROJECT.json`:

* POP3: PASS before USER reads a name never written (`mypopd.c:105`; modelled as any earlier name or none); STAT with arguments gets
  two replies (`mypopd.c:118`; one reply status per command is kept); a reply of exactly the size of the buffer loses its last byte
  (`util.c:87`); `len` is unsigned, so a read error is not negative (`mypopd.c:256`; a hang-up in the model); a blank line stops
  the server (`mypopd.c:271`; the action `Empty`).
* Router: more than 128 entries (`router.c:67`; the model assumes at most `TableSize` lines), a failed read (`router.c:101`), leaks
  (`router.c:110`), prefix lengths above 32 (`parse.c:91`, a shift that C leaves undefined), a file that is
  missing (`config.c:13`, in the model an empty file), comments longer than the buffer (`scan.c:48`, explored without a property other
  than `ParseEnds`).
* DNS: the second question of a message, OPT records from servers that were not asked for them, labels of 192 bytes, raw data
  written again (`DNSLookupService.java:246`, `253`; `DNSMessage.java:203`, `513`).
* Dictionary: the table filled by workers in any order (`DictionaryMain.java:135`), a strategy that is null (`DictionaryMain.java:198`).
