# A TLA+ verification of the sensor gateway

The repository holds the lab exercises of a system-software course and, in
`src/final/`, the final assignment that they lead to: a gateway that receives
temperature measurements from sensor nodes over TCP, watches running averages,
stores the measurements in an SQLite table and keeps a log. This directory holds
TLA+ models of that program, configurations that check them with TLC, and proofs
for TLAPS. Every definition follows the C source; `PROJECT.json` gives, for each
one, the file and lines it stands for.

## 1. The system

### Processes and threads

```
 sensor_node  --TCP-->  connmgr --> sbuffer --> datamgr  (running averages, alarms)
 sensor_node  --TCP-->  thread       list   --> strgmgr  (SQLite table)
                           \                     /
                            +--- write_to_fifo -+--> stdio --> named pipe --> log process
                                                                               gateway.log
```

The gateway forks a log process, creates the buffer, starts three threads, and
meets them at a barrier. `connmgr` is the only writer of the buffer; `datamgr` and
`strgmgr` each read every item of it. One mutex guards the buffer, the log stream
and the flag by which `connmgr` says that it has ended.

### Inventory

| Component | State | Operations | What makes it correct |
|---|---|---|---|
| Shared buffer, `sbuffer.c` | list of nodes with `READERS` flags each, head, tail | init, insert, remove (per reader), free | each reader gets each item once, in order; a node goes when its last reader has it, never before; no use after free, no leak |
| Gateway threads, `main.c` | mutex, flag, barrier, the threads' own places | write_to_buffer, read_from_buffer, write_to_fifo, the three thread bodies, main | nothing is left unread when the threads end; the buffer is freed and the mutex destroyed when nobody needs them; the process ends |
| Log pipe, `main.c` | stdio buffer, named pipe, log file, the child | write_to_fifo, read_from_fifo, exit message, fclose, waitpid | messages in order, none lost at a normal end; the child ends however the gateway does |
| Storage manager, `sensor_db.c` | the table, the connection | init_connection, insert_sensor, insert_sensor_from_buffer, disconnect, five SELECTs | the table holds what was read, a reconnection keeps it, a failure loses at most one measurement |
| Connection manager, `connmgr.c` | `fds`, `connmgr_list`, the sockets | poll rounds, insert_client, read_data, close_connection, compress | entry i of `fds` belongs to element i of the list; only gone nodes are dropped; the loop stays responsive |
| Data manager, `datamgr.c` | per sensor a window of `RUN_AVG_LENGTH` values, average, timestamp | parse map, update, four getters | the average is that of the window; an alarm exactly when it is out of range |
| List, `lib/dplist.c` | doubly linked list | create, insert, remove, get, size, sorted and reference variants | pointers spell a sequence; the index conventions of `dplist.h` |
| Sockets, `lib/tcpsock.c` | per socket a struct, an address string and a descriptor; below it a byte stream | open, accept, send, receive, close | what is allocated is what the caller holds; a measurement is three fields of one node, whole and in order |
| Sensor node, `sensor_node.c` | its connection | connect, send, close | (environment of the gateway) |
| Map file creator, `file_creator.c` | none | writes `room_sensor.map` | pure output |
| Data manager of `lab_6` | the map and data files, the list of sensors | the two reading loops, lookup | every reading counts for its sensor |
| Storage of `lab_7` | the table, the data file; in exercise 3 the FIFO and the log child | init, insert from file, disconnect; the child's loop | the table is the file; the log tells what the table holds; the child ends |
| Connection manager of `lab_8` | `fds` of `MAX_CONN + 1` entries, the list, the output file | poll rounds, accept, read, close, compress | as `connmgr.c`; only whole measurements are written |
| Threads and buffer of `lab_9` | a buffer with two flags per node, the `flag`, two output files | insert, remove, the thread bodies, main | each reader gets each measurement once, and its file shows them; the program ends |
| Labs 1, 2, 4, 5 | exercises | | section 6 |

How they interact: calls through function pointers (`write_to_buffer`,
`read_from_buffer`, `write_to_fifo`) from the managers into `main.c`, shared
memory under the mutex (buffer, flag, log stream), the barrier, messages (TCP,
named pipe), and process events (abort by `ERR_HANDLER`, `SIGPIPE`, end of file,
`waitpid`).

What is hard here: two readers and a writer on one list; a poll of "no data" that
must not be confused with "no more data"; a barrier that all four threads must
reach; retries of the database connection that must neither clear nor lose what
is stored; a log stream that blocks inside the mutex and loses its buffer in an
abort; and the poll loop, which indexes two arrays that change while it scans; and a stream
of bytes that is cut anywhere, read by code that expects whole fields.
`PROJECT.json` lists these hazards one by one, at their lines, with the
properties that cover them.

## 2. The modules

```
 BroadcastLog  <--implements--  SBuffer  <--implements--  SBufferHeap
                                   ^
                      INSTANCE     |
                                Gateway                LogPipe

 ListContract  <--implements--  Dplist

 ConnMgr <-- EXTENDS: Lab8          TcpSock
 DataMgr <-- EXTENDS: Lab6          Lab7Db  <-- EXTENDS: Lab7          Lab9

 MCLabs: INSTANCE Lab6, Lab7, Lab8, Lab9

 SBufferProofs, SBufferHeapProofs, GatewayProofs, DplistProofs, TcpSockProofs:
                                       each EXTENDS the module it is named for
 ConnMgrProofs: EXTENDS Lab8           DataMgrProofs: EXTENDS Lab6
 LabsProofs:    EXTENDS LogPipe, MCLabs; INSTANCE DataMgrProofs, ConnMgrProofs
```

Each `MC*` module gives the constants of its specification values for TLC; the
`.cfg` files name the properties. Operators whose comment starts with *Fault* are
not part of any specification: each one is a plausible slip in the C code next to
the definition it would replace, and the property named for it in `PROJECT.json`
("mutants") fails when it does replace it. They document what every property can
tell apart.

**BroadcastLog** is the promise of the buffer without nodes, flags or locks: a log
that only grows and, for each reader, an initial part of it.

**SBuffer** is `sbuffer.c` at the granularity of calls, which is the granularity
the rest of the program sees: `main.c` makes every call under the mutex. `nodes`
is the list from head to tail; a node's flags are the set `seen` of readers whose
flag is 1. The actions are the calls: `BufferInit`, `Insert`, `Remove` (one disjunct
for each of its three return values) and `Free`. `inserted` and `got` are history.

**SBufferHeap** is the same code one pointer operation at a time: `malloc`, the
`memset` of the flags, the two ways to link, the move of `tail`, the walk along
`next`, the mark, the unlinking of the head, `free`, and the lock and unlock
around each call. Cells are reused by `malloc` with their old contents.
`ImplementsSBuffer` is the refinement: a call takes effect where the node is
linked and where it is marked.

**Gateway** is `main.c` with the parts of the managers that decide what the threads
do next: the places `pc` of the four threads, mutex, flag, barrier, the buffer as
an instance of `SBuffer`, the retry loop of `strgmgr` with `init_connection`'s steps
(open, DROP, CREATE, each of which may fail), the table as a sequence of rows, and
the assertions that abort the process. Both builds (with and without `-DDB_FAIL`)
are initial states. `connmgr`'s sockets are reduced to the operations they cause
(accept, receive, disconnect, time out), the averages of `datamgr` to whether a
message is logged, and a logged message to the time it holds the mutex.

**LogPipe** follows a message from `write_to_fifo` through stdio's buffer and the
pipe to the log file, with the two processes' endings: exit message and `fclose`,
an abort at any time, a child that fails to open its file, `SIGPIPE`.

**ConnMgr** is the loop of `connmgr.c`: `fds` and `connmgr_list` as two sequences, the
events of one poll, the scan over them (accept, read, close), `compress`, and the
sensor nodes at the other ends, which connect, send the three fields of each
measurement one by one, and leave at any time. A descriptor is named by the node it
leads to, so the reuse of descriptor numbers by the kernel is not modelled.
The list accesses go through `dplist.c`'s clamping of indices (`Clamp`).

**ListContract** is a sequence and what each function of `dplist.c` does to it and
returns, where every index is pulled into the list and every reference that is no
node of the list is refused; an insertion at reference NULL appends (`InsertAtNull`), as
`dplist.h:123` says. **Dplist** is `dplist.c` with its cells, `prev` and
`next`, `malloc` and `free`; a list belongs to one thread, so a call is one step,
except that `dpl_free` is one step per node. The references a caller may pass
are all the cells, so also those of nodes that were removed. `ImplementsContract` is
the refinement, of every call but that insertion, which the code does not do so
(section 4): the sequence is what the walk from `head` finds.

**DataMgr** is `datamgr.c`: the parse of the map file with what `fscanf` leaves in the
fields it does not reach, the sorted insertion, the lookup, the shift of the
window, the average, the alarms and the getters. `recorded` is history: what was
received for each sensor. An average is kept as the sum that it is
`RUN_AVG_LENGTH` times of. Its use of the shared buffer is in `Gateway`, the
pointers of its list in `Dplist`.

**TcpSock** is `tcpsock.c` under the calls that the gateway and the nodes make of it: what
each call allocates and gives back on each of its paths (`handles` is what the caller
holds; `structs`, `strings` and `open` what is allocated), and the bytes of each
connection, sent, arrived and taken, in halves of fields. `connmgr.c` is in it as far as
it decides which call comes next: each round of `poll` has a set of connections to read
and a set to close, without the order of the entries. `inStep` says whether the place of a
connection in the list is still that in `fds`. A round that closes one connection, as its
last work, and has accepted none leaves it so (`ConnMgr` has the entries and the index that
`connmgr.c:74` looks up); after any other close an entry can stand for any connection, so
the gateway may then read or close any of them, at any time, or end in the recursion of
`compress`. A receive takes what is there, up to the size it asks for; a connection ends
with a `fin` or a `reset`.

**Lab6** extends `DataMgr` by the data file that takes the place of the buffer: three
`fread`s without a look at their results, and `feof`. **Lab7Db** is the storage of
`lab_7/exercise_2`, and **Lab7** extends it by the FIFO and the child of exercise 3,
which is told about the same database calls. **Lab8** extends `ConnMgr`: the nodes and poll
are the same; accept, read, close, `compress` and the end of the loop are those of
`lab_8/connmgr.c`. Its receives take halves of fields, a half being any part: the three of a
measurement may get less than three fields, and what they got is written when the last of
them got something. `InsertOverruns` is the connection that is written behind the end of
`fds`, over another variable, when that ends the program; `InsertClient` the one when it
does not. **Lab9** is the buffer and the threads of `lab_9`, a call of the
buffer under the mutex as one step and the test of the flag as another one. A reader prints
on every turn, also after NO_DATA: its file is a sequence of runs of equal lines
(`WithLine`), each with the number of times, where `MANY` (2) stands for two or more. **MCLabs** puts
the four next to each other: an initial state picks the program, and only its variables
move.

The eight **...Proofs** modules hold the theorems (section 5). `GatewayProofs` and
`SBufferHeapProofs` take those of `SBufferProofs` over, the one for the buffer it
contains, the other through its refinement. A lab that extends a module of the final
program is proved about next to it, so that the lemmas serve both; `LabsProofs` states
the results for the specification of `MCLabs`, and holds the proofs of labs 7 and 9 and
of the log pipe.

### Plan

Done: the shared buffer at both levels, the gateway's threads, the log pipe, the
connection manager, the list, the data manager, the sockets, and labs 6 to 9; and, for
all of these, proofs of every safety and action property that a passing run checks and of the
three refinements. What is left to TLC is said at the end of section 5, what is not
modelled in section 6.

## 3. What is checked

Bounds are small on purpose and chosen so that the interesting cases occur; the
table says which.

| Run | Instance | Checks |
|---|---|---|
| `sbuffer` | 3 readers (`-DREADERS=3` is allowed by `config.h`), 2 data, 3 insertions | order, exactly-once, reclamation, truth of NO_DATA, refinement of BroadcastLog |
| `sbuffer_heap` | 2 readers, 3 cells, 3 insertions: the list grows to three nodes and a freed cell is used again | pointers, no use after free, no leak, calls return, refinement of SBuffer |
| `gateway` | 2 data, 2 insertions, 2 tries, both builds, empty or old table | shutdown and storage safety |
| `gateway_live` | 1 datum, 1 insertion, 2 tries, both builds | delivery, termination, the abort of a build with `-DDB_FAIL` |
| `gateway_stored` (violated) | 1 datum, 1 insertion, 3 tries | all measurements stored at a normal end |
| `log_pipe` | 3 threads, stdio 2, pipe 1, 5 messages: the fourth waits with the mutex held | order, completeness, end of the child, progress |
| `conn_mgr` | 3 nodes (the fewest for a stale index to hit a third one), 2 measurements (read at connection, and by a poll) | alignment, no live node dropped, gone nodes removed |
| `dplist` | 4 cells, 2 keys, indices -1, 0, 1, 2, 5: nodes on both sides of every change, repeated keys, indices outside on both sides | pointers, getters, refinement of ListContract |
| `data_mgr` | 7 map files (as `file_creator` writes them, repeated rooms and ids, empty, cut off), 3 ids of which one is in no map, temperatures 0, 10 and 40, a window of 3, 5 readings: a full window is shifted with a reading of another sensor in between | the map, windows and averages, alarms |
| `tcp_sock` | a node with two measurements and one with one, a backlog of 1, segments that cut a field in two | resources, framing, what a failed receive means |
| `labs` | lab 9: 3 measurements, 2 readers. Lab 8: 3 nodes of one measurement, one of them with short receives, `MAX_CONN` 2, so that the array overflows. Lab 7: 2 rows. Lab 6: 4 maps and 20 data files, whole and cut off, a window of 2 | the files and the end of lab 9, entries and closings of lab 8, the log and the child of lab 7, the averages of lab 6 |
| `conn_mgr_stale_index` (violated) | 3 nodes, 1 measurement | see section 4 |

The properties that carry the weight:

* `InOrderOnce`, `NothingLost`, `Reclaimed`, `NoDataMeansCaughtUp` (SBuffer): three
  readers at different speeds, each item exactly once and in order, the flags in
  step with what was handed out, and the head unlinked exactly by the last
  reader, although `sbuffer_remove` only ever looks at the head to decide.
* `NoUseAfterFree`, `ListIntact`, `NoLeak`, `CallsReturn`, `ImplementsSBuffer`
  (SBufferHeap): the steps inside a call, with the mutex, amount to the calls of
  SBuffer. Without the mutex (`AcquireUnchecked`) they do not.
* `LeaversHaveAll`, `QuietAtBarrier` (Gateway): a reader ends when it reads NO_DATA
  *and* the flag is set, both under one hold of the mutex; so no measurement is
  overtaken by the flag, and when the barrier opens the list is empty and nobody
  is in a critical section.
* `TableHoldsReadings`, `LossBounded`, `RowsKept` (Gateway): the table is what strgmgr
  read minus what failed, one loss for each failed try at the most, and a
  reconnection drops nothing.
* `Delivered`, `Terminates` (Gateway, liveness): a measurement in the buffer reaches both
  readers unless the process aborts, and the process ends, with `-DDB_FAIL` always by
  an assertion.
* `NothingDropped`, `CompleteAtEnd`, `ChildEnds`, `LoggingReturns` (LogPipe).
* `ListIntact`, `ImplementsContract` (Dplist): after any sequence of
  calls `prev` mirrors `next`, no cell is lost or reached twice, the searches by
  element, index and reference agree with each other, and a reference to a removed
  node changes nothing. Of the elements after an insertion at reference NULL nothing is
  demanded; the pointers must be right then, too.
* `MapLoaded`, `FollowsReadings`, `AlarmsExact` (DataMgr): every line of the map has
  its sensor in the order of the rooms, and a whole map without an id twice has no others;
  whatever the order of the readings, each
  sensor that the lookup can find has the window and timestamp of its own
  last readings, and once they fill the window, their average; an alarm is written exactly when the window is full, its average out
  of range and its oldest value not 0.
* `AlignedIfCalm` (with the return of `compress`, and no blocking receive from a known node
  that has sent nothing), `LiveKeptIfCalm`, `GoneRemovedIfCalm` (ConnMgr).
  `GoneRemovedIfCalm` excludes that the loop times out with the connection of a gone
  node still open. A round is *calm* when, if it closes a
  connection, it accepts none and has nothing to do for entries behind the closed
  one. As long as all rounds were calm the loop is right; `conn_mgr_stale_index`
  shows what the first round that is not calm can do. The run
  does not explore states behind the first round that is not calm, and names the
  nodes in the order in which they connect (`MCScope`); both only leave out states
  in which the properties hold trivially or that are renamings of explored ones.
* `Accounted`, `FramedIfWhole`, `AbortsExplained` (TcpSock): while the loop runs, whichever
  connections it closes, in step or not, each struct has its string, its descriptor and
  a handle that owns it, and of a connection that is no longer held nothing is left. Nothing
  is demanded of the descriptor of a connection that was reset, of the opening that has just
  failed, and of what `connmgr_free` leaves behind (section 4). As long as no receive of a
  node came back short, its measurements are its own, whole and in order, with other
  connections read in between. And as long as the list is in step with `fds`, an assertion on
  such a receive is never reached through a node that has sent whole measurements and
  was not reset; out of step it can be.
* `Lab9Files`, `Lab9Ends`: each reader is handed what was inserted, once and in order; until
  main frees the buffer, a measurement stays in it until both readers have it, and its flags
  tell who has; a reader's file has each measurement that it was handed, in order, on one
  line or on several in a row, behind any number of lines of an unassigned variable, and
  nothing else; every run ends although the flag is read outside the mutex.
* `Lab8Fds`, `Lab8GoneRemoved`: as long as the rounds are calm, entries and list are in
  step, and what is written of a node is whole measurements if no receive for one of them
  was short; a node that has gone is closed, unless the loop ends first because `fds` is
  full.
* `Lab7Log`, `Lab7ChildEnds`: the log and the FIFO together tell the heading, the rows of the
  table, each once and in order, and how it ended (a failed insert, with nothing but "exit"
  behind it, or the closing, only after all rows); and the child, once started, reads everything
  and ends, also when the parent fails.
* `Lab6Averages`: the readings that count are those of the file and one more, which the
  late `feof` makes of the last one, or of what is cut off behind it; the time of each
  sensor that has a reading is that of these readings, and so is the average of each one of
  which the file has `RUN_AVG_LENGTH` readings; the program exits within the loop
  exactly at a sensor that is in no map.

In `labs` the data of the programs that do not run are fixed, and `MCScope` limits lab 8
as it limits `conn_mgr`, and the short receives to one of the three nodes.

### Fairness

Weak fairness of each thread: the operating system schedules it, and blocking
calls (`sleep`, SQLite, `fopen`) return. Strong fairness of taking the mutex, for
each thread: `datamgr` and `strgmgr` poll the buffer in a busy loop, so the mutex is
free again and again but never for good, and default POSIX mutexes make no
formal promise of fairness; what is assumed is that no thread is passed over for
ever, which futex wake-ups and scheduling give in practice. No fairness on
database failures, assertions or the sensors: they may always or never happen,
except that `connmgr` does come to a decision (message, close, or time-out) and that
the number of measurements is bounded, which stands for sensors that fall silent
in the end: `Terminates` is about that case only. In `ConnMgr` the loop is weakly
fair, and `GoneRemovedIfCalm` also assumes that a node goes on sending or leaves
(without it the loop waits in the blocking receive, see section 4).
`LogPipe`: both processes are scheduled; no thread need log anything. `Lab9`: every
thread is scheduled and the mutex goes round, which weak fairness says because a call of
the buffer is one step. `Lab7`: both processes are scheduled. `Lab8`: the loop is weakly
fair, and a node goes on sending or leaves, as in `ConnMgr`.

### Deadlock

Deadlock is checked in every run; the ends of the processes are explicit `Finished`
steps.

## 4. Where the code does not do what it says

| Run | What it shows |
|---|---|
| `gateway_stored` | a failed INSERT loses its measurement (`sensor_db.c:76-83`), yet the thread can go on, reconnect and end with `STRGMGR_SUCCESS`; `sensor_db.h:37` promises "all sensor measurements available from the buffer" |
| `conn_mgr_stale_index` | two nodes that leave before one poll: the second `close_connection` looks up its index in the list that the first has shortened, and closes a third, live node |

Seen while modelling and part of the models, without a run of their own:

* out of step, a node that has finished aborts the gateway: with the list server, s1, s2, s3
  in a round where s1 closes and s2 has sent, the index of s2 reads s3 (`connmgr.c:74`), whose
  receive gets the end of the stream and reaches the assertion (`TcpSock`, `connmgr.c:187`;
  `AbortsExplained` demands nothing then);
* two closings and one accept in a round: `compress` gathers the removed entries at
  `old_size - 1`, one of them stays among the first `new_size`, and the recursion never
  ends (`ConnMgr`, `connmgr.c:231`, the place `"overflow"`);
* a node that dies between two of its sends makes `tcp_receive` return an error, and the
  assertion ends the gateway; `CONNMGR_GET_DATA_FAILURE` is never returned for it
  (`ConnMgr`, `connmgr.c:187`, the place `"aborted"`);
* one closing and one accept in a round leave the list of `connmgr` as long as
  before: `compress` returns at once, -1 stays in `fds`, and the new descriptor lies
  behind the polled ones (`ConnMgr`);
* a node that connects and sends nothing blocks the loop in `insert_client`; neither
  `TIMEOUT` nor another node gets a turn (`ConnMgr`);
* a measurement that arrives together with the close of its connection is not
  read (`ConnMgr`, `connmgr.c:76`);
* the messages that are in stdio's buffer when an assertion aborts are lost
  (`LogPipe`);
* `tcp_close` leaves the descriptor open when `shutdown` fails, as it does for a connection
  that was reset (`TcpSock`, `tcpsock.c:146`), though `tcpsock.h:47` says "The socket '*socket'
  is closed , allocated resources are freed", and a socket whose opening fails half
  way gives back its struct but not its descriptor (`tcpsock.c:71-120`, `177-180`);
  `Accounted` demands nothing of these descriptors;
* a receive that returns a part of a field is taken for the whole one, and every later
  field of that connection is shifted (`TcpSock`, `tcpsock.c:221`);
* `connmgr_free` frees the list but not the sockets that are still in it (`TcpSock`), though
  it is "to free all used memory" (`connmgr.h:22`);
* a measurement for which `malloc` fails is dropped without a word (`Gateway`,
  `main.c:51`);
* `dpl_get_previous_reference(NULL)` returns NULL (`dplist.c:198-204`), `dplist.h`
  promises the last reference; `dpl_insert_at_reference` with NULL inserts before the
  last node and does nothing on an empty list (`dplist.c:247-254`), `dplist.h:123` says "the
  element is inserted at the end of 'list'": `InsertAtNull` of `ListContract` is what the
  header says, and `ImplementsContract` excepts the call (`InsertsAtNull`);
* the average of fewer than `RUN_AVG_LENGTH` readings is not 0 as `datamgr.h:32` and
  `lab_6/datamgr.h:52` say: the partial window is divided by the full length
  (`datamgr.c:121-131`), and before the first reading average and timestamp are unassigned
  (`JUNK` in `DataMgr`); `FollowsReadings` and `Lab6Averages` demand no average before
  the window is full;
* `datamgr_get_total_sensors` is "the total amount of unique sensor ID's" (`datamgr.h:46`),
  but counts the entries of the list: an id that is in two lines of the map counts twice
  (`MapLoaded` demands the number only of maps without one);
* an alarm is not written while the oldest value of a full window is exactly 0
  degrees, since 0 also means an empty place (`AlarmsExact` says so);
* an empty map file, or one with half a line at the end, makes a sensor of what
  `data_map` happens to hold (`MapLoaded` demands no number of sensors then);
* lab 9 reads the flag outside the mutex: a measurement that is inserted between NO_DATA
  and the flag stays in the buffer and main frees it unread (`lab_9/main.c:54`), and a
  reader prints its variable on every turn, also when there was nothing to read
  (`lab_9/main.c:56`): while it polls an empty buffer its file fills with the last
  measurement, or before the first one with an unassigned variable;
* lab 8 compares the size of the round before (`lab_8/connmgr.c:54`), so that one connection
  can be written behind the end of `fds` (line 10), over another variable, which may end the
  program;
* lab 8 looks at the result of the last of three receives only, and not at how much any of
  them has got (`lab_8/connmgr.c:125-138`): after a short receive it writes a measurement of
  parts of fields;
* lab 7 prints to a closed stream after a failed insert (`exercise_3/sensor_db.c:79`), and
  without a child the parent waits for ever at the FIFO (`exercise_3/main.c:37`);
* lab 6 counts the last reading twice, and exits on a sensor that is in no map
  (`lab_6/datamgr.c:53`, `110`).

## 5. What is proved

All theorems hold for every value of the constants under the assumptions named in
the modules, which say what the code takes for granted: for the buffer a finite,
non-empty set of readers and a natural number of insertions (`SBufferAssumption`); for its
nodes also a finite set of cells and at least one datum to insert (`HeapAssumption`); for
the sockets and the connection manager that the server is none of the nodes; for the list
a finite set of cells, integer keys and indices, and a NULL that is neither a cell nor an
index; for the data manager rooms and ids in their columns of the map, and integer
temperatures. `MCLabs` names those of the labs: the measurements of lab 9 differ from each
other and from an unassigned variable, so that repeated lines can be told from the next
measurement, and main and the writer are no readers (`Lab9Assumption`); no node of lab 8 is the server or the number -1, a node
may send at least one measurement, and `MAX_CONN` is a natural number (`Lab8Assumption`);
no row of lab 7 reads like another line of the log (`Lab7Assumption`); and in lab 6 an id,
a value and a time are each in their column of the data file, wherever it is cut off (`FieldsInPlace` in
`Lab6Assumption`). Every theorem about safety goes the same way: an inductive invariant that
contains the property, one lemma for the initial states, one for the steps with a case
for each action, and the property as a consequence.

**SBufferProofs.** The properties of SBuffer are not inductive one by one. `IInv` joins
the type invariant, `InOrderOnce`, and for a live buffer three facts: no reader is
behind the first node (`Counts`), the flags are set exactly on what each reader was
handed (`Flags`), and some reader stands exactly at the head (`Slowest`). `Flags` makes
the set flags of a reader an initial part of the list, so the walk from the head
stops at the reader's next item (lemma `NextNode`) or shows that it has everything
(`CaughtUp`); `Slowest` makes a head that everyone has marked the only node that can
be reclaimed, which is why looking at the head is enough. From `IInv` follow
`TypeCorrect`, `DeliveredInOrder`, `NoItemLost`, `ReadNodesReclaimed`, `NoDataIsTrue` (an
action property) and `BufferImplementsLog` (the refinement of `BroadcastLog`).

**SBufferHeapProofs.** None of the three pointer properties is inductive alone: that no
freed node is used needs to know which nodes are allocated, that needs to know what
the list is, and both need to know that one thread at a time is inside a call. `IInv` is
their conjunction: no cell twice in the list (`Distinct`), the next pointers (`Chain`), head
and tail with the one place where the tail lags behind (`Ends`), the holder of the mutex as
the only thread inside a call (`Holder`), exactly the list and that thread's own cell
allocated (`Allocation`), and what the local variables hold at each place (`Locals`).
`NoFreedNodeIsUsed`, `PointersIntact` and `NothingLeaks` follow. The refinement
(`HeapImplementsSBuffer`) needs `SeenInv` besides: the flags of a reader are set on an
initial part of the list, a walking reader has passed its own (`Passed`), and only the
head, just marked, can have all flags set (`HeadOnly`). With it the step that marks is a
`Remove` of SBuffer and the step that links an `Insert`; the promises of SBuffer then hold
of the linked list as well (`HeapKeepsPromises`).

**GatewayProofs.** `Control` is an inductive invariant about places: where each thread
can be, that only a thread in a critical section holds the mutex, that the flag is
up only behind `connmgr`'s loop, that `strgmgr` reaches the barrier only with
`error_code` SUCCESS, and who has reached the barrier (`ThreadsInPlace`). With it every
step of the gateway is a step of SBuffer or leaves the buffer alone
(`GatewayUsesBuffer`), so `IInv` holds of the gateway's buffer. `NothingLeftBehind`
(`LeaversHaveAll`) then splits on who moves: a reader leaves with NO_DATA and the flag
up, when `CaughtUp` gives it everything, and with the flag up `connmgr` inserts no
more. `BarrierIsQuiet` (`QuietAtBarrier`) puts it together: all four at the barrier
means both readers have left with everything, and `Slowest` makes the list empty.
The storage properties (`TableIsTheReadings`, `LossIsBounded`, and `RowsStay`, an action
property) rest on `TInv`: `TableHoldsReadings` with the places of main, which frees the buffer
only behind `strgmgr` (`MainPlaces`), the bounds of the counters (`Bounds`), that nothing
has been read or lost before the table is made, and that only the first connection drops
it (`Connecting`), and that each loss uses up a try (`Losing`).

**LabsProofs, the log pipe.** Log, pipe and stdio's buffer in a row are what was printed; that
is not inductive, for a thread could print behind "exiting_pipe" or the child take that
message for the end too early. `Carried` says at which stage of the gateway the message is
on the way, `Room` that stdio's buffer is flushed before it overflows, `Over` that the
child leaves its loop only when nobody can write any more. `NothingIsDropped`
(`NothingDropped`) and `LogIsComplete` (`CompleteAtEnd`) follow, for any writers and any sizes
of the buffers.

**ConnMgrProofs.** `IInv` holds in every round, calm or not: the types; a descriptor is
once in the list and open (`Connections`); the server is first in both arrays and no close
takes it off (`Places`); what was polled is still in `fds`, and the list has lost at most
what the scan has passed (`Round`). `CInv` is about rounds that have been calm so far: what
poll reported is still true of the entries ahead (`Pending`), and `fds` is the list entry
by entry (`Kept`) but for the gap of the one close of the round, behind which every entry
is one place further (`Gap`). The rest is what `compress` makes of the gap. Its pass is a
recursion, whose values are derived from the least place where they would be wrong
(`PassExists`, `PassValues`): with one removed entry a pass moves that entry to the end of
the polled ones and every later one a place forward (`CompressOne`), so `fds` is the list
again and the recursion stops. `InStepIfCalm` (`AlignedIfCalm`) and `LiveKept`
(`LiveKeptIfCalm`, an action property) follow, for any number of nodes.

For lab 8 the same module has `Inv8`, of every round again but for its last part. `Whole8`:
what was read of a node without a short receive is whole measurements, or its connection
ended within one and is closed for good. `Waiting8`: a connection that waits to be accepted is
not in the list, and no part of a measurement has been read of it, so an accepted node begins
with a whole one. `Places8`, `Round8` and `Look8` say that the list and the polled entries
outlast the scan. `Calm8`: `fds` is the list as long as the rounds are calm, with the `Kept`
and `Gap` of `IInv`. Inserting (`Insert8`), closing (`Close8`) and `compress` (`Compressed8`)
are the three steps that need an argument. `FixedArrayIsKept` is the result
(`Lab8InStep` and `WholeMeasurements`), for any number of nodes and measurements and any
`MAX_CONN`; nothing is claimed of the entry behind the end of `fds`.

**DplistProofs.** `IInv` says that there is a walk: n cells without repetition that `next`
spells from the head and `prev` backwards, and that are all that is allocated (`HasList`).
`WalkOfList` shows that the recursion of `OnWalk` then finds exactly this walk, and that n
is the size. The four branches of `dpl_insert_at_index` come to one description of the
pointers (`LinkedAt`), the branches of `dpl_remove_at_index` and the turn of `dpl_free` to
another (`UnlinkedAt`), and these spell the walk with one node more (`LinkSpells`) or less
(`UnlinkSpells`). `ListStaysIntact` (`ListIntact`) follows, with the agreement of the
getters, since every search is the least index of some set (`First`). For
`ListKeepsContract` (`ImplementsContract`) the elements along the new walk are compared one
by one with the sequence that `InsertAt` and `RemoveAt` make of the old one; the insertion at
reference NULL is the one call whose elements are left open.

**DataMgrProofs.** `FollowsReadings` is inductive with two more facts (`Serving`): a sensor
whose readings have not begun still has the zeros and the unassigned average of
`init_list_from_map`, and a sensor with readings is in the list. Zeros are what
`Recent` makes of no readings (`RecentOfNone`), and shifting the window of some readings
by one more makes the window of them all (`ShiftRecent`); ids never change, so the
lookup finds the same place before and after. From this follow
`SensorsFollowReadings` and `AlarmsAreExact`, for any map file with rooms and ids in its
columns, integer temperatures and any length of the window. `MapIsLoaded` (`MapLoaded`) has
an invariant of its own, `LInv`: while the map is parsed, the sensors are as many as
the lines read, what is left of the file begins behind them, and there is a next turn only
if something is left (`Loading`), so a whole map that is not empty makes one sensor for
each line; the sorted insertion keeps the order and every sensor (`InsertionPlace`). That
a window of integers has an integer for its sum (`TotalIsInt`) is the one fact about the
recursive function `Total` that is needed, and is derived like the values of the pass in
`ConnMgrProofs`.

For lab 6 the same module has `Inv6`. While the loop receives there is a number n of turns
made such that what is left of the file begins behind n whole readings and the three
variables hold the last of them (`Ahead`), and each sensor has received its share of the first
n readings that count (`Turned`). `TurnReads` is the step: a turn reads the next of the readings
that count, and it is the last turn exactly when the whole ones are read, so that one more
is counted than the file has. Reading a turn with the recursion of `CountedFor` one place
further is `CountsOn`. The windows are then those of `IInv`, and `LoopCountsLastTwice` puts the
two together.

**TcpSockProofs.** The assumption is `TcpSockAssumption`: the server is none of the nodes;
nodes, measurements and backlog are arbitrary. `ResourcesAccounted` (`Accounted`) needs one
fact more than itself: a node that has not begun has no connection (`Linked`), so that no
step turns a connection that was reset into a new one. The steps of the nodes leave the
gateway's memory alone (`MemoryKept`), and the end of the process empties it
(`EndAccounted`). `MeasurementsFramed` (`FramedIfWhole`) rests on `FInv`: the counts are
natural numbers (`Counters`), no measurement is half read while the loop polls (`Between`),
and a connection whose receives were whole has taken exactly the measurements returned and
the fields in hand (`Framed`). `FieldFollows` is the step that matters: a whole field
appends the two places that follow. The steps that receive nothing keep everything
(`NothingReceived`). `AbortsAreExplained` (`AbortsExplained`) needs a third invariant,
`AInv`: how much of a connection was sent, has arrived and was taken (`Sizes`), that a
connection is accepted once, with nothing taken of it before (`Queue`), that what a round
still has to read is there and no other step takes it (`Rounds`), and that in step a
measurement of an accepted connection is only begun when something of it is there (`Begun`),
so that a receive that fails at its start belongs to a connection that was just accepted.
Out of step neither `Begun` nor the theorem says anything of a receive.

**LabsProofs, the labs.** Every step of `MCLabs` is one of the program that was picked and
leaves the variables of the other ones alone, so each program has an invariant of its own,
which also holds while another one runs.

`Inv9` (`FilesAreRight`, which states `Lab9Files`): which threads have begun and which have
ended with main (`Started`); what was inserted comes from the part of the file that was
read, each measurement once (`Inserted`), so that a reader's next one differs from its last
and begins a run of lines of its own; the queue is the inserted measurements behind the
`Freed` ones, nobody stands before them, and the flags are set exactly on what each reader
was handed (`Handed`); and the runs of a file show what its reader was handed, without the last one
between `sbuffer_remove2` and the print, while its variable holds the last one (`Shown`), so
that a line after NO_DATA makes the last run longer (`LineOfRuns`). `UnreadIsNext` is the counterpart of
`NextNode` in `SBufferProofs`.

`Inv7` (`LogTellsWhatIsStored`, which states `Lab7Log`): `Places` says how far the two
processes, the stream and the database have come with each other; that the child cannot have
ended while the stream is open makes every line printed a line that arrives. `Told` says
that there are a line sequence l and a rest x ("exit" or nothing) such that log and FIFO
carry them (`Carries`) and they tell where the database is (`Tells`). Each call of the
database prints something or fails (`Printing7`); `RowMoves` is the insert, which takes a
row from the data file to the table and to the log; and since the last lines are no rows, a
log that has one of them has everything before it (`LastLine`).

`LoopEndsWithAverages` (`Lab6Averages`) and `FdsStayInStep` (`Lab8Fds`) take `Inv6` and
`Inv8` over from `DataMgrProofs` and `ConnMgrProofs`, of which the module has instances with
its own variables. `MCLabs` has instances of `Lab6` and `Lab8` already; that the definitions
of the two are the same is proved and not assumed, from the initial states (`SameInit6`,
`SameInit8`) and the steps (`SameNext6`, `SameNext8`) to the properties (`SameAverages`,
`SameFds8`).

Only model-checked: liveness (`CallsReturn`, `Delivered`, `Terminates`, `ChildEnds`,
`LoggingReturns`, `GoneRemovedIfCalm`, `Lab9Ends`, `Lab8GoneRemoved`, `Lab7ChildEnds`),
because fairness and ENABLED are out of the prover's reach. The two runs that expect a
violation show what is not true, and have no theorem. Four recursions appear in the proofs
(`OnWalk`, `Total`, `CountedFor`, the pass of `compress`); all are recursive functions over
an interval, and what is used of them is derived from the least index at which it fails,
since an induction theorem of the library takes an operator as its parameter and cannot be
instantiated. So nothing is proved of them for its own sake, as that `Total` is the sum of a
window whatever its order: what is proved is what the invariants need.

## 6. What is not modelled

* Lab 4's allocator: `ma_malloc` and `coaless` add byte counts to a pointer to a header
  (so in units of `mem_chunk_header`), and the headers they write lie beyond the pool at
  once; what is there is not in the source, and a model of an allocator that stays
  inside it would be of another program.
* Lab 5's list: the functions of `lib/dplist.c`, which `Dplist` models.
* In the labs: failing `malloc`s (but those of lab 9's buffer), a failing FIFO or log file
  in lab 7, a failing accept in lab 8, and there a receive that fails otherwise than at the
  end of its connection; what a variable of lab 8 that is overwritten behind `fds` was for.
* In `TcpSock`: the numbers of descriptors (a socket is named by its node, so the reuse of a
  number is not seen), a node that connects a second time, and what a measurement
  that is not whole looks like (`JUNK`).
* The rounding of the averages (they are compared as sums), and a map file with
  anything but numbers in it: `fscanf` then never reaches the end of the file and the
  loop makes sensors until `malloc` fails.
* The getters of `datamgr.c` for an id that is in no map dereference NULL; nothing in
  the gateway calls them so.
* Who frees an element of a list: `Dplist` says which one a call removes.
* The SELECT functions of `sensor_db.c`: nothing in the gateway calls them.
* The contents of messages, SQL text, timestamps, `DEBUG_PRINTF`.
* Failing `mkfifo`, `fork` and `fopen` of the FIFO, which abort before anything runs.
* `file_creator.c` and labs 1 and 2: no state between calls.
