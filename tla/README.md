# IST-KVS in TLA+

Models, model-checking configurations and proofs for the key-value server of
this repository (`src/server`) and what its clients (`src/client`) see of it.
Line numbers are those of the files under `src/`; `main.c` without a directory
is `src/server/main.c`, `enunciado.md` is the assignment text at the root.

## The system

The server is one process. `main` starts

* **job threads** (`max_threads` of them), which take `.job` files from a
  directory and run their commands on the hash table;
* one **host thread**, which reads CONNECT requests from the register FIFO;
* `MAX_SESSION_COUNT` **manager threads**, each of which serves one client
  session after another.

A client is a process with two threads: one reads commands and calls the
client API, the other prints notifications.

### Components

| Component | State | Operations | Talks to |
|---|---|---|---|
| Session dispatch (`main.c` 470-552, exits of `handle_session`) | `buffer[]`, `semEmpty`, `semFull`, `buffer_mutex`, `sigusr1_received`, `sessions[].active` and paths | `host_task`, `manager_task`, `handle_sigusr1` | register FIFO, managers, clients' FIFOs |
| Sessions and notifications (`main.c` 102-123, 252-352, 477-491) | `sessions[]`: `active`, `subscribed_keys`, `num_subscribed_keys`, three descriptors; each manager's `local_buffer` | CONNECT answer, SUBSCRIBE, UNSUBSCRIBE, DISCONNECT, the sweep, `notify_clients` | clients, job threads, host, `kvs_key_exists` |
| Hash table (`kvs.c`) | chains of key nodes | `hash`, `write_pair`, `read_pair`, `delete_pair` | `operations.c` |
| Key-value operations (`operations.c`) | the table's read-write lock | `kvs_write`, `kvs_read`, `kvs_delete`, `kvs_show`, `kvs_backup`, `kvs_key_exists` | job threads, managers |
| Limit on backups (`main.c` 197-223, `kvs_backup`) | `active_backups`, its mutex, child processes | the BACKUP command | kernel (`fork`, `wait`) |
| Job dispatch (`main.c` 356-468) | the directory stream and its mutex | `get_file`, `dispatch_threads` | job threads |
| Command loop (`run_job`) | position in the job file | one command at a time | parser, operations, `notify_clients` |
| Job parser, client parser | the input descriptor | `get_next`, `parse_write`, `parse_read_delete`, `parse_list`, ... | command loops |
| Client API (`client/api.c`) | three descriptors | `kvs_connect`, `kvs_subscribe`, `kvs_unsubscribe`, `kvs_disconnect`, `kvs_end` | server |
| Client loop and notification thread (`client/main.c`) | `interrompido` | commands; end of file on the notification FIFO | API |
| I/O helpers (`common/io.c`, `server/io.c`) | none | `read_all`, `write_all`, `delay`, ... | all |

### What makes each correct, and what is hard

* **Session dispatch.** Every request is taken by one manager; the buffer is
  never overrun; an entry of `sessions[]` is never leaked; a manager that looks
  for an entry finds one. Hard because the index into the buffer is the value of
  a semaphore that others change, the scan for an entry takes no lock, places
  are given back twice, SIGUSR1 interrupts `sem_wait` in any thread that does
  not block it, and the sweep changes entries under the managers.
* **Sessions and notifications.** The subscriptions in an entry are those the
  client was granted; clients subscribed to a key are told of its changes, and
  others are not; requests are answered. Hard because `notify_clients` and the
  sweep use the entry without any lock while its manager changes it, clients
  leave or vanish at any moment, and entries are reused.
* **Store.** A command with all its pairs is atomic; no return keeps the lock; a
  key has one node. Hard because of interleaved batches, keys repeated in a
  batch and several ways out of one function.
* **Backups.** The number of backups at once is bounded; nobody stays inside
  `wait()` with the mutex. Hard because the count, the fork and the child's end
  are three steps of two processes, forks fail and signals end `wait()`.
* **Job dispatch.** Every job file is run, and once; its backups bear its name
  and different numbers. Hard because what `readdir` returns points into a
  buffer of the stream that other threads refill and `strtok` writes into, and
  because threads end on failures the dispatcher does not see.
* **Parsers.** What is taken is what was written, fits its array, and a refused
  command leaves the next line alone. Hard because no character read is ever put
  back, so each refusal has to know how much it has consumed.
* **Client.** A result belongs to the command it is reported for; both sides get
  through their opens; the client ends when the server has left it. Hard because
  two threads share three descriptors without a lock, and one of them closes
  them whatever the other is doing.

`PROJECT.json` lists the hazards one by one, each at its line.

## Modules

| Module | What it is |
|---|---|
| `SessionPool` | session dispatch, one step per access to shared state |
| `SessionPoolProofs` | its type invariant, safety invariants and the inductive invariant of the scan, proved |
| `Subscriptions` | sessions, sweep and notifications |
| `SubscriptionsProofs` | its type invariant, proved: no index leaves an array |
| `NotificationProofs` | what clients may rely on: their subscriptions, the notifications they get and do not get, their manager, proved |
| `KVTable` | the hash table as operators on its value |
| `KVStore` | the operations under the lock, one step per pair |
| `AtomicKVS` | the abstract store: a command takes effect in one instant |
| `KVStoreProofs` | lemmas on the table's operators, the inductive invariant of `KVStore`, and that it implements `AtomicKVS` |
| `Backups`, `BackupsProofs` | the gate and the children; the bound that holds |
| `JobDispatch` | the job threads, the directory stream and the files, composed with `Backups` |
| `JobDispatchProofs` | it implements `Backups`, keeps its types, opens no file twice and names the backups of a directory in one block rightly, proved |
| `CommandText` | reading as both parsers do: strings, numbers, the rest of a line |
| `JobParser`, `ClientParser` | the two parsers as operators on a text and a place in it |
| `CommandLoops` | the two command loops as far as they read, and the language of their lines |
| `CommandLoopsProofs` | what the parsers return for every text: their types, and that reading undoes writing, proved |
| `Client` | a client process with its two threads, its manager and the sweep |
| `ClientProofs` | its types and safety properties, proved |
| `MC*` | values of constants and symmetry sets for TLC |

**SessionPool.** `registerPipe` is the FIFO with its unread requests, a request
being the client that sent it (its three paths are copied together). `hostPc`
and `managerPc` are the next step of a thread, named for the call it is about to
make. `pos` is the `i` of a manager's scan and then its `session_index`. A
critical section of `buffer_mutex` with one access is one step guarded by the
mutex being free; only the sweep, with one step per session, holds it through
several. `Signal*` are the three ways SIGUSR1 can arrive: in a thread that is
not waiting, in the host inside `sem_wait(&semEmpty)`, in a manager inside
`sem_wait(&semFull)` that has not yet blocked the signal (it does so in its
first `handle_session`). `sa_flags` is 0, so the last two return -1 and the code
goes on as if it had a token. In `handle_session` the opens ("open"), the answer to
CONNECT ("connect"), the test of the loop ("loop"), what comes of the read ("serve") and
the answer to DISCONNECT ("respond") are steps of their own, and so is each way out:
`SessionOpenFails` (259-263), `SessionConnectFails` (269-273, without a `sem_post`), and
the end of the loop (`SessionEnd`, `SessionPost`). All of them use the entry as it is at
that moment, so that two managers in one entry open the FIFOs of one client, answer one
another's clients and end one another's session, as the code does. Only SUBSCRIBE and
UNSUBSCRIBE are left out. `surplus`, `stored`, `taken`, `signals` and `unswept` are history that
no action reads, except `signals`, which bounds the signals.

**Subscriptions.** Each step makes one access to what other threads use, so
`num_subscribed_keys++` is two steps (`SessionLoad`, `SessionCount`), the search
and the moving up take one step per turn, and `notify_clients` is `NotifyActive`,
`NotifyNum`, `NotifyCompare`, `NotifyWrite`. The sweep is one step each for the
test of `active`, the `close()`s and the reset. A manager's `msg` is
`local_buffer`: end of file leaves it as it was and it is handled again
(`SessionReadEOF`). A write to a FIFO without a reader raises SIGPIPE, for which
the server has no handler: `alive` becomes FALSE and the behaviour ends.
The answer to CONNECT (`SessionConnect`, 265-269), after which the client goes on, and the
reset of the count (`SessionReset`, 275) are two steps, between which job threads read what
the session before has left. `watch` and `missed` are history: whom each
running notification concerns, and whose entry a sweep found before its FIFOs were open.
Abstractions: a manager keeps to one entry, and the behaviour is followed until two are
in the same one (`SessionOverlaps` sets `shared`, after which nothing happens; `SessionPool`
goes on from there; with one entry it never comes to that); the three FIFOs of an entry are one; a
WRITE or DELETE has one pair; `kvs_key_exists` and the change of the table are one
instant each, which `KVStore` justifies; descriptor numbers and the capacity of
a FIFO are left out.

**KVTable, KVStore, AtomicKVS.** A chain is the sequence of its nodes, a key is
its identity and the code of its first letter. `KVStore` takes the read-write
lock, handles one pair per step and releases it. SHOW and the child of BACKUP
read a table nobody changes, the one under the read lock and the other in its own
copy, so one step takes it whole. `AtomicKVS` applies the whole command in one
step; the refinement mapping takes the contents of the table at the last write
unlock for the abstract store.

**Backups.** `pc` is "wait" inside `wait(NULL)` with the mutex held and "fork"
between the gate and `fork()`. `zombies` are children not collected.
`WaitReaps`, `WaitNoChild` and `WaitInterrupted` are the ways `wait()` returns,
none of which the code tells apart.

**JobDispatch** extends `Backups`: its threads are the gate's, and a thread in
`run_job` goes through `GateOpen` or `GateFull`, `Fork` or `ForkFails`. `worker`
has each thread's step, the place of its entry and `in_path`. `block` is the
buffer of the DIR: `ReaddirBlock` fills it with any number of the names to come,
over those of the block before, and nothing else in it changes, except that
`strtok` in `kvs_backup` cuts the name at the place the thread's `entry` still
points to (`cut`). `entry_files` copies the name into the paths while the mutex is
held; the backup's name is taken from the place later. `opened`, `skipped`,
`copies` and `blocks` are history, which only properties read.
The exit at main.c:399-406 is not modelled because nothing reaches it: `kvs_backup`
returns 0 or -1, its child having called `exit` itself, so `run_job` only
returns 0.

**CommandText, JobParser, ClientParser, CommandLoops.** A text is a sequence of
characters and every function of the parsers an operator from a place in it to
what was understood and the place behind. The loop that reads keys or pairs is a
recursive function of the place and the room left, one turn of it `KeyFrom` or `PairFrom`.
`Characters` are those of the files, among them the `Marks` that separate words and no NUL. At the end of a file `read_uint`
gives `strtoul` digits that nothing ends, so whether the number fits is a choice
(`garbageFits`). `CommandLoops` runs the two loops on a text and, for the
properties, says how a command with its arguments is written (`Written`) and which
lines the language has (`Meanings`).

**Client.** `main` and `notif` are the steps of the client's two threads, `fd` their
shared descriptors; the step before a blocking call and the call itself are two
steps (`MainReceive` and `MainResult`, `NotifRead` and `NotifGet`), as the other
thread may close the descriptor between them. `server`, `ends` and `sweep` are what
one client sees of its manager and of the sweep. `ServerHas` says whether the server
keeps a FIFO open, by a descriptor, an open or a read under way, which decides
between end of file, SIGPIPE and blocking. `pthread_cancel` takes effect at
`read`, `printf` and `close`. `server.cmd` is the manager's `local_buffer`: when the
client has closed its request FIFO, `ServerReadEnd` handles it once more, and answers it,
which is why `response` is a sequence, with room for `ResponseRoom`. The read of the input
(`get_next` at client/main.c:80) is the step out of "command", `MainInput`: an action of
its own, because nothing says that it ever returns.

## Runs

Passing:

| Run | Instance | Shows |
|---|---|---|
| `pool_handoff` | 2 managers and entries, 4 clients; managers and clients symmetric | `BufferRespected`, `ScanInv`, `ScanFindsEntry` |
| `pool_signal` | 1 entry, 2 clients that leave, 2 SIGUSR1 | `TokensAccounted`, `ActiveEntryHeld`; `SignalSwept`: a sweep begins after every signal that comes outside one |
| `jobs` | 2 threads, a directory of 2 jobs and another file in blocks of any size, 2 BACKUPs a job, limit 1, 1 interrupted `wait()`, 1 open and 1 `pthread_create` that fail, any fork fails | `JobsOpenedOnce`, `BackupsNamed`, `EveryJobOpened`; `BackupsBounded`, `GateReleased` for the gate as the jobs use it |
| `kv_atomic` | 2 threads, 3 keys in one chain, 8 commands | `TableOK`, `StoreInv`, `BatchesAtomic` (refinement), `LockReleased` |
| `sub_notify` | 1 entry of 3 subscriptions, 1 client that may vanish, 2 keys, 4 requests, 2 changes | `SubscriptionsAgree`, `SteadyNotified`, `QuietClients` |
| `sub_sweep` | 1 entry used by 2 clients in turn, 1 key, 1 request each, 1 change, 1 sweep | `SubscriptionsAgree`, `QuietClients`, `ClientsServed`, `RequestAnswered`, `SweptManagerFreed` |
| `sub_pair` | 2 entries, 2 clients at once, 1 key, 1 request each, 1 change | `ClientsServed`: each of two clients keeps its own manager |
| `parsers` | 11700 texts of one to three lines, strings of up to 2 characters, up to 2 keys or pairs | `LinesUnderstood`, `TakenAsWritten`, `ResumesAtLine`, `TakenFits` |
| `client` | 1 client, 2 SUBSCRIBE or UNSUBSCRIBE, 2 notifications in a FIFO with room for 1, room for 2 responses, 1 sweep, the server may die | `AnswersItsCommand`, `NothingUnprinted`, `ErrorsExplained`, `ConnectCompletes`, `ClientEnds`, `NotificationsRead` |

One run of each component also checks its type invariant: `pool_handoff`, `jobs`, `kv_atomic`,
`sub_notify`, `parsers` and `client`.

Violations, each the code doing something else than a document or comment says:

| Run | Statement | What happens |
|---|---|---|
| `pool_overrun` | `SpaceInBuffer`, main.c:504 | the end of a session posts `semEmpty` a second time (350 after 525); the host stores at `buffer[MAX_SESSION_COUNT]` |
| `pool_once` | `RequestsTakenOnce`, enunciado.md:206-216 | two managers pass `sem_wait(&semFull)` before either reads its value: both take `buffer[0]`, nobody takes `buffer[1]` |
| `sub_leave` | `ServerSurvives`, README.md:102 | a client answered its DISCONNECT closes its FIFO before `notify_clients` writes to it: SIGPIPE |

### Further disagreements met while modelling

The models also show the following, which no run keeps. The first five are stated as
invariants or properties beside those that hold; TLC finds each violated, with a trace,
when it is put in place of the properties of the configuration named:

* `ConnectedServed` of `SessionPool` (enunciado.md:206-208), in `pool_handoff`: two managers choose the
  same entry between main.c:530 and 541, open the FIFOs it has and serve one session
  together; the DISCONNECT of one client ends both managers' loops, and the other client is
  connected to nobody.
* `UnaskedUntold` of `Subscriptions` (enunciado.md:235, main.c:486), in `sub_sweep`: a sweep resets the
  count between the load and the store of `num_subscribed_keys++` (297): the subscription
  is back, and the next client of the entry, which has its CONNECT answer (269) before the
  count is set to 0 (275), is told of a key it never asked for. `QuietClients` leaves out
  the changes of that window, and no others.
* `NoneLeftBehind` of `Subscriptions` (enunciado.md:235-238), in `sub_sweep`: a sweep between the claim of an
  entry (541) and its opens (255) clears `active` and closes nothing of the new session: the
  client is connected, answered and never read. `ClientsServed` leaves out these clients.
* `EveryChangeNotified` of `Subscriptions` (enunciado.md:42-44), in `sub_notify`: UNSUBSCRIBE of another
  key moves a subscription from behind to before the index of `notify_clients`, which
  passes it over. `SteadyNotified` leaves out the clients that unsubscribe something.
* `EndsWithSession` of `Client` (enunciado.md:245), in `client`: `interrompido` is tested only after
  `get_next` has returned, so a client that waits for input is not ended by the sweep
  of its session. `ClientEnds` assumes that input comes.

* The limit on backups is exceeded (enunciado.md:10): a thread past the gate has not
  forked yet, another one's `wait()` finds no child and lets it pass. TLC finds
  `AtMostMaxBackups` of `Backups` violated with two threads and a limit of one;
  `BackupsBounded` is the bound that does hold.
* A directory that comes in more than one block: the next block overwrites an entry
  while its job runs, so its later backups bear another job's name; and the NUL
  that `strtok` stores (operations.c:144) may fall on an entry of the new block that is
  still to be read, whose name then no longer ends in `.job`: the file is never run
  (`skipped`). `BackupsNamed` and `EveryJobOpened` make these exceptions.
* `a.job` and `a.b.job` have the same stem: their backups overwrite each other. A name
  too long for `bck_name[50]` (operations.c:142) loses its number, and all backups of the
  job go to one file.
* A thread ends when an input or output file cannot be opened (main.c:378-392), in the
  second case with the input left open. Once every thread has met one, the files left
  are never run.
* When a `pthread_create` fails, `dispatch_threads` destroys the mutex and returns
  (main.c:434-439): threads that come back for the next file find it destroyed, or go
  on without the dispatcher, using a local variable of the function that returned.
* The `'\n'` that makes a command wrong is consumed, and then `cleanup` skips the line
  after it: `READ [k` costs the following command too. A pair that is wrong is cleaned up
  after twice, by `parse_pair` and by its caller, with the same effect.
* Strings may contain line feeds and may be empty: `READ []` asks for the key with no
  characters, whose hash is -1. Up to `MAX_WRITE_SIZE - 1` pairs or keys are taken, although
  the arrays have room for one more. The client's list, on the contrary, may fill its
  array. The client's DELAY leaves what follows its number to be read as a command.
* A sweep between the claim of an entry and its opens closes the descriptor numbers the
  entry had before. If it falls between the manager's opens, it may close those of this
  client's request and response FIFOs only, or of the notification FIFO only: in the
  latter case the client ends, in the former it may wait for ever for a response.
  `ClientEnds` and `EndsWithSession` are therefore about all three being closed (`Closed`), as
  a sweep of a session under way does, whatever its manager is doing.
* End of file on the response FIFO is not told from a response (api.c:82, 107, 149, 178): the
  result is what the array held, so a SUBSCRIBE the server never saw may report success.
* A client that writes a request after the server has left it is ended by SIGPIPE, and its
  FIFOs keep their names. `main` may also return 1 before `kvs_end` has removed them.
* Between `close` and `pthread_cancel` of a regular DISCONNECT the notification thread may
  read the closed descriptor and report a failure.
* A manager on its way out of an entry that was given to another one meanwhile (line 331
  makes it available before 348 is reached) clears the new session's `active` at line 348
  (`SessionEnd` of `SessionPool`).
* In an entry that two managers share, one client's DISCONNECT may be answered to the
  other (`SessionRespond` of `SessionPool`).
* The request handled once more at the end of file (main.c:279-288) is answered like any
  other: `AnswersItsCommand` says that no running client takes that answer for its own.
* The host looks at `sigusr1_received` only at the top of its loop: blocked in
  `sem_wait(&semEmpty)` while clients stay, it does not act on a signal another
  thread handled. This is why `pool_signal` assumes that clients leave.
* A SIGUSR1 during a sweep is erased by the reset at line 490 and followed by no
  sweep. This is why `unswept` is about signals outside a sweep.
* A notification compared for one client (line 106) is written (line 113) to
  the next client of the entry, who never asked for the key.
* Notifications are written after the lock is released: two threads that write
  the same key may tell the older value last.
* With `MAX_NUMBER_SUB` subscriptions a SUBSCRIBE stores nothing and answers 1
  (line 286 sets the 1, 299-301 leave it). `SubscriptionsAgree` says what still
  holds then: the entry never has more than was granted.

### Bounds

Every bound is a constant named `Max...` and guards an action of the environment
(signals, requests, changes, sweeps, crashes, interrupted waits); the server's own
state is not cut. Two managers are enough for every race of the dispatch between
two takers or two scanners, and four clients let a third and a fourth request come while
both are in a session, in one entry or in two. The signals, which multiply the states, are
in `pool_signal`: one entry and two clients are enough for a sweep before and after the
opens and the answer to CONNECT, for a session in an entry just swept, and for an interrupted
`sem_wait` of either side. Sweeps of several entries, with more managers, are covered by
the proofs. In `sub_notify` two subscriptions to
different keys and an UNSUBSCRIBE of the first is the shortest sequence that moves
one up; the fourth request allows a repeated key, and reaches the limit of three.
`sub_sweep` needs one subscription to be left over, a second client of the
entry, a change and a sweep that may fall between any two of the steps. In `sub_pair` two clients are in session at once, while a notification
goes over both entries and either manager changes its own. In
`kv_atomic` the keys share a chain on purpose, and the commands repeat keys in a
batch, overwrite, delete twice, and read what others are changing.
In `jobs` two jobs share a stem and one name is too long for its number; three names
in blocks of any size let a block overwrite an entry in use, with a thread that has
still to take one from it. The limit of one backup and two threads is the smallest gate
that fills. In `parsers` a line with one character removed, inserted, replaced or cut off
there meets every refusal of both parsers (each has its own way of consuming what
follows), the lines after it show whether reading has resumed, and strings one
longer than the limit and lists of as many elements as the arrays have are among the
texts. In `client` one notification fills the FIFO and another waits; two requests
let one be under way when the other thread closes the descriptors and one come after. The
room for two responses holds one that nobody reads any more and another one of a request
handled twice.

`CHECK_DEADLOCK FALSE` is in the `sub_` runs, where clients leave and the server may
die, in `jobs` (the directory comes to its end), `parsers` (so do the texts) and `client`
(the process ends).

### Fairness

* `SessionPool`: weak fairness of the host and of each manager (a thread that can
  go on does; `sem_wait` and the mutex let a waiting thread pass when they stay
  available). Clients that disconnect some day are assumed only in
  `LeavingSpec`.
* `Subscriptions`: weak fairness of each manager, of a sweep that has begun, and of the
  clients that have been told to go.
  Nothing forces a client to ask, a job to change a key or a signal to come.
* `KVStore`: a thread that holds the lock keeps running (nothing it does under
  it waits for another thread). Getting the lock is not assumed.
* `Backups`, `JobDispatch`: a child ends some day; `wait()` returns when it can; the job
  threads run and the dispatcher creates and joins them. Opens, forks and creations need
  never fail.
* `Client`: each of the two threads runs when it can, and so do the manager that has
  the request, a sweep that has begun and the closing of a dead process's descriptors.
  Nothing need ever ask, notify, sweep or die, and the read of the input need never
  return: it is no part of `MainGoes`, the steps of the command loop that are fair.
  `ClientEnds` has the input in its hypothesis, `[]<>(main.pc # "command")`: a client that
  reads a script, or whose user goes on typing, ends. Without it the client does not
  (`EndsWithSession`). An idle client's manager, blocked in `read` across the sweep, is
  within `Closed` and so within both.

## Proofs

All by TLAPS, for every value of the constants that the named assumptions allow.

* **SessionPoolProofs**, from `SessionPoolAssumption` (as many managers as entries,
  at least one; finitely many managers). `TypeCorrect`: no semaphore becomes
  negative, no index of the scan leaves the table. `TokensAreAccounted` and
  `BufferIsRespected` follow by counting carriers of tokens. `ScanAlwaysFinds` is
  not inductive by itself: a manager is at the end of the table only if it passed
  over every entry, and entries become inactive behind it. `ScanInv` strengthens
  it: every active entry is held by a manager at it, and at most
  `MAX_SESSION_COUNT - i` managers are at entry `i` or beyond. A manager passes
  over entry `i` only if another one holds it, and that one is not beyond it; so
  by counting the bound is kept, and at the end of the table (`i =
  MAX_SESSION_COUNT`) nobody is. `EntriesAreHeld` is the second conjunct; each of the
  three exits of `handle_session`, `SessionConnectFails` among them, is a step of its proof
  that marks the entry inactive before the manager lets go of it. Managers may share an
  entry in all of these theorems: nothing in the invariant says that they do not.
* **BackupsProofs**, from `BackupsAssumption`: `BackupsAreBounded` from `GateInv`
  (below the limit everything is counted; the mutex admits one thread to
  `wait()`), and `LimitHoldsWithFewThreads`: the documented limit is kept when there
  are no more job threads than backups allowed.
* **JobDispatchProofs**, from `JobDispatchAssumption` and `BackupsAssumption`, for any
  directory, any number of threads and any bounds. `JobsKeepToGate`: `JobSpec => Spec` of
  `Backups`, step by step (`GateStep`), which carries the gate's theorems over
  (`JobBackupsAreBounded`). `JobTypeCorrect` needs `StepsAgree`: who is in the gate runs a job
  and has a number left, who has a path has that of a job, and the buffer has been filled
  no more often than names have left the listing. `NoJobTwice` rests on `OnceInv`, which follows a
  name on its way: ahead of `readdir` at most once (`StreamInv`), then carried by one
  thread, in its entry while it has the mutex (`MutexInv`) and in its path after it
  (`CarryInv`), opened at most once and only when it is neither (`OpenedInv`). Most
  steps are quiet, they take no name from the stream and open nothing, and `QuietThread` and
  `QuietElse` deal with them; `ReaddirStep`, `ReaddirBlockStep` and `OpenStep` move a name on.
  `BackupsBearNames` adds `NamedInv`: a file that a thread has open was opened once and by
  no other thread (`RunInv`), and until a second block comes the entry at the thread's
  place has the name its path was made from (`PathInv`), so what `kvs_backup` reads there
  long after the mutex was released is right. `CopyInv` follows the numbers: every copy
  of a running job has a number of at most `file_backups`, so the next one is new. That is
  where an opened file must not be opened again (`OnceInv`): its numbers would
  start from 1 once more.
* **KVStoreProofs**, from `KVTableAssumption` (every key starts with a letter or a
  digit, which kvs.c:9 says). First lemmas on `write_pair`, `read_pair` and `delete_pair`:
  they keep a key in one node of its chain and change its value only. Then
  `StoreInvariant`, an invariant that says what a batch has done to the table and found
  so far in terms of `committed`, and `AtomicBatches`, the refinement of `AtomicKVS`: a command's unlock is its `Perform`, everything else
  between call and return stutters. `StoreTypeCorrect` and `OneNodePerKey` are parts of
  the invariant.
* **SubscriptionsProofs**, from `SubscriptionsAssumption`. `SubscriptionsTypeCorrect` is not
  inductive by itself, because the sweep sets `num_subscribed_keys` to 0 between a manager's
  load and its store, after which an UNSUBSCRIBE may even store -1. `EntryInv` says why nothing is
  ever stored outside `subscribed_keys` all the same: the reset also makes the entry inactive,
  so the session ends before it stores again, and a count found below the limit stays there until
  the manager has counted. The places of the job threads (`RestInv`) follow from the range
  of the count at the moment they read it.
* **NotificationProofs**, from `SubscriptionsAssumption`, which also says that `None` is no
  client and no message: the model uses it for "nobody" and "nothing" beside both. The
  invariant is `SessionsInv`, on top of `SubsInv` of `SubscriptionsProofs`:
  * `Places` says at each step of a manager which client is at the other end of its FIFOs,
    in which state, and that manager and client take turns: a request is not on its way
    while another is being handled.
  * `AgreeInv` compares `subs`, what the client was granted, with the slots. In the middle of a
    request both are in motion: `Bound` is what the count will be, `Counted` leaves out the slot
    that is free while the list moves up, `Granting` is what the response will add, and
    `Pending` counts a SUBSCRIBE that has yet to store its key, so that the entry is full only if
    the client made that many requests. Once a sweep has emptied the
    entry only "no more often than granted" is left. Lemmas on cardinalities say what storing, moving and counting do to the
    copies of a key. `EntriesAgree` reads `SubscriptionsAgree` off at the manager's `read`.
  * `QuietInv`: an entry of a client with nothing to be told has the key in no counted
    slot, now or once the request is counted (`Free`), and the slot the job thread looks at, which
    may have been given up since, holds another key (`NotFound`). `QuietClientsUntold` follows. It
    leaves out the changes at which a client's manager has not come past line 275 (`Fresh`): the
    entry may then hold anything, as the trace to `UnaskedUntold` shows. `Unbegun` says that nothing was
    granted to a client before its session, so that what `SessionReset` empties was never its own.

  `SteadyClientsTold` adds `SteadyInv`: every client owed a notification has an entry that holds
  the key in a slot the job thread has still `Ahead`. Only an UNSUBSCRIBE moves a subscription, and then
  it may come to lie behind the job thread, which `EveryChangeNotified` is about; the client
  is then in `moved`. `ClientsAreServed` adds `ServedInv`: every client has, from its claim on, a manager
  whose entry is active until a DISCONNECT is being answered (`Serves`). A sweep takes that
  away in two steps, the `close()`s and the reset; the invariant survives because the
  `close()`s hang the client up, unless its FIFOs were not open yet, and those clients are the
  ones in `missed`, for which `NoneLeftBehind` fails. Any number of sweeps is
  covered. All theorems on `Subscriptions` are about behaviours in which two managers are
  not yet in one entry (`shared`): all behaviours if there is one entry, and otherwise up to what
  the trace to `ConnectedServed` shows.
* **ClientProofs**, from `ClientAssumption`. `AnswersBelong` follows what the client waits for on
  its way: as a request, as the command its manager handles, as the response
  (`AnswerInv`), as long as the server has its end of the response FIFO; `Lost` is the client
  that gave up waiting, and ends. The manager `Handles` that command, or `Repeats` one at the end
  of the request FIFO, which the notification thread has closed; a manager that has handled a
  DISCONNECT reads no more (`DisconnectInv`), so a repeated answer always lies behind the one waited for. `AllPrinted` counts the notifications in the FIFO, in the
  thread's hand and printed (`NotifiedInv`), `ErrorsAreExplained` rests on who may have closed
  the descriptors (`DescriptorInv`), and both on how far the two sides are with their opens
  (`OpensInv`).

* **CommandLoopsProofs**, from the assumptions of `CommandText`, `JobParser`, `ClientParser` and
  `CommandLoops`: files are sequences of `Characters`, which have the marks, the digits and the letters
  of the words, and not the value that `read_uint` stores for the end of the file; keys and values
  of the language are not empty, have no mark that ends them and fit their arrays. The
  theorems are about every such text (what `read_uint` does with sixteen digits is not in
  the model, see below), all limits, and all keys and values, where the run `parsers` has texts
  of three lines.
  * The loops of the parsers and the language (`CommaList`, `Pairs`) are recursive functions.
    `SetInduction` does induction with the set of the numbers that have the property, from
    well-foundedness, and `RecursiveFunction` shows that a recursive equation on `0 .. max` has a
    solution, so that `KeyListDef`, `PairListDef`, `CommaListDef` and `PairsDef` may use
    theirs.
  * `At(t, p, s)` says that `s` is in the text from `p` on. `ReadString` and `StringIsRead` say
    what `read_string` returns and when; `KeyFromReads` and `PairFromReads` that one turn of
    a loop returns what is in the text if the turns after it do, `KeyFromFinds` and `PairFromFinds`
    that it finds what is there. By induction on the room left, `KeyListIs` and `PairListIs`
    (nothing is made up) and `KeyListFinds` and `PairListFinds` (nothing is missed).
  * `JobCommandIs` and `ClientCommandIs` put the functions of each parser together, one case per word.
  * The inductive invariant `Inv` is the history variable's meaning: `last` is what the parser
    makes of the text at the place where it started, and `place` the one where it
    stopped. The five properties follow from it by the two lemmas above: `ParsersTypeCorrect`,
    `LinesAreUnderstood`, `TakenWasWritten`, `ResumesAtLines`, `TakenAlwaysFits`.

Only model-checked: liveness (`SignalSwept`, `GateReleased`, `EveryJobOpened`, `LockReleased`,
`RequestAnswered`, `SweptManagerFreed`, `ConnectCompletes`, `ClientEnds`, `NotificationsRead`), which rests on
fairness and ENABLED and is out of the prover's reach. Every other property of a passing run
is a theorem.

## Not modelled

* Descriptor numbers and their reuse after the sweep's `close()`s (main.c:480), and the limit
  on descriptors, which sessions that end by DISCONNECT use up (main.c:330).
* FIFO capacity in `Subscriptions`: a notification there never blocks its writer. `Client`
  has a bounded FIFO and shows that it is read.
* NUL characters in job files and commands, and sixteen or more digits in a row, with
  which `read_uint` writes behind `buf[16]` (parser.c:58-75); the memory behind a string that
  is too long (parser.c:47).
* The window between a notification's comparison and its write (main.c:106), and the order
  of notifications of two threads (main.c:147): both do go wrong, as described above,
  and nothing weaker that holds is worth stating.
* What two managers in one entry do to its subscriptions: `SessionPool`, which follows them,
  has no subscriptions, and `Subscriptions` ends there.
* What is printed and its truncation; the arguments of `main`; code after
  `host_task`'s join, which is not reached.
* Keys whose hash is -1.

## Plan

Done: `SessionPool`, `Backups`, `KVTable`, `AtomicKVS`, `KVStore`, `Subscriptions`,
`JobDispatch`, the parsers with `CommandLoops`, and `Client`, in the order of what the
server most depends on, and the proofs listed above. Next:

1. An abstract specification of subscriptions (a client's set of keys, a change told to
   whoever holds the key), implemented by `Subscriptions` up to the exceptions it lists.
2. Descriptor numbers in `Subscriptions`, to say what a reused number does.
3. Several managers to an entry in `Subscriptions`, to say what they do to its list.
