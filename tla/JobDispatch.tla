----------------------------- MODULE JobDispatch -----------------------------
(***************************************************************************)
(* Job dispatch: dispatch_threads starts the job threads, each of which    *)
(* takes .job files from one directory stream (get_file) and runs them     *)
(* (run_job) until the stream is at its end.  The BACKUP command goes      *)
(* through the gate of module Backups and names its file after the         *)
(* directory entry, which by then nothing protects (src/server/main.c,     *)
(* kvs_backup in operations.c).  The other commands change the table only, *)
(* as KVStore describes.                                                   *)
(*                                                                         *)
(* A DIR has a buffer that getdents fills with the next entries, any       *)
(* number of them, when readdir has handed out those it had.  What readdir *)
(* returns points into it.                                                 *)
(***************************************************************************)
EXTENDS Backups, Sequences

CONSTANTS
  Directory,      \* the names in the directory, in the stream's order
  JobNames,       \* those entry_files accepts: they end in .job and are short enough
  Stem,           \* of each name, what strtok returns: its part before the first dot
  NumberFits,     \* the names short enough for the number to fit in bck_name
  MaxJobBackups,  \* bound on the BACKUP commands of one file
  MaxOpenFails,   \* bound on the open()s that fail
  MaxCreateFails, \* bound on the pthread_create()s that fail
  Destroyed

ASSUME JobDispatchAssumption ==
  /\ Directory \in Seq(DOMAIN Stem)
  /\ \A i, j \in DOMAIN Directory : Directory[i] = Directory[j] => i = j
  /\ JobNames \subseteq {Directory[i] : i \in DOMAIN Directory}
  /\ NumberFits \subseteq DOMAIN Stem
  /\ {MaxJobBackups, MaxOpenFails, MaxCreateFails} \subseteq Nat
  /\ Destroyed \notin JobThreads \cup {None}

Names   == DOMAIN Stem
Places  == 1 .. Len(Directory)
NoEntry == [name |-> None, cut |-> FALSE]
BackupFiles == {Stem[f] : f \in Names} \X (0 .. MaxJobBackups)

\* bck_name; snprintf cuts it off after 49 characters, here a number 0.
BackupFile(name, n) == <<Stem[name], IF name \in NumberFits THEN n ELSE 0>>

VARIABLES
  listing,      \* names getdents has not delivered yet
  block,        \* the buffer of the DIR: names, and those strtok has cut at the dot
  nextEntry, lastEntry,  \* places in it: the next entry, the last one delivered
  directory_mutex,       \* its holder, None or Destroyed
  worker,       \* each job thread: step, place of its entry, in_path, file_backups
  dispatcher,   \* dispatch_threads: "create", "join" or "done"
  openFails, createFails,
  \* History variables.
  blocks,       \* how often the buffer was filled
  opened,       \* how often each job file was opened, or could not be
  skipped,      \* job files passed over because their entry was cut
  copies        \* of each backup file, the jobs it was written for, in order

streamVars == <<listing, block, nextEntry, lastEntry, blocks>>
failVars   == <<openFails, createFails>>
dispatchVars == <<streamVars, directory_mutex, worker, dispatcher, failVars,
                  opened, skipped, copies>>
jobVars == <<vars, dispatchVars>>

Steps == {"unborn", "lock", "readdir", "entry", "in", "out", "run", "ended"}

\* The type invariant.
JobTypeOK ==
  /\ TypeOK
  /\ listing \in Seq(Names) /\ Len(listing) <= Len(Directory)
  /\ block \in [Places -> [name : Names \cup {None}, cut : BOOLEAN]]
  /\ nextEntry \in 1 .. Len(Directory) + 1 /\ lastEntry \in 0 .. Len(Directory)
  /\ directory_mutex \in JobThreads \cup {None, Destroyed}
  /\ worker \in [JobThreads -> [pc : Steps, place : Places \cup {0},
                                path : Names \cup {None}, backups : 0 .. MaxJobBackups]]
  /\ dispatcher \in {"create", "join", "done"}
  /\ openFails \in 0 .. MaxOpenFails /\ createFails \in 0 .. MaxCreateFails
  /\ blocks \in 0 .. Len(Directory)
  /\ opened \in [JobNames -> Nat]
  /\ skipped \subseteq JobNames
  /\ copies \in [BackupFiles -> Seq(JobNames)]

JobInit ==
  /\ Init
  /\ listing = Directory
  /\ block = [i \in Places |-> NoEntry]
  /\ nextEntry = 1 /\ lastEntry = 0
  /\ directory_mutex = None
  /\ worker = [t \in JobThreads |->
                 [pc |-> "unborn", place |-> 0, path |-> None, backups |-> 0]]
  /\ dispatcher = "create"
  /\ openFails = 0 /\ createFails = 0
  /\ blocks = 0
  /\ opened = [f \in JobNames |-> 0]
  /\ skipped = {}
  /\ copies = [b \in BackupFiles |-> <<>>]

-----------------------------------------------------------------------------
(* dispatch_threads.                                                       *)

Ended(t) == worker[t].pc = "ended"

\* Mutex attributes aside, glibc's pthread_mutex_destroy leaves a held mutex alone.
Destroy == directory_mutex' = IF directory_mutex = None THEN Destroyed ELSE directory_mutex

CreateThread(t) ==
  /\ dispatcher = "create" /\ worker[t].pc = "unborn"
  /\ worker' = [worker EXCEPT ![t].pc = "lock"]
  /\ dispatcher' = IF \A u \in JobThreads \ {t} : worker[u].pc # "unborn"
                   THEN "join" ELSE "create"
  /\ UNCHANGED <<vars, streamVars, directory_mutex, failVars, opened, skipped, copies>>

\* The mutex is destroyed and dispatch_threads returns while the threads created so
\* far go on using thread_data, a local variable of it.  Its memory stays mapped:
\* nobody joins the dispatcher's thread.
CreateFails ==
  /\ dispatcher = "create" /\ createFails < MaxCreateFails
  /\ createFails' = createFails + 1
  /\ dispatcher' = "done"
  /\ Destroy
  /\ UNCHANGED <<vars, streamVars, worker, openFails, opened, skipped, copies>>

\* Mutant: one thread is waited for.
JoinThreadsOne ==
  /\ dispatcher = "join" /\ \E t \in JobThreads : Ended(t)
  /\ dispatcher' = "done"
  /\ Destroy
  /\ UNCHANGED <<vars, streamVars, worker, failVars, opened, skipped, copies>>

\* Every thread is waited for, then the mutex destroyed.
JoinThreads ==
  /\ dispatcher = "join" /\ \A t \in JobThreads : Ended(t)
  /\ dispatcher' = "done"
  /\ Destroy
  /\ UNCHANGED <<vars, streamVars, worker, failVars, opened, skipped, copies>>

-----------------------------------------------------------------------------
(* get_file, with entry_files.                                             *)

At(t, step) == worker[t].pc = step
scanFrame == <<vars, dispatcher, failVars, opened, copies>>

LockDirectory(t) ==
  /\ At(t, "lock") /\ directory_mutex = None
  /\ directory_mutex' = t
  /\ worker' = [worker EXCEPT ![t].pc = "readdir"]
  /\ UNCHANGED <<scanFrame, streamVars, skipped>>

\* Locking the destroyed mutex is an error, and the thread returns.
LockDirectoryFails(t) ==
  /\ At(t, "lock") /\ directory_mutex = Destroyed
  /\ worker' = [worker EXCEPT ![t].pc = "ended"]
  /\ UNCHANGED <<scanFrame, streamVars, directory_mutex, skipped>>

Got(t, place) == worker' = [worker EXCEPT ![t] = [@ EXCEPT !.pc = "entry", !.place = place]]

\* readdir returns an entry that is in the buffer.
Readdir(t) ==
  /\ At(t, "readdir") /\ nextEntry <= lastEntry
  /\ Got(t, nextEntry)
  /\ nextEntry' = nextEntry + 1
  /\ UNCHANGED <<scanFrame, listing, block, lastEntry, blocks, directory_mutex, skipped>>

\* It has the buffer filled first, over the entries of the block before.
ReaddirBlock(t) ==
  /\ At(t, "readdir") /\ nextEntry > lastEntry
  /\ \E n \in 1 .. Len(listing) :
       /\ block' = [i \in Places |-> IF i <= n THEN [name |-> listing[i], cut |-> FALSE]
                                               ELSE block[i]]
       /\ listing' = SubSeq(listing, n + 1, Len(listing))
       /\ lastEntry' = n
  /\ Got(t, 1)
  /\ nextEntry' = 2
  /\ blocks' = blocks + 1
  /\ UNCHANGED <<scanFrame, directory_mutex, skipped>>

\* The end of the stream.
ReaddirEnd(t) ==
  /\ At(t, "readdir") /\ nextEntry > lastEntry /\ listing = <<>>
  /\ worker' = [worker EXCEPT ![t].pc = "ended"]
  /\ directory_mutex' = None
  /\ UNCHANGED <<scanFrame, streamVars, skipped>>

\* entry_files makes the paths, and the mutex is released.
EntryTaken(t) ==
  LET entry == block[worker[t].place] IN
  /\ At(t, "entry") /\ entry.name \in JobNames /\ ~ entry.cut
  /\ worker' = [worker EXCEPT ![t] = [@ EXCEPT !.pc = "in", !.path = entry.name]]
  /\ directory_mutex' = None
  /\ UNCHANGED <<scanFrame, streamVars, skipped>>

\* entry_files wants a name that ends in .job; one that was cut no longer does.
EntryRefused(t) ==
  LET entry == block[worker[t].place] IN
  /\ At(t, "entry") /\ (entry.name \notin JobNames \/ entry.cut)
  /\ worker' = [worker EXCEPT ![t].pc = "readdir"]
  /\ skipped' = skipped \cup ({entry.name} \cap JobNames)
  /\ UNCHANGED <<scanFrame, streamVars, directory_mutex>>

openFrame == <<vars, streamVars, directory_mutex, dispatcher, createFails, skipped, copies>>

\* Mutant: the path is made from the entry after the mutex is released.
OpenInputLate(t) ==
  LET name == block[worker[t].place].name IN
  /\ At(t, "in")
  /\ worker' = [worker EXCEPT ![t] = [@ EXCEPT !.pc = "out", !.path = name]]
  /\ opened' = [opened EXCEPT ![name] = @ + 1]
  /\ UNCHANGED <<openFrame, openFails>>

OpenInput(t) ==
  /\ At(t, "in")
  /\ worker' = [worker EXCEPT ![t].pc = "out"]
  /\ opened' = [opened EXCEPT ![worker[t].path] = @ + 1]
  /\ UNCHANGED <<openFrame, openFails>>

\* The thread ends; so it does when the output cannot be opened.
OpenInputFails(t) ==
  /\ At(t, "in") /\ openFails < MaxOpenFails
  /\ worker' = [worker EXCEPT ![t].pc = "ended"]
  /\ opened' = [opened EXCEPT ![worker[t].path] = @ + 1]
  /\ openFails' = openFails + 1
  /\ UNCHANGED openFrame

OpenOutput(t) ==
  /\ At(t, "out")
  /\ worker' = [worker EXCEPT ![t] = [@ EXCEPT !.pc = "run", !.backups = 0]]
  /\ UNCHANGED <<openFrame, opened, openFails>>

OpenOutputFails(t) ==
  /\ At(t, "out") /\ openFails < MaxOpenFails
  /\ worker' = [worker EXCEPT ![t].pc = "ended"]
  /\ openFails' = openFails + 1
  /\ UNCHANGED <<openFrame, opened>>

-----------------------------------------------------------------------------
(* run_job: BACKUP, as in module Backups, and the end of the file.         *)

runFrame == <<directory_mutex, dispatcher, failVars, opened, skipped>>

BackupGate(t) ==
  /\ At(t, "run") /\ worker[t].backups < MaxJobBackups
  /\ GateOpen(t) \/ GateFull(t)
  /\ UNCHANGED dispatchVars

BackupWait(t) ==
  /\ WaitReturns(t) \/ WaitInterrupted(t)
  /\ UNCHANGED dispatchVars

\* Mutant: the backups of a file all have the number 1.
BackupForkSame(t) ==
  LET place == worker[t].place
      file  == BackupFile(block[place].name, 1)
  IN
  /\ Fork(t)
  /\ copies' = [copies EXCEPT ![file] = Append(@, worker[t].path)]
  /\ worker' = [worker EXCEPT ![t].backups = @ + 1]
  /\ block' = [block EXCEPT ![place].cut = TRUE]
  /\ UNCHANGED <<runFrame, listing, nextEntry, lastEntry, blocks>>

\* kvs_backup: strtok cuts the name the entry has now at its dot, in place, and
\* the child writes the file of that name and number.
BackupFork(t) ==
  LET place == worker[t].place
      file  == BackupFile(block[place].name, worker[t].backups + 1)
  IN
  /\ Fork(t)
  /\ copies' = [copies EXCEPT ![file] = Append(@, worker[t].path)]
  /\ worker' = [worker EXCEPT ![t].backups = @ + 1]
  /\ block' = [block EXCEPT ![place].cut = TRUE]
  /\ UNCHANGED <<runFrame, listing, nextEntry, lastEntry, blocks>>

\* The fork fails after the name was cut and the number used up.
BackupForkFails(t) ==
  /\ ForkFails(t)
  /\ worker' = [worker EXCEPT ![t].backups = @ + 1]
  /\ block' = [block EXCEPT ![worker[t].place].cut = TRUE]
  /\ UNCHANGED <<runFrame, listing, nextEntry, lastEntry, blocks, copies>>

\* End of the commands: run_job returns 0, the files are closed.
JobEnd(t) ==
  /\ At(t, "run") /\ pc[t] = "job"
  /\ worker' = [worker EXCEPT ![t].pc = "lock"]
  /\ UNCHANGED <<vars, streamVars, runFrame, copies>>

\* A backup's child ends.
BackupEnds == ChildExit /\ UNCHANGED dispatchVars

-----------------------------------------------------------------------------
\* What a thread does by itself: everything but failures and signals.
WorkerStep(t) ==
  \/ LockDirectory(t) \/ LockDirectoryFails(t)
  \/ Readdir(t) \/ ReaddirBlock(t) \/ ReaddirEnd(t)
  \/ EntryTaken(t) \/ EntryRefused(t)
  \/ OpenInput(t) \/ OpenOutput(t)
  \/ BackupGate(t) \/ BackupFork(t) \/ JobEnd(t)

WorkerNext(t) ==
  \/ CreateThread(t) \/ WorkerStep(t) \/ BackupWait(t)
  \/ OpenInputFails(t) \/ OpenOutputFails(t) \/ BackupForkFails(t)

JobNext ==
  \/ CreateFails \/ JoinThreads \/ BackupEnds
  \/ \E t \in JobThreads : WorkerNext(t)

JobSpec == JobInit /\ [][JobNext]_jobVars

\* The threads run, the dispatcher creates and joins them, children end, and
\* wait() returns when it can.
JobFairSpec ==
  /\ JobSpec
  /\ WF_jobVars(JoinThreads) /\ WF_jobVars(BackupEnds)
  /\ \A t \in JobThreads :
       /\ WF_jobVars(CreateThread(t))
       /\ WF_jobVars(WorkerStep(t))
       /\ WF_jobVars(WaitReturns(t) /\ UNCHANGED dispatchVars)

-----------------------------------------------------------------------------
\* No job file is run by two threads or twice: the paths are copied from the entry
\* before the mutex is released, so a block that overwrites the entry does no harm
\* to them (main.c:361-386).
JobsOpenedOnce == \A f \in JobNames : opened[f] <= 1

\* As long as the directory came in one block, a backup file has the name of its job
\* and is written once for each job of that name: file_backups never gives a number
\* twice (main.c:209).  Of a name too long for bck_name it may be written over and
\* over (operations.c:142-144).
BackupsNamed ==
  blocks <= 1 =>
    \A b \in BackupFiles : \A i, j \in DOMAIN copies[b] :
      /\ Stem[copies[b][i]] = b[1]
      /\ copies[b][i] = copies[b][j] => i = j \/ copies[b][i] \notin NumberFits

\* Every job file is opened some day, although threads that cannot open a file end,
\* provided that one thread is left and all could be created (main.c:368-419).
\* The exception is a file whose name strtok has cut in the buffer before readdir
\* got to it, which takes a directory of several blocks (main.c:394, operations.c:144).
EveryJobOpened ==
  \A f \in JobNames :
    <>(\/ opened[f] > 0
       \/ f \in skipped /\ blocks > 1
       \/ createFails > 0
       \/ openFails >= Cardinality(JobThreads))
=============================================================================
