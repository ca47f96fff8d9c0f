------------------------------- MODULE KVStore -------------------------------
(***************************************************************************)
(* The operations of src/server/operations.c on the hash table, called by  *)
(* the job threads and, for kvs_key_exists, by the session managers.       *)
(*                                                                         *)
(* Each takes the read-write lock of the table, handles its pairs one by   *)
(* one and releases the lock: a step is one pair.  What it prints is       *)
(* abstracted to one outcome per pair; SHOW and the child process of       *)
(* BACKUP print the table as they find it, chain by chain, so the table    *)
(* they see stands for what they print.                                    *)
(***************************************************************************)
EXTENDS KVTable, FiniteSets

CONSTANTS
  Threads,
  Commands,   \* the commands threads may give
  Removed,    \* the outcome of a DELETE that prints nothing
  None        \* no writer

WriteOps == {"WRITE", "DELETE"}
ReadOps  == {"READ", "SHOW", "BACKUP", "EXISTS"}

\* Both parsers return at least one pair (run_job, main.c:137 and 156).
ASSUME KVStoreAssumption ==
  /\ None \notin Threads
  /\ \A c \in Commands :
       /\ DOMAIN c = {"op", "keys", "values"}
       /\ c.op \in WriteOps \cup ReadOps
       /\ c.keys \in Seq(Keys) /\ c.values \in Seq(Values)
       /\ c.op = "WRITE" => Len(c.values) = Len(c.keys)
       /\ c.op \in {"WRITE", "READ", "DELETE"} => Len(c.keys) > 0
       /\ c.op = "EXISTS" => Len(c.keys) = 1

VARIABLES
  table,            \* kvs_table->table
  writer, readers,  \* kvs_table->tablelock
  pc, command, next, out,  \* of each thread: step, command, pair, outcomes
  committed         \* history: contents of the table at the last write unlock

threadVars == <<pc, command, next, out>>
lockVars   == <<writer, readers>>
vars == <<table, lockVars, threadVars, committed>>

NoCommand == [op |-> "NONE", keys |-> <<>>, values |-> <<>>]

\* The type invariant.
TypeOK ==
  /\ table \in [Buckets -> Seq(Node)]
  /\ writer \in Threads \cup {None}
  /\ readers \in SUBSET Threads
  /\ pc \in [Threads -> {"idle", "lock", "run", "unlock"}]
  /\ command \in [Threads -> Commands \cup {NoCommand}]
  /\ next \in [Threads -> Nat]
  /\ DOMAIN out = Threads
  /\ committed \in [Keys -> Values \cup {Absent}]

\* After kvs_init.
Init ==
  /\ table = EmptyTable
  /\ writer = None /\ readers = {}
  /\ pc = [t \in Threads |-> "idle"]
  /\ command = [t \in Threads |-> NoCommand]
  /\ next = [t \in Threads |-> 1]
  /\ out = [t \in Threads |-> <<>>]
  /\ committed = Contents(EmptyTable)

Op(t)  == command[t].op
Key(t) == command[t].keys[next[t]]

Call(t, c) ==
  /\ pc[t] = "idle"
  /\ pc' = [pc EXCEPT ![t] = "lock"]
  /\ command' = [command EXCEPT ![t] = c]
  /\ next' = [next EXCEPT ![t] = 1]
  /\ out' = [out EXCEPT ![t] = <<>>]
  /\ UNCHANGED <<table, lockVars, committed>>

-----------------------------------------------------------------------------
(* pthread_rwlock_rdlock and pthread_rwlock_wrlock.                        *)

\* Mutant: readers do not wait for the writer.
ReadLockBarges(t) ==
  /\ pc[t] = "lock" /\ Op(t) \in ReadOps
  /\ readers' = readers \cup {t}
  /\ pc' = [pc EXCEPT ![t] = "run"]
  /\ UNCHANGED <<table, writer, command, next, out, committed>>

ReadLock(t) ==
  /\ pc[t] = "lock" /\ Op(t) \in ReadOps
  /\ writer = None
  /\ readers' = readers \cup {t}
  /\ pc' = [pc EXCEPT ![t] = "run"]
  /\ UNCHANGED <<table, writer, command, next, out, committed>>

WriteLock(t) ==
  /\ pc[t] = "lock" /\ Op(t) \in WriteOps
  /\ writer = None /\ readers = {}
  /\ writer' = t
  /\ pc' = [pc EXCEPT ![t] = "run"]
  /\ UNCHANGED <<table, readers, command, next, out, committed>>

-----------------------------------------------------------------------------
(* The work done under the lock.                                           *)

\* One turn of the loop over the pairs, with its outcome.
Turn(t, op, outcome) ==
  /\ pc[t] = "run" /\ Op(t) = op
  /\ out' = [out EXCEPT ![t] = @ \o outcome]
  /\ next' = [next EXCEPT ![t] = @ + 1]
  /\ pc' = [pc EXCEPT ![t] = IF next[t] = Len(command[t].keys) THEN "unlock"
                                                                ELSE "run"]
  /\ UNCHANGED <<lockVars, command, committed>>

WritePair(t) ==
  /\ Turn(t, "WRITE", <<>>)
  /\ table' = write_pair(table, Key(t), command[t].values[next[t]])

ReadPair(t) ==
  /\ Turn(t, "READ", <<read_pair(table, Key(t))>>)
  /\ UNCHANGED table

\* A key that is not there is reported as KVSMISSING.
DeletePair(t) ==
  /\ Turn(t, "DELETE", <<IF Has(table[hash(Key(t))], Key(t)) THEN Removed ELSE Absent>>)
  /\ table' = delete_pair(table, Key(t))

\* Mutant: the return for a key that is there comes before the unlock.
KeyExistsLeaks(t) ==
  /\ pc[t] = "run" /\ Op(t) = "EXISTS"
  /\ LET found == Has(table[hash(Key(t))], Key(t)) IN
       /\ out' = [out EXCEPT ![t] = <<found>>]
       /\ pc' = [pc EXCEPT ![t] = IF found THEN "idle" ELSE "unlock"]
  /\ UNCHANGED <<table, lockVars, command, next, committed>>

KeyExists(t) ==
  /\ Turn(t, "EXISTS", <<Has(table[hash(Key(t))], Key(t))>>)
  /\ UNCHANGED table

\* SHOW prints the table; BACKUP forks, and the child prints its own copy.
Snapshot(t) ==
  /\ pc[t] = "run" /\ Op(t) \in {"SHOW", "BACKUP"}
  /\ out' = [out EXCEPT ![t] = table]
  /\ pc' = [pc EXCEPT ![t] = "unlock"]
  /\ UNCHANGED <<table, lockVars, command, next, committed>>

-----------------------------------------------------------------------------
(* pthread_rwlock_unlock, and the return to the caller.                    *)

ReadUnlock(t) ==
  /\ pc[t] = "unlock" /\ Op(t) \in ReadOps
  /\ readers' = readers \ {t}
  /\ pc' = [pc EXCEPT ![t] = "idle"]
  /\ UNCHANGED <<table, writer, command, next, out, committed>>

WriteUnlock(t) ==
  /\ pc[t] = "unlock" /\ Op(t) \in WriteOps
  /\ writer' = None
  /\ committed' = Contents(table)
  /\ pc' = [pc EXCEPT ![t] = "idle"]
  /\ UNCHANGED <<table, readers, command, next, out>>

-----------------------------------------------------------------------------
Work(t) ==
  \/ WritePair(t) \/ ReadPair(t) \/ DeletePair(t) \/ KeyExists(t) \/ Snapshot(t)
  \/ ReadUnlock(t) \/ WriteUnlock(t)

Next == \E t \in Threads :
  \/ \E c \in Commands : Call(t, c)
  \/ ReadLock(t) \/ WriteLock(t)
  \/ Work(t)

Spec == Init /\ [][Next]_vars

\* A thread that holds the lock keeps running: nothing it does blocks.
FairSpec == Spec /\ \A t \in Threads : WF_vars(Work(t))

-----------------------------------------------------------------------------
\* Every key is stored once, in the chain of its hash, between any two pairs: a
\* WRITE leaves no older value behind that a DELETE would bring back, and SHOW
\* and BACKUP print each key once (kvs.c:34-58, 79-109).
TableOK == ChainsOK(table)

\* Why batches are atomic.  The lock is held by the threads that work, by one
\* if it writes; what a batch has done to the table and what it has found so far
\* is told by its pairs up to next and by the contents when the lock was free.
Holding(t) == pc[t] \in {"run", "unlock"}
Handled(t) == 1 .. next[t] - 1

LockInv ==
  /\ \A t \in Threads :
       /\ writer = t <=> Holding(t) /\ Op(t) \in WriteOps
       /\ t \in readers <=> Holding(t) /\ Op(t) \in ReadOps
  /\ writer # None => readers = {}

CommandInv ==
  \A t \in Threads :
    /\ pc[t] # "idle" => command[t] \in Commands
    /\ pc[t] = "lock" => next[t] = 1 /\ out[t] = <<>>
    /\ Holding(t) /\ Op(t) \notin {"SHOW", "BACKUP"} =>
         next[t] \in IF pc[t] = "unlock" THEN {Len(command[t].keys) + 1}
                                          ELSE 1 .. Len(command[t].keys)

WriteProgress(t) ==
  /\ out[t] = <<>>
  /\ \A k \in Keys :
       \/ /\ \A j \in Handled(t) : command[t].keys[j] # k
          /\ read_pair(table, k) = committed[k]
       \/ \E j \in Handled(t) :
            /\ command[t].keys[j] = k
            /\ read_pair(table, k) = command[t].values[j]
            /\ \A i \in Handled(t) : command[t].keys[i] = k => i <= j

DeleteProgress(t) ==
  /\ out[t] \in Seq({Absent, Removed}) /\ Len(out[t]) = next[t] - 1
  /\ \A k \in Keys : read_pair(table, k) =
       IF \E j \in Handled(t) : command[t].keys[j] = k THEN Absent ELSE committed[k]
  /\ \A j \in Handled(t) : out[t][j] =
       IF \/ committed[command[t].keys[j]] = Absent
          \/ \E i \in 1 .. j - 1 : command[t].keys[i] = command[t].keys[j]
       THEN Absent ELSE Removed

ReadProgress(t) ==
  /\ out[t] \in Seq(Values \cup {Absent}) /\ Len(out[t]) = next[t] - 1
  /\ \A j \in Handled(t) : out[t][j] = committed[command[t].keys[j]]

ThreadProgress(t) ==
  CASE Op(t) = "WRITE"  -> WriteProgress(t)
    [] Op(t) = "DELETE" -> DeleteProgress(t)
    [] Op(t) = "READ"   -> ReadProgress(t)
    [] Op(t) = "EXISTS" ->
         out[t] = IF pc[t] = "run" THEN <<>>
                  ELSE <<committed[command[t].keys[1]] # Absent>>
    [] OTHER -> pc[t] = "unlock" => Contents(out[t]) = committed

Progress ==
  /\ writer = None => committed = Contents(table)
  /\ \A t \in Threads : Holding(t) => ThreadProgress(t)

StoreInv == TableOK /\ LockInv /\ CommandInv /\ Progress

\* Batches are atomic (operations.c:45-178): every command takes effect in one
\* instant, its unlock, however the threads interleave.  What SHOW or the
\* backup's child print is a table, of which the contents count.
Pending == [t \in Threads |-> pc[t] # "idle"]
Result == [t \in Threads |->
  CASE pc[t] # "idle" -> <<>>
    [] pc[t] = "idle" /\ Op(t) \in {"SHOW", "BACKUP"} -> Contents(out[t])
    [] OTHER -> out[t]]

Atomic == INSTANCE AtomicKVS WITH
  store <- committed, pending <- Pending, answer <- Result

BatchesAtomic == Atomic!Spec

\* No return path of an operation keeps the lock (operations.c:192, 197).
LockReleased ==
  \A t \in Threads : t \in readers \cup {writer} ~> t \notin readers \cup {writer}
=============================================================================
