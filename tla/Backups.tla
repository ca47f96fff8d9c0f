------------------------------- MODULE Backups -------------------------------
(***************************************************************************)
(* The limit on concurrent backups: the BACKUP command of run_job and the  *)
(* fork of kvs_backup.  A job thread passes a gate that counts backups up  *)
(* to max_backups and from then on waits for one child to end before each  *)
(* new one; past the gate, outside its mutex, it forks the child.  Nothing *)
(* ever decrements the count while the server runs.                        *)
(***************************************************************************)
EXTENDS Integers, FiniteSets

CONSTANTS
  JobThreads,   \* the max_threads threads that run jobs
  max_backups,
  None,
  MaxSignals    \* bound on the SIGUSR1 that hit a thread inside wait()

ASSUME BackupsAssumption ==
  /\ IsFiniteSet(JobThreads) /\ JobThreads # {}
  /\ None \notin JobThreads
  /\ max_backups \in Nat \ {0}
  /\ MaxSignals \in Nat

VARIABLES
  active_backups,
  gateLock,      \* n_current_backups_lock: who holds it inside wait(), or None
  pc,            \* of each job thread: not in a BACKUP, inside wait(), past the gate
  running,       \* children that are writing their backup
  zombies,       \* children that ended and no wait() has collected
  interrupted    \* history: wait() calls that a signal ended

vars == <<active_backups, gateLock, pc, running, zombies, interrupted>>

\* The type invariant.
TypeOK ==
  /\ active_backups \in 0 .. max_backups
  /\ gateLock \in JobThreads \cup {None}
  /\ pc \in [JobThreads -> {"job", "wait", "fork"}]
  /\ running \in Nat /\ zombies \in Nat
  /\ interrupted \in 0 .. MaxSignals

Init ==
  /\ active_backups = 0
  /\ gateLock = None
  /\ pc = [t \in JobThreads |-> "job"]
  /\ running = 0 /\ zombies = 0
  /\ interrupted = 0

Go(t, step) == pc' = [pc EXCEPT ![t] = step]

\* Mutant: one backup too many.
GateOpenOneMore(t) ==
  /\ pc[t] = "job" /\ gateLock = None
  /\ active_backups <= max_backups
  /\ active_backups' = active_backups + 1
  /\ Go(t, "fork")
  /\ UNCHANGED <<gateLock, running, zombies, interrupted>>

\* The critical section when a backup is below the limit.
GateOpen(t) ==
  /\ pc[t] = "job" /\ gateLock = None
  /\ active_backups < max_backups
  /\ active_backups' = active_backups + 1
  /\ Go(t, "fork")
  /\ UNCHANGED <<gateLock, running, zombies, interrupted>>

\* At the limit: the thread calls wait(NULL) with the mutex held.
GateFull(t) ==
  /\ pc[t] = "job" /\ gateLock = None
  /\ active_backups >= max_backups
  /\ gateLock' = t
  /\ Go(t, "wait")
  /\ UNCHANGED <<active_backups, running, zombies, interrupted>>

\* wait(NULL) returns and the mutex is released; the result is not looked at.
Released(t) ==
  /\ pc[t] = "wait"
  /\ gateLock' = None
  /\ Go(t, "fork")
  /\ UNCHANGED <<active_backups, running>>

\* It collects a child that has ended.
WaitReaps(t) ==
  /\ Released(t)
  /\ zombies > 0
  /\ zombies' = zombies - 1
  /\ UNCHANGED interrupted

\* Mutant: the thread does not wait, as with WNOHANG.
WaitNot(t) ==
  /\ Released(t)
  /\ UNCHANGED <<zombies, interrupted>>

\* Mutant: without children the thread waits for one all the same.
WaitForEver(t) ==
  /\ Released(t)
  /\ running < 0
  /\ UNCHANGED <<zombies, interrupted>>

\* It fails with ECHILD: there are no children.
WaitNoChild(t) ==
  /\ Released(t)
  /\ running = 0 /\ zombies = 0
  /\ UNCHANGED <<zombies, interrupted>>

\* It fails with EINTR: job threads do not block SIGUSR1, and its handler is
\* installed without SA_RESTART.
WaitInterrupted(t) ==
  /\ Released(t)
  /\ running > 0 /\ zombies = 0
  /\ interrupted < MaxSignals
  /\ interrupted' = interrupted + 1
  /\ UNCHANGED zombies

\* kvs_backup.
Fork(t) ==
  /\ pc[t] = "fork"
  /\ running' = running + 1
  /\ Go(t, "job")
  /\ UNCHANGED <<active_backups, gateLock, zombies, interrupted>>

\* kvs_backup returns -1: the job goes on, the place in the count stays taken.
ForkFails(t) ==
  /\ pc[t] = "fork"
  /\ Go(t, "job")
  /\ UNCHANGED <<active_backups, gateLock, running, zombies, interrupted>>

\* A child has written its file.
ChildExit ==
  /\ running > 0
  /\ running' = running - 1
  /\ zombies' = zombies + 1
  /\ UNCHANGED <<active_backups, gateLock, pc, interrupted>>

WaitReturns(t) == WaitReaps(t) \/ WaitNoChild(t)

Next ==
  \/ ChildExit
  \/ \E t \in JobThreads :
       \/ GateOpen(t) \/ GateFull(t)
       \/ WaitReturns(t) \/ WaitInterrupted(t)
       \/ Fork(t) \/ ForkFails(t)

Spec == Init /\ [][Next]_vars

\* wait() returns when it can, a child ends some day.
FairSpec ==
  /\ Spec
  /\ WF_vars(ChildExit)
  /\ \A t \in JobThreads : WF_vars(WaitReturns(t))

-----------------------------------------------------------------------------
Larger(a, b) == IF a >= b THEN a ELSE b
Limit == Larger(max_backups, Cardinality(JobThreads))

\* Threads past the gate that have not forked yet.
Pending == {t \in JobThreads : pc[t] = "fork"}

\* How many backups there can be at once, which is more than max_backups when
\* there are more threads than that: those past the gate are not children yet,
\* so wait() finds none and lets one more thread pass (main.c:202-209).
BackupsBounded ==
  running + zombies + Cardinality(Pending) <= Limit + interrupted

\* Why: below the limit every child or thread past the gate is counted, and the
\* gate's mutex keeps a second thread from wait().
GateInv ==
  /\ active_backups < max_backups =>
       running + zombies + Cardinality(Pending) <= active_backups
  /\ \A t \in JobThreads : pc[t] = "wait" <=> gateLock = t
  /\ gateLock # None => active_backups = max_backups

\* A thread inside wait() with the mutex leaves it, also when places were lost
\* to forks that failed and no child is left to wait for (main.c:204, 212).
GateReleased == gateLock # None ~> gateLock = None

\* enunciado.md:10: max_backups is "o numero maximo de backups concorrentes".
AtMostMaxBackups == running <= max_backups + interrupted
=============================================================================
