-------------------------- MODULE JobDispatchProofs --------------------------
(***************************************************************************)
(* Proofs about JobDispatch: the job threads keep to the gate of Backups,  *)
(* whose bound holds for them, the types are right, no job file is opened  *)
(* twice, and backups bear the names of their jobs while the directory     *)
(* came in one block, for any directory and any number of threads.         *)
(***************************************************************************)
EXTENDS JobDispatch, BackupsProofs, SequenceTheorems

-----------------------------------------------------------------------------
(* The job threads and the gate.                                           *)

\* A step of the system is a step of the gate or leaves it alone.
LEMMA GateStep == ASSUME [JobNext]_jobVars PROVE [Next]_vars
<1> USE DEF Next, WaitReturns
<1>1. CASE UNCHANGED jobVars BY <1>1 DEF jobVars
<1>2. CASE CreateFails \/ JoinThreads BY <1>2 DEF CreateFails, JoinThreads
<1>3. CASE BackupEnds BY <1>3 DEF BackupEnds
<1>4. ASSUME NEW t \in JobThreads, WorkerNext(t) PROVE [Next]_vars
  <2>1. CASE CreateThread(t) BY <2>1 DEF CreateThread
  <2>2. CASE \/ LockDirectory(t) \/ LockDirectoryFails(t) \/ Readdir(t)
             \/ ReaddirBlock(t) \/ ReaddirEnd(t) \/ EntryTaken(t) \/ EntryRefused(t)
    BY <2>2 DEF LockDirectory, LockDirectoryFails, Readdir, ReaddirBlock, ReaddirEnd,
                EntryTaken, EntryRefused, scanFrame
  <2>3. CASE \/ OpenInput(t) \/ OpenOutput(t) \/ OpenInputFails(t) \/ OpenOutputFails(t)
    BY <2>3 DEF OpenInput, OpenOutput, OpenInputFails, OpenOutputFails, openFrame
  <2>4. CASE BackupGate(t) BY <2>4 DEF BackupGate
  <2>5. CASE BackupFork(t) \/ BackupForkFails(t)
    BY <2>5 DEF BackupFork, BackupForkFails
  <2>6. CASE JobEnd(t) BY <2>6 DEF JobEnd
  <2>7. CASE BackupWait(t) BY <2>7 DEF BackupWait
  <2> QED BY <1>4, <2>1, <2>2, <2>3, <2>4, <2>5, <2>6, <2>7 DEF WorkerNext, WorkerStep
<1> QED BY <1>1, <1>2, <1>3, <1>4 DEF JobNext

\* Job dispatch implements the gate: whatever files are run, BACKUP keeps to Backups.
THEOREM JobsKeepToGate == JobSpec => Spec
<1>1. JobInit => Init BY DEF JobInit
<1> QED BY <1>1, GateStep, PTL DEF JobSpec, Spec

\* The bound on concurrent backups, for the threads that run the jobs.
THEOREM JobBackupsAreBounded == JobSpec => [](GateInv /\ BackupsBounded)
BY JobsKeepToGate, BackupsAreBounded, PTL

-----------------------------------------------------------------------------
(* Types.                                                                  *)

\* A thread runs a job when it is in the gate, and whoever has a path has that of a job;
\* the buffer is filled no more often than there are names.
StepsAgree ==
  /\ \A t \in JobThreads :
       /\ worker[t].pc = "entry" => worker[t].place \in Places
       /\ worker[t].pc \in {"in", "out", "run"} => worker[t].path \in JobNames
       /\ pc[t] # "job" => worker[t].pc = "run" /\ worker[t].backups < MaxJobBackups
  /\ blocks + Len(listing) <= Len(Directory)

JobTypeInv == JobTypeOK /\ StepsAgree

\* The constants, as the assumptions give them.
LEMMA DirectoryType ==
  /\ Directory \in Seq(Names) /\ Len(Directory) \in Nat
  /\ Places = 1 .. Len(Directory)
  /\ JobNames \subseteq Names
  /\ MaxJobBackups \in Nat /\ MaxOpenFails \in Nat /\ MaxCreateFails \in Nat
<1>1. Directory \in Seq(Names) BY JobDispatchAssumption DEF Names
<1>2. Len(Directory) \in Nat /\ \A i \in DOMAIN Directory : Directory[i] \in Names
  BY <1>1, LenProperties, ElementOfSeq
<1> QED BY <1>1, <1>2, JobDispatchAssumption DEF Places

\* What getdents leaves in the listing, and what it delivers.
LEMMA ListingRest ==
  ASSUME JobTypeInv, NEW n \in 1 .. Len(listing)
  PROVE  LET rest == SubSeq(listing, n + 1, Len(listing)) IN
         /\ n \in Places /\ Len(listing) \in Nat
         /\ rest \in Seq(Names) /\ Len(rest) = Len(listing) - n
         /\ \A i \in 1 .. Len(rest) : rest[i] = listing[n + i]
         /\ \A i \in 1 .. Len(listing) : listing[i] \in Names
<1>1. /\ listing \in Seq(Names) /\ Len(listing) \in Nat /\ Len(listing) <= Len(Directory)
      /\ \A i \in 1 .. Len(listing) : listing[i] \in Names
  BY LenProperties, ElementOfSeq DEF JobTypeInv, JobTypeOK
<1>2. n \in Places BY <1>1, DirectoryType
<1> DEFINE rest == SubSeq(listing, n + 1, Len(listing))
<1>3. \A i \in n + 1 .. Len(listing) : listing[i] \in Names BY <1>1
<1>4. /\ rest \in Seq(Names)
      /\ Len(rest) = IF n + 1 <= Len(listing) THEN Len(listing) - (n + 1) + 1 ELSE 0
      /\ \A i \in 1 .. Len(listing) - (n + 1) + 1 : rest[i] = listing[n + 1 + i - 1]
  BY <1>1, <1>3, SubSeqProperties
<1>5. Len(rest) = Len(listing) - n BY <1>1, <1>4
<1>6. \A i \in 1 .. Len(rest) : rest[i] = listing[n + i] BY <1>1, <1>4, <1>5
<1> QED BY <1>1, <1>2, <1>4, <1>5, <1>6

\* What worker holds of a thread.
Records == [pc : Steps, place : Places \cup {0},
            path : Names \cup {None}, backups : 0 .. MaxJobBackups]

\* What a thread may become without the types being hurt.
MayBecome(t, r) ==
  /\ r \in Records
  /\ r.pc = "entry" => r.place \in Places
  /\ r.pc \in {"in", "out", "run"} => r.path \in JobNames
  /\ pc'[t] # "job" => r.pc = "run" /\ r.backups < MaxJobBackups

\* A step that changes one thread's record.
LEMMA WorkerChange ==
  ASSUME JobTypeInv, NEW t \in JobThreads, NEW r, MayBecome(t, r),
         worker' = [worker EXCEPT ![t] = r],
         \A u \in JobThreads \ {t} : pc'[u] = pc[u],
         blocks' + Len(listing') <= Len(Directory)
  PROVE  /\ worker' \in [JobThreads -> Records]
         /\ worker'[t] = r
         /\ StepsAgree'
<1>1. worker \in [JobThreads -> Records] BY DEF JobTypeInv, JobTypeOK, Records
<1>2. worker' \in [JobThreads -> Records] /\ worker'[t] = r
  BY <1>1 DEF MayBecome
<1>3. \A u \in JobThreads \ {t} : worker'[u] = worker[u] BY <1>1
<1> QED BY <1>2, <1>3 DEF MayBecome, JobTypeInv, StepsAgree

\* One more open of a job file.
LEMMA OnceMore ==
  ASSUME JobTypeOK, NEW f, opened' = [opened EXCEPT ![f] = @ + 1]
  PROVE  opened' \in [JobNames -> Nat]
<1>1. opened \in [JobNames -> Nat] BY DEF JobTypeOK
<1>2. \A g \in JobNames : opened[g] \in Nat /\ opened[g] + 1 \in Nat BY <1>1
<1> QED BY <1>1, <1>2

\* Every step of the system keeps the types.
LEMMA JobTypeStep == ASSUME JobTypeInv, [JobNext]_jobVars PROVE JobTypeInv'
<1>t. TypeOK' BY GateStep, TypeStep DEF JobTypeInv, JobTypeOK
<1>c. blocks + Len(listing) <= Len(Directory) BY DEF JobTypeInv, StepsAgree
<1>1. CASE UNCHANGED jobVars
  BY <1>1, <1>t DEF jobVars, dispatchVars, streamVars, failVars, vars, JobTypeInv, JobTypeOK,
                    StepsAgree
<1>2. CASE CreateFails
  BY <1>2, <1>t, DirectoryType DEF CreateFails, Destroy, streamVars, vars, JobTypeInv,
                                   JobTypeOK, StepsAgree
<1>3. CASE JoinThreads
  BY <1>3, <1>t DEF JoinThreads, Destroy, streamVars, failVars, vars, JobTypeInv, JobTypeOK,
                    StepsAgree
<1>4. CASE BackupEnds
  BY <1>4, <1>t DEF BackupEnds, ChildExit, dispatchVars, streamVars, failVars, JobTypeInv,
                    JobTypeOK, StepsAgree
<1>5. ASSUME NEW t \in JobThreads, WorkerNext(t) PROVE JobTypeInv'
  <2> DEFINE w == worker[t]
  <2> USE DEF At
  <2>w. /\ w \in Records /\ worker \in [JobThreads -> Records]
        /\ w.pc \in {"in", "out", "run"} => w.path \in JobNames
        /\ pc[t] # "job" => w.pc = "run" /\ w.backups < MaxJobBackups
    BY DEF JobTypeInv, JobTypeOK, StepsAgree, Records
  <2>1. CASE CreateThread(t)
    <3> DEFINE r == [w EXCEPT !.pc = "lock"]
    <3>1. worker' = [worker EXCEPT ![t] = r] /\ UNCHANGED <<pc, blocks, listing>>
      BY <2>1 DEF CreateThread, vars, streamVars
    <3>2. MayBecome(t, r)
      BY <2>1, <2>w, <3>1, DirectoryType DEF CreateThread, MayBecome, Records, Steps, JobTypeInv, JobTypeOK
    <3>3. worker' \in [JobThreads -> Records] /\ StepsAgree' BY <1>c, <3>1, <3>2, WorkerChange
    <3> QED BY <2>1, <1>t, <3>1, <3>3
            DEF CreateThread, vars, streamVars, failVars, JobTypeInv, JobTypeOK, Records
  <2>2. CASE LockDirectory(t)
    <3> DEFINE r == [w EXCEPT !.pc = "readdir"]
    <3>1. worker' = [worker EXCEPT ![t] = r] /\ UNCHANGED <<pc, blocks, listing>>
      BY <2>2 DEF LockDirectory, scanFrame, vars, streamVars
    <3>2. MayBecome(t, r)
      BY <2>2, <2>w, <3>1, DirectoryType DEF LockDirectory, MayBecome, Records, Steps, JobTypeInv, JobTypeOK
    <3>3. worker' \in [JobThreads -> Records] /\ StepsAgree' BY <1>c, <3>1, <3>2, WorkerChange
    <3> QED BY <2>2, <1>t, <3>1, <3>3
            DEF LockDirectory, scanFrame, vars, streamVars, failVars, JobTypeInv, JobTypeOK, Records
  <2>3. CASE LockDirectoryFails(t)
    <3> DEFINE r == [w EXCEPT !.pc = "ended"]
    <3>1. worker' = [worker EXCEPT ![t] = r] /\ UNCHANGED <<pc, blocks, listing>>
      BY <2>3 DEF LockDirectoryFails, scanFrame, vars, streamVars
    <3>2. MayBecome(t, r)
      BY <2>3, <2>w, <3>1, DirectoryType DEF LockDirectoryFails, MayBecome, Records, Steps, JobTypeInv, JobTypeOK
    <3>3. worker' \in [JobThreads -> Records] /\ StepsAgree' BY <1>c, <3>1, <3>2, WorkerChange
    <3> QED BY <2>3, <1>t, <3>1, <3>3
            DEF LockDirectoryFails, scanFrame, vars, streamVars, failVars, JobTypeInv, JobTypeOK, Records
  <2>4. CASE Readdir(t)
    <3> DEFINE r == [w EXCEPT !.pc = "entry", !.place = nextEntry]
    <3>1. worker' = [worker EXCEPT ![t] = r] /\ UNCHANGED <<pc, blocks, listing>>
      BY <2>4 DEF Readdir, Got, scanFrame, vars, streamVars
    <3>a. /\ nextEntry \in 1 .. Len(Directory) + 1 /\ lastEntry \in 0 .. Len(Directory)
          /\ Len(Directory) \in Nat /\ Places = 1 .. Len(Directory)
      BY DirectoryType DEF JobTypeInv, JobTypeOK
    <3>b. nextEntry \in Places /\ nextEntry + 1 \in 1 .. Len(Directory) + 1
      BY <2>4, <3>a DEF Readdir
    <3>c. nextEntry' \in 1 .. Len(Directory) + 1 BY <2>4, <3>b DEF Readdir
    <3>2. MayBecome(t, r)
      BY <2>4, <2>w, <3>1, <3>b DEF Readdir, MayBecome, Records, Steps
    <3>3. worker' \in [JobThreads -> Records] /\ StepsAgree' BY <1>c, <3>1, <3>2, WorkerChange
    <3> QED BY <2>4, <1>t, <3>c, <3>1, <3>3
            DEF Readdir, Got, scanFrame, vars, streamVars, failVars, JobTypeInv, JobTypeOK, Records
  <2>5. CASE ReaddirEnd(t)
    <3> DEFINE r == [w EXCEPT !.pc = "ended"]
    <3>1. worker' = [worker EXCEPT ![t] = r] /\ UNCHANGED <<pc, blocks, listing>>
      BY <2>5 DEF ReaddirEnd, scanFrame, vars, streamVars
    <3>2. MayBecome(t, r)
      BY <2>5, <2>w, <3>1, DirectoryType DEF ReaddirEnd, MayBecome, Records, Steps, JobTypeInv, JobTypeOK
    <3>3. worker' \in [JobThreads -> Records] /\ StepsAgree' BY <1>c, <3>1, <3>2, WorkerChange
    <3> QED BY <2>5, <1>t, <3>1, <3>3
            DEF ReaddirEnd, scanFrame, vars, streamVars, failVars, JobTypeInv, JobTypeOK, Records
  <2>6. CASE EntryTaken(t)
    <3> DEFINE r == [w EXCEPT !.pc = "in", !.path = block[w.place].name]
    <3>1. worker' = [worker EXCEPT ![t] = r] /\ UNCHANGED <<pc, blocks, listing>>
      BY <2>6 DEF EntryTaken, scanFrame, vars, streamVars
    <3>2. MayBecome(t, r)
      BY <2>6, <2>w, <3>1, DirectoryType DEF EntryTaken, MayBecome, Records, Steps, JobTypeInv, JobTypeOK
    <3>3. worker' \in [JobThreads -> Records] /\ StepsAgree' BY <1>c, <3>1, <3>2, WorkerChange
    <3> QED BY <2>6, <1>t, <3>1, <3>3
            DEF EntryTaken, scanFrame, vars, streamVars, failVars, JobTypeInv, JobTypeOK, Records
  <2>7. CASE EntryRefused(t)
    <3> DEFINE r == [w EXCEPT !.pc = "readdir"]
    <3>1. worker' = [worker EXCEPT ![t] = r] /\ UNCHANGED <<pc, blocks, listing>>
      BY <2>7 DEF EntryRefused, scanFrame, vars, streamVars
    <3>c. skipped' \subseteq JobNames
      BY <2>7 DEF EntryRefused, JobTypeInv, JobTypeOK
    <3>2. MayBecome(t, r)
      BY <2>7, <2>w, <3>1, DirectoryType DEF EntryRefused, MayBecome, Records, Steps, JobTypeInv, JobTypeOK
    <3>3. worker' \in [JobThreads -> Records] /\ StepsAgree' BY <1>c, <3>1, <3>2, WorkerChange
    <3> QED BY <2>7, <1>t, <3>c, <3>1, <3>3
            DEF EntryRefused, scanFrame, vars, streamVars, failVars, JobTypeInv, JobTypeOK, Records
  <2>8. CASE OpenInput(t)
    <3> DEFINE r == [w EXCEPT !.pc = "out"]
    <3>1. worker' = [worker EXCEPT ![t] = r] /\ UNCHANGED <<pc, blocks, listing>>
      BY <2>8 DEF OpenInput, openFrame, vars, streamVars
    <3>c. opened' \in [JobNames -> Nat] BY <2>8, OnceMore DEF OpenInput, JobTypeInv
    <3>2. MayBecome(t, r)
      BY <2>8, <2>w, <3>1, DirectoryType DEF OpenInput, MayBecome, Records, Steps, JobTypeInv, JobTypeOK
    <3>3. worker' \in [JobThreads -> Records] /\ StepsAgree' BY <1>c, <3>1, <3>2, WorkerChange
    <3> QED BY <2>8, <1>t, <3>c, <3>1, <3>3
            DEF OpenInput, openFrame, vars, streamVars, failVars, JobTypeInv, JobTypeOK, Records
  <2>9. CASE OpenInputFails(t)
    <3> DEFINE r == [w EXCEPT !.pc = "ended"]
    <3>1. worker' = [worker EXCEPT ![t] = r] /\ UNCHANGED <<pc, blocks, listing>>
      BY <2>9 DEF OpenInputFails, openFrame, vars, streamVars
    <3>a. openFails \in 0 .. MaxOpenFails /\ openFails < MaxOpenFails /\ MaxOpenFails \in Nat
      BY <2>9, DirectoryType DEF OpenInputFails, JobTypeInv, JobTypeOK
    <3>b. opened' \in [JobNames -> Nat]
      BY <2>9, OnceMore DEF OpenInputFails, JobTypeInv
    <3>c. openFails' \in 0 .. MaxOpenFails /\ opened' \in [JobNames -> Nat]
      BY <2>9, <3>a, <3>b DEF OpenInputFails
    <3>2. MayBecome(t, r)
      BY <2>9, <2>w, <3>1, DirectoryType DEF OpenInputFails, MayBecome, Records, Steps, JobTypeInv, JobTypeOK
    <3>3. worker' \in [JobThreads -> Records] /\ StepsAgree' BY <1>c, <3>1, <3>2, WorkerChange
    <3> QED BY <2>9, <1>t, <3>c, <3>1, <3>3
            DEF OpenInputFails, openFrame, vars, streamVars, failVars, JobTypeInv, JobTypeOK, Records
  <2>10. CASE OpenOutput(t)
    <3> DEFINE r == [w EXCEPT !.pc = "run", !.backups = 0]
    <3>1. worker' = [worker EXCEPT ![t] = r] /\ UNCHANGED <<pc, blocks, listing>>
      BY <2>10 DEF OpenOutput, openFrame, vars, streamVars
    <3>b. 0 \in 0 .. MaxJobBackups /\ w.path \in JobNames /\ pc[t] = "job"
      BY <2>10, <2>w, DirectoryType DEF OpenOutput
    <3>2. MayBecome(t, r)
      BY <2>10, <2>w, <3>1, <3>b DEF OpenOutput, MayBecome, Records, Steps
    <3>3. worker' \in [JobThreads -> Records] /\ StepsAgree' BY <1>c, <3>1, <3>2, WorkerChange
    <3> QED BY <2>10, <1>t, <3>1, <3>3
            DEF OpenOutput, openFrame, vars, streamVars, failVars, JobTypeInv, JobTypeOK, Records
  <2>11. CASE OpenOutputFails(t)
    <3> DEFINE r == [w EXCEPT !.pc = "ended"]
    <3>1. worker' = [worker EXCEPT ![t] = r] /\ UNCHANGED <<pc, blocks, listing>>
      BY <2>11 DEF OpenOutputFails, openFrame, vars, streamVars
    <3>a. openFails \in 0 .. MaxOpenFails /\ openFails < MaxOpenFails /\ MaxOpenFails \in Nat
      BY <2>11, DirectoryType DEF OpenOutputFails, JobTypeInv, JobTypeOK
    <3>c. openFails' \in 0 .. MaxOpenFails
      BY <2>11, <3>a DEF OpenOutputFails
    <3>2. MayBecome(t, r)
      BY <2>11, <2>w, <3>1, DirectoryType DEF OpenOutputFails, MayBecome, Records, Steps, JobTypeInv, JobTypeOK
    <3>3. worker' \in [JobThreads -> Records] /\ StepsAgree' BY <1>c, <3>1, <3>2, WorkerChange
    <3> QED BY <2>11, <1>t, <3>c, <3>1, <3>3
            DEF OpenOutputFails, openFrame, vars, streamVars, failVars, JobTypeInv, JobTypeOK, Records
  <2>12. CASE JobEnd(t)
    <3> DEFINE r == [w EXCEPT !.pc = "lock"]
    <3>1. worker' = [worker EXCEPT ![t] = r] /\ UNCHANGED <<pc, blocks, listing>>
      BY <2>12 DEF JobEnd, runFrame, vars, streamVars
    <3>2. MayBecome(t, r)
      BY <2>12, <2>w, <3>1, DirectoryType DEF JobEnd, MayBecome, Records, Steps, JobTypeInv, JobTypeOK
    <3>3. worker' \in [JobThreads -> Records] /\ StepsAgree' BY <1>c, <3>1, <3>2, WorkerChange
    <3> QED BY <2>12, <1>t, <3>1, <3>3
            DEF JobEnd, runFrame, vars, streamVars, failVars, JobTypeInv, JobTypeOK, Records
  <2>13. CASE ReaddirBlock(t)
    <3> DEFINE r == [w EXCEPT !.pc = "entry", !.place = 1]
    <3>1. PICK n \in 1 .. Len(listing) :
            /\ block' = [i \in Places |-> IF i <= n THEN [name |-> listing[i], cut |-> FALSE]
                                                    ELSE block[i]]
            /\ listing' = SubSeq(listing, n + 1, Len(listing))
            /\ lastEntry' = n
      BY <2>13 DEF ReaddirBlock
    <3>2. /\ n \in Places /\ Len(listing) \in Nat
          /\ listing' \in Seq(Names) /\ Len(listing') = Len(listing) - n
          /\ \A i \in 1 .. Len(listing) : listing[i] \in Names
      BY <3>1, ListingRest
    <3>3. block' \in [Places -> [name : Names \cup {None}, cut : BOOLEAN]]
      <4> SUFFICES ASSUME NEW i \in Places
                   PROVE  (IF i <= n THEN [name |-> listing[i], cut |-> FALSE] ELSE block[i])
                            \in [name : Names \cup {None}, cut : BOOLEAN]
        BY <3>1
      <4> QED BY <3>2, DirectoryType DEF JobTypeInv, JobTypeOK
    <3>4. /\ blocks' = blocks + 1 /\ nextEntry' = 2
          /\ worker' = [worker EXCEPT ![t] = r]
          /\ UNCHANGED <<vars, dispatcher, openFails, createFails, opened, copies,
                         directory_mutex, skipped>>
      BY <2>13 DEF ReaddirBlock, Got, scanFrame, failVars
    <3>a. /\ blocks \in 0 .. Len(Directory) /\ Len(Directory) \in Nat
          /\ Len(listing) <= Len(Directory)
      BY DirectoryType DEF JobTypeInv, JobTypeOK
    <3>5. /\ lastEntry' \in 0 .. Len(Directory) /\ nextEntry' \in 1 .. Len(Directory) + 1
          /\ blocks' \in 0 .. Len(Directory) /\ blocks' + Len(listing') <= Len(Directory)
          /\ Len(listing') <= Len(Directory)
      BY <3>1, <3>2, <3>4, <3>a, <1>c, SMTT(30)
    <3>6. 1 \in Places BY <3>2, DirectoryType
    <3>7. MayBecome(t, r) BY <2>13, <2>w, <3>4, <3>6 DEF ReaddirBlock, MayBecome, Records, Steps, vars
    <3>8. worker' \in [JobThreads -> Records] /\ StepsAgree'
      BY <3>4, <3>5, <3>7, WorkerChange DEF vars
    <3> QED BY <1>t, <3>2, <3>3, <3>4, <3>5, <3>8 DEF JobTypeInv, JobTypeOK, Records
  <2>14. CASE BackupGate(t)
    <3>1. \A u \in JobThreads \ {t} : pc'[u] = pc[u]
      BY <2>14 DEF BackupGate, GateOpen, GateFull, Go, JobTypeInv, JobTypeOK, TypeOK
    <3> QED BY <2>14, <3>1, <1>t, <1>c DEF BackupGate, dispatchVars, streamVars, failVars,
                                         JobTypeInv, JobTypeOK, StepsAgree
  <2>15. CASE BackupWait(t)
    <3>1. pc[t] = "wait" /\ \A u \in JobThreads \ {t} : pc'[u] = pc[u]
      BY <2>15 DEF BackupWait, WaitReturns, WaitReaps, WaitNoChild, WaitInterrupted, Released,
                   Go, JobTypeInv, JobTypeOK, TypeOK
    <3> QED BY <2>15, <3>1, <1>t, <1>c DEF BackupWait, dispatchVars, streamVars, failVars,
                                         JobTypeInv, JobTypeOK, StepsAgree
  <2>16. CASE BackupFork(t)
    <3> DEFINE r == [w EXCEPT !.backups = @ + 1]
    <3>1. /\ pc[t] = "fork" /\ pc' = [pc EXCEPT ![t] = "job"] /\ pc \in [JobThreads -> {"job", "wait", "fork"}]
          /\ worker' = [worker EXCEPT ![t] = r]
          /\ block' = [block EXCEPT ![w.place].cut = TRUE]
          /\ UNCHANGED <<listing, nextEntry, lastEntry, blocks, directory_mutex, dispatcher,
                         openFails, createFails, opened, skipped>>
      BY <2>16 DEF BackupFork, Fork, Go, runFrame, failVars, JobTypeInv, JobTypeOK, TypeOK
    <3>2. w.pc = "run" /\ w.backups + 1 \in 0 .. MaxJobBackups /\ w.path \in JobNames
      BY <2>w, <3>1, DirectoryType DEF Records
    <3>3. MayBecome(t, r) BY <2>w, <3>1, <3>2 DEF MayBecome, Records
    <3>4. worker' \in [JobThreads -> Records] /\ StepsAgree'
      BY <1>c, <3>1, <3>3, WorkerChange
    <3>5. block' \in [Places -> [name : Names \cup {None}, cut : BOOLEAN]]
      BY <3>1 DEF JobTypeInv, JobTypeOK
    <3>6. copies' \in [BackupFiles -> Seq(JobNames)]
      <4> DEFINE file == BackupFile(block[w.place].name, w.backups + 1)
      <4>1. copies' = [copies EXCEPT ![file] = Append(@, w.path)] BY <2>16 DEF BackupFork
      <4>2. copies \in [BackupFiles -> Seq(JobNames)] BY DEF JobTypeInv, JobTypeOK
      <4>3. \A f \in BackupFiles : Append(copies[f], w.path) \in Seq(JobNames)
        BY <3>2, <4>2, AppendProperties
      <4> QED BY <4>1, <4>2, <4>3
    <3> QED BY <1>t, <3>1, <3>4, <3>5, <3>6 DEF JobTypeInv, JobTypeOK, Records
  <2>17. CASE BackupForkFails(t)
    <3> DEFINE r == [w EXCEPT !.backups = @ + 1]
    <3>1. /\ pc[t] = "fork" /\ pc' = [pc EXCEPT ![t] = "job"] /\ pc \in [JobThreads -> {"job", "wait", "fork"}]
          /\ worker' = [worker EXCEPT ![t] = r]
          /\ block' = [block EXCEPT ![w.place].cut = TRUE]
          /\ UNCHANGED <<listing, nextEntry, lastEntry, blocks, directory_mutex, dispatcher,
                         openFails, createFails, opened, skipped>>
      BY <2>17 DEF BackupForkFails, ForkFails, Go, runFrame, failVars, JobTypeInv, JobTypeOK, TypeOK
    <3>2. w.pc = "run" /\ w.backups + 1 \in 0 .. MaxJobBackups /\ w.path \in JobNames
      BY <2>w, <3>1, DirectoryType DEF Records
    <3>3. MayBecome(t, r) BY <2>w, <3>1, <3>2 DEF MayBecome, Records
    <3>4. worker' \in [JobThreads -> Records] /\ StepsAgree'
      BY <1>c, <3>1, <3>3, WorkerChange
    <3>5. block' \in [Places -> [name : Names \cup {None}, cut : BOOLEAN]]
      BY <3>1 DEF JobTypeInv, JobTypeOK
    <3>6. copies' \in [BackupFiles -> Seq(JobNames)]
      BY <2>17 DEF BackupForkFails, JobTypeInv, JobTypeOK
    <3> QED BY <1>t, <3>1, <3>4, <3>5, <3>6 DEF JobTypeInv, JobTypeOK, Records
  <2> QED BY <1>5, <2>1, <2>2, <2>3, <2>4, <2>5, <2>6, <2>7, <2>8, <2>9, <2>10, <2>11, <2>12, <2>13, <2>14, <2>15, <2>16, <2>17
          DEF WorkerNext, WorkerStep
<1> QED BY <1>1, <1>2, <1>3, <1>4, <1>5 DEF JobNext

\* The types are right at first.
LEMMA JobTypeInit == JobInit => JobTypeInv
<1> SUFFICES ASSUME JobInit PROVE JobTypeInv OBVIOUS
<1>1. TypeOK BY BackupsAssumption DEF JobInit, Init, TypeOK
<1>2. \A b \in BackupFiles : <<>> \in Seq(JobNames) BY EmptySeq
<1>3. copies \in [BackupFiles -> Seq(JobNames)] BY <1>2 DEF JobInit
<1>4. StepsAgree BY DirectoryType DEF JobInit, Init, StepsAgree
<1> QED BY <1>1, <1>3, <1>4, DirectoryType DEF JobInit, JobTypeInv, JobTypeOK, Steps, NoEntry

\* Type correctness of job dispatch, the gate's variables included.
THEOREM JobTypeCorrect == JobSpec => []JobTypeOK
<1>1. JobTypeInv => JobTypeOK BY DEF JobTypeInv
<1> QED BY <1>1, JobTypeInit, JobTypeStep, PTL DEF JobSpec

-----------------------------------------------------------------------------
(* No job file is opened twice.                                            *)

\* Who holds directory_mutex reads the directory.
MutexInv ==
  \A t \in JobThreads : directory_mutex = t <=> worker[t].pc \in {"readdir", "entry"}

\* The names readdir has not handed out yet are different.
StreamInv ==
  /\ \A i, j \in 1 .. Len(listing) : listing[i] = listing[j] => i = j
  /\ \A i, j \in nextEntry .. lastEntry : block[i].name = block[j].name => i = j
  /\ \A i \in 1 .. Len(listing), j \in nextEntry .. lastEntry : listing[i] # block[j].name

\* readdir has the name still to hand out.
Ahead(name) ==
  \/ \E i \in 1 .. Len(listing) : listing[i] = name
  \/ \E i \in nextEntry .. lastEntry : block[i].name = name

\* A thread that has the name, in its entry or its path, and is yet to open the file.
Carries(t, name) ==
  \/ worker[t].pc = "entry" /\ block[worker[t].place].name = name
  \/ worker[t].pc = "in" /\ worker[t].path = name

\* A name is carried by one thread, after readdir and before its file is opened.
CarryInv ==
  /\ \A t \in JobThreads, n \in JobNames : Carries(t, n) => ~ Ahead(n) /\ opened[n] = 0
  /\ \A t, u \in JobThreads, n \in JobNames : Carries(t, n) /\ Carries(u, n) => t = u

OpenedInv == \A n \in JobNames : opened[n] <= 1 /\ (Ahead(n) => opened[n] = 0)

OnceInv == MutexInv /\ StreamInv /\ CarryInv /\ OpenedInv

\* A step that takes nothing from readdir and opens nothing.
Quiet ==
  /\ UNCHANGED <<listing, nextEntry, lastEntry, opened>>
  /\ \A i \in Places : block'[i].name = block[i].name

\* Such a step keeps the invariant if no thread comes by a name.
LEMMA QuietStep ==
  ASSUME JobTypeOK, OnceInv, Quiet,
         \A t \in JobThreads, n \in JobNames : Carries(t, n)' => Carries(t, n)
  PROVE  StreamInv' /\ CarryInv' /\ OpenedInv'
<1>1. \A i \in nextEntry .. lastEntry : i \in Places
  BY DirectoryType DEF JobTypeOK
<1>2. StreamInv' BY <1>1 DEF OnceInv, StreamInv, Quiet
<1>3. \A n : Ahead(n)' <=> Ahead(n) BY <1>1 DEF Ahead, Quiet
<1>4. CarryInv' BY <1>3 DEF OnceInv, CarryInv, Quiet
<1>5. OpenedInv' BY <1>3 DEF OnceInv, OpenedInv, Quiet
<1> QED BY <1>2, <1>4, <1>5

\* Opening the file a thread carries.
LEMMA OpenStep ==
  ASSUME JobTypeInv, OnceInv, NEW t \in JobThreads, worker[t].pc = "in",
         UNCHANGED <<listing, block, nextEntry, lastEntry>>,
         opened' = [opened EXCEPT ![worker[t].path] = @ + 1],
         worker'[t].pc \notin {"entry", "in"},
         \A u \in JobThreads \ {t} : worker'[u] = worker[u]
  PROVE  StreamInv' /\ CarryInv' /\ OpenedInv'
<1> DEFINE f == worker[t].path
<1>1. f \in JobNames /\ Carries(t, f) BY DEF JobTypeInv, StepsAgree, Carries
<1>2. /\ opened[f] = 0 /\ ~ Ahead(f)
      /\ \A u \in JobThreads \ {t} : ~ Carries(u, f)
  BY <1>1 DEF OnceInv, CarryInv
<1>3. opened'[f] = 1 /\ \A n \in JobNames \ {f} : opened'[n] = opened[n]
  BY <1>1, <1>2 DEF JobTypeInv, JobTypeOK
<1>4. StreamInv' /\ \A n : Ahead(n)' <=> Ahead(n) BY DEF OnceInv, StreamInv, Ahead
<1>5. /\ \A n : ~ Carries(t, n)'
      /\ \A u \in JobThreads \ {t}, n \in JobNames : Carries(u, n)' <=> Carries(u, n)
  BY DEF Carries
<1>6. OpenedInv' BY <1>2, <1>3, <1>4 DEF OnceInv, OpenedInv
<1>7. CarryInv'
  <2>1. \A u \in JobThreads, n \in JobNames : Carries(u, n)' => n # f /\ Carries(u, n)
    BY <1>2, <1>5
  <2> QED BY <2>1, <1>3, <1>4 DEF OnceInv, CarryInv
<1> QED BY <1>4, <1>6, <1>7

\* readdir hands out the next entry of the buffer, or the first of a new block, with
\* the mutex held.
LEMMA ReaddirStep ==
  ASSUME JobTypeInv, OnceInv, NEW t \in JobThreads, Readdir(t)
  PROVE  OnceInv'
<1> PICK name : name = block[nextEntry].name OBVIOUS
<1>1. /\ worker[t].pc = "readdir" /\ nextEntry \in nextEntry .. lastEntry
      /\ nextEntry \in Int /\ lastEntry \in Int /\ nextEntry' = nextEntry + 1
      /\ UNCHANGED <<listing, block, lastEntry, opened, directory_mutex>>
      /\ worker' = [worker EXCEPT ![t] = [@ EXCEPT !.pc = "entry", !.place = nextEntry]]
  BY DEF Readdir, Got, At, scanFrame, JobTypeInv, JobTypeOK
<1>2. /\ worker'[t].pc = "entry" /\ worker'[t].place = nextEntry
      /\ \A u \in JobThreads \ {t} : worker'[u] = worker[u]
  BY <1>1 DEF JobTypeInv, JobTypeOK
<1>3. MutexInv' BY <1>1, <1>2 DEF OnceInv, MutexInv
<1>4. \A i \in nextEntry + 1 .. lastEntry : i \in nextEntry .. lastEntry /\ i # nextEntry BY <1>1
<1>5. StreamInv' BY <1>1, <1>4 DEF OnceInv, StreamInv
<1>6. /\ Ahead(name) /\ ~ Ahead(name)'
      /\ \A n : Ahead(n)' => Ahead(n)
  <2>1. Ahead(name) BY <1>1 DEF Ahead
  <2>2. \A i \in 1 .. Len(listing) : listing[i] # name BY <1>1 DEF OnceInv, StreamInv
  <2>3. \A i \in nextEntry + 1 .. lastEntry : block[i].name # name
    BY <1>1, <1>4 DEF OnceInv, StreamInv
  <2>4. ~ Ahead(name)' BY <1>1, <2>2, <2>3 DEF Ahead
  <2>5. \A n : Ahead(n)' => Ahead(n) BY <1>1, <1>4 DEF Ahead
  <2> QED BY <2>1, <2>4, <2>5
<1>7. /\ \A n : Carries(t, n)' <=> n = name
      /\ \A u \in JobThreads \ {t}, n \in JobNames : Carries(u, n)' <=> Carries(u, n)
  BY <1>1, <1>2 DEF Carries
<1>8. OpenedInv' BY <1>1, <1>6 DEF OnceInv, OpenedInv
<1>9. CarryInv'
  <2>1. \A u \in JobThreads \ {t}, n \in JobNames : Carries(u, n)' => n # name
    BY <1>6, <1>7 DEF OnceInv, CarryInv
  <2>2. name \in JobNames => opened[name] = 0 BY <1>6 DEF OnceInv, OpenedInv
  <2>3. \A u \in JobThreads, n \in JobNames : Carries(u, n)' => ~ Ahead(n)' /\ opened'[n] = 0
    <3> SUFFICES ASSUME NEW u \in JobThreads, NEW n \in JobNames, Carries(u, n)'
                 PROVE  ~ Ahead(n)' /\ opened'[n] = 0
      OBVIOUS
    <3>1. CASE u = t BY <3>1, <2>2, <1>1, <1>6, <1>7
    <3>2. CASE u # t BY <3>2, <1>1, <1>6, <1>7 DEF OnceInv, CarryInv
    <3> QED BY <3>1, <3>2
  <2>4. \A u, v \in JobThreads, n \in JobNames : Carries(u, n)' /\ Carries(v, n)' => u = v
    BY <2>1, <1>7 DEF OnceInv, CarryInv
  <2> QED BY <2>3, <2>4 DEF CarryInv
<1> QED BY <1>3, <1>5, <1>8, <1>9 DEF OnceInv

\* The same when readdir has the buffer filled first.
LEMMA ReaddirBlockStep ==
  ASSUME JobTypeInv, OnceInv, NEW t \in JobThreads, ReaddirBlock(t)
  PROVE  OnceInv'
<1>1. PICK n \in 1 .. Len(listing) :
        /\ block' = [i \in Places |-> IF i <= n THEN [name |-> listing[i], cut |-> FALSE]
                                                ELSE block[i]]
        /\ listing' = SubSeq(listing, n + 1, Len(listing))
        /\ lastEntry' = n
  BY DEF ReaddirBlock
<1>2. /\ worker[t].pc = "readdir" /\ nextEntry' = 2
      /\ UNCHANGED <<opened, directory_mutex>>
      /\ worker' = [worker EXCEPT ![t] = [@ EXCEPT !.pc = "entry", !.place = 1]]
  BY DEF ReaddirBlock, Got, At, scanFrame
<1>3. /\ worker'[t].pc = "entry" /\ worker'[t].place = 1
      /\ \A u \in JobThreads \ {t} : worker'[u] = worker[u]
  BY <1>2 DEF JobTypeInv, JobTypeOK
<1>4. MutexInv' BY <1>2, <1>3 DEF OnceInv, MutexInv
<1>5. /\ n \in Places /\ Len(listing) \in Nat /\ Len(listing') = Len(listing) - n
      /\ \A i \in 1 .. Len(listing') : listing'[i] = listing[n + i]
  BY <1>1, ListingRest
<1>6. \A i \in 1 .. n : i \in Places /\ i \in 1 .. Len(listing) /\ block'[i].name = listing[i]
  BY <1>1, <1>5, DirectoryType
<1>7. \A i \in 1 .. Len(listing') : n + i \in 1 .. Len(listing) /\ n + i \notin 1 .. n
  BY <1>5
<1>8. \A i \in nextEntry' .. lastEntry' : i \in 1 .. n /\ i # 1 BY <1>1, <1>2
<1>9. StreamInv'
  <2>1. \A i, j \in 1 .. Len(listing') : listing'[i] = listing'[j] => n + i = n + j
    BY <1>5, <1>7 DEF OnceInv, StreamInv
  <2>2. \A i, j \in 1 .. Len(listing') : n + i = n + j => i = j BY <1>5
  <2>3. \A i, j \in nextEntry' .. lastEntry' : block'[i].name = block'[j].name => i = j
    BY <1>6, <1>8 DEF OnceInv, StreamInv
  <2>4. \A i \in 1 .. Len(listing'), j \in nextEntry' .. lastEntry' :
          listing'[i] # block'[j].name
    BY <1>5, <1>6, <1>7, <1>8 DEF OnceInv, StreamInv
  <2> QED BY <2>1, <2>2, <2>3, <2>4 DEF StreamInv
<1> PICK name : name = listing[1] OBVIOUS
<1>10. /\ 1 \in 1 .. Len(listing) /\ 1 \in 1 .. n /\ 1 \notin nextEntry' .. lastEntry'
       /\ \A i \in 1 .. Len(listing') : n + i # 1
  BY <1>2, <1>5, <1>7
<1>11. /\ Ahead(name) /\ ~ Ahead(name)'
       /\ \A m : Ahead(m)' => Ahead(m)
  <2>1. Ahead(name) BY <1>10 DEF Ahead
  <2>2. \A i \in 1 .. Len(listing') : listing'[i] # name
    BY <1>5, <1>7, <1>10 DEF OnceInv, StreamInv
  <2>3. \A i \in nextEntry' .. lastEntry' : block'[i].name # name
    BY <1>6, <1>8, <1>10 DEF OnceInv, StreamInv
  <2>4. ~ Ahead(name)' BY <2>2, <2>3 DEF Ahead
  <2>5. \A m : Ahead(m)' => Ahead(m) BY <1>5, <1>6, <1>7, <1>8 DEF Ahead
  <2> QED BY <2>1, <2>4, <2>5
<1>12. \A u \in JobThreads \ {t} : worker[u].pc # "entry"
  BY <1>2 DEF OnceInv, MutexInv
<1>13. /\ \A m : Carries(t, m)' <=> m = name
       /\ \A u \in JobThreads \ {t}, m \in JobNames : Carries(u, m)' <=> Carries(u, m)
  BY <1>3, <1>6, <1>10, <1>12 DEF Carries
<1>14. OpenedInv' BY <1>2, <1>11 DEF OnceInv, OpenedInv
<1>15. CarryInv'
  <2>1. \A u \in JobThreads \ {t}, m \in JobNames : Carries(u, m)' => m # name
    BY <1>11, <1>13 DEF OnceInv, CarryInv
  <2>2. name \in JobNames => opened[name] = 0 BY <1>11 DEF OnceInv, OpenedInv
  <2>3. \A u \in JobThreads, m \in JobNames : Carries(u, m)' => ~ Ahead(m)' /\ opened'[m] = 0
    <3> SUFFICES ASSUME NEW u \in JobThreads, NEW m \in JobNames, Carries(u, m)'
                 PROVE  ~ Ahead(m)' /\ opened'[m] = 0
      OBVIOUS
    <3>1. CASE u = t BY <3>1, <2>2, <1>2, <1>11, <1>13
    <3>2. CASE u # t BY <3>2, <1>2, <1>11, <1>13 DEF OnceInv, CarryInv
    <3> QED BY <3>1, <3>2
  <2>4. \A u, v \in JobThreads, m \in JobNames : Carries(u, m)' /\ Carries(v, m)' => u = v
    BY <2>1, <1>13 DEF OnceInv, CarryInv
  <2> QED BY <2>3, <2>4 DEF CarryInv
<1> QED BY <1>4, <1>9, <1>14, <1>15 DEF OnceInv

\* Who holds directory_mutex after a step that makes r of t's record.
MutexFollows(t, r) ==
  LET reads == {"readdir", "entry"} IN
  \/ UNCHANGED directory_mutex /\ (worker[t].pc \in reads <=> r.pc \in reads)
  \/ directory_mutex = None /\ directory_mutex' = t /\ r.pc \in reads
  \/ worker[t].pc \in reads /\ directory_mutex' = None /\ r.pc \notin reads

\* A quiet step that changes one thread's record, which takes no name but its entry's.
LEMMA QuietThread ==
  ASSUME JobTypeInv, OnceInv, NEW t \in JobThreads, NEW r,
         worker' = [worker EXCEPT ![t] = r], Quiet, MutexFollows(t, r), r.pc # "entry",
         r.pc = "in" => worker[t].pc = "entry" /\ r.path = block[worker[t].place].name
  PROVE  OnceInv'
<1>n. None \notin JobThreads BY BackupsAssumption
<1>1. /\ worker'[t] = r
      /\ \A u \in JobThreads \ {t} : worker'[u] = worker[u]
  BY DEF JobTypeInv, JobTypeOK
<1>2. \A u \in JobThreads, n \in JobNames : Carries(u, n)' => Carries(u, n)
  <2> SUFFICES ASSUME NEW u \in JobThreads, NEW n \in JobNames, Carries(u, n)'
               PROVE  Carries(u, n)
    OBVIOUS
  <2>1. CASE u = t BY <1>1, <2>1 DEF Carries
  <2>2. CASE u # t BY <1>1, <2>2 DEF Carries, Quiet, JobTypeInv, StepsAgree
  <2> QED BY <2>1, <2>2
<1>3. MutexInv' BY <1>n, <1>1 DEF OnceInv, MutexInv, MutexFollows
<1> QED BY <1>2, <1>3, QuietStep DEF JobTypeInv, OnceInv

\* A quiet step that leaves the threads alone, the mutex too unless it destroys it.
LEMMA QuietElse ==
  ASSUME JobTypeInv, OnceInv, Quiet, UNCHANGED worker,
         \/ UNCHANGED directory_mutex
         \/ directory_mutex = None /\ directory_mutex' = Destroyed
  PROVE  OnceInv'
<1>1. \A u \in JobThreads, n \in JobNames : Carries(u, n)' => Carries(u, n)
  BY DEF Carries, Quiet, JobTypeInv, StepsAgree
<1>2. None \notin JobThreads /\ Destroyed \notin JobThreads
  BY BackupsAssumption, JobDispatchAssumption
<1>3. MutexInv' BY <1>2 DEF OnceInv, MutexInv
<1> QED BY <1>1, <1>3, QuietStep DEF JobTypeInv, OnceInv

\* Every step keeps it.
LEMMA OnceStep == ASSUME JobTypeInv, OnceInv, [JobNext]_jobVars PROVE OnceInv'
<1>1. CASE UNCHANGED jobVars
  BY <1>1, QuietElse DEF jobVars, dispatchVars, streamVars, Quiet
<1>2. CASE CreateFails
  BY <1>2, QuietElse DEF CreateFails, Destroy, streamVars, Quiet
<1>3. CASE JoinThreads
  BY <1>3, QuietElse DEF JoinThreads, Destroy, streamVars, Quiet
<1>4. CASE BackupEnds
  BY <1>4, QuietElse DEF BackupEnds, dispatchVars, streamVars, Quiet
<1>5. ASSUME NEW t \in JobThreads, WorkerNext(t) PROVE OnceInv'
  <2> DEFINE w == worker[t]
  <2>w. w \in Records BY DEF JobTypeInv, JobTypeOK, Records
  <2> USE DEF At
  <2>1. CASE LockDirectory(t)
    <3> DEFINE r == [w EXCEPT !.pc = "readdir"]
    <3>1. worker' = [worker EXCEPT ![t] = r] /\ Quiet
      BY <2>1 DEF LockDirectory, scanFrame, streamVars, Quiet
    <3>2. /\ MutexFollows(t, r) /\ r.pc # "entry"
          /\ r.pc = "in" => w.pc = "entry" /\ r.path = block[w.place].name
      BY <2>1, <2>w DEF LockDirectory, scanFrame, MutexFollows, Records
    <3> QED BY <3>1, <3>2, QuietThread
  <2>2. CASE LockDirectoryFails(t)
    <3> DEFINE r == [w EXCEPT !.pc = "ended"]
    <3>1. worker' = [worker EXCEPT ![t] = r] /\ Quiet
      BY <2>2 DEF LockDirectoryFails, scanFrame, streamVars, Quiet
    <3>2. /\ MutexFollows(t, r) /\ r.pc # "entry"
          /\ r.pc = "in" => w.pc = "entry" /\ r.path = block[w.place].name
      BY <2>2, <2>w DEF LockDirectoryFails, scanFrame, MutexFollows, Records
    <3> QED BY <3>1, <3>2, QuietThread
  <2>3. CASE ReaddirEnd(t)
    <3> DEFINE r == [w EXCEPT !.pc = "ended"]
    <3>1. worker' = [worker EXCEPT ![t] = r] /\ Quiet
      BY <2>3 DEF ReaddirEnd, scanFrame, streamVars, Quiet
    <3>2. /\ MutexFollows(t, r) /\ r.pc # "entry"
          /\ r.pc = "in" => w.pc = "entry" /\ r.path = block[w.place].name
      BY <2>3, <2>w DEF ReaddirEnd, scanFrame, MutexFollows, Records
    <3> QED BY <3>1, <3>2, QuietThread
  <2>4. CASE EntryTaken(t)
    <3> DEFINE r == [w EXCEPT !.pc = "in", !.path = block[w.place].name]
    <3>1. worker' = [worker EXCEPT ![t] = r] /\ Quiet
      BY <2>4 DEF EntryTaken, scanFrame, streamVars, Quiet
    <3>2. /\ MutexFollows(t, r) /\ r.pc # "entry"
          /\ r.pc = "in" => w.pc = "entry" /\ r.path = block[w.place].name
      BY <2>4, <2>w DEF EntryTaken, scanFrame, MutexFollows, Records
    <3> QED BY <3>1, <3>2, QuietThread
  <2>5. CASE EntryRefused(t)
    <3> DEFINE r == [w EXCEPT !.pc = "readdir"]
    <3>1. worker' = [worker EXCEPT ![t] = r] /\ Quiet
      BY <2>5 DEF EntryRefused, scanFrame, streamVars, Quiet
    <3>2. /\ MutexFollows(t, r) /\ r.pc # "entry"
          /\ r.pc = "in" => w.pc = "entry" /\ r.path = block[w.place].name
      BY <2>5, <2>w DEF EntryRefused, scanFrame, MutexFollows, Records
    <3> QED BY <3>1, <3>2, QuietThread
  <2>6. CASE CreateThread(t)
    <3> DEFINE r == [w EXCEPT !.pc = "lock"]
    <3>1. worker' = [worker EXCEPT ![t] = r] /\ Quiet
      BY <2>6 DEF CreateThread, streamVars, Quiet
    <3>2. /\ MutexFollows(t, r) /\ r.pc # "entry"
          /\ r.pc = "in" => w.pc = "entry" /\ r.path = block[w.place].name
      BY <2>6, <2>w DEF CreateThread, MutexFollows, Records
    <3> QED BY <3>1, <3>2, QuietThread
  <2>7. CASE OpenOutput(t)
    <3> DEFINE r == [w EXCEPT !.pc = "run", !.backups = 0]
    <3>1. worker' = [worker EXCEPT ![t] = r] /\ Quiet
      BY <2>7 DEF OpenOutput, openFrame, streamVars, Quiet
    <3>2. /\ MutexFollows(t, r) /\ r.pc # "entry"
          /\ r.pc = "in" => w.pc = "entry" /\ r.path = block[w.place].name
      BY <2>7, <2>w DEF OpenOutput, openFrame, MutexFollows, Records
    <3> QED BY <3>1, <3>2, QuietThread
  <2>8. CASE OpenOutputFails(t)
    <3> DEFINE r == [w EXCEPT !.pc = "ended"]
    <3>1. worker' = [worker EXCEPT ![t] = r] /\ Quiet
      BY <2>8 DEF OpenOutputFails, openFrame, streamVars, Quiet
    <3>2. /\ MutexFollows(t, r) /\ r.pc # "entry"
          /\ r.pc = "in" => w.pc = "entry" /\ r.path = block[w.place].name
      BY <2>8, <2>w DEF OpenOutputFails, openFrame, MutexFollows, Records
    <3> QED BY <3>1, <3>2, QuietThread
  <2>9. CASE JobEnd(t)
    <3> DEFINE r == [w EXCEPT !.pc = "lock"]
    <3>1. worker' = [worker EXCEPT ![t] = r] /\ Quiet
      BY <2>9 DEF JobEnd, runFrame, streamVars, Quiet
    <3>2. /\ MutexFollows(t, r) /\ r.pc # "entry"
          /\ r.pc = "in" => w.pc = "entry" /\ r.path = block[w.place].name
      BY <2>9, <2>w DEF JobEnd, runFrame, MutexFollows, Records
    <3> QED BY <3>1, <3>2, QuietThread
  <2>10. CASE Readdir(t) BY <2>10, ReaddirStep
  <2>11. CASE ReaddirBlock(t) BY <2>11, ReaddirBlockStep
  <2>12. CASE BackupGate(t)
    BY <2>12, QuietElse DEF BackupGate, dispatchVars, streamVars, Quiet
  <2>13. CASE BackupWait(t)
    BY <2>13, QuietElse DEF BackupWait, dispatchVars, streamVars, Quiet
  <2>14. CASE OpenInput(t)
    <3>1. /\ w.pc = "in" /\ worker' = [worker EXCEPT ![t] = [w EXCEPT !.pc = "out"]]
          /\ UNCHANGED <<listing, block, nextEntry, lastEntry, directory_mutex>>
          /\ opened' = [opened EXCEPT ![w.path] = @ + 1]
      BY <2>14 DEF OpenInput, openFrame, streamVars
    <3>2. /\ worker'[t].pc = "out" /\ \A u \in JobThreads \ {t} : worker'[u] = worker[u]
      BY <3>1 DEF JobTypeInv, JobTypeOK
    <3>3. MutexInv' BY <3>1, <3>2 DEF OnceInv, MutexInv
    <3> QED BY <3>1, <3>2, <3>3, OpenStep DEF OnceInv
  <2>15. CASE OpenInputFails(t)
    <3>1. /\ w.pc = "in" /\ worker' = [worker EXCEPT ![t] = [w EXCEPT !.pc = "ended"]]
          /\ UNCHANGED <<listing, block, nextEntry, lastEntry, directory_mutex>>
          /\ opened' = [opened EXCEPT ![w.path] = @ + 1]
      BY <2>15 DEF OpenInputFails, openFrame, streamVars
    <3>2. /\ worker'[t].pc = "ended" /\ \A u \in JobThreads \ {t} : worker'[u] = worker[u]
      BY <3>1 DEF JobTypeInv, JobTypeOK
    <3>3. MutexInv' BY <3>1, <3>2 DEF OnceInv, MutexInv
    <3> QED BY <3>1, <3>2, <3>3, OpenStep DEF OnceInv
  <2>16. CASE BackupFork(t)
    <3> DEFINE r == [w EXCEPT !.backups = @ + 1]
    <3>1. /\ worker' = [worker EXCEPT ![t] = r]
          /\ block' = [block EXCEPT ![w.place].cut = TRUE]
          /\ UNCHANGED <<listing, nextEntry, lastEntry, opened, directory_mutex>>
      BY <2>16 DEF BackupFork, runFrame
    <3>2. w.pc = "run"
      BY <2>16 DEF BackupFork, Fork, JobTypeInv, StepsAgree
    <3>3. Quiet BY <3>1 DEF Quiet, JobTypeInv, JobTypeOK
    <3>4. r.pc = "run" BY <2>w, <3>2 DEF Records
    <3>5. MutexFollows(t, r) BY <3>1, <3>2, <3>4 DEF MutexFollows
    <3> QED BY <3>1, <3>3, <3>4, <3>5, QuietThread
  <2>17. CASE BackupForkFails(t)
    <3> DEFINE r == [w EXCEPT !.backups = @ + 1]
    <3>1. /\ worker' = [worker EXCEPT ![t] = r]
          /\ block' = [block EXCEPT ![w.place].cut = TRUE]
          /\ UNCHANGED <<listing, nextEntry, lastEntry, opened, directory_mutex>>
      BY <2>17 DEF BackupForkFails, runFrame
    <3>2. w.pc = "run"
      BY <2>17 DEF BackupForkFails, ForkFails, JobTypeInv, StepsAgree
    <3>3. Quiet BY <3>1 DEF Quiet, JobTypeInv, JobTypeOK
    <3>4. r.pc = "run" BY <2>w, <3>2 DEF Records
    <3>5. MutexFollows(t, r) BY <3>1, <3>2, <3>4 DEF MutexFollows
    <3> QED BY <3>1, <3>3, <3>4, <3>5, QuietThread
  <2> QED BY <1>5, <2>1, <2>2, <2>3, <2>4, <2>5, <2>6, <2>7, <2>8, <2>9, <2>10, <2>11, <2>12, <2>13, <2>14, <2>15, <2>16, <2>17
          DEF WorkerNext, WorkerStep
<1> QED BY <1>1, <1>2, <1>3, <1>4, <1>5 DEF JobNext

\* At first every name is ahead, and all are different.
LEMMA OnceInit == JobInit => OnceInv
<1> SUFFICES ASSUME JobInit PROVE OnceInv OBVIOUS
<1>1. /\ listing = Directory /\ nextEntry = 1 /\ lastEntry = 0
      /\ \A n \in JobNames : opened[n] = 0
      /\ \A t \in JobThreads : worker[t].pc = "unborn"
      /\ directory_mutex = None /\ None \notin JobThreads
  BY BackupsAssumption DEF JobInit
<1>2. \A i, j \in 1 .. Len(Directory) : Directory[i] = Directory[j] => i = j
  BY JobDispatchAssumption, DirectoryType, LenProperties
<1>3. MutexInv BY <1>1 DEF MutexInv
<1>4. StreamInv BY <1>1, <1>2 DEF StreamInv
<1>5. CarryInv BY <1>1 DEF CarryInv, Carries
<1>6. OpenedInv BY <1>1 DEF OpenedInv
<1> QED BY <1>3, <1>4, <1>5, <1>6 DEF OnceInv

\* No job file is run by two threads or twice, whatever the blocks the directory comes in.
THEOREM NoJobTwice == JobSpec => []JobsOpenedOnce
<1>1. JobInit => JobTypeInv /\ OnceInv BY JobTypeInit, OnceInit
<1>2. JobTypeInv /\ OnceInv /\ [JobNext]_jobVars => (JobTypeInv /\ OnceInv)'
  BY JobTypeStep, OnceStep
<1>3. OnceInv => JobsOpenedOnce BY DEF OnceInv, OpenedInv, JobsOpenedOnce
<1> QED BY <1>1, <1>2, <1>3, PTL DEF JobSpec

-----------------------------------------------------------------------------
(* The names of the backups.                                               *)

\* The thread has its job file open.
Runs(t) == worker[t].pc \in {"out", "run"}

\* No two threads have the same file open.
RunInv ==
  /\ \A t \in JobThreads : Runs(t) => opened[worker[t].path] = 1
  /\ \A t, u \in JobThreads : Runs(t) /\ Runs(u) /\ worker[t].path = worker[u].path => t = u

\* Before the first block there is no entry, and until the second one a thread's entry
\* keeps the name its path was made from.
PathInv ==
  /\ blocks = 0 => /\ lastEntry < nextEntry
                   /\ \A t \in JobThreads : worker[t].pc \notin {"entry", "in", "out", "run"}
  /\ \A t \in JobThreads : worker[t].pc \in {"in", "out", "run"} =>
       worker[t].place \in Places /\ block[worker[t].place].name = worker[t].path

\* What is in a backup file is of opened jobs of its name, each of them there once if
\* numbers fit in its name; and a job still running has used up the number.
CopyInv ==
  \A b \in BackupFiles : \A i \in DOMAIN copies[b] :
    LET f == copies[b][i] IN
    /\ Stem[f] = b[1] /\ opened[f] = 1
    /\ f \in NumberFits =>
         /\ \A t \in JobThreads : Runs(t) /\ worker[t].path = f =>
              worker[t].pc = "run" /\ b[2] <= worker[t].backups
         /\ \A j \in DOMAIN copies[b] : copies[b][j] = f => i = j

NamedInv == RunInv /\ (blocks <= 1 => PathInv /\ CopyInv)

\* A step that changes one thread's record, opens nothing and writes no backup.
LEMMA NamedThread ==
  ASSUME JobTypeInv, NamedInv, NEW t \in JobThreads, NEW r \in Records,
         worker' = [worker EXCEPT ![t] = r], UNCHANGED <<opened, copies, blocks>>,
         \A i \in Places : block'[i].name = block[i].name,
         blocks = 0 => /\ UNCHANGED <<nextEntry, lastEntry>>
                       /\ r.pc \notin {"entry", "in", "out", "run"},
         r.pc = "in" => r.place \in Places /\ block[r.place].name = r.path,
         r.pc \in {"out", "run"} =>
           /\ Runs(t) /\ r.path = worker[t].path /\ r.place = worker[t].place
           /\ worker[t].pc = "run" => r.pc = "run" /\ worker[t].backups <= r.backups
  PROVE  NamedInv'
<1> DEFINE w == worker[t]
<1>1. /\ worker'[t] = r
      /\ \A u \in JobThreads \ {t} : worker'[u] = worker[u]
  BY DEF JobTypeInv, JobTypeOK
<1>2. \A u \in JobThreads : Runs(u)' => Runs(u) /\ worker'[u].path = worker[u].path
  BY <1>1 DEF Runs
<1>3. RunInv' BY <1>2 DEF NamedInv, RunInv
<1>4. ASSUME blocks <= 1 PROVE PathInv'
  <2>1. PathInv BY <1>4 DEF NamedInv
  <2>2. ASSUME NEW u \in JobThreads, worker'[u].pc \in {"in", "out", "run"}
        PROVE  worker'[u].place \in Places /\ block'[worker'[u].place].name = worker'[u].path
    <3>1. CASE u = t BY <1>1, <2>1, <2>2, <3>1 DEF PathInv, Runs
    <3>2. CASE u # t BY <1>1, <2>1, <2>2, <3>2 DEF PathInv
    <3> QED BY <3>1, <3>2
  <2>3. blocks = 0 => \A u \in JobThreads : worker'[u].pc \notin {"entry", "in", "out", "run"}
    BY <1>1, <2>1 DEF PathInv
  <2> QED BY <2>1, <2>2, <2>3 DEF PathInv
<1>5. ASSUME blocks <= 1 PROVE CopyInv'
  <2> SUFFICES ASSUME NEW b \in BackupFiles, NEW i \in DOMAIN copies[b],
                      copies[b][i] \in NumberFits, NEW u \in JobThreads, Runs(u)',
                      worker'[u].path = copies[b][i]
               PROVE  worker'[u].pc = "run" /\ b[2] <= worker'[u].backups
    BY <1>5 DEF NamedInv, CopyInv
  <2>1. worker[u].pc = "run" /\ b[2] <= worker[u].backups
    BY <1>2, <1>5 DEF NamedInv, CopyInv
  <2>2. CASE u = t
    <3>1. b[2] \in Nat /\ w.backups \in Nat /\ r.backups \in Nat
      BY DirectoryType DEF BackupFiles, JobTypeInv, JobTypeOK, Records
    <3> QED BY <1>1, <2>1, <2>2, <3>1 DEF Runs
  <2>3. CASE u # t BY <1>1, <2>1, <2>3
  <2> QED BY <2>2, <2>3
<1> QED BY <1>3, <1>4, <1>5 DEF NamedInv

\* The steps of get_file: a thread gets its path from its entry, and a block is filled
\* over the names of the block before, if there was one.
LEMMA NamedScan ==
  ASSUME JobTypeInv, OnceInv, NamedInv, NEW t \in JobThreads,
         \/ LockDirectory(t) \/ LockDirectoryFails(t) \/ Readdir(t) \/ ReaddirBlock(t)
         \/ ReaddirEnd(t) \/ EntryTaken(t) \/ EntryRefused(t)
  PROVE  NamedInv'
<1> DEFINE w == worker[t]
<1> USE DEF At
<1>a. /\ w \in Records /\ worker \in [JobThreads -> Records]
      /\ w.pc = "entry" => w.place \in Places
      /\ nextEntry \in 1 .. Len(Directory) + 1 /\ lastEntry \in 0 .. Len(Directory)
      /\ blocks \in 0 .. Len(Directory) /\ Len(Directory) \in Nat
  BY DirectoryType DEF JobTypeInv, JobTypeOK, StepsAgree, Records
<1>b. blocks = 0 => lastEntry < nextEntry /\ w.pc # "entry"
  BY <1>a DEF NamedInv, PathInv
<1>1. CASE LockDirectory(t) \/ EntryRefused(t)
  <2> DEFINE r == [w EXCEPT !.pc = "readdir"]
  <2>1. /\ worker' = [worker EXCEPT ![t] = r]
        /\ UNCHANGED <<opened, copies, blocks, block, nextEntry, lastEntry>>
    BY <1>1 DEF LockDirectory, EntryRefused, scanFrame, streamVars
  <2>2. r \in Records /\ r.pc = "readdir" BY <1>a DEF Records, Steps
  <2> HIDE DEF r
  <2> QED BY <2>1, <2>2, NamedThread
<1>2. CASE LockDirectoryFails(t) \/ ReaddirEnd(t)
  <2> DEFINE r == [w EXCEPT !.pc = "ended"]
  <2>1. /\ worker' = [worker EXCEPT ![t] = r]
        /\ UNCHANGED <<opened, copies, blocks, block, nextEntry, lastEntry>>
    BY <1>2 DEF LockDirectoryFails, ReaddirEnd, scanFrame, streamVars
  <2>2. r \in Records /\ r.pc = "ended" BY <1>a DEF Records, Steps
  <2> HIDE DEF r
  <2> QED BY <2>1, <2>2, NamedThread
<1>3. CASE Readdir(t)
  <2> DEFINE r == [w EXCEPT !.pc = "entry", !.place = nextEntry]
  <2>1. /\ worker' = [worker EXCEPT ![t] = r] /\ nextEntry <= lastEntry
        /\ UNCHANGED <<opened, copies, blocks, block>>
    BY <1>3 DEF Readdir, Got, scanFrame
  <2>2. nextEntry \in Places BY <1>a, <2>1, DirectoryType
  <2>3. r \in Records /\ r.pc = "entry" BY <1>a, <2>2 DEF Records, Steps
  <2>4. blocks # 0 BY <1>a, <1>b, <2>1
  <2> HIDE DEF r
  <2> QED BY <2>1, <2>3, <2>4, NamedThread
<1>4. CASE EntryTaken(t)
  <2> DEFINE r == [w EXCEPT !.pc = "in", !.path = block[w.place].name]
  <2>1. /\ worker' = [worker EXCEPT ![t] = r] /\ w.pc = "entry"
        /\ block[w.place].name \in JobNames
        /\ UNCHANGED <<opened, copies, blocks, block>>
    BY <1>4 DEF EntryTaken, scanFrame, streamVars
  <2>2. /\ r \in Records /\ r.pc = "in"
        /\ r.place \in Places /\ block[r.place].name = r.path
    BY <1>a, <2>1, DirectoryType DEF Records, Steps
  <2> HIDE DEF r
  <2> QED BY <1>b, <2>1, <2>2, NamedThread
<1>5. CASE ReaddirBlock(t)
  <2>1. /\ worker' = [worker EXCEPT ![t] = [w EXCEPT !.pc = "entry", !.place = 1]]
        /\ w.pc = "readdir" /\ blocks' = blocks + 1 /\ UNCHANGED <<opened, copies>>
    BY <1>5 DEF ReaddirBlock, Got, scanFrame
  <2>2. /\ worker'[t].pc = "entry" /\ \A u \in JobThreads \ {t} : worker'[u] = worker[u]
    BY <1>a, <2>1 DEF Records
  <2>3. \A u \in JobThreads : Runs(u)' => Runs(u) /\ worker'[u] = worker[u]
    BY <2>2 DEF Runs
  <2>4. RunInv' BY <2>1, <2>3 DEF NamedInv, RunInv
  <2>5. ASSUME blocks' <= 1 PROVE PathInv' /\ CopyInv'
    <3>1. blocks = 0 /\ blocks' # 0 BY <1>a, <2>1, <2>5
    <3>2. PathInv /\ CopyInv BY <3>1 DEF NamedInv
    <3>3. \A u \in JobThreads : worker'[u].pc \notin {"in", "out", "run"}
      BY <2>2, <3>1, <3>2 DEF PathInv
    <3>4. PathInv' BY <3>1, <3>3 DEF PathInv
    <3>5. CopyInv' BY <2>1, <2>3, <3>2 DEF CopyInv
    <3> QED BY <3>4, <3>5
  <2> QED BY <2>4, <2>5 DEF NamedInv
<1> QED BY <1>1, <1>2, <1>3, <1>4, <1>5

\* A thread opens its job file: nobody has it open, and no backup was made of it.
LEMMA NamedOpen ==
  ASSUME JobTypeInv, OnceInv, NamedInv, NEW t \in JobThreads, worker[t].pc = "in",
         NEW r \in Records, r.pc \in {"out", "ended"},
         r.place = worker[t].place, r.path = worker[t].path,
         worker' = [worker EXCEPT ![t] = r],
         opened' = [opened EXCEPT ![worker[t].path] = @ + 1],
         UNCHANGED <<block, blocks, nextEntry, lastEntry, copies>>
  PROVE  NamedInv'
<1> DEFINE f == worker[t].path
<1>1. f \in JobNames /\ Carries(t, f) BY DEF JobTypeInv, StepsAgree, Carries
<1>2. opened[f] = 0 BY <1>1 DEF OnceInv, CarryInv
<1>3. opened'[f] = 1 /\ \A n \in JobNames \ {f} : opened'[n] = opened[n]
  BY <1>1, <1>2 DEF JobTypeInv, JobTypeOK
<1>4. /\ worker'[t] = r
      /\ \A u \in JobThreads \ {t} : worker'[u] = worker[u]
  BY DEF JobTypeInv, JobTypeOK
<1>5. \A u \in JobThreads \ {t} : Runs(u)' =>
        Runs(u) /\ worker[u].path \in JobNames /\ worker[u].path # f
  BY <1>2, <1>4 DEF Runs, NamedInv, RunInv, JobTypeInv, StepsAgree
<1>6. RunInv'
  <2>1. \A u \in JobThreads : Runs(u)' => opened'[worker'[u].path] = 1
    BY <1>3, <1>4, <1>5 DEF NamedInv, RunInv
  <2>2. ASSUME NEW u \in JobThreads, NEW v \in JobThreads, Runs(u)', Runs(v)',
               worker'[u].path = worker'[v].path
        PROVE  u = v
    BY <1>4, <1>5, <2>2 DEF NamedInv, RunInv
  <2> QED BY <2>1, <2>2 DEF RunInv
<1>7. ASSUME blocks <= 1 PROVE PathInv' /\ CopyInv'
  <2>1. PathInv /\ CopyInv BY <1>7 DEF NamedInv
  <2>2. blocks # 0 BY <2>1 DEF PathInv
  <2>3. PathInv' BY <1>4, <2>1, <2>2 DEF PathInv
  <2>4. ASSUME NEW b \in BackupFiles, NEW i \in DOMAIN copies[b]
        PROVE  copies[b][i] \in JobNames \ {f}
    <3>1. copies[b] \in Seq(JobNames) BY DEF JobTypeInv, JobTypeOK
    <3>2. copies[b][i] \in JobNames BY <3>1, ElementOfSeq, LenProperties
    <3> QED BY <1>2, <2>1, <3>2 DEF CopyInv
  <2>5. CopyInv' BY <1>3, <1>4, <1>5, <2>1, <2>4 DEF CopyInv
  <2> QED BY <2>3, <2>5
<1> QED BY <1>6, <1>7 DEF NamedInv

\* A child is forked: the backup's name is that of the job, which the entry still has,
\* and its number is one the job has not used.
LEMMA NamedFork ==
  ASSUME JobTypeInv, NamedInv, NEW t \in JobThreads, BackupFork(t)
  PROVE  NamedInv'
<1> DEFINE w == worker[t]
           r == [w EXCEPT !.backups = @ + 1]
           f == w.path
           file == BackupFile(block[w.place].name, w.backups + 1)
<1>1. /\ worker' = [worker EXCEPT ![t] = r]
      /\ block' = [block EXCEPT ![w.place].cut = TRUE]
      /\ copies' = [copies EXCEPT ![file] = Append(@, f)]
      /\ UNCHANGED <<opened, blocks, nextEntry, lastEntry>>
  BY DEF BackupFork, runFrame
<1>2. /\ w.pc = "run" /\ f \in JobNames /\ w \in Records
      /\ w.backups \in Nat /\ w.backups < MaxJobBackups /\ MaxJobBackups \in Nat
  BY DirectoryType DEF BackupFork, Fork, JobTypeInv, JobTypeOK, StepsAgree, Records
<1>3. /\ r.pc = "run" /\ r.path = f /\ r.place = w.place /\ r.backups = w.backups + 1
      /\ worker'[t] = r
      /\ \A u \in JobThreads \ {t} : worker'[u] = worker[u]
  BY <1>1, <1>2 DEF JobTypeInv, JobTypeOK, Records
<1>4. \A i \in Places : block'[i].name = block[i].name
  BY <1>1 DEF JobTypeInv, JobTypeOK
<1> HIDE DEF r
<1>5. /\ \A u \in JobThreads : Runs(u)' <=> Runs(u)
      /\ \A u \in JobThreads : worker'[u].path = worker[u].path
      /\ \A u \in JobThreads : worker'[u].pc = worker[u].pc
      /\ \A u \in JobThreads : worker'[u].place = worker[u].place
  BY <1>2, <1>3 DEF Runs
<1>6. RunInv' BY <1>1, <1>5 DEF NamedInv, RunInv
<1>7. ASSUME blocks <= 1 PROVE PathInv' /\ CopyInv'
  <2>1. PathInv /\ CopyInv BY <1>7 DEF NamedInv
  <2>2. PathInv' BY <1>1, <1>4, <1>5, <2>1 DEF PathInv
  <2>3. /\ file = <<Stem[f], IF f \in NumberFits THEN w.backups + 1 ELSE 0>>
        /\ opened[f] = 1 /\ Runs(t)
    BY <1>2, <2>1 DEF BackupFile, PathInv, NamedInv, RunInv, Runs
  <2>4. file \in BackupFiles
    <3>1. f \in Names BY <1>2, DirectoryType
    <3>2. w.backups + 1 \in 0 .. MaxJobBackups /\ 0 \in 0 .. MaxJobBackups BY <1>2
    <3> QED BY <2>3, <3>1, <3>2 DEF BackupFiles
  <2> HIDE DEF file
  <2> DEFINE s == copies[file]
             n == Len(s)
  <2>5. /\ copies'[file] = Append(s, f)
        /\ \A b \in BackupFiles \ {file} : copies'[b] = copies[b]
    BY <1>1, <2>4 DEF JobTypeInv, JobTypeOK
  <2>6. s \in Seq(JobNames) BY <2>4 DEF JobTypeInv, JobTypeOK
  <2>7. /\ n \in Nat /\ DOMAIN s = 1 .. n /\ DOMAIN copies'[file] = 1 .. n + 1
        /\ \A i \in 1 .. n : copies'[file][i] = s[i]
        /\ copies'[file][n + 1] = f
    BY <1>2, <2>5, <2>6, AppendProperties, LenProperties
  <2>8. \A i \in DOMAIN s : f \in NumberFits => s[i] # f
    <3> SUFFICES ASSUME NEW i \in DOMAIN s, f \in NumberFits, s[i] = f PROVE FALSE
      OBVIOUS
    <3>1. file[2] = w.backups + 1 BY <2>3
    <3>2. file[2] <= w.backups BY <2>1, <2>3, <2>4 DEF CopyInv
    <3> QED BY <1>2, <3>1, <3>2
  \* The copies there were.
  <2>9. ASSUME NEW b \in BackupFiles, NEW i \in DOMAIN copies[b], copies[b][i] \in NumberFits,
               NEW u \in JobThreads, Runs(u)', worker'[u].path = copies[b][i]
        PROVE  worker'[u].pc = "run" /\ b[2] <= worker'[u].backups
    <3>1. worker[u].pc = "run" /\ b[2] <= worker[u].backups
      BY <1>5, <2>1, <2>9 DEF CopyInv
    <3>2. b[2] \in Nat BY DirectoryType DEF BackupFiles
    <3> QED BY <1>2, <1>3, <3>1, <3>2
  <2>10. ASSUME NEW b \in BackupFiles \ {file}, NEW i \in DOMAIN copies'[b]
         PROVE  LET g == copies'[b][i] IN
                /\ Stem[g] = b[1] /\ opened'[g] = 1
                /\ g \in NumberFits =>
                     /\ \A u \in JobThreads : Runs(u)' /\ worker'[u].path = g =>
                          worker'[u].pc = "run" /\ b[2] <= worker'[u].backups
                     /\ \A j \in DOMAIN copies'[b] : copies'[b][j] = g => i = j
    BY <1>1, <2>1, <2>5, <2>9 DEF CopyInv
  <2>11. ASSUME NEW i \in 1 .. n
         PROVE  LET g == copies'[file][i] IN
                /\ Stem[g] = file[1] /\ opened'[g] = 1
                /\ g \in NumberFits =>
                     /\ \A u \in JobThreads : Runs(u)' /\ worker'[u].path = g =>
                          worker'[u].pc = "run" /\ file[2] <= worker'[u].backups
                     /\ \A j \in DOMAIN copies'[file] : copies'[file][j] = g => i = j
    <3>1. copies'[file][i] = s[i] /\ i \in DOMAIN s BY <2>7
    <3>2. Stem[s[i]] = file[1] /\ opened'[s[i]] = 1 BY <1>1, <2>1, <2>4, <3>1 DEF CopyInv
    <3>3. ASSUME s[i] \in NumberFits, NEW j \in DOMAIN copies'[file], copies'[file][j] = s[i]
          PROVE  i = j
      <4>1. CASE j = n + 1 BY <2>7, <2>8, <3>1, <3>3, <4>1
      <4>2. CASE j # n + 1
        <5>1. j \in 1 .. n /\ s[j] = s[i] BY <2>7, <3>3, <4>2
        <5> QED BY <2>1, <2>4, <2>7, <3>1, <3>3, <5>1 DEF CopyInv
      <4> QED BY <4>1, <4>2
    <3> QED BY <2>4, <2>9, <3>1, <3>2, <3>3
  <2>12. /\ Stem[f] = file[1] /\ opened'[f] = 1
         /\ f \in NumberFits =>
              /\ \A u \in JobThreads : Runs(u)' /\ worker'[u].path = f =>
                   worker'[u].pc = "run" /\ file[2] <= worker'[u].backups
              /\ \A j \in DOMAIN copies'[file] : copies'[file][j] = f => n + 1 = j
    <3>1. \A u \in JobThreads : Runs(u)' /\ worker'[u].path = f => u = t
      BY <1>5, <2>3 DEF NamedInv, RunInv
    <3>2. f \in NumberFits => file[2] <= r.backups BY <1>2, <1>3, <2>3
    <3>3. f \in NumberFits =>
            \A j \in DOMAIN copies'[file] : copies'[file][j] = f => n + 1 = j
      BY <2>7, <2>8
    <3> QED BY <1>1, <1>3, <2>3, <3>1, <3>2, <3>3
  <2>13. CopyInv'
    <3> HIDE DEF n, s
    <3> SUFFICES ASSUME NEW b \in BackupFiles, NEW i \in DOMAIN copies'[b]
                 PROVE  LET g == copies'[b][i] IN
                        /\ Stem[g] = b[1] /\ opened'[g] = 1
                        /\ g \in NumberFits =>
                             /\ \A u \in JobThreads : Runs(u)' /\ worker'[u].path = g =>
                                  worker'[u].pc = "run" /\ b[2] <= worker'[u].backups
                             /\ \A j \in DOMAIN copies'[b] : copies'[b][j] = g => i = j
      BY DEF CopyInv
    <3>1. CASE b # file BY <2>10, <3>1
    <3>2. CASE b = file /\ i \in 1 .. n BY <2>11, <3>2
    <3>3. CASE b = file /\ i = n + 1 BY <2>7, <2>12, <3>3
    <3> QED BY <2>7, <3>1, <3>2, <3>3
  <2> QED BY <2>2, <2>13
<1> QED BY <1>6, <1>7, <1>1 DEF NamedInv

\* A step that leaves the threads, their files and the buffer alone.
LEMMA NamedElse ==
  ASSUME NamedInv,
         UNCHANGED <<worker, opened, copies, block, blocks, nextEntry, lastEntry>>
  PROVE  NamedInv'
BY DEF NamedInv, RunInv, PathInv, CopyInv, Runs

\* Every step of the system keeps the invariant.
LEMMA NamedStep ==
  ASSUME JobTypeInv, OnceInv, NamedInv, [JobNext]_jobVars
  PROVE  NamedInv'
<1>1. CASE \/ UNCHANGED jobVars \/ CreateFails \/ JoinThreads \/ BackupEnds
  BY <1>1, NamedElse DEF jobVars, CreateFails, JoinThreads, BackupEnds, dispatchVars,
                         streamVars
<1>2. ASSUME NEW t \in JobThreads, WorkerNext(t) PROVE NamedInv'
  <2> DEFINE w == worker[t]
  <2> USE DEF At
  <2>w. /\ w \in Records
        /\ w.pc \in {"in", "out", "run"} => blocks # 0
        /\ pc[t] # "job" => w.pc = "run" /\ w.backups < MaxJobBackups
    BY DEF JobTypeInv, JobTypeOK, StepsAgree, Records, NamedInv, PathInv
  <2>1. CASE CreateThread(t) \/ JobEnd(t)
    <3> DEFINE r == [w EXCEPT !.pc = "lock"]
    <3>1. /\ worker' = [worker EXCEPT ![t] = r]
          /\ UNCHANGED <<opened, copies, blocks, block, nextEntry, lastEntry>>
      BY <2>1 DEF CreateThread, JobEnd, runFrame, streamVars
    <3>2. r \in Records /\ r.pc = "lock" BY <2>w DEF Records, Steps
    <3> HIDE DEF r
    <3> QED BY <3>1, <3>2, NamedThread
  <2>2. CASE \/ LockDirectory(t) \/ LockDirectoryFails(t) \/ Readdir(t) \/ ReaddirBlock(t)
             \/ ReaddirEnd(t) \/ EntryTaken(t) \/ EntryRefused(t)
    BY <2>2, NamedScan
  <2>3. CASE OpenInput(t)
    <3> DEFINE r == [w EXCEPT !.pc = "out"]
    <3>1. /\ worker' = [worker EXCEPT ![t] = r] /\ w.pc = "in"
          /\ opened' = [opened EXCEPT ![w.path] = @ + 1]
          /\ UNCHANGED <<copies, blocks, block, nextEntry, lastEntry>>
      BY <2>3 DEF OpenInput, openFrame, streamVars
    <3>2. r \in Records /\ r.pc = "out" /\ r.place = w.place /\ r.path = w.path
      BY <2>w DEF Records, Steps
    <3> HIDE DEF r
    <3> QED BY <3>1, <3>2, NamedOpen
  <2>4. CASE OpenInputFails(t)
    <3> DEFINE r == [w EXCEPT !.pc = "ended"]
    <3>1. /\ worker' = [worker EXCEPT ![t] = r] /\ w.pc = "in"
          /\ opened' = [opened EXCEPT ![w.path] = @ + 1]
          /\ UNCHANGED <<copies, blocks, block, nextEntry, lastEntry>>
      BY <2>4 DEF OpenInputFails, openFrame, streamVars
    <3>2. r \in Records /\ r.pc = "ended" /\ r.place = w.place /\ r.path = w.path
      BY <2>w DEF Records, Steps
    <3> HIDE DEF r
    <3> QED BY <3>1, <3>2, NamedOpen
  <2>5. CASE OpenOutput(t)
    <3> DEFINE r == [w EXCEPT !.pc = "run", !.backups = 0]
    <3>1. /\ worker' = [worker EXCEPT ![t] = r] /\ w.pc = "out"
          /\ UNCHANGED <<opened, copies, blocks, block, nextEntry, lastEntry>>
      BY <2>5 DEF OpenOutput, openFrame, streamVars
    <3>2. 0 \in 0 .. MaxJobBackups BY DirectoryType
    <3>3. r \in Records /\ r.pc = "run" /\ r.place = w.place /\ r.path = w.path
      BY <2>w, <3>2 DEF Records, Steps
    <3>4. blocks # 0 /\ Runs(t) BY <2>w, <3>1 DEF Runs
    <3> HIDE DEF r
    <3> QED BY <3>1, <3>3, <3>4, NamedThread
  <2>6. CASE OpenOutputFails(t)
    <3> DEFINE r == [w EXCEPT !.pc = "ended"]
    <3>1. /\ worker' = [worker EXCEPT ![t] = r]
          /\ UNCHANGED <<opened, copies, blocks, block, nextEntry, lastEntry>>
      BY <2>6 DEF OpenOutputFails, openFrame, streamVars
    <3>2. r \in Records /\ r.pc = "ended" BY <2>w DEF Records, Steps
    <3> HIDE DEF r
    <3> QED BY <3>1, <3>2, NamedThread
  <2>7. CASE BackupGate(t) \/ BackupWait(t)
    BY <2>7, NamedElse DEF BackupGate, BackupWait, dispatchVars, streamVars
  <2>8. CASE BackupFork(t) BY <2>8, NamedFork
  <2>9. CASE BackupForkFails(t)
    <3> DEFINE r == [w EXCEPT !.backups = @ + 1]
    <3>1. /\ worker' = [worker EXCEPT ![t] = r] /\ w.pc = "run" /\ w.backups < MaxJobBackups
          /\ block' = [block EXCEPT ![w.place].cut = TRUE]
          /\ UNCHANGED <<opened, copies, blocks, nextEntry, lastEntry>>
      BY <2>9, <2>w DEF BackupForkFails, ForkFails, runFrame
    <3>2. w.backups \in Nat /\ w.backups + 1 \in 0 .. MaxJobBackups
      BY <2>w, <3>1, DirectoryType DEF Records
    <3>3. /\ r \in Records /\ r.pc = "run" /\ r.place = w.place /\ r.path = w.path
          /\ w.backups <= r.backups
      BY <2>w, <3>1, <3>2 DEF Records
    <3>4. blocks # 0 /\ Runs(t) BY <2>w, <3>1 DEF Runs
    <3>5. \A i \in Places : block'[i].name = block[i].name
      BY <3>1 DEF JobTypeInv, JobTypeOK
    <3> HIDE DEF r
    <3> QED BY <3>1, <3>3, <3>4, <3>5, NamedThread
  <2> QED BY <1>2, <2>1, <2>2, <2>3, <2>4, <2>5, <2>6, <2>7, <2>8, <2>9
          DEF WorkerNext, WorkerStep
<1> QED BY <1>1, <1>2 DEF JobNext

\* As long as the directory came in one block, each backup file has the name of the job
\* it was made for and, unless its name was cut off before the number, is written once
\* for each job: kvs_backup reads the name from an entry that is still the job's own, and
\* file_backups never gives a number twice (main.c:209, operations.c:142-144).
THEOREM BackupsBearNames == JobSpec => []BackupsNamed
<1>1. JobInit => NamedInv
  <2> SUFFICES ASSUME JobInit PROVE NamedInv OBVIOUS
  <2>1. /\ nextEntry = 1 /\ lastEntry = 0
        /\ \A t \in JobThreads : worker[t].pc = "unborn"
        /\ \A b \in BackupFiles : copies[b] = <<>>
    BY DEF JobInit
  <2>2. \A b \in BackupFiles : DOMAIN copies[b] = {} BY <2>1
  <2> QED BY <2>1, <2>2 DEF NamedInv, RunInv, PathInv, CopyInv, Runs
<1>2. JobTypeInv /\ OnceInv /\ NamedInv /\ [JobNext]_jobVars =>
        (JobTypeInv /\ OnceInv /\ NamedInv)'
  BY JobTypeStep, OnceStep, NamedStep
<1>3. NamedInv => BackupsNamed
  <2> SUFFICES ASSUME NamedInv, blocks <= 1, NEW b \in BackupFiles,
                      NEW i \in DOMAIN copies[b], NEW j \in DOMAIN copies[b]
               PROVE  /\ Stem[copies[b][i]] = b[1]
                      /\ copies[b][i] = copies[b][j] =>
                           i = j \/ copies[b][i] \notin NumberFits
    BY DEF BackupsNamed
  <2> QED BY DEF NamedInv, CopyInv
<1> QED BY <1>1, <1>2, <1>3, JobTypeInit, OnceInit, PTL DEF JobSpec
=============================================================================
