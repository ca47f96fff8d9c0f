---------------------------- MODULE BackupsProofs ----------------------------
(***************************************************************************)
(* Proofs about Backups, for every number of job threads and every limit.  *)
(***************************************************************************)
EXTENDS Backups, FiniteSetTheorems, TLAPS

\* The set of threads past the gate is finite, and one thread more or less in it counts for one.
LEMMA PendingSize ==
  /\ IsFiniteSet(Pending) /\ Cardinality(Pending) \in Nat
  /\ Cardinality(JobThreads) \in Nat
  /\ \A t \in JobThreads :
       /\ Cardinality(Pending \cup {t}) =
            IF t \in Pending THEN Cardinality(Pending) ELSE Cardinality(Pending) + 1
       /\ Cardinality(Pending \ {t}) =
            IF t \in Pending THEN Cardinality(Pending) - 1 ELSE Cardinality(Pending)
       /\ t \notin Pending => Cardinality(Pending) + 1 <= Cardinality(JobThreads)
<1>1. IsFiniteSet(Pending) BY BackupsAssumption, FS_Subset DEF Pending
<1>2. Cardinality(Pending) \in Nat /\ Cardinality(JobThreads) \in Nat
  BY <1>1, BackupsAssumption, FS_CardinalityType
<1>3. ASSUME NEW t \in JobThreads, t \notin Pending
      PROVE  Cardinality(Pending) + 1 <= Cardinality(JobThreads)
  <2>1. Pending \cup {t} \in SUBSET JobThreads BY DEF Pending
  <2>2. Cardinality(Pending \cup {t}) <= Cardinality(JobThreads)
    BY <2>1, BackupsAssumption, FS_Subset
  <2>3. Cardinality(Pending \cup {t}) = Cardinality(Pending) + 1
    BY <1>1, <1>3, FS_AddElement
  <2> QED BY <1>2, <2>2, <2>3
<1> QED BY <1>1, <1>2, <1>3, FS_AddElement, FS_RemoveElement

\* The number of threads past the gate after a thread's step.
LEMMA PendingAfterGo ==
  ASSUME TypeOK, NEW t \in JobThreads, NEW step, Go(t, step)
  PROVE  Pending' = IF step = "fork" THEN Pending \cup {t} ELSE Pending \ {t}
BY DEF TypeOK, Go, Pending

\* Every step of the gate, the fork and the children keeps the types.
LEMMA TypeStep == ASSUME TypeOK, [Next]_vars PROVE TypeOK'
<1> USE BackupsAssumption DEF TypeOK, Go
<1>1. CASE ChildExit BY <1>1 DEF ChildExit
<1>2. ASSUME NEW t \in JobThreads, GateOpen(t) PROVE TypeOK' BY <1>2 DEF GateOpen
<1>3. ASSUME NEW t \in JobThreads, GateFull(t) PROVE TypeOK' BY <1>3 DEF GateFull
<1>4. ASSUME NEW t \in JobThreads, WaitReaps(t) PROVE TypeOK'
  BY <1>4 DEF WaitReaps, Released
<1>5. ASSUME NEW t \in JobThreads, WaitNoChild(t) PROVE TypeOK'
  BY <1>5 DEF WaitNoChild, Released
<1>6. ASSUME NEW t \in JobThreads, WaitInterrupted(t) PROVE TypeOK'
  BY <1>6 DEF WaitInterrupted, Released
<1>7. ASSUME NEW t \in JobThreads, Fork(t) PROVE TypeOK' BY <1>7 DEF Fork
<1>8. ASSUME NEW t \in JobThreads, ForkFails(t) PROVE TypeOK' BY <1>8 DEF ForkFails
<1>9. CASE UNCHANGED vars BY <1>9 DEF vars
<1> QED BY <1>1, <1>2, <1>3, <1>4, <1>5, <1>6, <1>7, <1>8, <1>9
        DEF Next, WaitReturns

\* Type correctness of the gate and of the counts of children.
THEOREM BackupsTypeCorrect == Spec => []TypeOK
<1>1. Init => TypeOK BY BackupsAssumption DEF Init, TypeOK
<1> QED BY <1>1, TypeStep, PTL DEF Spec

\* The bound and the reasons for it are kept by every step.
LEMMA BoundStep ==
  ASSUME TypeOK, GateInv, BackupsBounded, [Next]_vars
  PROVE  GateInv' /\ BackupsBounded'
<1> DEFINE P == Cardinality(Pending)
           N == Cardinality(JobThreads)
<1>t. /\ active_backups \in 0 .. max_backups /\ max_backups \in Nat
      /\ running \in Nat /\ zombies \in Nat /\ interrupted \in Nat
      /\ P \in Nat /\ P' \in Nat /\ N \in Nat /\ Limit \in Nat
      /\ max_backups <= Limit /\ N <= Limit
  <2>1. TypeOK' BY TypeStep
  <2>2. P' \in Nat
    BY <2>1, BackupsAssumption, FS_Subset, FS_CardinalityType DEF Pending
  <2> QED BY <2>2, PendingSize, BackupsAssumption DEF TypeOK, Limit, Larger
<1>g. \A t \in JobThreads : pc[t] = "wait" <=> gateLock = t
  BY DEF GateInv
<1>n. None \notin JobThreads BY BackupsAssumption
<1>1. CASE ChildExit
  <2>1. Pending' = Pending BY <1>1 DEF ChildExit, Pending
  <2> QED BY <1>1, <1>t, <1>g, <2>1 DEF ChildExit, GateInv, BackupsBounded
<1>2. ASSUME NEW t \in JobThreads, GateOpen(t) PROVE GateInv' /\ BackupsBounded'
  <2>1. P' = P + 1
    BY <1>2, PendingAfterGo, PendingSize DEF GateOpen, Pending
  <2>2. BackupsBounded' BY <1>2, <1>t, <2>1 DEF GateOpen, GateInv, BackupsBounded
  <2>3. \A u \in JobThreads : pc'[u] = "wait" <=> gateLock' = u
    BY <1>2, <1>g, <1>n DEF GateOpen, Go, TypeOK
  <2> QED BY <1>2, <1>t, <2>1, <2>2, <2>3 DEF GateOpen, GateInv
<1>3. ASSUME NEW t \in JobThreads, GateFull(t) PROVE GateInv' /\ BackupsBounded'
  <2>1. Pending' = Pending
    BY <1>3, PendingAfterGo DEF GateFull, Pending
  <2>2. \A u \in JobThreads : pc'[u] = "wait" <=> gateLock' = u
    BY <1>3, <1>g, <1>n DEF GateFull, Go, TypeOK
  <2> QED BY <1>3, <1>t, <2>1, <2>2 DEF GateFull, GateInv, BackupsBounded
<1>r. ASSUME NEW t \in JobThreads, Released(t)
      PROVE  /\ P' = P + 1 /\ P + 1 <= N
             /\ active_backups = max_backups
             /\ gateLock' = None
             /\ \A u \in JobThreads : pc'[u] = "wait" <=> gateLock' = u
  <2>1. P' = P + 1 /\ P + 1 <= N
    BY <1>r, PendingAfterGo, PendingSize DEF Released, Pending
  <2>2. active_backups = max_backups
    BY <1>r, <1>g, <1>n DEF Released, GateInv
  <2>3. \A u \in JobThreads : pc'[u] = "wait" <=> gateLock' = u
    BY <1>r, <1>g, <1>n DEF Released, Go, TypeOK
  <2> QED BY <1>r, <2>1, <2>2, <2>3 DEF Released
<1>4. ASSUME NEW t \in JobThreads, WaitReaps(t) PROVE GateInv' /\ BackupsBounded'
  BY <1>4, <1>t, <1>r DEF WaitReaps, Released, GateInv, BackupsBounded
<1>5. ASSUME NEW t \in JobThreads, WaitNoChild(t) PROVE GateInv' /\ BackupsBounded'
  BY <1>5, <1>t, <1>r DEF WaitNoChild, Released, GateInv, BackupsBounded
<1>6. ASSUME NEW t \in JobThreads, WaitInterrupted(t) PROVE GateInv' /\ BackupsBounded'
  BY <1>6, <1>t, <1>r DEF WaitInterrupted, Released, GateInv, BackupsBounded
<1>f. ASSUME NEW t \in JobThreads, pc[t] = "fork", Go(t, "job"), UNCHANGED gateLock
      PROVE  /\ P' = P - 1
             /\ \A u \in JobThreads : pc'[u] = "wait" <=> gateLock' = u
  <2>1. P' = P - 1
    BY <1>f, PendingAfterGo, PendingSize DEF Pending
  <2> QED BY <1>f, <1>g, <2>1 DEF Go, TypeOK
<1>7. ASSUME NEW t \in JobThreads, Fork(t) PROVE GateInv' /\ BackupsBounded'
  BY <1>7, <1>t, <1>f DEF Fork, GateInv, BackupsBounded
<1>8. ASSUME NEW t \in JobThreads, ForkFails(t) PROVE GateInv' /\ BackupsBounded'
  BY <1>8, <1>t, <1>f DEF ForkFails, GateInv, BackupsBounded
<1>9. CASE UNCHANGED vars
  BY <1>9, <1>g DEF vars, GateInv, BackupsBounded, Pending
<1> QED BY <1>1, <1>2, <1>3, <1>4, <1>5, <1>6, <1>7, <1>8, <1>9
        DEF Next, WaitReturns

\* The bound on concurrent backups, for every limit and number of threads.
THEOREM BackupsAreBounded == Spec => [](GateInv /\ BackupsBounded)
<1>1. Init => GateInv /\ BackupsBounded
  <2> SUFFICES ASSUME Init PROVE GateInv /\ BackupsBounded OBVIOUS
  <2>1. Pending = {} BY DEF Init, Pending
  <2>2. Cardinality(Pending) = 0 BY <2>1, FS_EmptySet
  <2>3. Limit \in Nat BY PendingSize, BackupsAssumption DEF Limit, Larger
  <2> QED BY <2>2, <2>3, BackupsAssumption DEF Init, GateInv, BackupsBounded
<1> QED BY <1>1, BoundStep, BackupsTypeCorrect, PTL DEF Spec

\* With no more threads than backups allowed the documented limit holds, but
\* for the wait() calls that SIGUSR1 interrupts.
THEOREM LimitHoldsWithFewThreads ==
  ASSUME Cardinality(JobThreads) <= max_backups
  PROVE  Spec => []AtMostMaxBackups
<1>1. TypeOK /\ BackupsBounded => AtMostMaxBackups
  BY PendingSize, BackupsAssumption
  DEF TypeOK, BackupsBounded, AtMostMaxBackups, Limit, Larger
<1> QED BY <1>1, BackupsTypeCorrect, BackupsAreBounded, PTL
=============================================================================
