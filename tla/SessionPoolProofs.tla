-------------------------- MODULE SessionPoolProofs --------------------------
(***************************************************************************)
(* Proofs about SessionPool, for every number of sessions, of clients and  *)
(* of signals: type correctness, the accounting of semaphore tokens, and   *)
(* that a manager's scan of sessions[] always finds a free entry.          *)
(***************************************************************************)
EXTENDS SessionPool, FiniteSetTheorems, SequenceTheorems, TLAPS

\* The position of a manager that is at no entry has the type of one.
LEMMA NoPosition == -1 \in -1 .. MAX_SESSION_COUNT
  BY SessionPoolAssumption

\* A response leaves its reader in one of the states of a client.
LEMMA AnswerType ==
  ASSUME client \in [Clients -> ClientStates], NEW c, Answer(c)
  PROVE  client' \in [Clients -> ClientStates]
<1> DEFINE next == CASE client[c] = "opened"  -> "connected"
                     [] client[c] = "leaving" -> "left"
                     [] OTHER -> client[c]
<1>1. client' = [client EXCEPT ![c] = next] BY DEF Answer
<1>2. c \in Clients => next \in ClientStates BY DEF ClientStates
<1> HIDE DEF next
<1> QED BY <1>1, <1>2

-----------------------------------------------------------------------------
\* Every variable keeps its type, in every step of every thread.
LEMMA TypeStep == ASSUME TypeOK, [Next]_vars PROVE TypeOK'
<1> USE SessionPoolAssumption DEF TypeOK, Slots, Requests, HostSteps, ManagerSteps,
        ClientStates, hostVars, managerVars, semVars, sessionVars, historyVars, signalVars
<1>1. ASSUME NEW c \in Clients, ClientConnect(c) PROVE TypeOK'
  <2>1. registerPipe' \in Seq(Clients) BY <1>1, AppendProperties DEF ClientConnect
  <2> QED BY <1>1, <2>1 DEF ClientConnect
<1>2. ASSUME NEW c \in Clients, ClientHangup(c) PROVE TypeOK'
  BY <1>2 DEF ClientHangup
<1>3. CASE Signal BY <1>3 DEF Signal, Raise
<1>4. CASE SignalHost BY <1>4 DEF SignalHost, Raise
<1>5. ASSUME NEW m \in Managers, SignalManager(m) PROVE TypeOK'
  BY <1>5 DEF SignalManager, Raise
<1>6. CASE HostCheck BY <1>6 DEF HostCheck
<1>7. CASE HostLock
  <2>1. unswept' \in BOOLEAN BY <1>7, Zenon DEF HostLock
  <2>2. sweepIdx' \in 0 .. MAX_SESSION_COUNT BY <1>7 DEF HostLock
  <2> QED BY <1>7, <2>1, <2>2 DEF HostLock
<1>8. CASE HostSweep
  <2>1. sweepIdx \in Slots /\ sweepIdx' \in 0 .. MAX_SESSION_COUNT
    BY <1>8 DEF HostSweep
  <2>2. /\ client' \in [Clients -> ClientStates]
        /\ active' \in [Slots -> BOOLEAN]
        /\ peer' \in [Slots -> Requests]
    <3>1. CASE active[sweepIdx]
      <4>1. /\ active' = [active EXCEPT ![sweepIdx] = FALSE]
            /\ peer' = [peer EXCEPT ![sweepIdx] = NoClient]
        BY <1>8, <3>1 DEF HostSweep
      <4>2. client' = [c \in Clients |->
                        IF peer[sweepIdx] = c
                           /\ client[c] \in {"opened", "connected", "leaving"}
                        THEN "hungup" ELSE client[c]]
        BY <1>8, <3>1 DEF HostSweep
      <4>3. client' \in [Clients -> ClientStates]
        BY ONLY <4>2, TypeOK, Zenon DEF TypeOK, ClientStates
      <4> QED BY <4>1, <4>3
    <3>2. CASE ~ active[sweepIdx] BY <1>8, <2>1, <3>2 DEF HostSweep
    <3> QED BY <3>1, <3>2
  <2> QED BY <1>8, <2>1, <2>2 DEF HostSweep
<1>9. CASE HostSweepEnd BY <1>9 DEF HostSweepEnd
<1>10. CASE HostReset BY <1>10 DEF HostReset
<1>11. CASE HostRead
  <2>1. CASE registerPipe # <<>>
    <3>1. Head(registerPipe) \in Clients /\ Tail(registerPipe) \in Seq(Clients)
      BY <2>1, HeadTailProperties
    <3> QED BY <1>11, <2>1, <3>1 DEF HostRead
  <2>2. CASE registerPipe = <<>> BY <1>11, <2>2 DEF HostRead
  <2> QED BY <2>1, <2>2
<1>12. CASE HostWait BY <1>12 DEF HostWait
<1>13. CASE HostStore BY <1>13 DEF HostStore
<1>14. CASE HostPost BY <1>14 DEF HostPost
<1>15. ASSUME NEW m \in Managers, ManagerWait(m) PROVE TypeOK'
  BY <1>15 DEF ManagerWait, Go
<1>16. ASSUME NEW m \in Managers, ManagerTake(m) PROVE TypeOK'
  BY <1>16 DEF ManagerTake, Go
<1>17. ASSUME NEW m \in Managers, ManagerPost(m) PROVE TypeOK'
  BY <1>17 DEF ManagerPost, Go
<1>18. ASSUME NEW m \in Managers, ManagerSkip(m) PROVE TypeOK'
  BY <1>18 DEF ManagerSkip
<1>19. ASSUME NEW m \in Managers, ManagerChoose(m) PROVE TypeOK'
  BY <1>19 DEF ManagerChoose, Go
<1>20. ASSUME NEW m \in Managers, ManagerClaim(m) PROVE TypeOK'
  BY <1>20 DEF ManagerClaim, Go
<1>21. ASSUME NEW m \in Managers, SessionOpen(m) PROVE TypeOK'
  BY <1>21 DEF SessionOpen, CanOpen, Go
<1>22. ASSUME NEW m \in Managers, SessionOpenFails(m) PROVE TypeOK'
  BY <1>22, NoPosition DEF SessionOpenFails, Return, Go
<1>23. ASSUME NEW m \in Managers, SessionConnect(m) PROVE TypeOK'
  BY <1>23, AnswerType DEF SessionConnect, Go
<1>24. ASSUME NEW m \in Managers, SessionConnectFails(m) PROVE TypeOK'
  BY <1>24, NoPosition DEF SessionConnectFails, Return, Go
<1>25. ASSUME NEW m \in Managers, SessionLoop(m) PROVE TypeOK'
  BY <1>25 DEF SessionLoop, Go
<1>26. ASSUME NEW m \in Managers, SessionDisconnect(m) PROVE TypeOK'
  BY <1>26 DEF SessionDisconnect, Disconnect, Go
<1>27. ASSUME NEW m \in Managers, SessionRepeat(m) PROVE TypeOK'
  BY <1>27 DEF SessionRepeat, Disconnect, Go
<1>28. ASSUME NEW m \in Managers, SessionRespond(m) PROVE TypeOK'
  BY <1>28, AnswerType DEF SessionRespond, Go
<1>29. ASSUME NEW m \in Managers, SessionExit(m) PROVE TypeOK'
  BY <1>29 DEF SessionExit, Go
<1>30. ASSUME NEW m \in Managers, SessionEnd(m) PROVE TypeOK'
  BY <1>30, NoPosition DEF SessionEnd, Go
<1>31. ASSUME NEW m \in Managers, SessionPost(m) PROVE TypeOK'
  BY <1>31 DEF SessionPost, Go
<1>32. CASE UNCHANGED vars BY <1>32 DEF vars
<1> QED
  BY <1>1, <1>2, <1>3, <1>4, <1>5, <1>6, <1>7, <1>8, <1>9, <1>10, <1>11, <1>12,
     <1>13, <1>14, <1>15, <1>16, <1>17, <1>18, <1>19, <1>20, <1>21, <1>22, <1>23,
     <1>24, <1>25, <1>26, <1>27, <1>28, <1>29, <1>30, <1>31, <1>32
  DEF Next, Environment, Host, ManagerAlone

\* Type correctness of the host, the managers, the buffer and sessions[].
THEOREM TypeCorrect == Spec => []TypeOK
<1>1. Init => TypeOK
  <2> SUFFICES ASSUME Init PROVE TypeOK OBVIOUS
  <2>1. /\ registerPipe \in Seq(Clients)
        /\ pos \in [Managers -> -1 .. MAX_SESSION_COUNT]
        /\ semEmpty \in Nat /\ signals \in 0 .. MaxSignals
        /\ sweepIdx \in 0 .. MAX_SESSION_COUNT
    BY SessionPoolAssumption, EmptySeq, NoPosition DEF Init
  <2> QED
    BY <2>1 DEF Init, TypeOK, Slots, Requests, HostSteps, ManagerSteps, ClientStates
<1> QED BY <1>1, TypeStep, PTL DEF Spec

-----------------------------------------------------------------------------
\* How a manager's step changes the set of the managers that carry a token,
\* and its size.
LEMMA CarriersAfterGo ==
  ASSUME TypeOK, NEW m \in Managers, NEW step, Go(m, step)
  PROVE  Carriers' = IF step \in {"take", "post"} THEN Carriers \cup {m}
                                                 ELSE Carriers \ {m}
BY DEF TypeOK, Go, Carriers

\* The managers that carry a token are finitely many, and one more or less counts for one.
LEMMA CarriersSize ==
  /\ IsFiniteSet(Carriers) /\ Cardinality(Carriers) \in Nat
  /\ \A m \in Managers :
       /\ Cardinality(Carriers \cup {m}) =
            IF m \in Carriers THEN Cardinality(Carriers) ELSE Cardinality(Carriers) + 1
       /\ Cardinality(Carriers \ {m}) =
            IF m \in Carriers THEN Cardinality(Carriers) - 1 ELSE Cardinality(Carriers)
<1>1. IsFiniteSet(Carriers)
  BY SessionPoolAssumption, FS_Subset DEF Carriers
<1> QED BY <1>1, FS_CardinalityType, FS_AddElement, FS_RemoveElement

\* Every step moves tokens, or creates one and counts it in surplus.
LEMMA TokenStep == ASSUME TypeOK, TokensAccounted, [Next]_vars PROVE TokensAccounted'
<1> DEFINE Kept == /\ UNCHANGED semVars
                   /\ HostCarries' = HostCarries
                   /\ Cardinality(Carriers)' = Cardinality(Carriers)
<1>0. Kept => TokensAccounted'
  BY DEF TokensAccounted, semVars
<1>h. managerPc' = managerPc => Carriers' = Carriers
  BY DEF Carriers
<1>m. ASSUME NEW m \in Managers, NEW step, Go(m, step),
             m \in Carriers <=> step \in {"take", "post"}
      PROVE  Carriers' = Carriers
  BY <1>m, CarriersAfterGo
<1>t. semEmpty \in Nat /\ semFull \in Nat /\ surplus \in Nat /\ MAX_SESSION_COUNT \in Nat
  BY SessionPoolAssumption DEF TypeOK
<1>1. ASSUME NEW c \in Clients, ClientConnect(c) PROVE Kept
  BY <1>1, <1>h DEF ClientConnect, managerVars, hostVars, HostCarries
<1>2. ASSUME NEW c \in Clients, ClientHangup(c) PROVE Kept
  BY <1>2, <1>h DEF ClientHangup, managerVars, hostVars, HostCarries
<1>3. CASE Signal BY <1>0, <1>3, <1>h DEF Signal, managerVars, hostVars, HostCarries
<1>4. CASE SignalHost
  BY <1>4, <1>h, <1>t, CarriersSize
  DEF SignalHost, managerVars, HostCarries, TokensAccounted
<1>5. ASSUME NEW m \in Managers, SignalManager(m) PROVE TokensAccounted'
  <2>1. m \notin Carriers /\ Carriers' = Carriers \cup {m}
    BY <1>5, CarriersAfterGo DEF SignalManager, Carriers, Go
  <2> QED BY <1>5, <1>t, <2>1, CarriersSize
          DEF SignalManager, hostVars, HostCarries, TokensAccounted
<1>6. CASE HostCheck BY <1>0, <1>6, <1>h DEF HostCheck, managerVars, HostCarries
<1>7. CASE HostLock BY <1>0, <1>7, <1>h DEF HostLock, managerVars, HostCarries
<1>8. CASE HostSweep BY <1>0, <1>8, <1>h DEF HostSweep, managerVars, HostCarries
<1>9. CASE HostSweepEnd BY <1>0, <1>9, <1>h DEF HostSweepEnd, managerVars, HostCarries
<1>10. CASE HostReset BY <1>0, <1>10, <1>h DEF HostReset, managerVars, HostCarries
<1>11. CASE HostRead BY <1>0, <1>11, <1>h DEF HostRead, managerVars, HostCarries
<1>12. CASE HostWait
  BY <1>12, <1>h, <1>t, CarriersSize
  DEF HostWait, managerVars, HostCarries, TokensAccounted
<1>13. CASE HostStore BY <1>0, <1>13, <1>h DEF HostStore, managerVars, HostCarries
<1>14. CASE HostPost
  BY <1>14, <1>h, <1>t, CarriersSize
  DEF HostPost, managerVars, HostCarries, TokensAccounted
<1>15. ASSUME NEW m \in Managers, ManagerWait(m) PROVE TokensAccounted'
  <2>1. m \notin Carriers /\ Carriers' = Carriers \cup {m}
    BY <1>15, CarriersAfterGo DEF ManagerWait, Carriers
  <2> QED BY <1>15, <1>t, <2>1, CarriersSize
          DEF ManagerWait, hostVars, HostCarries, TokensAccounted
<1>16. ASSUME NEW m \in Managers, ManagerTake(m) PROVE Kept
  BY <1>16, <1>m DEF ManagerTake, hostVars, HostCarries, Carriers
<1>17. ASSUME NEW m \in Managers, ManagerPost(m) PROVE TokensAccounted'
  <2>1. m \in Carriers /\ Carriers' = Carriers \ {m}
    BY <1>17, CarriersAfterGo DEF ManagerPost, Carriers
  <2> QED BY <1>17, <1>t, <2>1, CarriersSize
          DEF ManagerPost, hostVars, HostCarries, TokensAccounted
<1>18. ASSUME NEW m \in Managers, ManagerSkip(m) PROVE Kept
  BY <1>18, <1>h DEF ManagerSkip, hostVars, HostCarries
<1>19. ASSUME NEW m \in Managers, ManagerChoose(m) PROVE Kept
  BY <1>19, <1>m DEF ManagerChoose, hostVars, HostCarries, Carriers
<1>20. ASSUME NEW m \in Managers, ManagerClaim(m) PROVE Kept
  BY <1>20, <1>m DEF ManagerClaim, hostVars, HostCarries, Carriers
<1>21. ASSUME NEW m \in Managers, SessionOpen(m) PROVE Kept
  BY <1>21, <1>m DEF SessionOpen, hostVars, HostCarries, Carriers
<1>22. ASSUME NEW m \in Managers, SessionOpenFails(m) PROVE Kept
  BY <1>22, <1>m DEF SessionOpenFails, Return, hostVars, HostCarries, Carriers
<1>23. ASSUME NEW m \in Managers, SessionConnect(m) PROVE Kept
  BY <1>23, <1>m DEF SessionConnect, hostVars, HostCarries, Carriers
<1>24. ASSUME NEW m \in Managers, SessionConnectFails(m) PROVE Kept
  BY <1>24, <1>m DEF SessionConnectFails, Return, hostVars, HostCarries, Carriers
<1>25. ASSUME NEW m \in Managers, SessionLoop(m) PROVE Kept
  BY <1>25, <1>m DEF SessionLoop, hostVars, HostCarries, Carriers
<1>26. ASSUME NEW m \in Managers, SessionDisconnect(m) PROVE Kept
  BY <1>26, <1>m DEF SessionDisconnect, Disconnect, hostVars, HostCarries, Carriers
<1>27. ASSUME NEW m \in Managers, SessionRepeat(m) PROVE Kept
  BY <1>27, <1>m DEF SessionRepeat, Disconnect, hostVars, HostCarries, Carriers
<1>28. ASSUME NEW m \in Managers, SessionRespond(m) PROVE Kept
  BY <1>28, <1>m DEF SessionRespond, hostVars, HostCarries, Carriers
<1>29. ASSUME NEW m \in Managers, SessionExit(m) PROVE Kept
  BY <1>29, <1>m DEF SessionExit, hostVars, HostCarries, Carriers
<1>30. ASSUME NEW m \in Managers, SessionEnd(m) PROVE Kept
  BY <1>30, <1>m DEF SessionEnd, hostVars, HostCarries, Carriers
<1>31. ASSUME NEW m \in Managers, SessionPost(m) PROVE TokensAccounted'
  <2>1. Carriers' = Carriers
    BY <1>31, <1>m DEF SessionPost, Carriers
  <2> QED BY <1>31, <1>t, <2>1, CarriersSize
          DEF SessionPost, hostVars, HostCarries, TokensAccounted
<1>32. CASE UNCHANGED vars
  BY <1>0, <1>32, <1>h DEF vars, hostVars, managerVars, semVars, HostCarries
<1> QED
  BY <1>0, <1>1, <1>2, <1>3, <1>4, <1>5, <1>6, <1>7, <1>8, <1>9, <1>10, <1>11,
     <1>12, <1>13, <1>14, <1>15, <1>16, <1>17, <1>18, <1>19, <1>20, <1>21, <1>22,
     <1>23, <1>24, <1>25, <1>26, <1>27, <1>28, <1>29, <1>30, <1>31, <1>32
  DEF Next, Environment, Host, ManagerAlone

\* No token of the two semaphores is lost, whatever the interleaving of the
\* host, the managers and the signals.
THEOREM TokensAreAccounted == Spec => []TokensAccounted
<1>1. Init => TokensAccounted
  <2> SUFFICES ASSUME Init PROVE TokensAccounted OBVIOUS
  <2>1. Carriers = {} BY DEF Init, Carriers
  <2> QED BY <2>1, SessionPoolAssumption, FS_EmptySet
          DEF Init, TokensAccounted, HostCarries
<1> QED BY <1>1, TypeCorrect, TokenStep, PTL DEF Spec

\* Until a session ends or a sem_wait is interrupted, the host stores within
\* the buffer: the semaphores alone would protect it.
THEOREM BufferIsRespected == Spec => []BufferRespected
<1>1. TypeOK /\ TokensAccounted => BufferRespected
  BY CarriersSize, SessionPoolAssumption
  DEF TypeOK, TokensAccounted, BufferRespected, HostCarries, Slots
<1> QED BY <1>1, TypeCorrect, TokensAreAccounted, PTL

-----------------------------------------------------------------------------
(* The scan of sessions[].                                                 *)


\* What the steps of the clients and of the host leave alone.
Aside == /\ UNCHANGED <<managerPc, pos>>
         /\ \A s \in Slots : active'[s] => active[s]

\* Clients and signals leave the scan and the entries alone.
LEMMA EnvironmentAside ==
  ASSUME TypeOK, Environment, ~ \E m \in Managers : SignalManager(m)
  PROVE  Aside
<1> USE DEF managerVars, sessionVars, Aside
<1>1. ASSUME NEW c \in Clients, ClientConnect(c) PROVE Aside BY <1>1 DEF ClientConnect
<1>2. ASSUME NEW c \in Clients, ClientHangup(c) PROVE Aside BY <1>2 DEF ClientHangup
<1>3. CASE Signal BY <1>3 DEF Signal
<1>4. CASE SignalHost BY <1>4 DEF SignalHost
<1> QED BY <1>1, <1>2, <1>3, <1>4 DEF Environment

\* The host does too, except that its sweep marks entries inactive.
LEMMA HostAside == ASSUME TypeOK, Host PROVE Aside
<1> USE DEF managerVars, sessionVars, Aside
<1>1. CASE HostCheck BY <1>1 DEF HostCheck
<1>2. CASE HostLock BY <1>2 DEF HostLock
<1>3. CASE HostSweep
  <2>1. UNCHANGED <<managerPc, pos>> BY <1>3 DEF HostSweep
  <2>2. active' = active \/ active' = [active EXCEPT ![sweepIdx] = FALSE]
    BY <1>3 DEF HostSweep
  <2>3. ASSUME NEW s \in Slots, active'[s] PROVE active[s]
    BY <2>2, <2>3, Zenon DEF TypeOK
  <2> QED BY <2>1, <2>3
<1>4. CASE HostSweepEnd BY <1>4 DEF HostSweepEnd
<1>5. CASE HostReset BY <1>5 DEF HostReset
<1>6. CASE HostRead BY <1>6 DEF HostRead
<1>7. CASE HostWait BY <1>7 DEF HostWait
<1>8. CASE HostStore BY <1>8 DEF HostStore
<1>9. CASE HostPost BY <1>9 DEF HostPost
<1> QED BY <1>1, <1>2, <1>3, <1>4, <1>5, <1>6, <1>7, <1>8, <1>9 DEF Host

\* Such a step keeps the invariant of the scan.
LEMMA AsideKeepsScanInv == ASSUME TypeOK, ScanInv, Aside PROVE ScanInv'
<1>1. PositionOK' BY DEF ScanInv, PositionOK, Aside
<1>2. ActiveEntryHeld' BY DEF ScanInv, ActiveEntryHeld, Aside
<1>3. BeyondBounded'
  <2>1. \A i : Beyond(i)' = Beyond(i) BY DEF Beyond, Aside
  <2> QED BY <2>1 DEF ScanInv, BeyondBounded
<1> QED BY <1>1, <1>2, <1>3 DEF ScanInv

\* A step of manager m keeps every active entry held when it does not let go
\* of the entry it holds, unless it marks it inactive.
LEMMA HeldAfter ==
  ASSUME ActiveEntryHeld, NEW m \in Managers,
         \A n \in Managers \ {m} : managerPc'[n] = managerPc[n] /\ pos'[n] = pos[n],
         \A s \in Slots : active'[s] =>
           active[s] \/ (s = pos'[m] /\ managerPc'[m] \in InSession),
         managerPc[m] \in InSession =>
           \/ managerPc'[m] \in InSession /\ pos'[m] = pos[m]
           \/ ~ active'[pos[m]]
  PROVE  ActiveEntryHeld'
<1> SUFFICES ASSUME NEW s \in Slots, active'[s]
             PROVE  \E n \in Managers : managerPc'[n] \in InSession /\ pos'[n] = s
  BY DEF ActiveEntryHeld
<1>1. CASE s = pos'[m] /\ managerPc'[m] \in InSession BY <1>1
<1>2. CASE active[s]
  <2> PICK h \in Managers : managerPc[h] \in InSession /\ pos[h] = s
    BY <1>2 DEF ActiveEntryHeld
  <2> QED BY DEF ActiveEntryHeld
<1> QED BY <1>1, <1>2

\* A step after which no manager is further on than it was, or than entry 0,
\* keeps the count.
LEMMA NotFurther ==
  ASSUME BeyondBounded, pos \in [Managers -> -1 .. MAX_SESSION_COUNT],
         \A n \in Managers : pos'[n] = pos[n] \/ pos'[n] = 0 \/ pos'[n] = -1
  PROVE  BeyondBounded'
<1> SUFFICES ASSUME NEW i \in 0 .. MAX_SESSION_COUNT
             PROVE  Cardinality(Beyond(i)') <= MAX_SESSION_COUNT - i
  BY DEF BeyondBounded
<1>1. CASE i = 0
  <2>1. Beyond(i)' \in SUBSET Managers BY DEF Beyond
  <2> QED BY <1>1, <2>1, FS_Subset, SessionPoolAssumption
<1>2. CASE i > 0
  <2>1. Beyond(i)' \in SUBSET Beyond(i) BY <1>2 DEF Beyond
  <2>2. IsFiniteSet(Beyond(i)) BY FS_Subset, SessionPoolAssumption DEF Beyond
  <2>3. Cardinality(Beyond(i)') <= Cardinality(Beyond(i)) BY <2>1, <2>2, FS_Subset
  <2>4. Cardinality(Beyond(i)) \in Nat /\ Cardinality(Beyond(i)') \in Nat
    BY <2>1, <2>2, FS_Subset, FS_CardinalityType
  <2> QED BY <2>3, <2>4, SessionPoolAssumption DEF BeyondBounded
<1> QED BY <1>1, <1>2

\* The step past an active entry p keeps the count: the manager that holds the
\* entry and the one that passes it are both at p, not beyond.
LEMMA SkipKeepsCount ==
  ASSUME TypeOK, ScanInv, NEW m \in Managers, ManagerSkip(m)
  PROVE  BeyondBounded'
<1> DEFINE p == pos[m]
<1>1. p \in Slots /\ p + 1 \in 0 .. MAX_SESSION_COUNT /\ active[p]
  BY SessionPoolAssumption DEF ManagerSkip, ScanInv, PositionOK, Slots
<1>2. \A n \in Managers : pos'[n] = IF n = m THEN p + 1 ELSE pos[n]
  BY DEF ManagerSkip, TypeOK
<1>3. PICK h \in Managers : managerPc[h] \in InSession /\ pos[h] = p
  BY <1>1 DEF ScanInv, ActiveEntryHeld
<1>4. h # m BY <1>3 DEF ManagerSkip, InSession
<1>pos. pos \in [Managers -> -1 .. MAX_SESSION_COUNT] /\ MAX_SESSION_COUNT \in Nat
  BY SessionPoolAssumption DEF TypeOK
<1> SUFFICES ASSUME NEW i \in 0 .. MAX_SESSION_COUNT
             PROVE  Cardinality(Beyond(i)') <= MAX_SESSION_COUNT - i
  BY DEF BeyondBounded
<1>fin. \A j : IsFiniteSet(Beyond(j)) /\ Cardinality(Beyond(j)) \in Nat
  BY FS_Subset, FS_CardinalityType, SessionPoolAssumption DEF Beyond
<1>5. CASE i = p + 1
  <2>1. h \in Beyond(p) BY <1>3, <1>1 DEF Beyond, Slots
  <2>2. Beyond(i)' \in SUBSET (Beyond(p) \ {h})
    BY <1>1, <1>2, <1>3, <1>4, <1>5, <1>pos DEF Beyond, Slots
  <2>3. /\ IsFiniteSet(Beyond(p) \ {h})
        /\ Cardinality(Beyond(p) \ {h}) = Cardinality(Beyond(p)) - 1
    BY <2>1, <1>fin, FS_RemoveElement
  <2>4. /\ Cardinality(Beyond(i)') <= Cardinality(Beyond(p) \ {h})
        /\ Cardinality(Beyond(i)') \in Nat
    BY <2>2, <2>3, FS_Subset, FS_CardinalityType
  <2>5. p \in 0 .. MAX_SESSION_COUNT BY <1>1, <1>pos DEF Slots
  <2>6. Cardinality(Beyond(p)) <= MAX_SESSION_COUNT - p
    BY <2>5 DEF ScanInv, BeyondBounded
  <2> QED BY <1>5, <2>3, <2>4, <2>5, <2>6, <1>fin, <1>pos
<1>6. CASE i # p + 1
  <2>1. Beyond(i)' = Beyond(i)
    BY <1>1, <1>2, <1>6, <1>pos DEF Beyond, Slots
  <2> QED BY <2>1 DEF ScanInv, BeyondBounded
<1> QED BY <1>5, <1>6

\* A step of a manager keeps the strengthened invariant.
LEMMA ManagerKeepsScanInv ==
  ASSUME TypeOK, ScanInv, NEW m \in Managers,
         SignalManager(m) \/ ManagerAlone(m) \/ SessionDisconnect(m)
  PROVE  ScanInv'
<1> DEFINE Others == \A n \in Managers \ {m} :
                       managerPc'[n] = managerPc[n] /\ pos'[n] = pos[n]
           NoNewEntry == \A s \in Slots : active'[s] => active[s]
<1> USE SessionPoolAssumption DEF TypeOK, ScanInv, Go, ManagerSteps, InSession,
        sessionVars, managerVars
<1>1. CASE SignalManager(m)
  <2>1. PositionOK' BY <1>1 DEF SignalManager, Raise, PositionOK, Slots
  <2>2. ActiveEntryHeld' BY <1>1, HeldAfter DEF SignalManager, Raise, PositionOK
  <2>3. BeyondBounded' BY <1>1, NotFurther DEF SignalManager, Raise
  <2> QED BY <2>1, <2>2, <2>3
<1>2. CASE ManagerWait(m)
  <2>1. PositionOK' BY <1>2 DEF ManagerWait, PositionOK, Slots
  <2>2. ActiveEntryHeld' BY <1>2, HeldAfter DEF ManagerWait, PositionOK
  <2>3. BeyondBounded' BY <1>2, NotFurther DEF ManagerWait
  <2> QED BY <2>1, <2>2, <2>3
<1>3. CASE ManagerTake(m)
  <2>1. PositionOK' BY <1>3 DEF ManagerTake, PositionOK, Slots
  <2>2. ActiveEntryHeld' BY <1>3, HeldAfter DEF ManagerTake, PositionOK
  <2>3. BeyondBounded' BY <1>3, NotFurther DEF ManagerTake
  <2> QED BY <2>1, <2>2, <2>3
<1>4. CASE ManagerPost(m)
  <2>1. PositionOK' BY <1>4 DEF ManagerPost, PositionOK, Slots
  <2>2. ActiveEntryHeld' BY <1>4, HeldAfter DEF ManagerPost, PositionOK
  <2>3. BeyondBounded' BY <1>4, NotFurther DEF ManagerPost
  <2> QED BY <2>1, <2>2, <2>3
<1>5. CASE ManagerChoose(m)
  <2>1. PositionOK' BY <1>5 DEF ManagerChoose, PositionOK, Slots
  <2>2. ActiveEntryHeld' BY <1>5, HeldAfter DEF ManagerChoose, PositionOK
  <2>3. BeyondBounded' BY <1>5, NotFurther DEF ManagerChoose
  <2> QED BY <2>1, <2>2, <2>3
<1>6. CASE ManagerClaim(m)
  <2>1. PositionOK' BY <1>6 DEF ManagerClaim, PositionOK, Slots
  <2>2. ActiveEntryHeld' BY <1>6, HeldAfter DEF ManagerClaim
  <2>3. BeyondBounded' BY <1>6, NotFurther DEF ManagerClaim
  <2> QED BY <2>1, <2>2, <2>3
<1>7. CASE SessionOpen(m)
  <2>1. PositionOK' BY <1>7 DEF SessionOpen, PositionOK, Slots
  <2>2. ActiveEntryHeld' BY <1>7, HeldAfter DEF SessionOpen, PositionOK
  <2>3. BeyondBounded' BY <1>7, NotFurther DEF SessionOpen
  <2> QED BY <2>1, <2>2, <2>3
<1>8. CASE SessionOpenFails(m)
  <2>1. PositionOK' BY <1>8 DEF SessionOpenFails, Return, PositionOK, Slots
  <2>2. ActiveEntryHeld' BY <1>8, HeldAfter DEF SessionOpenFails, Return, PositionOK
  <2>3. BeyondBounded' BY <1>8, NotFurther DEF SessionOpenFails, Return
  <2> QED BY <2>1, <2>2, <2>3
<1>9. CASE SessionConnect(m)
  <2>1. PositionOK' BY <1>9 DEF SessionConnect, PositionOK, Slots
  <2>2. ActiveEntryHeld' BY <1>9, HeldAfter DEF SessionConnect, PositionOK
  <2>3. BeyondBounded' BY <1>9, NotFurther DEF SessionConnect
  <2> QED BY <2>1, <2>2, <2>3
<1>10. CASE SessionConnectFails(m)
  <2>1. PositionOK' BY <1>10 DEF SessionConnectFails, Return, PositionOK, Slots
  <2>2. ActiveEntryHeld' BY <1>10, HeldAfter DEF SessionConnectFails, Return, PositionOK
  <2>3. BeyondBounded' BY <1>10, NotFurther DEF SessionConnectFails, Return
  <2> QED BY <2>1, <2>2, <2>3
<1>11. CASE SessionLoop(m)
  <2>1. PositionOK' BY <1>11 DEF SessionLoop, PositionOK, Slots
  <2>2. ActiveEntryHeld' BY <1>11, HeldAfter DEF SessionLoop, PositionOK
  <2>3. BeyondBounded' BY <1>11, NotFurther DEF SessionLoop
  <2> QED BY <2>1, <2>2, <2>3
<1>12. CASE SessionDisconnect(m)
  <2>1. PositionOK' BY <1>12 DEF SessionDisconnect, Disconnect, PositionOK, Slots
  <2>2. ActiveEntryHeld' BY <1>12, HeldAfter DEF SessionDisconnect, Disconnect, PositionOK
  <2>3. BeyondBounded' BY <1>12, NotFurther DEF SessionDisconnect, Disconnect
  <2> QED BY <2>1, <2>2, <2>3
<1>13. CASE SessionRepeat(m)
  <2>1. PositionOK' BY <1>13 DEF SessionRepeat, Disconnect, PositionOK, Slots
  <2>2. ActiveEntryHeld' BY <1>13, HeldAfter DEF SessionRepeat, Disconnect, PositionOK
  <2>3. BeyondBounded' BY <1>13, NotFurther DEF SessionRepeat, Disconnect
  <2> QED BY <2>1, <2>2, <2>3
<1>14. CASE SessionRespond(m)
  <2>1. PositionOK' BY <1>14 DEF SessionRespond, PositionOK, Slots
  <2>2. ActiveEntryHeld' BY <1>14, HeldAfter DEF SessionRespond, PositionOK
  <2>3. BeyondBounded' BY <1>14, NotFurther DEF SessionRespond
  <2> QED BY <2>1, <2>2, <2>3
<1>15. CASE SessionExit(m)
  <2>1. PositionOK' BY <1>15 DEF SessionExit, PositionOK, Slots
  <2>2. ActiveEntryHeld' BY <1>15, HeldAfter DEF SessionExit, PositionOK
  <2>3. BeyondBounded' BY <1>15, NotFurther DEF SessionExit
  <2> QED BY <2>1, <2>2, <2>3
<1>16. CASE SessionEnd(m)
  <2>1. PositionOK' BY <1>16 DEF SessionEnd, PositionOK, Slots
  <2>2. ActiveEntryHeld' BY <1>16, HeldAfter DEF SessionEnd, PositionOK
  <2>3. BeyondBounded' BY <1>16, NotFurther DEF SessionEnd
  <2> QED BY <2>1, <2>2, <2>3
<1>17. CASE SessionPost(m)
  <2>1. PositionOK' BY <1>17 DEF SessionPost, PositionOK, Slots
  <2>2. ActiveEntryHeld' BY <1>17, HeldAfter DEF SessionPost, PositionOK
  <2>3. BeyondBounded' BY <1>17, NotFurther DEF SessionPost
  <2> QED BY <2>1, <2>2, <2>3
<1>18. CASE ManagerSkip(m)
  <2>1. PositionOK' BY <1>18 DEF ManagerSkip, PositionOK, Slots
  <2>2. ActiveEntryHeld' BY <1>18, HeldAfter DEF ManagerSkip
  <2>3. BeyondBounded' BY <1>18, SkipKeepsCount
  <2> QED BY <2>1, <2>2, <2>3
<1> QED BY <1>1, <1>2, <1>3, <1>4, <1>5, <1>6, <1>7, <1>8, <1>9, <1>10, <1>11, <1>12,
           <1>13, <1>14, <1>15, <1>16, <1>17, <1>18
  DEF ManagerAlone

\* The strengthened invariant: positions, holders of the active entries and the
\* count of the managers beyond each entry.
THEOREM ScanInvariant == Spec => []ScanInv
<1>1. Init => ScanInv
  <2> SUFFICES ASSUME Init PROVE ScanInv OBVIOUS
  <2>1. PositionOK BY DEF Init, PositionOK, InSession
  <2>2. ActiveEntryHeld BY DEF Init, ActiveEntryHeld
  <2>3. BeyondBounded
    <3> SUFFICES ASSUME NEW i \in 0 .. MAX_SESSION_COUNT
                 PROVE  Cardinality(Beyond(i)) <= MAX_SESSION_COUNT - i
      BY DEF BeyondBounded
    <3>1. Beyond(i) = {} BY DEF Init, Beyond
    <3> QED BY <3>1, FS_EmptySet, SessionPoolAssumption
  <2> QED BY <2>1, <2>2, <2>3 DEF ScanInv
<1>2. ASSUME TypeOK, ScanInv, [Next]_vars PROVE ScanInv'
  <2>1. CASE UNCHANGED vars
    BY <1>2, <2>1, AsideKeepsScanInv DEF vars, Aside, managerVars, sessionVars
  <2>2. CASE Next
    BY <1>2, <2>2, EnvironmentAside, HostAside, AsideKeepsScanInv, ManagerKeepsScanInv
    DEF Next, Environment
  <2> QED BY <1>2, <2>1, <2>2
<1> QED BY <1>1, <1>2, TypeCorrect, PTL DEF Spec

\* A manager that scans sessions[] without the mutex always finds a free entry,
\* so no request is dropped for want of one (main.c:536).
THEOREM ScanAlwaysFinds == Spec => []ScanFindsEntry
<1>1. TypeOK /\ ScanInv => ScanFindsEntry
  <2> SUFFICES ASSUME TypeOK, ScanInv, NEW m \in Managers, managerPc[m] = "scan"
               PROVE  pos[m] < MAX_SESSION_COUNT
    BY DEF ScanFindsEntry
  <2> DEFINE Last == Beyond(MAX_SESSION_COUNT)
  <2>1. IsFiniteSet(Last) /\ Cardinality(Last) \in Nat
    BY FS_Subset, FS_CardinalityType, SessionPoolAssumption DEF Beyond
  <2>2. Cardinality(Last) <= 0
    BY SessionPoolAssumption DEF ScanInv, BeyondBounded
  <2>3. Last = {} BY <2>1, <2>2, FS_EmptySet
  <2> QED BY <2>3, SessionPoolAssumption DEF Beyond, TypeOK
<1> QED BY <1>1, TypeCorrect, ScanInvariant, PTL

\* No way out of handle_session leaks an entry of sessions[]: the FIFOs that
\* cannot be opened, the CONNECT that cannot be answered, the end of the loop.
THEOREM EntriesAreHeld == Spec => []ActiveEntryHeld
<1>1. ScanInv => ActiveEntryHeld BY DEF ScanInv
<1> QED BY <1>1, ScanInvariant, PTL
=============================================================================
