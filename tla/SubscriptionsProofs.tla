------------------------ MODULE SubscriptionsProofs ------------------------
(***************************************************************************)
(* Type correctness of Subscriptions: no index leaves subscribed_keys or   *)
(* sessions[], for any number of sessions, subscriptions, keys, clients    *)
(* and job threads, although the host's sweep sets num_subscribed_keys to  *)
(* 0 between a manager's load and its store.                               *)
(***************************************************************************)
EXTENDS Subscriptions, TLAPS

\* What an entry and its manager hold.
Entries == [active : BOOLEAN, peer : Clients \cup {None}, num : -1 .. MAX_NUMBER_SUB,
            keys : [SubSlots -> Keys \cup {NoKey}]]
Steps == {"free", "open", "connect", "reset", "loop", "read", "subscribe", "add",
          "search", "shift", "load", "count", "disconnect", "respond", "end"}
ManagerStates == [pc : Steps, client : Clients \cup {None}, msg : Messages \cup {None},
                  at : -1 .. MAX_NUMBER_SUB, ok : BOOLEAN]

Unsubscribing(m) == m.pc \in {"search", "shift", "load", "count"} /\ m.msg.op = "UNSUBSCRIBE"

\* A manager and its entry.  The count is -1 only when an UNSUBSCRIBE has counted off
\* from the 0 of a sweep, whose session then ends before anything is stored in the
\* entry; and a count below the limit stays there until the manager has counted.
EntryInv(m, e) ==
  /\ m.pc # "free" => m.client \in Clients
  /\ m.pc \in {"subscribe", "add", "search", "shift", "load", "count", "disconnect",
               "respond"} => m.msg \in Messages
  /\ m.pc \in {"subscribe", "add"} => m.msg.op = "SUBSCRIBE"
  /\ m.pc \in {"search", "shift"} => m.msg.op = "UNSUBSCRIBE"
  /\ m.pc \in {"load", "count"} => m.msg.op \in {"SUBSCRIBE", "UNSUBSCRIBE"}
  /\ e.num = -1 => \/ m.pc \in {"free", "open", "connect", "reset", "end"}
                   \/ m.pc \in {"loop", "respond"} /\ ~ e.active
  /\ m.pc \in {"add", "load"} /\ ~ Unsubscribing(m) => e.num < MAX_NUMBER_SUB
  /\ m.pc \in {"search", "shift", "count"} => 0 <= m.at
  /\ m.pc = "count" /\ ~ Unsubscribing(m) => m.at < MAX_NUMBER_SUB
  /\ Unsubscribing(m) =>
       /\ m.pc \in {"shift", "load"} /\ e.num = 0 => ~ e.active
       /\ m.pc = "count" /\ m.at = 0 => ~ e.active

\* What is noted of a running notification.
Watches == [owed : SUBSET Clients, moved : SUBSET Clients,
            quiet : SUBSET Clients, fresh : SUBSET Clients]

\* The types of everything else, and the places of the job threads and the host.
RestInv ==
  /\ alive \in BOOLEAN /\ shared \in BOOLEAN /\ missed \in SUBSET Clients
  /\ client \in [Clients -> {"new", "waiting", "leaving", "hungup", "gone"} \cup InSession]
  /\ sent \in [Clients -> Messages \cup {None}]
  /\ stored \in SUBSET Keys
  /\ job \in [JobThreads ->
       [pc : {"job", "active", "num", "compare", "write"}, key : Keys \cup {NoKey},
        s : 0 .. MAX_SESSION_COUNT, j : 0 .. MAX_NUMBER_SUB]]
  /\ \A t \in JobThreads :
       /\ job[t].pc \in {"num", "compare", "write"} => job[t].s < MAX_SESSION_COUNT
       /\ job[t].pc \in {"compare", "write"} => job[t].j < MAX_NUMBER_SUB
  /\ host \in [pc : {"listen", "check", "close", "reset"}, i : 0 .. MAX_SESSION_COUNT]
  /\ host.pc \in {"close", "reset"} => host.i < MAX_SESSION_COUNT
  /\ requests \in [Clients -> 0 .. MaxRequests]
  /\ changes \in 0 .. MaxChanges
  /\ sweeps \in 0 .. MaxSweeps /\ crashes \in 0 .. MaxCrashes
  /\ subs \in [Clients -> [Keys -> Int]]
  /\ watch \in [JobThreads -> Watches]

EntriesInv ==
  /\ manager \in [Slots -> ManagerStates] /\ session \in [Slots -> Entries]
  /\ \A s \in Slots : EntryInv(manager[s], session[s])

SubsInv == EntriesInv /\ RestInv

\* It gives the types.
LEMMA TypesFollow == SubsInv => TypeOK
BY DEF SubsInv, EntriesInv, RestInv, TypeOK, ManagerStates, Entries, Steps, Watches, InSession

\* The numbers, and the slots of an entry.
LEMMA Numbers ==
  /\ MAX_SESSION_COUNT \in Nat \ {0} /\ MAX_NUMBER_SUB \in Nat \ {0}
  /\ Slots = 0 .. MAX_SESSION_COUNT - 1 /\ SubSlots = 0 .. MAX_NUMBER_SUB - 1
  /\ MaxRequests \in Nat /\ MaxChanges \in Nat /\ MaxSweeps \in Nat /\ MaxCrashes \in Nat
BY SubscriptionsAssumption DEF Slots, SubSlots

\* A step of one entry and its manager.
LEMMA EntryChange ==
  ASSUME EntriesInv, NEW s \in Slots, NEW m \in ManagerStates, NEW e \in Entries,
         EntryInv(m, e),
         manager' = [manager EXCEPT ![s] = m], session' = [session EXCEPT ![s] = e]
  PROVE  EntriesInv'
<1>1. /\ manager' \in [Slots -> ManagerStates] /\ session' \in [Slots -> Entries]
      /\ manager'[s] = m /\ session'[s] = e
      /\ \A u \in Slots \ {s} : manager'[u] = manager[u] /\ session'[u] = session[u]
  BY DEF EntriesInv
<1>2. ASSUME NEW u \in Slots PROVE EntryInv(manager'[u], session'[u])
  <2>1. CASE u = s BY <1>1, <2>1
  <2>2. CASE u # s BY <1>1, <2>2 DEF EntriesInv
  <2> QED BY <2>1, <2>2
<1>3. (\A u \in Slots : EntryInv(manager[u], session[u]))'
  BY <1>2 DEF EntryInv, Unsubscribing
<1> QED BY <1>1, <1>3 DEF EntriesInv

\* A step that leaves everything else alone.
LEMMA RestKept ==
  ASSUME RestInv, UNCHANGED <<alive, shared, client, sent, stored, job, host, countVars, historyVars>>
  PROVE  RestInv'
BY DEF RestInv, countVars, historyVars

\* A step that leaves the entries alone.
LEMMA EntriesKept == ASSUME EntriesInv, UNCHANGED <<manager, session>> PROVE EntriesInv'
BY DEF EntriesInv, EntryInv, Unsubscribing

-----------------------------------------------------------------------------
(* The manager of an entry.                                                *)

\* Every step of a manager keeps the invariant.
LEMMA ManagerStep == ASSUME SubsInv, NEW s \in Slots, ManagerNext(s) PROVE SubsInv'
<1> DEFINE m == manager[s]
           e == session[s]
<1>a. /\ EntriesInv /\ RestInv /\ EntryInv(m, e) /\ m \in ManagerStates /\ e \in Entries
      /\ manager = [manager EXCEPT ![s] = m] /\ session = [session EXCEPT ![s] = e]
  BY DEF SubsInv, EntriesInv
<1>1. CASE SessionOpen(s)
  <2> DEFINE r == [m EXCEPT !.pc = "connect"]
             d == [e EXCEPT !.peer = m.client]
  <2>1. manager' = [manager EXCEPT ![s] = r] /\ session' = [session EXCEPT ![s] = d]
    BY <1>a, <1>1 DEF SessionOpen, Step
  <2>f. m.pc = "open" /\ m.at \in -1 .. MAX_NUMBER_SUB /\ e.num \in -1 .. MAX_NUMBER_SUB
    BY <1>a, <1>1, Numbers DEF SessionOpen, Step, ManagerStates, Entries
  <2>r. r \in ManagerStates BY <1>a, <2>f, Numbers DEF ManagerStates, Steps
  <2>d. d \in Entries BY <1>a, <2>f, Numbers DEF ManagerStates, Entries
  <2>2. EntryInv(r, d) BY <1>a, <2>f, Numbers DEF ManagerStates, Entries, EntryInv, Unsubscribing
  <2>3. EntriesInv' BY <1>a, <2>1, <2>2, <2>r, <2>d, EntryChange
  <2>4. RestInv' BY <1>a, <1>1, RestKept DEF SessionOpen, managerFrame, historyVars
  <2> QED BY <2>3, <2>4 DEF SubsInv
<1>2. CASE SessionConnect(s)
  <2> DEFINE r == [m EXCEPT !.pc = "reset"]
             d == e
  <2>1. manager' = [manager EXCEPT ![s] = r] /\ session' = [session EXCEPT ![s] = d]
    BY <1>a, <1>2 DEF SessionConnect, Step
  <2>f. m.pc = "connect" /\ m.at \in -1 .. MAX_NUMBER_SUB /\ e.num \in -1 .. MAX_NUMBER_SUB
    BY <1>a, <1>2, Numbers DEF SessionConnect, Step, ManagerStates, Entries
  <2>r. r \in ManagerStates BY <1>a, <2>f, Numbers DEF ManagerStates, Steps
  <2>d. d \in Entries BY <1>a, <2>f, Numbers DEF ManagerStates, Entries
  <2>2. EntryInv(r, d) BY <1>a, <2>f, Numbers DEF ManagerStates, Entries, EntryInv, Unsubscribing
  <2>3. EntriesInv' BY <1>a, <2>1, <2>2, <2>r, <2>d, EntryChange
  <2>4. RestInv' BY <1>a, <1>2 DEF SessionConnect, managerFrame, countVars, RestInv, InSession
  <2> QED BY <2>3, <2>4 DEF SubsInv
<1>3. CASE SessionConnectFails(s)
  <2> DEFINE r == [m EXCEPT !.pc = "free"]
             d == [e EXCEPT !.active = FALSE]
  <2>1. manager' = [manager EXCEPT ![s] = r] /\ session' = [session EXCEPT ![s] = d]
    BY <1>a, <1>3 DEF SessionConnectFails, Step
  <2>f. m.pc = "connect" /\ m.at \in -1 .. MAX_NUMBER_SUB /\ e.num \in -1 .. MAX_NUMBER_SUB
    BY <1>a, <1>3, Numbers DEF SessionConnectFails, Step, ManagerStates, Entries
  <2>r. r \in ManagerStates BY <1>a, <2>f, Numbers DEF ManagerStates, Steps
  <2>d. d \in Entries BY <1>a, <2>f, Numbers DEF ManagerStates, Entries
  <2>2. EntryInv(r, d) BY <1>a, <2>f, Numbers DEF ManagerStates, Entries, EntryInv, Unsubscribing
  <2>3. EntriesInv' BY <1>a, <2>1, <2>2, <2>r, <2>d, EntryChange
  <2>4. RestInv' BY <1>a, <1>3, RestKept DEF SessionConnectFails, managerFrame, historyVars
  <2> QED BY <2>3, <2>4 DEF SubsInv
<1>4. CASE SessionLoop(s)
  <2> DEFINE r == [m EXCEPT !.pc = IF e.active /\ e.peer # None THEN "read" ELSE "end"]
             d == e
  <2>1. manager' = [manager EXCEPT ![s] = r] /\ session' = [session EXCEPT ![s] = d]
    BY <1>a, <1>4 DEF SessionLoop, Step
  <2>f. m.pc = "loop" /\ m.at \in -1 .. MAX_NUMBER_SUB /\ e.num \in -1 .. MAX_NUMBER_SUB
    BY <1>a, <1>4, Numbers DEF SessionLoop, Step, ManagerStates, Entries
  <2>r. r \in ManagerStates BY <1>a, <2>f, Numbers DEF ManagerStates, Steps
  <2>d. d \in Entries BY <1>a, <2>f, Numbers DEF ManagerStates, Entries
  <2>2. EntryInv(r, d) BY <1>a, <2>f, Numbers DEF ManagerStates, Entries, EntryInv, Unsubscribing
  <2>3. EntriesInv' BY <1>a, <2>1, <2>2, <2>r, <2>d, EntryChange
  <2>4. RestInv' BY <1>a, <1>4, RestKept DEF SessionLoop, managerFrame, historyVars
  <2> QED BY <2>3, <2>4 DEF SubsInv
<1>5. CASE SessionSubscribe(s)
  <2> DEFINE r == [m EXCEPT !.ok = m.msg.key \in stored,
                  !.pc = IF m.msg.key \in stored /\ e.num < MAX_NUMBER_SUB THEN "add" ELSE "respond"]
             d == e
  <2>1. manager' = [manager EXCEPT ![s] = r] /\ session' = [session EXCEPT ![s] = d]
    BY <1>a, <1>5 DEF SessionSubscribe
  <2>f. m.pc = "subscribe" /\ m.at \in -1 .. MAX_NUMBER_SUB /\ e.num \in -1 .. MAX_NUMBER_SUB
    BY <1>a, <1>5, Numbers DEF SessionSubscribe, ManagerStates, Entries
  <2>e1. (m.msg.key \in stored) \in BOOLEAN
    BY <1>a, <2>f, Numbers DEF EntryInv, Unsubscribing, Messages, Disconnect, ManagerStates, Entries
  <2>r. r \in ManagerStates BY <1>a, <2>f, <2>e1, Numbers DEF ManagerStates, Steps
  <2>d. d \in Entries BY <1>a, <2>f, <2>e1, Numbers DEF ManagerStates, Entries
  <2>2. EntryInv(r, d) BY <1>a, <2>f, <2>e1, Numbers DEF ManagerStates, Entries, EntryInv, Unsubscribing
  <2>3. EntriesInv' BY <1>a, <2>1, <2>2, <2>r, <2>d, EntryChange
  <2>4. RestInv' BY <1>a, <1>5, RestKept DEF SessionSubscribe, managerFrame, historyVars
  <2> QED BY <2>3, <2>4 DEF SubsInv
<1>6. CASE SessionAdd(s)
  <2> DEFINE r == [m EXCEPT !.pc = "load"]
             d == [e EXCEPT !.keys[e.num] = m.msg.key]
  <2>1. manager' = [manager EXCEPT ![s] = r] /\ session' = [session EXCEPT ![s] = d]
    BY <1>a, <1>6 DEF SessionAdd, Step
  <2>f. m.pc = "add" /\ m.at \in -1 .. MAX_NUMBER_SUB /\ e.num \in -1 .. MAX_NUMBER_SUB
    BY <1>a, <1>6, Numbers DEF SessionAdd, Step, ManagerStates, Entries
  <2>e1. m.msg.key \in Keys
    BY <1>a, <2>f, Numbers DEF EntryInv, Unsubscribing, Messages, Disconnect, ManagerStates, Entries
  <2>r. r \in ManagerStates BY <1>a, <2>f, <2>e1, Numbers DEF ManagerStates, Steps
  <2>d. d \in Entries BY <1>a, <2>f, <2>e1, Numbers DEF ManagerStates, Entries
  <2>2. EntryInv(r, d) BY <1>a, <2>f, <2>e1, Numbers DEF ManagerStates, Entries, EntryInv, Unsubscribing
  <2>3. EntriesInv' BY <1>a, <2>1, <2>2, <2>r, <2>d, EntryChange
  <2>4. RestInv' BY <1>a, <1>6, RestKept DEF SessionAdd, managerFrame, historyVars
  <2> QED BY <2>3, <2>4 DEF SubsInv
<1>7. CASE SessionLoad(s)
  <2> DEFINE r == [m EXCEPT !.pc = "count", !.at = e.num]
             d == e
  <2>1. manager' = [manager EXCEPT ![s] = r] /\ session' = [session EXCEPT ![s] = d]
    BY <1>a, <1>7 DEF SessionLoad
  <2>f. m.pc = "load" /\ m.at \in -1 .. MAX_NUMBER_SUB /\ e.num \in -1 .. MAX_NUMBER_SUB
    BY <1>a, <1>7, Numbers DEF SessionLoad, ManagerStates, Entries
  <2>r. r \in ManagerStates BY <1>a, <2>f, Numbers DEF ManagerStates, Steps
  <2>d. d \in Entries BY <1>a, <2>f, Numbers DEF ManagerStates, Entries
  <2>2. EntryInv(r, d) BY <1>a, <2>f, Numbers DEF ManagerStates, Entries, EntryInv, Unsubscribing
  <2>3. EntriesInv' BY <1>a, <2>1, <2>2, <2>r, <2>d, EntryChange
  <2>4. RestInv' BY <1>a, <1>7, RestKept DEF SessionLoad, managerFrame, historyVars
  <2> QED BY <2>3, <2>4 DEF SubsInv
<1>8. CASE SessionCount(s)
  <2> DEFINE r == [m EXCEPT !.pc = "respond"]
             d == [e EXCEPT !.num = m.at + (IF m.msg.op = "SUBSCRIBE" THEN 1 ELSE -1)]
  <2>1. manager' = [manager EXCEPT ![s] = r] /\ session' = [session EXCEPT ![s] = d]
    BY <1>a, <1>8 DEF SessionCount, Step
  <2>f. m.pc = "count" /\ m.at \in -1 .. MAX_NUMBER_SUB /\ e.num \in -1 .. MAX_NUMBER_SUB
    BY <1>a, <1>8, Numbers DEF SessionCount, Step, ManagerStates, Entries
  <2>e1. 0 <= m.at /\ d.num = m.at + (IF m.msg.op = "SUBSCRIBE" THEN 1 ELSE -1)
    BY <1>a, <2>f, Numbers DEF EntryInv, Unsubscribing, Messages, Disconnect, ManagerStates, Entries
  <2>e2. m.msg.op = "SUBSCRIBE" => m.at < MAX_NUMBER_SUB
    BY <1>a, <2>f, <2>e1, Numbers DEF EntryInv, Unsubscribing, Messages, Disconnect, ManagerStates, Entries
  <2>e3. m.msg.op # "SUBSCRIBE" => (m.at = 0 => ~ e.active)
    BY <1>a, <2>f, <2>e1, <2>e2, Numbers DEF EntryInv, Unsubscribing, Messages, Disconnect, ManagerStates, Entries
  <2>e4. d.num \in -1 .. MAX_NUMBER_SUB
    <3> HIDE DEF d, m, e
    <3>1. CASE m.msg.op = "SUBSCRIBE"
      <4>1. d.num = m.at + 1 /\ m.at < MAX_NUMBER_SUB BY <2>e1, <2>e2, <3>1
      <4> QED BY <2>f, <2>e1, <4>1, Numbers
    <3>2. CASE m.msg.op # "SUBSCRIBE"
      <4>1. d.num = m.at - 1 BY <2>e1, <2>f, <3>2
      <4> QED BY <2>f, <2>e1, <4>1, Numbers
    <3> QED BY <3>1, <3>2
  <2>e5. d.num = -1 => ~ e.active
    <3> HIDE DEF d, m, e
    <3> QED BY <2>f, <2>e1, <2>e3, Numbers
  <2>e6. d = [e EXCEPT !.num = d.num]
    BY <1>a DEF Entries
  <2>r. r \in ManagerStates BY <1>a, <2>f, <2>e1, <2>e2, <2>e3, <2>e4, <2>e5, <2>e6, Numbers DEF ManagerStates, Steps
  <2>d. d \in Entries BY <1>a, <2>f, <2>e1, <2>e2, <2>e3, <2>e4, <2>e5, <2>e6, Numbers DEF ManagerStates, Entries
  <2>2. EntryInv(r, d) BY <1>a, <2>f, <2>e1, <2>e2, <2>e3, <2>e4, <2>e5, <2>e6, Numbers DEF ManagerStates, Entries, EntryInv, Unsubscribing
  <2>3. EntriesInv' BY <1>a, <2>1, <2>2, <2>r, <2>d, EntryChange
  <2>4. RestInv' BY <1>a, <1>8, RestKept DEF SessionCount, managerFrame, historyVars
  <2> QED BY <2>3, <2>4 DEF SubsInv
<1>9. CASE SessionDisconnect(s)
  <2> DEFINE r == [m EXCEPT !.pc = "respond", !.ok = TRUE]
             d == [e EXCEPT !.active = FALSE, !.num = 0]
  <2>1. manager' = [manager EXCEPT ![s] = r] /\ session' = [session EXCEPT ![s] = d]
    BY <1>a, <1>9 DEF SessionDisconnect
  <2>f. m.pc = "disconnect" /\ m.at \in -1 .. MAX_NUMBER_SUB /\ e.num \in -1 .. MAX_NUMBER_SUB
    BY <1>a, <1>9, Numbers DEF SessionDisconnect, ManagerStates, Entries
  <2>e1. 0 \in -1 .. MAX_NUMBER_SUB
    BY <1>a, <2>f, Numbers DEF EntryInv, Unsubscribing, Messages, Disconnect, ManagerStates, Entries
  <2>r. r \in ManagerStates BY <1>a, <2>f, <2>e1, Numbers DEF ManagerStates, Steps
  <2>d. d \in Entries BY <1>a, <2>f, <2>e1, Numbers DEF ManagerStates, Entries
  <2>2. EntryInv(r, d) BY <1>a, <2>f, <2>e1, Numbers DEF ManagerStates, Entries, EntryInv, Unsubscribing
  <2>3. EntriesInv' BY <1>a, <2>1, <2>2, <2>r, <2>d, EntryChange
  <2>4. RestInv' BY <1>a, <1>9, RestKept DEF SessionDisconnect, managerFrame, historyVars
  <2> QED BY <2>3, <2>4 DEF SubsInv
<1>10. CASE SessionRespondFails(s)
  <2> DEFINE r == [m EXCEPT !.pc = "end"]
             d == e
  <2>1. manager' = [manager EXCEPT ![s] = r] /\ session' = [session EXCEPT ![s] = d]
    BY <1>a, <1>10 DEF SessionRespondFails, Step
  <2>f. m.pc = "respond" /\ m.at \in -1 .. MAX_NUMBER_SUB /\ e.num \in -1 .. MAX_NUMBER_SUB
    BY <1>a, <1>10, Numbers DEF SessionRespondFails, Step, ManagerStates, Entries
  <2>r. r \in ManagerStates BY <1>a, <2>f, Numbers DEF ManagerStates, Steps
  <2>d. d \in Entries BY <1>a, <2>f, Numbers DEF ManagerStates, Entries
  <2>2. EntryInv(r, d) BY <1>a, <2>f, Numbers DEF ManagerStates, Entries, EntryInv, Unsubscribing
  <2>3. EntriesInv' BY <1>a, <2>1, <2>2, <2>r, <2>d, EntryChange
  <2>4. RestInv' BY <1>a, <1>10, RestKept DEF SessionRespondFails, managerFrame, historyVars
  <2> QED BY <2>3, <2>4 DEF SubsInv
<1>11. CASE SessionEnd(s)
  <2> DEFINE r == [m EXCEPT !.pc = "free", !.client = None]
             d == [e EXCEPT !.active = FALSE]
  <2>1. manager' = [manager EXCEPT ![s] = r] /\ session' = [session EXCEPT ![s] = d]
    BY <1>a, <1>11 DEF SessionEnd
  <2>f. m.pc = "end" /\ m.at \in -1 .. MAX_NUMBER_SUB /\ e.num \in -1 .. MAX_NUMBER_SUB
    BY <1>a, <1>11, Numbers DEF SessionEnd, ManagerStates, Entries
  <2>r. r \in ManagerStates BY <1>a, <2>f, Numbers DEF ManagerStates, Steps
  <2>d. d \in Entries BY <1>a, <2>f, Numbers DEF ManagerStates, Entries
  <2>2. EntryInv(r, d) BY <1>a, <2>f, Numbers DEF ManagerStates, Entries, EntryInv, Unsubscribing
  <2>3. EntriesInv' BY <1>a, <2>1, <2>2, <2>r, <2>d, EntryChange
  <2>4. RestInv' BY <1>a, <1>11, RestKept DEF SessionEnd, managerFrame, historyVars
  <2> QED BY <2>3, <2>4 DEF SubsInv
<1>d. ASSUME NEW msg \in Messages, m.pc = "read", Dispatch(s, msg), UNCHANGED session
      PROVE  EntriesInv'
  <2> DEFINE r == [m EXCEPT !.pc = HandlerOf(msg), !.msg = msg, !.at = 0]
  <2>1. manager' = [manager EXCEPT ![s] = r] /\ session' = [session EXCEPT ![s] = e]
    BY <1>a, <1>d DEF Dispatch
  <2>2. /\ msg.op \in {"SUBSCRIBE", "UNSUBSCRIBE", "DISCONNECT"}
        /\ HandlerOf(msg) = CASE msg.op = "SUBSCRIBE"   -> "subscribe"
                              [] msg.op = "UNSUBSCRIBE" -> "search"
                              [] msg.op = "DISCONNECT"  -> "disconnect"
    BY DEF Messages, Disconnect, HandlerOf
  <2>3. 0 \in -1 .. MAX_NUMBER_SUB /\ HandlerOf(msg) \in {"subscribe", "search", "disconnect"}
    BY <2>2, Numbers
  <2>4. r \in ManagerStates BY <1>a, <2>3 DEF ManagerStates, Steps
  <2>5. /\ r.pc = HandlerOf(msg) /\ r.msg = msg /\ r.at = 0 /\ r.client = m.client
        /\ m.client \in Clients /\ e.num # -1
    BY <1>a, <1>d DEF ManagerStates, EntryInv
  <2>6. EntryInv(r, e) BY <2>2, <2>5 DEF EntryInv, Unsubscribing
  <2> QED BY <1>a, <2>1, <2>4, <2>6, EntryChange
<1>12. CASE SessionRead(s)
  <2>1. sent[m.client] \in Messages BY <1>a, <1>12 DEF SessionRead, EntryInv, RestInv
  <2>2. EntriesInv' BY <1>12, <1>d, <2>1 DEF SessionRead
  <2>3. RestInv' BY <1>a, <1>12 DEF SessionRead, managerFrame, countVars, RestInv
  <2> QED BY <2>2, <2>3 DEF SubsInv
<1>13. CASE SessionReadEOF(s)
  <2>1. PICK msg \in Messages : Dispatch(s, msg)
    BY <1>a, <1>13 DEF SessionReadEOF, ManagerStates
  <2>2. EntriesInv' BY <1>13, <1>d, <2>1 DEF SessionReadEOF
  <2>3. RestInv' BY <1>a, <1>13, RestKept DEF SessionReadEOF, managerFrame, historyVars
  <2> QED BY <2>2, <2>3 DEF SubsInv
<1>14. CASE SessionSearch(s)
  <2> DEFINE i == m.at
             r == CASE i >= e.num -> [m EXCEPT !.pc = "respond", !.ok = FALSE]
                    [] i < e.num /\ e.keys[i] = m.msg.key -> [m EXCEPT !.pc = "shift", !.ok = TRUE]
                    [] OTHER -> [m EXCEPT !.at = i + 1]
  <2>1. manager' = [manager EXCEPT ![s] = r] /\ session' = [session EXCEPT ![s] = e]
    BY <1>a, <1>14 DEF SessionSearch, SearchTurn
  <2>2. m.pc = "search" /\ m.at \in 0 .. MAX_NUMBER_SUB /\ e.num \in 0 .. MAX_NUMBER_SUB
    BY <1>a, <1>14, Numbers DEF SessionSearch, SearchTurn, EntryInv, ManagerStates, Entries
  <2>3. r \in ManagerStates /\ EntryInv(r, e)
    <3>a. m.msg \in Messages /\ m.msg.op = "UNSUBSCRIBE" /\ m.client \in Clients
      BY <1>a, <2>2 DEF EntryInv
    <3>1. CASE i >= e.num
      <4>0. ~ i < e.num BY <2>2, <3>1, Numbers
      <4>1. r = [m EXCEPT !.pc = "respond", !.ok = FALSE] BY <3>1, <4>0
      <4>2. r \in ManagerStates BY <1>a, <4>1 DEF ManagerStates, Steps
      <4>3. r.pc = "respond" /\ r.msg = m.msg /\ r.client = m.client
        BY <1>a, <4>1 DEF ManagerStates
      <4>4. e.num # -1 BY <2>2, Numbers
      <4> QED BY <3>a, <4>2, <4>3, <4>4 DEF EntryInv, Unsubscribing
    <3>2. CASE i < e.num /\ e.keys[i] = m.msg.key
      <4>1. ~ i >= e.num BY <2>2, <3>2, Numbers
      <4>2. r = [m EXCEPT !.pc = "shift", !.ok = TRUE] BY <3>2, <4>1
      <4>3. r \in ManagerStates BY <1>a, <4>2 DEF ManagerStates, Steps
      <4>4. r.pc = "shift" /\ r.msg = m.msg /\ r.client = m.client /\ r.at = i
        BY <1>a, <4>2 DEF ManagerStates
      <4>5. e.num # -1 /\ e.num # 0 /\ 0 <= i BY <2>2, <3>2, Numbers
      <4> QED BY <3>a, <4>3, <4>4, <4>5 DEF EntryInv, Unsubscribing
    <3>3. CASE i < e.num /\ e.keys[i] # m.msg.key
      <4>1. ~ i >= e.num BY <2>2, <3>3, Numbers
      <4>2. r = [m EXCEPT !.at = i + 1] BY <3>3, <4>1
      <4>3. i + 1 \in -1 .. MAX_NUMBER_SUB /\ 0 <= i + 1 /\ e.num # -1 BY <2>2, <3>3, Numbers
      <4>4. r \in ManagerStates BY <1>a, <4>2, <4>3 DEF ManagerStates
      <4>5. r.pc = "search" /\ r.msg = m.msg /\ r.client = m.client /\ r.at = i + 1
        BY <1>a, <2>2, <4>2 DEF ManagerStates
      <4> QED BY <3>a, <4>3, <4>4, <4>5 DEF EntryInv, Unsubscribing
    <3> QED BY <2>2, <3>1, <3>2, <3>3, Numbers
  <2>4. EntriesInv' BY <1>a, <2>1, <2>3, EntryChange
  <2>5. RestInv' BY <1>a, <1>14, RestKept DEF SessionSearch, SearchTurn, managerFrame, historyVars
  <2> QED BY <2>4, <2>5 DEF SubsInv
<1>15. CASE SessionShift(s)
  <2> DEFINE j == m.at
  <2>1. m.pc = "shift" /\ m.at \in 0 .. MAX_NUMBER_SUB /\ e.num \in 0 .. MAX_NUMBER_SUB
    BY <1>a, <1>15, Numbers, SMTT(30) DEF SessionShift, ShiftTurn, EntryInv, ManagerStates, Entries
  <2>2. EntriesInv'
    <3>1. CASE j < e.num - 1
      <4> DEFINE r == [m EXCEPT !.at = j + 1]
                 d == [e EXCEPT !.keys[j] = e.keys[j + 1]]
      <4>1. manager' = [manager EXCEPT ![s] = r] /\ session' = [session EXCEPT ![s] = d]
        BY <1>a, <1>15, <3>1 DEF SessionShift, ShiftTurn
      <4>2. j + 1 \in -1 .. MAX_NUMBER_SUB /\ j + 1 \in SubSlots /\ 0 <= j + 1
        BY <2>1, <3>1, Numbers
      <4>3. r \in ManagerStates BY <1>a, <4>2 DEF ManagerStates
      <4>4. d \in Entries BY <1>a, <4>2 DEF Entries
      <4>5. /\ r.pc = "shift" /\ r.msg = m.msg /\ r.client = m.client /\ r.at = j + 1
            /\ d.num = e.num /\ d.active = e.active
        BY <1>a, <2>1 DEF ManagerStates, Entries
      <4>6. EntryInv(r, d) BY <1>a, <2>1, <4>2, <4>5 DEF EntryInv, Unsubscribing
      <4> HIDE DEF r, d
      <4> QED BY <1>a, <4>1, <4>3, <4>4, <4>6, EntryChange
    <3>2. CASE ~ j < e.num - 1
      <4> DEFINE r == [m EXCEPT !.pc = "load"]
      <4>1. manager' = [manager EXCEPT ![s] = r] /\ session' = [session EXCEPT ![s] = e]
        BY <1>a, <1>15, <3>2 DEF SessionShift, ShiftTurn
      <4>2. r \in ManagerStates /\ EntryInv(r, e)
        BY <1>a, <2>1, Numbers DEF ManagerStates, Steps, EntryInv, Unsubscribing
      <4> HIDE DEF r
      <4> QED BY <1>a, <4>1, <4>2, EntryChange
    <3> QED BY <3>1, <3>2
  <2>3. RestInv' BY <1>a, <1>15, RestKept DEF SessionShift, ShiftTurn, managerFrame, historyVars
  <2> QED BY <2>2, <2>3 DEF SubsInv
<1>16. CASE SessionRespond(s)
  <2> DEFINE r == [m EXCEPT !.pc = "loop"]
  <2>1. manager' = [manager EXCEPT ![s] = r] /\ session' = [session EXCEPT ![s] = e]
    BY <1>a, <1>16 DEF SessionRespond, Step
  <2>2. r \in ManagerStates /\ EntryInv(r, e)
    BY <1>a, <1>16, Numbers DEF SessionRespond, Step, ManagerStates, Steps, EntryInv, Unsubscribing
  <2>3. EntriesInv' BY <1>a, <2>1, <2>2, EntryChange
  <2>4. client' \in [Clients -> {"new", "waiting", "leaving", "hungup", "gone"} \cup InSession]
    BY <1>a, <1>16 DEF SessionRespond, RestInv, InSession
  <2>5. subs' \in [Clients -> [Keys -> Int]]
    <3> DEFINE granted == IF m.msg.op = "SUBSCRIBE" THEN 1 ELSE -1
    <3>1. \/ subs' = [subs EXCEPT ![m.client] = [k \in Keys |-> 0]]
          \/ subs' = [subs EXCEPT ![m.client][m.msg.key] = @ + granted]
          \/ subs' = subs
      BY <1>16 DEF SessionRespond
    <3>2. \A c \in Clients, k \in Keys : subs[c][k] + granted \in Int BY <1>a DEF RestInv
    <3>3. subs \in [Clients -> [Keys -> Int]] BY <1>a DEF RestInv
    <3> DEFINE n == m.msg.key
               row == [subs[m.client] EXCEPT ![n] = subs[m.client][n] + granted]
    <3>4. m.client \in Clients BY <1>a, <1>16 DEF SessionRespond, Step, EntryInv
    <3>5. row \in [Keys -> Int] BY <3>2, <3>3, <3>4
    <3>6. [subs EXCEPT ![m.client][n] = @ + granted] = [subs EXCEPT ![m.client] = row] BY <3>3
    <3>7. [subs EXCEPT ![m.client] = row] \in [Clients -> [Keys -> Int]] BY <3>3, <3>5
    <3>a. [k \in Keys |-> 0] \in [Keys -> Int] OBVIOUS
    <3> DEFINE zero == [k \in Keys |-> 0]
    <3> HIDE DEF zero
    <3>8. [subs EXCEPT ![m.client] = zero] \in [Clients -> [Keys -> Int]] BY <3>3, <3>a DEF zero
    <3> QED BY <3>1, <3>3, <3>6, <3>7, <3>8
  <2>6. RestInv' BY <1>a, <1>16, <2>4, <2>5 DEF SessionRespond, managerFrame, countVars, RestInv
  <2> QED BY <2>3, <2>6 DEF SubsInv
<1>17. CASE SessionRespondDies(s)
  <2>1. EntriesInv' BY <1>a, <1>17, EntriesKept DEF SessionRespondDies
  <2>2. RestInv' BY <1>a, <1>17 DEF SessionRespondDies, managerFrame, countVars, RestInv
  <2> QED BY <2>1, <2>2 DEF SubsInv
<1>18. CASE SessionReset(s)
  <2> DEFINE r == [m EXCEPT !.pc = "loop"]
             d == [e EXCEPT !.num = 0]
  <2>1. manager' = [manager EXCEPT ![s] = r] /\ session' = [session EXCEPT ![s] = d]
    BY <1>a, <1>18 DEF SessionReset, Step
  <2>f. m.pc = "reset" /\ m.at \in -1 .. MAX_NUMBER_SUB /\ e.num \in -1 .. MAX_NUMBER_SUB
    BY <1>a, <1>18, Numbers DEF SessionReset, Step, ManagerStates, Entries
  <2>e1. 0 \in -1 .. MAX_NUMBER_SUB
    BY <1>a, <2>f, Numbers DEF EntryInv, Unsubscribing, Messages, Disconnect, ManagerStates, Entries
  <2>r. r \in ManagerStates BY <1>a, <2>f, <2>e1, Numbers DEF ManagerStates, Steps
  <2>d. d \in Entries BY <1>a, <2>f, <2>e1, Numbers DEF ManagerStates, Entries
  <2>2. EntryInv(r, d) BY <1>a, <2>f, <2>e1, Numbers DEF ManagerStates, Entries, EntryInv, Unsubscribing
  <2>3. EntriesInv' BY <1>a, <2>1, <2>2, <2>r, <2>d, EntryChange
  <2>4. RestInv' BY <1>a, <1>18, RestKept DEF SessionReset, managerFrame, historyVars
  <2> QED BY <2>3, <2>4 DEF SubsInv
<1> QED BY <1>1, <1>2, <1>3, <1>4, <1>5, <1>6, <1>7, <1>8, <1>9, <1>10, <1>11, <1>12, <1>13,
           <1>14, <1>15, <1>16, <1>17, <1>18 DEF ManagerNext

-----------------------------------------------------------------------------
(* The clients, the host and the jobs.                                     *)

\* Forget keeps to the type of watch, whoever is forgotten.
LEMMA Forgetting ==
  ASSUME RestInv, NEW c, Forget(c)
  PROVE  watch' \in [JobThreads -> Watches]
<1> DEFINE W == Watches
           f(t) == [watch[t] EXCEPT !.owed = @ \ {c}]
<1>1. watch' = [t \in JobThreads |-> f(t)] BY DEF Forget
<1>2. watch \in [JobThreads -> W] BY DEF RestInv
<1>3. ASSUME NEW t \in JobThreads PROVE f(t) \in W
  <2>1. watch[t] \in W BY <1>2
  <2>2. watch[t].owed \ {c} \in SUBSET Clients BY <2>1 DEF Watches
  <2> QED BY <2>1, <2>2 DEF Watches
<1> HIDE DEF f, W
<1>4. watch' \in [JobThreads -> W] BY <1>1, <1>3
<1> QED BY <1>4 DEF W

\* Every step of a client, and a new session, keeps the invariant.
LEMMA ClientStep ==
  ASSUME SubsInv, NEW c \in Clients,
         ClientNext(c) \/ \E s \in Slots : SessionClaim(s, c) \/ SessionOverlaps(s, c)
  PROVE  SubsInv'
<1>a. EntriesInv /\ RestInv BY DEF SubsInv
<1>1. ASSUME NEW k \in Keys, ClientSubscribe(c, k) PROVE SubsInv'
  <2>1. EntriesInv' BY <1>a, <1>1, EntriesKept DEF ClientSubscribe, serverVars
  <2>2. sent' \in [Clients -> Messages \cup {None}]
    BY <1>a, <1>1 DEF ClientSubscribe, RestInv, Messages
  <2>3. requests' \in [Clients -> 0 .. MaxRequests]
    BY <1>a, <1>1, Numbers, SMTT(30) DEF ClientSubscribe, RestInv
  <2>4. watch' \in [JobThreads -> Watches]
    <3> DEFINE f(t) == [watch[t] EXCEPT !.quiet = @ \ {c}]
               g(t) == IF job[t].key = k THEN f(t) ELSE watch[t]
    <3>1. watch' = [t \in JobThreads |-> g(t)] BY <1>1 DEF ClientSubscribe
    <3>2. ASSUME NEW t \in JobThreads PROVE watch[t] \in Watches /\ f(t) \in Watches
      <4>1. watch[t] \in Watches BY <1>a DEF RestInv
      <4>2. watch[t].quiet \ {c} \in SUBSET Clients BY <4>1 DEF Watches
      <4> QED BY <4>1, <4>2 DEF Watches
    <3> HIDE DEF f
    <3>3. \A t \in JobThreads : g(t) \in Watches BY <3>2
    <3> HIDE DEF g
    <3> QED BY <3>1, <3>3
  <2>5. RestInv' BY <1>a, <1>1, <2>2, <2>3, <2>4 DEF ClientSubscribe, RestInv, serverVars, InSession
  <2> QED BY <2>1, <2>5 DEF SubsInv
<1>2. ASSUME NEW k \in Keys, ClientUnsubscribe(c, k) PROVE SubsInv'
  <2>1. EntriesInv' BY <1>a, <1>2, EntriesKept DEF ClientUnsubscribe, serverVars
  <2>2. sent' \in [Clients -> Messages \cup {None}]
    BY <1>a, <1>2 DEF ClientUnsubscribe, RestInv, Messages
  <2>3. requests' \in [Clients -> 0 .. MaxRequests]
    BY <1>a, <1>2, Numbers, SMTT(30) DEF ClientUnsubscribe, RestInv
  <2>4. watch' \in [JobThreads -> Watches]
    <3> DEFINE f(t) == [watch[t] EXCEPT !.owed = @ \ {c}]
               h(t) == [watch[t] EXCEPT !.moved = @ \cup {c}]
               g(t) == IF job[t].key = k THEN f(t) ELSE h(t)
    <3>1. watch' = [t \in JobThreads |-> g(t)] BY <1>2 DEF ClientUnsubscribe
    <3>2. ASSUME NEW t \in JobThreads PROVE f(t) \in Watches /\ h(t) \in Watches
      <4>1. watch[t] \in Watches BY <1>a DEF RestInv
      <4>2. watch[t].owed \ {c} \in SUBSET Clients /\ watch[t].moved \cup {c} \in SUBSET Clients
        BY <4>1 DEF Watches
      <4> QED BY <4>1, <4>2 DEF Watches
    <3> HIDE DEF f, h
    <3>3. \A t \in JobThreads : g(t) \in Watches BY <3>2
    <3> HIDE DEF g
    <3> QED BY <3>1, <3>3
  <2>5. RestInv' BY <1>a, <1>2, <2>2, <2>3, <2>4 DEF ClientUnsubscribe, RestInv, serverVars, InSession
  <2> QED BY <2>1, <2>5 DEF SubsInv
<1>3. CASE ClientDisconnect(c)
  <2>1. EntriesInv' BY <1>a, <1>3, EntriesKept DEF ClientDisconnect, serverVars
  <2>w. watch' \in [JobThreads -> Watches] BY <1>a, <1>3, Forgetting DEF ClientDisconnect
  <2>2. RestInv'
    BY <1>a, <1>3, <2>w DEF ClientDisconnect, RestInv, serverVars, countVars, InSession, Messages
  <2> QED BY <2>1, <2>2 DEF SubsInv
<1>4. CASE ClientClose(c)
  <2>1. EntriesInv' BY <1>a, <1>4, EntriesKept DEF ClientClose, serverVars
  <2>2. RestInv' BY <1>a, <1>4 DEF ClientClose, RestInv, serverVars, countVars, historyVars
  <2> QED BY <2>1, <2>2 DEF SubsInv
<1>5. CASE ClientCrash(c)
  <2>1. EntriesInv' BY <1>a, <1>5, EntriesKept DEF ClientCrash, serverVars
  <2>2. crashes' \in 0 .. MaxCrashes BY <1>a, <1>5, Numbers DEF ClientCrash, RestInv
  <2>w. watch' \in [JobThreads -> Watches] BY <1>a, <1>5, Forgetting DEF ClientCrash
  <2>3. RestInv' BY <1>a, <1>5, <2>2, <2>w DEF ClientCrash, RestInv, serverVars
  <2> QED BY <2>1, <2>3 DEF SubsInv
<1>6. ASSUME NEW s \in Slots, SessionClaim(s, c) PROVE SubsInv'
  <2> DEFINE m == manager[s]
             e == session[s]
             r == [m EXCEPT !.pc = "open", !.client = c, !.msg = None]
             d == [e EXCEPT !.active = TRUE]
  <2>1. manager' = [manager EXCEPT ![s] = r] /\ session' = [session EXCEPT ![s] = d]
    BY <1>a, <1>6 DEF SessionClaim, EntriesInv
  <2>2. r \in ManagerStates /\ d \in Entries BY <1>a, ZenonT(60) DEF EntriesInv, ManagerStates, Steps, Entries
  <2>3. r.pc = "open" /\ r.client = c BY <1>a DEF EntriesInv, ManagerStates
  <2>4. EntryInv(r, d) BY <2>3 DEF EntryInv, Unsubscribing
  <2>5. EntriesInv' BY <1>a, <2>1, <2>2, <2>4, EntryChange
  <2>6. RestInv' BY <1>a, <1>6 DEF SessionClaim, RestInv, managerFrame, countVars
  <2> QED BY <2>5, <2>6 DEF SubsInv
<1>7. ASSUME NEW s \in Slots, SessionOverlaps(s, c) PROVE SubsInv'
  <2>1. EntriesInv' BY <1>a, <1>7, EntriesKept DEF SessionOverlaps
  <2>2. RestInv' BY <1>a, <1>7 DEF SessionOverlaps, RestInv, clientVars, countVars, historyVars
  <2> QED BY <2>1, <2>2 DEF SubsInv
<1> QED BY <1>1, <1>2, <1>3, <1>4, <1>5, <1>6, <1>7 DEF ClientNext

\* Every step of the sweep keeps the invariant: where it sets a count to 0 it also
\* makes the entry inactive.
LEMMA HostStep == ASSUME SubsInv, HostNext PROVE SubsInv'
<1>a. EntriesInv /\ RestInv BY DEF SubsInv
<1>b. manager = [manager EXCEPT ![host.i] = manager[host.i]] BY <1>a DEF EntriesInv
<1>1. CASE SweepStart
  <2>1. EntriesInv' BY <1>a, <1>1, EntriesKept DEF SweepStart, hostFrame
  <2>2. RestInv' BY <1>a, <1>1, Numbers DEF SweepStart, hostFrame, RestInv
  <2> QED BY <2>1, <2>2 DEF SubsInv
<1>2. CASE SweepCheck
  <2>1. EntriesInv' BY <1>a, <1>2, EntriesKept DEF SweepCheck, hostFrame
  <2>2. host.i \in 0 .. MAX_SESSION_COUNT /\ host.pc = "check" BY <1>a, <1>2 DEF SweepCheck, RestInv
  <2>3. \/ host' = [pc |-> "listen", i |-> 0]
        \/ host.i < MAX_SESSION_COUNT /\ host' = [host EXCEPT !.pc = "close"]
        \/ host.i < MAX_SESSION_COUNT /\ host' = [host EXCEPT !.i = @ + 1]
    BY <1>2, <2>2, Numbers DEF SweepCheck
  <2>4. /\ host' \in [pc : {"listen", "check", "close", "reset"}, i : 0 .. MAX_SESSION_COUNT]
        /\ host'.pc \in {"close", "reset"} => host'.i < MAX_SESSION_COUNT
    BY <1>a, <2>2, <2>3, Numbers, SMTT(30) DEF RestInv
  <2>5. RestInv' BY <1>a, <1>2, <2>4 DEF SweepCheck, hostFrame, RestInv
  <2> QED BY <2>1, <2>5 DEF SubsInv
<1>3. CASE SweepClose
  <2> DEFINE s == host.i
             m == manager[s]
             e == session[s]
             d == [e EXCEPT !.peer = None]
  <2>1. s \in Slots BY <1>a, <1>3, Numbers DEF SweepClose, RestInv
  <2>2. manager' = [manager EXCEPT ![s] = m] /\ session' = [session EXCEPT ![s] = d]
    BY <1>a, <1>b, <1>3, <2>1 DEF SweepClose, hostFrame, EntriesInv
  <2>3. /\ m \in ManagerStates /\ e \in Entries /\ EntryInv(m, e) BY <1>a, <2>1 DEF EntriesInv
  <2>4. d \in Entries /\ d.num = e.num /\ d.active = e.active BY <2>3 DEF Entries
  <2>5. EntryInv(m, d) BY <2>3, <2>4 DEF EntryInv, Unsubscribing
  <2>6. EntriesInv'
    <3> HIDE DEF m, d, s
    <3> QED BY <1>a, <2>1, <2>2, <2>3, <2>4, <2>5, EntryChange
  <2>7. client' \in [Clients -> {"new", "waiting", "leaving", "hungup", "gone"} \cup InSession]
    BY <1>a, <1>3 DEF SweepClose, RestInv
  <2>8. watch' \in [JobThreads -> Watches]
    BY <1>a, <1>3, Forgetting DEF SweepClose
  <2>9. RestInv' BY <1>a, <1>3, <2>7, <2>8 DEF SweepClose, hostFrame, RestInv
  <2> QED BY <2>6, <2>9 DEF SubsInv
<1>4. CASE SweepReset
  <2> DEFINE s == host.i
             m == manager[s]
             e == session[s]
             d == [e EXCEPT !.active = FALSE, !.num = 0]
  <2>1. s \in Slots /\ s + 1 \in 0 .. MAX_SESSION_COUNT
    BY <1>a, <1>4, Numbers DEF SweepReset, RestInv
  <2>2. manager' = [manager EXCEPT ![s] = m] /\ session' = [session EXCEPT ![s] = d]
    BY <1>a, <1>b, <1>4, <2>1 DEF SweepReset, hostFrame, EntriesInv
  <2>3. /\ m \in ManagerStates /\ e \in Entries /\ EntryInv(m, e) BY <1>a, <2>1 DEF EntriesInv
  <2>0. 0 \in -1 .. MAX_NUMBER_SUB BY Numbers
  <2>4. d \in Entries /\ d.num = 0 /\ ~ d.active BY <2>0, <2>3 DEF Entries
  <2>5. EntryInv(m, d) BY <2>3, <2>4, Numbers DEF EntryInv, Unsubscribing
  <2>6. EntriesInv'
    <3> HIDE DEF m, d, s
    <3> QED BY <1>a, <2>1, <2>2, <2>3, <2>4, <2>5, EntryChange
  <2>7. watch' \in [JobThreads -> Watches]
    BY <1>a, <1>4, Forgetting DEF SweepReset
  <2>8. RestInv' BY <1>a, <1>4, <2>1, <2>7 DEF SweepReset, hostFrame, RestInv
  <2> QED BY <2>6, <2>8 DEF SubsInv
<1> QED BY <1>1, <1>2, <1>3, <1>4 DEF HostNext

\* Every step of a job thread keeps the invariant: its indices stay inside the arrays,
\* whatever the count is by the time it reads the next slot.
LEMMA JobStep ==
  ASSUME SubsInv, NEW t \in JobThreads,
         NotifyNext(t) \/ \E k \in Keys : JobWrite(t, k) \/ JobDelete(t, k)
  PROVE  SubsInv'
<1>a. EntriesInv /\ RestInv BY DEF SubsInv
<1> DEFINE Places == [pc : {"job", "active", "num", "compare", "write"}, key : Keys \cup {NoKey},
                      s : 0 .. MAX_SESSION_COUNT, j : 0 .. MAX_NUMBER_SUB]
           p == job[t]
<1>p. p \in Places /\ job \in [JobThreads -> Places] BY <1>a DEF RestInv
<1>q. /\ p.pc \in {"num", "compare", "write"} => p.s < MAX_SESSION_COUNT
      /\ p.pc \in {"compare", "write"} => p.j < MAX_NUMBER_SUB
  BY <1>a DEF RestInv
<1>c. ASSUME NEW q \in Places, job' = [job EXCEPT ![t] = q],
             q.pc \in {"num", "compare", "write"} => q.s < MAX_SESSION_COUNT,
             q.pc \in {"compare", "write"} => q.j < MAX_NUMBER_SUB,
             alive' \in BOOLEAN, stored' \in SUBSET Keys, changes' \in 0 .. MaxChanges,
             watch' \in [JobThreads -> Watches],
             UNCHANGED jobFrame
      PROVE  SubsInv'
  <2>1. EntriesInv' BY <1>a, <1>c, EntriesKept DEF jobFrame
  <2>2. /\ job' \in [JobThreads -> Places]
        /\ \A u \in JobThreads :
             /\ job'[u].pc \in {"num", "compare", "write"} => job'[u].s < MAX_SESSION_COUNT
             /\ job'[u].pc \in {"compare", "write"} => job'[u].j < MAX_NUMBER_SUB
    BY <1>a, <1>p, <1>c DEF RestInv
  <2>3. RestInv' BY <1>a, <1>c, <2>2 DEF jobFrame, RestInv
  <2> QED BY <2>1, <2>3 DEF SubsInv
<1>w. /\ alive \in BOOLEAN /\ stored \in SUBSET Keys /\ changes \in 0 .. MaxChanges
      /\ watch \in [JobThreads -> Watches]
  BY <1>a DEF RestInv
<1>1. CASE NotifyActive(t)
  <2> DEFINE q == IF session[p.s].active THEN [p EXCEPT !.pc = "num", !.j = 0]
                                         ELSE [p EXCEPT !.s = p.s + 1]
  <2>1. job' = [job EXCEPT ![t] = q] /\ p.s < MAX_SESSION_COUNT /\ p.pc = "active"
    BY <1>1, <1>p DEF NotifyActive
  <2>2. 0 \in 0 .. MAX_NUMBER_SUB /\ p.s + 1 \in 0 .. MAX_SESSION_COUNT BY <1>p, <2>1, Numbers
  <2>3. /\ q \in Places /\ (q.pc = "num" => q.s < MAX_SESSION_COUNT)
        /\ q.pc \in {"num", "active"}
    <3>1. CASE session[p.s].active BY <1>p, <2>1, <2>2, <3>1
    <3>2. CASE ~ session[p.s].active
      <4>1. q = [p EXCEPT !.s = p.s + 1] BY <3>2
      <4> HIDE DEF q
      <4> QED BY <1>p, <2>1, <2>2, <4>1
    <3> QED BY <3>1, <3>2
  <2> HIDE DEF q
  <2> QED BY <1>1, <1>c, <1>w, <2>1, <2>3 DEF NotifyActive
<1>2. CASE NotifyNum(t)
  <2> DEFINE q == IF p.j < session[p.s].num THEN [p EXCEPT !.pc = "compare"]
                                            ELSE [p EXCEPT !.pc = "active", !.s = p.s + 1]
  <2>1. job' = [job EXCEPT ![t] = q] /\ p.pc = "num" BY <1>2, <1>p DEF NotifyNum
  <2>2. p.s \in Slots /\ p.s + 1 \in 0 .. MAX_SESSION_COUNT BY <1>p, <1>q, <2>1, Numbers
  <2>3. session[p.s].num \in -1 .. MAX_NUMBER_SUB BY <1>a, <2>2 DEF EntriesInv, Entries
  <2>4. /\ q \in Places /\ q.pc \in {"compare", "active"}
        /\ q.pc = "compare" => q.s < MAX_SESSION_COUNT /\ q.j < MAX_NUMBER_SUB
    <3>1. CASE p.j < session[p.s].num
      <4>1. p.j < MAX_NUMBER_SUB BY <1>p, <2>3, <3>1, Numbers
      <4> QED BY <1>p, <1>q, <2>1, <3>1, <4>1
    <3>2. CASE ~ p.j < session[p.s].num
      <4>1. q = [p EXCEPT !.pc = "active", !.s = p.s + 1] BY <3>2
      <4> HIDE DEF q
      <4> QED BY <1>p, <2>2, <4>1
    <3> QED BY <3>1, <3>2
  <2> HIDE DEF q
  <2> QED BY <1>2, <1>c, <1>w, <2>1, <2>4 DEF NotifyNum
<1>3. CASE NotifyCompare(t)
  <2> DEFINE q == IF session[p.s].keys[p.j] = p.key THEN [p EXCEPT !.pc = "write"]
                                                    ELSE [p EXCEPT !.pc = "num", !.j = p.j + 1]
  <2>1. job' = [job EXCEPT ![t] = q] /\ p.pc = "compare" BY <1>3, <1>p DEF NotifyCompare
  <2>2. p.j + 1 \in 0 .. MAX_NUMBER_SUB BY <1>p, <1>q, <2>1, Numbers
  <2>3. /\ q \in Places /\ q.pc \in {"num", "write"} /\ q.s < MAX_SESSION_COUNT
        /\ q.pc = "write" => q.j < MAX_NUMBER_SUB
    BY <1>p, <1>q, <2>1, <2>2, Numbers
  <2> HIDE DEF q
  <2> QED BY <1>3, <1>c, <1>w, <2>1, <2>3 DEF NotifyCompare
<1>4. CASE NotifyWrite(t)
  <2> DEFINE q == [p EXCEPT !.pc = "num", !.j = p.j + 1]
  <2>1. job' = [job EXCEPT ![t] = q] /\ p.pc = "write" BY <1>4, <1>p DEF NotifyWrite
  <2>2. p.j + 1 \in 0 .. MAX_NUMBER_SUB BY <1>p, <1>q, <2>1, Numbers
  <2>3. q \in Places /\ q.pc = "num" /\ q.s < MAX_SESSION_COUNT BY <1>p, <1>q, <2>1, <2>2, Numbers
  <2>4. alive' \in BOOLEAN BY <1>4 DEF NotifyWrite
  <2>5. watch' \in [JobThreads -> Watches]
    BY <1>4, <1>w DEF NotifyWrite, Watches
  <2> HIDE DEF q
  <2> QED BY <1>4, <1>c, <1>w, <2>1, <2>3, <2>4, <2>5 DEF NotifyWrite
<1>5. CASE NotifyEnd(t)
  <2> DEFINE q == [p EXCEPT !.pc = "job"]
  <2>1. job' = [job EXCEPT ![t] = q] BY <1>5, <1>p DEF NotifyEnd
  <2>2. q \in Places /\ q.pc = "job" BY <1>p
  <2>3. watch' \in [JobThreads -> Watches]
    BY <1>5, <1>w DEF NotifyEnd, Nobody, Watches
  <2> HIDE DEF q
  <2> QED BY <1>5, <1>c, <1>w, <2>1, <2>2, <2>3 DEF NotifyEnd
<1>6. ASSUME NEW k \in Keys, NEW stored1 \in SUBSET Keys, JobChange(t, k, stored1) PROVE SubsInv'
  <2> DEFINE q == [pc |-> "active", key |-> k, s |-> 0, j |-> 0]
  <2>1. job' = [job EXCEPT ![t] = q] BY <1>6 DEF JobChange
  <2>2. q \in Places /\ q.pc = "active" BY Numbers
  <2>3. changes' \in 0 .. MaxChanges BY <1>6, <1>w, Numbers DEF JobChange
  <2>4. watch' \in [JobThreads -> Watches]
    <3> DEFINE idle == {c \in Clients : client[c] = "idle"}
               x == [owed |-> {c \in idle : Subscribed(c, k)}, moved |-> {},
                     quiet |-> {c \in idle : subs[c][k] = 0},
                     fresh |-> {c \in idle : Fresh(c)}]
    <3>1. watch' = [watch EXCEPT ![t] = x] BY <1>6 DEF JobChange
    <3>2. x \in Watches BY DEF Watches
    <3> HIDE DEF x
    <3> QED BY <1>w, <3>1, <3>2
  <2> HIDE DEF q
  <2> QED BY <1>6, <1>c, <1>w, <2>1, <2>2, <2>3, <2>4 DEF JobChange
<1>7. ASSUME NEW k \in Keys, JobWrite(t, k) \/ JobDelete(t, k) PROVE SubsInv'
  <2>1. stored \cup {k} \in SUBSET Keys /\ stored \ {k} \in SUBSET Keys BY <1>w
  <2> QED BY <1>6, <1>7, <2>1 DEF JobWrite, JobDelete
<1> QED BY <1>1, <1>2, <1>3, <1>4, <1>5, <1>7 DEF NotifyNext

-----------------------------------------------------------------------------
\* At first no session is active and nothing runs.
LEMMA SubsInit == Init => SubsInv
<1> SUFFICES ASSUME Init PROVE SubsInv OBVIOUS
<1>1. EntriesInv
  <2>1. manager \in [Slots -> ManagerStates] BY Numbers DEF Init, ManagerStates, Steps
  <2>2. session \in [Slots -> Entries] BY Numbers DEF Init, Entries
  <2>3. \A s \in Slots : manager[s].pc = "free" /\ session[s].num = 0 BY DEF Init
  <2>4. \A s \in Slots : EntryInv(manager[s], session[s])
    BY <2>3 DEF EntryInv, Unsubscribing
  <2> QED BY <2>1, <2>2, <2>4 DEF EntriesInv
<1>2. RestInv
  <2>1. job \in [JobThreads ->
          [pc : {"job", "active", "num", "compare", "write"}, key : Keys \cup {NoKey},
           s : 0 .. MAX_SESSION_COUNT, j : 0 .. MAX_NUMBER_SUB]]
    BY Numbers DEF Init
  <2>2. \A t \in JobThreads : job[t].pc = "job" BY DEF Init
  <2>3. host \in [pc : {"listen", "check", "close", "reset"}, i : 0 .. MAX_SESSION_COUNT]
    BY Numbers DEF Init
  <2>4. subs \in [Clients -> [Keys -> Int]] BY DEF Init
  <2>5. watch \in [JobThreads -> Watches]
    BY DEF Init, Nobody, Watches
  <2>6. requests \in [Clients -> 0 .. MaxRequests] BY Numbers DEF Init
  <2>7. changes \in 0 .. MaxChanges /\ sweeps \in 0 .. MaxSweeps /\ crashes \in 0 .. MaxCrashes
    BY Numbers DEF Init
  <2> QED BY <2>1, <2>2, <2>3, <2>4, <2>5, <2>6, <2>7 DEF Init, RestInv
<1> QED BY <1>1, <1>2 DEF SubsInv

\* The invariant is inductive.
LEMMA SubsStep == SubsInv /\ [Next]_vars => SubsInv'
<1> SUFFICES ASSUME SubsInv, [Next]_vars PROVE SubsInv' OBVIOUS
<1>1. CASE UNCHANGED vars
  <2>1. EntriesInv' BY <1>1, EntriesKept DEF vars, serverVars, SubsInv
  <2>2. RestInv' BY <1>1, RestKept DEF vars, serverVars, clientVars, SubsInv
  <2> QED BY <2>1, <2>2 DEF SubsInv
<1>2. CASE Next BY <1>2, ClientStep, ManagerStep, HostStep, JobStep DEF Next, Running
<1> QED BY <1>1, <1>2

\* Subscriptions keeps to its types: no manager writes and no job thread reads outside
\* the subscribed_keys of an entry (main.c:102-123, 302-337), although a sweep may set
\* num_subscribed_keys to 0 between any two of their steps.
THEOREM SubscriptionsTypeCorrect == Spec => []TypeOK
BY SubsInit, SubsStep, TypesFollow, PTL DEF Spec
=============================================================================
