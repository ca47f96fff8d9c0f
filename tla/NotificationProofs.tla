-------------------------- MODULE NotificationProofs --------------------------
(***************************************************************************)
(* What the clients of Subscriptions can rely on, for any number of        *)
(* sessions, subscriptions, keys, clients, job threads and sweeps: the     *)
(* entries agree with what the clients were granted, steady clients are    *)
(* told of every change and quiet ones of none, and a client in session is *)
(* served unless a sweep has passed over its entry too early.              *)
(*                                                                         *)
(* Places says which client each entry belongs to at each step of its      *)
(* manager; the other parts of the invariant rest on it.                   *)
(***************************************************************************)
EXTENDS SubscriptionsProofs, FiniteSetTheorems

Handling == {"subscribe", "add", "search", "shift", "load", "count", "disconnect", "respond"}

\* Manager and entry, the clients and their FIFOs: the client a manager serves is at
\* the other end of the FIFOs unless the sweep closed them, and the two take turns.
\* Before the manager has opened the FIFOs they are those of the session before.
Place(m, e, cl, st) ==
  LET c == m.client IN
  /\ m.pc = "free" /\ c # None => cl[c] \in {"hungup", "gone"}
  /\ m.pc = "open" => cl[c] = "waiting" /\ e.peer # c
  /\ m.pc = "connect" => \/ e.peer = c /\ cl[c] = "waiting"
                         \/ e.peer = None /\ cl[c] \in {"hungup", "gone"}
  /\ m.pc \notin {"free", "open", "connect"} =>
       \/ e.peer = c /\ cl[c] \in InSession \cup {"leaving", "gone"}
       \/ e.peer = None /\ cl[c] \in {"hungup", "leaving", "gone"}
  /\ m.pc \in Handling /\ e.peer # None =>
       \/ cl[c] = "asking" /\ st[c] = None
       \/ cl[c] = "gone"
  /\ m.pc \in {"reset", "loop", "read", "end"} /\ cl[c] = "asking" => st[c] # None
  /\ m.pc = "loop" /\ cl[c] = "leaving" => ~ e.active
  /\ m.pc \in {"reset", "read"} => cl[c] # "leaving"
  /\ m.pc = "end" => ~ e.active \/ e.peer = None
  /\ m.pc = "respond" /\ m.msg.op = "DISCONNECT" => ~ e.active
  /\ c # None => cl[c] # "new"
  /\ e.peer # None => cl[e.peer] # "new"

\* No entry belongs to a client that another entry's manager serves.
Alone ==
  \A s, u \in Slots :
    manager[s].client # None /\ manager[s].client \in {manager[u].client, session[u].peer}
      => s = u

\* A client that is not waiting for a response has no request on its way, and none
\* has a subscription before its session.
Unbegun ==
  \A c \in Clients :
    /\ client[c] \in {"new", "waiting", "idle"} => sent[c] = None
    /\ client[c] \in {"new", "waiting"} => \A k \in Keys : subs[c][k] = 0

Places ==
  /\ \A s \in Slots : Place(manager[s], session[s], client, sent)
  /\ Alone /\ Unbegun

-----------------------------------------------------------------------------
(* What the steps of a manager change.                                     *)

\* Only its own manager and entry, and only its own client.
LEMMA ManagerFrame ==
  ASSUME SubsInv, NEW s \in Slots, ManagerNext(s)
  PROVE  /\ manager[s].client \in Clients
         /\ \A u \in Slots \ {s} : manager'[u] = manager[u] /\ session'[u] = session[u]
         /\ \A c \in Clients \ {manager[s].client} :
              client'[c] = client[c] /\ sent'[c] = sent[c] /\ subs'[c] = subs[c]
         /\ UNCHANGED managerFrame
<1>a. /\ manager \in [Slots -> ManagerStates] /\ session \in [Slots -> Entries]
      /\ EntryInv(manager[s], session[s])
      /\ client \in [Clients -> {"new", "waiting", "leaving", "hungup", "gone"} \cup InSession]
      /\ sent \in [Clients -> Messages \cup {None}] /\ subs \in [Clients -> [Keys -> Int]]
  BY DEF SubsInv, EntriesInv, RestInv
<1>1. manager[s].pc # "free"
  BY DEF ManagerNext, SessionOpen, SessionConnect, SessionConnectFails, SessionReset, SessionLoop,
         SessionRead, SessionReadEOF, SessionSubscribe, SessionAdd, SessionLoad, SessionCount, SessionSearch,
         SearchTurn, SessionShift, ShiftTurn, SessionDisconnect, SessionRespond,
         SessionRespondFails, SessionRespondDies, SessionEnd, Step
<1>2. manager[s].client \in Clients BY <1>a, <1>1 DEF EntryInv
<1>3. \A u \in Slots \ {s} : manager'[u] = manager[u]
  BY <1>a DEF ManagerNext, SessionOpen, SessionConnect, SessionConnectFails, SessionReset,
         SessionLoop, SessionRead, SessionReadEOF, Dispatch, SessionSubscribe, SessionAdd, SessionLoad,
         SessionCount, SessionSearch, SearchTurn, SessionShift, ShiftTurn, SessionDisconnect,
         SessionRespond, SessionRespondFails, SessionRespondDies, SessionEnd, Step
<1>4. \A u \in Slots \ {s} : session'[u] = session[u]
  BY <1>a DEF ManagerNext, SessionOpen, SessionConnect, SessionConnectFails, SessionReset,
         SessionLoop, SessionRead, SessionReadEOF, SessionSubscribe, SessionAdd, SessionLoad,
         SessionCount, SessionSearch, SearchTurn, SessionShift, ShiftTurn, SessionDisconnect,
         SessionRespond, SessionRespondFails, SessionRespondDies, SessionEnd
<1>5. \A c \in Clients \ {manager[s].client} :
        client'[c] = client[c] /\ sent'[c] = sent[c] /\ subs'[c] = subs[c]
  BY <1>a DEF ManagerNext, SessionOpen, SessionConnect, SessionConnectFails, SessionReset,
         SessionLoop, SessionRead, SessionReadEOF, SessionSubscribe, SessionAdd, SessionLoad,
         SessionCount, SessionSearch, SearchTurn, SessionShift, ShiftTurn, SessionDisconnect,
         SessionRespond, SessionRespondFails, SessionRespondDies, SessionEnd
<1>6. UNCHANGED managerFrame
  BY DEF ManagerNext, SessionOpen, SessionConnect, SessionConnectFails, SessionReset,
         SessionLoop, SessionRead, SessionReadEOF, SessionSubscribe, SessionAdd, SessionLoad,
         SessionCount, SessionSearch, SearchTurn, SessionShift, ShiftTurn, SessionDisconnect,
         SessionRespond, SessionRespondFails, SessionRespondDies, SessionEnd
<1> QED BY <1>2, <1>3, <1>4, <1>5, <1>6

\* The pieces of a manager's step: where it goes, and what it keeps.
Turn(s, from, to) ==
  /\ manager[s].pc = from /\ manager'[s].pc = to
  /\ manager'[s].client = manager[s].client
RequestKept(s) ==
  /\ manager'[s].msg = manager[s].msg /\ manager'[s].at = manager[s].at
  /\ manager'[s].ok = manager[s].ok
ActiveKept(s) ==
  session'[s].active = session[s].active /\ session'[s].peer = session[s].peer
KeysKept(s) == session'[s].num = session[s].num /\ session'[s].keys = session[s].keys
ClientsKept == UNCHANGED <<client, sent, subs>>

\* Opening the FIFOs and connecting: the entry gets its client, and then its count 0.
LEMMA ConnectEffect ==
  ASSUME SubsInv, NEW s \in Slots
  PROVE  /\ SessionOpen(s) =>
              /\ Turn(s, "open", "connect") /\ RequestKept(s) /\ KeysKept(s) /\ ClientsKept
              /\ session'[s].peer = manager[s].client
              /\ session'[s].active = session[s].active
         /\ SessionConnect(s) =>
              /\ Turn(s, "connect", "reset") /\ RequestKept(s) /\ ActiveKept(s) /\ KeysKept(s)
              /\ session[s].peer # None
              /\ client'[manager[s].client] = "idle" /\ UNCHANGED <<sent, subs>>
         /\ SessionReset(s) =>
              /\ Turn(s, "reset", "loop") /\ RequestKept(s) /\ ActiveKept(s) /\ ClientsKept
              /\ session'[s].num = 0 /\ session'[s].keys = session[s].keys
         /\ SessionConnectFails(s) =>
              /\ Turn(s, "connect", "free") /\ RequestKept(s) /\ KeysKept(s) /\ ClientsKept
              /\ session[s].peer = None /\ session'[s].peer = None /\ ~ session'[s].active
<1>a. /\ manager \in [Slots -> ManagerStates] /\ session \in [Slots -> Entries]
      /\ EntryInv(manager[s], session[s])
      /\ client \in [Clients -> {"new", "waiting", "leaving", "hungup", "gone"} \cup InSession]
  BY DEF SubsInv, EntriesInv, RestInv
<1> USE DEF Turn, RequestKept, KeysKept, ActiveKept, ClientsKept, ManagerStates, Entries, Step
<1>1. ASSUME SessionOpen(s)
      PROVE  /\ Turn(s, "open", "connect") /\ RequestKept(s) /\ KeysKept(s) /\ ClientsKept
             /\ session'[s].peer = manager[s].client
             /\ session'[s].active = session[s].active
  BY <1>a, <1>1 DEF SessionOpen
<1>2. ASSUME SessionConnect(s)
      PROVE  /\ Turn(s, "connect", "reset") /\ RequestKept(s) /\ ActiveKept(s) /\ KeysKept(s)
             /\ session[s].peer # None
             /\ client'[manager[s].client] = "idle" /\ UNCHANGED <<sent, subs>>
  <2>1. manager[s].client \in Clients BY <1>a, <1>2 DEF SessionConnect, EntryInv
  <2> QED BY <1>a, <1>2, <2>1 DEF SessionConnect
<1>3. ASSUME SessionConnectFails(s)
      PROVE  /\ Turn(s, "connect", "free") /\ RequestKept(s) /\ KeysKept(s) /\ ClientsKept
             /\ session[s].peer = None /\ session'[s].peer = None /\ ~ session'[s].active
  BY <1>a, <1>3 DEF SessionConnectFails
<1>4. ASSUME SessionReset(s)
      PROVE  /\ Turn(s, "reset", "loop") /\ RequestKept(s) /\ ActiveKept(s) /\ ClientsKept
             /\ session'[s].num = 0 /\ session'[s].keys = session[s].keys
  BY <1>a, <1>4 DEF SessionReset
<1> QED BY <1>1, <1>2, <1>3, <1>4

\* The start of the loop and the read: a message, or at the end of file the message
\* before or none that was ever sent.
LEMMA ReadEffect ==
  ASSUME SubsInv, NEW s \in Slots
  PROVE  /\ SessionLoop(s) =>
              /\ session'[s] = session[s] /\ RequestKept(s) /\ ClientsKept
              /\ \/ Turn(s, "loop", "read") /\ session[s].active /\ session[s].peer # None
                 \/ Turn(s, "loop", "end") /\ (~ session[s].active \/ session[s].peer = None)
         /\ SessionRead(s) \/ SessionReadEOF(s) =>
              /\ manager[s].pc = "read" /\ session'[s] = session[s] /\ UNCHANGED <<client, subs>>
              /\ manager'[s].client = manager[s].client /\ manager'[s].at = 0
              /\ manager'[s].ok = manager[s].ok /\ manager'[s].msg \in Messages
              /\ \/ /\ manager'[s].msg.op = "SUBSCRIBE" /\ manager'[s].pc = "subscribe"
                    /\ manager'[s].msg.key \in Keys
                 \/ /\ manager'[s].msg.op = "UNSUBSCRIBE" /\ manager'[s].pc = "search"
                    /\ manager'[s].msg.key \in Keys
                 \/ manager'[s].msg = Disconnect /\ manager'[s].pc = "disconnect"
         /\ SessionRead(s) =>
              /\ sent[manager[s].client] # None /\ sent'[manager[s].client] = None
              /\ manager'[s].msg = sent[manager[s].client]
         /\ SessionReadEOF(s) => client[manager[s].client] = "gone" /\ UNCHANGED sent
<1>a. /\ manager \in [Slots -> ManagerStates] /\ session \in [Slots -> Entries]
      /\ EntryInv(manager[s], session[s]) /\ sent \in [Clients -> Messages \cup {None}]
  BY DEF SubsInv, EntriesInv, RestInv
<1>1. ASSUME SessionLoop(s)
      PROVE  /\ session'[s] = session[s] /\ RequestKept(s) /\ ClientsKept
             /\ \/ Turn(s, "loop", "read") /\ session[s].active /\ session[s].peer # None
                \/ Turn(s, "loop", "end") /\ (~ session[s].active \/ session[s].peer = None)
  BY <1>a, <1>1 DEF SessionLoop, Step, Turn, RequestKept, ClientsKept, ManagerStates
<1>d. ASSUME NEW msg \in Messages, Dispatch(s, msg)
      PROVE  /\ manager'[s].client = manager[s].client /\ manager'[s].at = 0
             /\ manager'[s].ok = manager[s].ok /\ manager'[s].msg = msg
             /\ \/ msg.op = "SUBSCRIBE" /\ manager'[s].pc = "subscribe" /\ msg.key \in Keys
                \/ msg.op = "UNSUBSCRIBE" /\ manager'[s].pc = "search" /\ msg.key \in Keys
                \/ msg = Disconnect /\ manager'[s].pc = "disconnect"
  <2>1. /\ manager'[s].client = manager[s].client /\ manager'[s].at = 0
        /\ manager'[s].ok = manager[s].ok /\ manager'[s].msg = msg
        /\ manager'[s].pc = HandlerOf(msg)
    BY <1>a, <1>d DEF Dispatch, ManagerStates
  <2>2. \/ msg.op = "SUBSCRIBE" /\ msg.key \in Keys /\ HandlerOf(msg) = "subscribe"
        \/ msg.op = "UNSUBSCRIBE" /\ msg.key \in Keys /\ HandlerOf(msg) = "search"
        \/ msg = Disconnect /\ HandlerOf(msg) = "disconnect"
    BY DEF Messages, Disconnect, HandlerOf
  <2> QED BY <2>1, <2>2
<1>2. ASSUME SessionRead(s)
      PROVE  /\ manager[s].pc = "read" /\ session'[s] = session[s] /\ UNCHANGED <<client, subs>>
             /\ sent[manager[s].client] # None /\ sent'[manager[s].client] = None
             /\ Dispatch(s, sent[manager[s].client]) /\ sent[manager[s].client] \in Messages
  <2>1. manager[s].client \in Clients BY <1>a, <1>2 DEF SessionRead, EntryInv
  <2> QED BY <1>a, <1>2, <2>1 DEF SessionRead
<1>3. ASSUME SessionReadEOF(s)
      PROVE  /\ manager[s].pc = "read" /\ session'[s] = session[s]
             /\ UNCHANGED <<client, subs, sent>> /\ client[manager[s].client] = "gone"
             /\ \E msg \in Messages : Dispatch(s, msg)
  BY <1>a, <1>3 DEF SessionReadEOF, ManagerStates
<1> QED BY <1>1, <1>2, <1>3, <1>d

\* SUBSCRIBE: the test, the store at num_subscribed_keys, the load of the counter.
LEMMA SubscribeEffect ==
  ASSUME SubsInv, NEW s \in Slots
  PROVE  /\ SessionSubscribe(s) =>
              /\ session'[s] = session[s] /\ ClientsKept
              /\ manager'[s].msg = manager[s].msg /\ manager'[s].at = manager[s].at
              /\ manager[s].msg.op = "SUBSCRIBE"
              /\ \/ /\ Turn(s, "subscribe", "add") /\ manager'[s].ok
                    /\ session[s].num < MAX_NUMBER_SUB
                 \/ /\ Turn(s, "subscribe", "respond")
                    /\ manager'[s].ok => session[s].num = MAX_NUMBER_SUB
         /\ SessionAdd(s) =>
              /\ Turn(s, "add", "load") /\ RequestKept(s) /\ ActiveKept(s) /\ ClientsKept
              /\ session'[s].num = session[s].num
              /\ session'[s].keys = [session[s].keys EXCEPT ![session[s].num] = manager[s].msg.key]
              /\ session[s].num \in SubSlots
              /\ manager[s].msg.op = "SUBSCRIBE" /\ manager[s].msg.key \in Keys
         /\ SessionLoad(s) =>
              /\ Turn(s, "load", "count") /\ session'[s] = session[s] /\ ClientsKept
              /\ manager'[s].msg = manager[s].msg /\ manager'[s].ok = manager[s].ok
              /\ manager'[s].at = session[s].num
         /\ SessionCount(s) =>
              /\ Turn(s, "count", "respond") /\ RequestKept(s) /\ ActiveKept(s) /\ ClientsKept
              /\ session'[s].keys = session[s].keys
              /\ \/ manager[s].msg.op = "SUBSCRIBE" /\ session'[s].num = manager[s].at + 1
                 \/ manager[s].msg.op = "UNSUBSCRIBE" /\ session'[s].num = manager[s].at - 1
<1>a. /\ manager \in [Slots -> ManagerStates] /\ session \in [Slots -> Entries]
      /\ EntryInv(manager[s], session[s])
  BY DEF SubsInv, EntriesInv, RestInv
<1>n. session[s].num \in -1 .. MAX_NUMBER_SUB /\ manager[s].at \in -1 .. MAX_NUMBER_SUB
  BY <1>a DEF Entries, ManagerStates
<1>1. ASSUME SessionSubscribe(s)
      PROVE  /\ session'[s] = session[s] /\ ClientsKept
             /\ manager'[s].msg = manager[s].msg /\ manager'[s].at = manager[s].at
             /\ manager[s].msg.op = "SUBSCRIBE"
             /\ \/ /\ Turn(s, "subscribe", "add") /\ manager'[s].ok
                   /\ session[s].num < MAX_NUMBER_SUB
                \/ /\ Turn(s, "subscribe", "respond")
                   /\ manager'[s].ok => session[s].num = MAX_NUMBER_SUB
  <2> DEFINE exists == manager[s].msg.key \in stored
             room == session[s].num < MAX_NUMBER_SUB
  <2>1. /\ session'[s] = session[s] /\ ClientsKept /\ manager[s].msg.op = "SUBSCRIBE"
        /\ manager'[s].msg = manager[s].msg /\ manager'[s].at = manager[s].at
        /\ manager[s].pc = "subscribe" /\ manager'[s].client = manager[s].client
        /\ manager'[s].ok = exists
        /\ manager'[s].pc = IF exists /\ room THEN "add" ELSE "respond"
    BY <1>a, <1>1 DEF SessionSubscribe, ClientsKept, ManagerStates, EntryInv
  <2>2. ~ room => session[s].num = MAX_NUMBER_SUB BY <1>n, Numbers
  <2> HIDE DEF exists, room
  <2>3. \/ exists /\ room /\ manager'[s].pc = "add" /\ manager'[s].ok
        \/ /\ manager'[s].pc = "respond"
           /\ manager'[s].ok => ~ room
    BY <2>1
  <2>4. room => session[s].num < MAX_NUMBER_SUB BY DEF room
  <2> QED BY <2>1, <2>2, <2>3, <2>4 DEF Turn
<1>2. ASSUME SessionAdd(s)
      PROVE  /\ Turn(s, "add", "load") /\ RequestKept(s) /\ ActiveKept(s) /\ ClientsKept
             /\ session'[s].num = session[s].num
             /\ session'[s].keys = [session[s].keys EXCEPT ![session[s].num] = manager[s].msg.key]
             /\ session[s].num \in SubSlots
             /\ manager[s].msg.op = "SUBSCRIBE" /\ manager[s].msg.key \in Keys
  <2>1. /\ Turn(s, "add", "load") /\ RequestKept(s) /\ ActiveKept(s) /\ ClientsKept
        /\ session'[s].num = session[s].num
        /\ session'[s].keys = [session[s].keys EXCEPT ![session[s].num] = manager[s].msg.key]
    BY <1>a, <1>2 DEF SessionAdd, Step, Turn, RequestKept, ActiveKept, ClientsKept, ManagerStates, Entries
  <2>2. session[s].num < MAX_NUMBER_SUB /\ session[s].num # -1 /\ manager[s].msg \in Messages
        /\ manager[s].msg.op = "SUBSCRIBE"
    BY <1>a, <1>2 DEF SessionAdd, Step, EntryInv, Unsubscribing
  <2>3. session[s].num \in SubSlots BY <1>n, <2>2, Numbers
  <2>4. manager[s].msg.key \in Keys BY <2>2 DEF Messages, Disconnect
  <2> QED BY <2>1, <2>2, <2>3, <2>4
<1>3. ASSUME SessionLoad(s)
      PROVE  /\ Turn(s, "load", "count") /\ session'[s] = session[s] /\ ClientsKept
             /\ manager'[s].msg = manager[s].msg /\ manager'[s].ok = manager[s].ok
             /\ manager'[s].at = session[s].num
  BY <1>a, <1>3 DEF SessionLoad, Turn, ClientsKept, ManagerStates
<1>4. ASSUME SessionCount(s)
      PROVE  /\ Turn(s, "count", "respond") /\ RequestKept(s) /\ ActiveKept(s) /\ ClientsKept
             /\ session'[s].keys = session[s].keys
             /\ \/ manager[s].msg.op = "SUBSCRIBE" /\ session'[s].num = manager[s].at + 1
                \/ manager[s].msg.op = "UNSUBSCRIBE" /\ session'[s].num = manager[s].at - 1
  <2>1. /\ Turn(s, "count", "respond") /\ RequestKept(s) /\ ActiveKept(s) /\ ClientsKept
        /\ session'[s].keys = session[s].keys
        /\ session'[s].num = manager[s].at + (IF manager[s].msg.op = "SUBSCRIBE" THEN 1 ELSE -1)
    BY <1>a, <1>4 DEF SessionCount, Step, Turn, RequestKept, ActiveKept, ClientsKept, ManagerStates, Entries
  <2>2. manager[s].msg.op \in {"SUBSCRIBE", "UNSUBSCRIBE"}
    BY <1>a, <1>4 DEF SessionCount, Step, EntryInv
  <2> QED BY <1>n, <2>1, <2>2, Numbers
<1> QED BY <1>1, <1>2, <1>3, <1>4

\* UNSUBSCRIBE: the turns of the two loops.  DISCONNECT.
LEMMA UnsubscribeEffect ==
  ASSUME SubsInv, NEW s \in Slots
  PROVE  /\ SessionSearch(s) =>
              /\ session'[s] = session[s] /\ ClientsKept
              /\ manager'[s].msg = manager[s].msg /\ manager[s].msg.op = "UNSUBSCRIBE"
              /\ \/ Turn(s, "search", "respond") /\ ~ manager'[s].ok
                 \/ /\ Turn(s, "search", "shift") /\ manager'[s].ok
                    /\ manager'[s].at = manager[s].at
                    /\ manager[s].at < session[s].num
                    /\ session[s].keys[manager[s].at] = manager[s].msg.key
                 \/ Turn(s, "search", "search")
         /\ SessionShift(s) =>
              /\ manager'[s].msg = manager[s].msg /\ manager[s].msg.op = "UNSUBSCRIBE"
              /\ manager'[s].ok = manager[s].ok
              /\ ActiveKept(s) /\ ClientsKept /\ session'[s].num = session[s].num
              /\ \/ /\ Turn(s, "shift", "shift") /\ manager'[s].at = manager[s].at + 1
                    /\ manager[s].at \in SubSlots /\ manager[s].at + 1 \in SubSlots
                    /\ manager[s].at + 1 < session[s].num
                    /\ session'[s].keys = [session[s].keys EXCEPT
                                             ![manager[s].at] = session[s].keys[manager[s].at + 1]]
                 \/ /\ Turn(s, "shift", "load") /\ session'[s].keys = session[s].keys
                    /\ manager'[s].at = manager[s].at
                    /\ session[s].num <= manager[s].at + 1
         /\ SessionDisconnect(s) =>
              /\ Turn(s, "disconnect", "respond") /\ ClientsKept
              /\ manager'[s].msg = manager[s].msg /\ manager'[s].at = manager[s].at
              /\ session'[s].peer = session[s].peer /\ session'[s].keys = session[s].keys
              /\ ~ session'[s].active /\ session'[s].num = 0
<1>a. /\ manager \in [Slots -> ManagerStates] /\ session \in [Slots -> Entries]
      /\ EntryInv(manager[s], session[s])
  BY DEF SubsInv, EntriesInv, RestInv
<1>n. session[s].num \in -1 .. MAX_NUMBER_SUB /\ manager[s].at \in -1 .. MAX_NUMBER_SUB
  BY <1>a DEF Entries, ManagerStates
<1>1. ASSUME SessionSearch(s)
      PROVE  /\ session'[s] = session[s] /\ ClientsKept
             /\ manager'[s].msg = manager[s].msg /\ manager[s].msg.op = "UNSUBSCRIBE"
             /\ \/ Turn(s, "search", "respond") /\ ~ manager'[s].ok
                \/ /\ Turn(s, "search", "shift") /\ manager'[s].ok
                   /\ manager'[s].at = manager[s].at
                   /\ manager[s].at < session[s].num
                   /\ session[s].keys[manager[s].at] = manager[s].msg.key
                \/ Turn(s, "search", "search")
  <2> DEFINE i == manager[s].at
             n == session[s].num
  <2>1. /\ session'[s] = session[s] /\ ClientsKept
        /\ manager[s].msg.op = "UNSUBSCRIBE" /\ manager[s].pc = "search"
    BY <1>a, <1>1 DEF SessionSearch, SearchTurn, ClientsKept, EntryInv
  <2>2. CASE i >= n
    <3>1. ~ i < n BY <1>n, <2>2, Numbers
    <3>2. manager' = [manager EXCEPT ![s] = [manager[s] EXCEPT !.pc = "respond", !.ok = FALSE]]
      BY <1>1, <2>2, <3>1 DEF SessionSearch, SearchTurn
    <3> QED BY <1>a, <2>1, <3>2 DEF Turn, ManagerStates
  <2>3. CASE i < n /\ session[s].keys[i] = manager[s].msg.key
    <3>1. ~ i >= n BY <1>n, <2>3, Numbers
    <3>2. manager' = [manager EXCEPT ![s] = [manager[s] EXCEPT !.pc = "shift", !.ok = TRUE]]
      BY <1>1, <2>3, <3>1 DEF SessionSearch, SearchTurn
    <3> QED BY <1>a, <2>1, <2>3, <3>2 DEF Turn, ManagerStates
  <2>4. CASE i < n /\ session[s].keys[i] # manager[s].msg.key
    <3>1. ~ i >= n BY <1>n, <2>4, Numbers
    <3>2. manager' = [manager EXCEPT ![s] = [manager[s] EXCEPT !.at = i + 1]]
      BY <1>1, <2>4, <3>1 DEF SessionSearch, SearchTurn
    <3> QED BY <1>a, <2>1, <3>2 DEF Turn, ManagerStates
  <2> QED BY <1>n, <2>2, <2>3, <2>4, Numbers
<1>2. ASSUME SessionShift(s)
      PROVE  /\ manager'[s].msg = manager[s].msg /\ manager[s].msg.op = "UNSUBSCRIBE"
             /\ manager'[s].ok = manager[s].ok
             /\ ActiveKept(s) /\ ClientsKept /\ session'[s].num = session[s].num
             /\ \/ /\ Turn(s, "shift", "shift") /\ manager'[s].at = manager[s].at + 1
                   /\ manager[s].at \in SubSlots /\ manager[s].at + 1 \in SubSlots
                   /\ manager[s].at + 1 < session[s].num
                   /\ session'[s].keys = [session[s].keys EXCEPT
                                            ![manager[s].at] = session[s].keys[manager[s].at + 1]]
                \/ /\ Turn(s, "shift", "load") /\ session'[s].keys = session[s].keys
                   /\ manager'[s].at = manager[s].at
                   /\ session[s].num <= manager[s].at + 1
  <2> DEFINE j == manager[s].at
             n == session[s].num
  <2>1. /\ manager[s].msg.op = "UNSUBSCRIBE" /\ manager[s].pc = "shift" /\ ClientsKept /\ 0 <= j
    BY <1>a, <1>2 DEF SessionShift, ShiftTurn, ClientsKept, EntryInv
  <2>2. CASE j < n - 1
    <3>1. /\ manager' = [manager EXCEPT ![s].at = j + 1]
          /\ session' = [session EXCEPT ![s].keys[j] = session[s].keys[j + 1]]
      BY <1>2, <2>2 DEF SessionShift, ShiftTurn
    <3>2. j \in SubSlots /\ j + 1 \in SubSlots /\ j + 1 < n BY <1>n, <2>1, <2>2, Numbers, SMTT(30)
    <3>3. /\ manager'[s].pc = "shift" /\ manager'[s].client = manager[s].client
          /\ manager'[s].msg = manager[s].msg /\ manager'[s].ok = manager[s].ok
          /\ manager'[s].at = j + 1
      BY <1>a, <2>1, <3>1 DEF ManagerStates
    <3>4. /\ ActiveKept(s) /\ session'[s].num = session[s].num
          /\ session'[s].keys = [session[s].keys EXCEPT ![j] = session[s].keys[j + 1]]
      BY <1>a, <3>1 DEF ActiveKept, Entries
    <3> QED BY <2>1, <3>2, <3>3, <3>4 DEF Turn
  <2>3. CASE ~ j < n - 1
    <3>1. manager' = [manager EXCEPT ![s].pc = "load"] /\ UNCHANGED session
      BY <1>2, <2>3 DEF SessionShift, ShiftTurn
    <3>2. n <= j + 1 BY <1>n, <2>3, Numbers
    <3> QED BY <1>a, <2>1, <3>1, <3>2 DEF Turn, ActiveKept, ManagerStates
  <2> QED BY <2>2, <2>3
<1>3. ASSUME SessionDisconnect(s)
      PROVE  /\ Turn(s, "disconnect", "respond") /\ ClientsKept
             /\ manager'[s].msg = manager[s].msg /\ manager'[s].at = manager[s].at
             /\ session'[s].peer = session[s].peer /\ session'[s].keys = session[s].keys
             /\ ~ session'[s].active /\ session'[s].num = 0
  BY <1>a, <1>3 DEF SessionDisconnect, Turn, ClientsKept, ManagerStates, Entries
<1> QED BY <1>1, <1>2, <1>3

\* The response, read by the client unless it fails; the end of the session.
LEMMA RespondEffect ==
  ASSUME SubsInv, NEW s \in Slots
  PROVE  /\ SessionRespond(s) =>
              /\ Turn(s, "respond", "loop") /\ RequestKept(s) /\ session'[s] = session[s]
              /\ session[s].peer # None /\ client[manager[s].client] # "gone" /\ UNCHANGED sent
              /\ \/ /\ manager[s].msg = Disconnect /\ client'[manager[s].client] = "leaving"
                 \/ /\ manager[s].msg.op \in {"SUBSCRIBE", "UNSUBSCRIBE"}
                    /\ manager[s].msg.key \in Keys
                    /\ client'[manager[s].client] = "idle"
                    /\ \A k \in Keys : subs'[manager[s].client][k] = subs[manager[s].client][k] +
                         (IF manager[s].ok /\ manager[s].msg.key = k
                          THEN IF manager[s].msg.op = "SUBSCRIBE" THEN 1 ELSE -1 ELSE 0)
         /\ SessionRespondFails(s) =>
              /\ Turn(s, "respond", "end") /\ RequestKept(s) /\ session'[s] = session[s]
              /\ session[s].peer = None /\ ClientsKept
         /\ SessionRespondDies(s) =>
              manager'[s] = manager[s] /\ session'[s] = session[s] /\ ClientsKept
         /\ SessionEnd(s) =>
              /\ manager[s].pc = "end" /\ manager'[s].pc = "free" /\ manager'[s].client = None
              /\ ClientsKept /\ KeysKept(s)
              /\ session'[s].peer = session[s].peer /\ ~ session'[s].active
<1>a. /\ manager \in [Slots -> ManagerStates] /\ session \in [Slots -> Entries]
      /\ EntryInv(manager[s], session[s])
      /\ client \in [Clients -> {"new", "waiting", "leaving", "hungup", "gone"} \cup InSession]
      /\ subs \in [Clients -> [Keys -> Int]]
  BY DEF SubsInv, EntriesInv, RestInv
<1>1. ASSUME SessionRespond(s)
      PROVE  /\ Turn(s, "respond", "loop") /\ RequestKept(s) /\ session'[s] = session[s]
             /\ session[s].peer # None /\ client[manager[s].client] # "gone" /\ UNCHANGED sent
             /\ \/ /\ manager[s].msg = Disconnect /\ client'[manager[s].client] = "leaving"
                \/ /\ manager[s].msg.op \in {"SUBSCRIBE", "UNSUBSCRIBE"}
                   /\ manager[s].msg.key \in Keys
                   /\ client'[manager[s].client] = "idle"
                   /\ \A k \in Keys : subs'[manager[s].client][k] = subs[manager[s].client][k] +
                        (IF manager[s].ok /\ manager[s].msg.key = k
                         THEN IF manager[s].msg.op = "SUBSCRIBE" THEN 1 ELSE -1 ELSE 0)
  <2> DEFINE c == manager[s].client
             m == manager[s].msg
             granted == IF m.op = "SUBSCRIBE" THEN 1 ELSE -1
  <2>1. /\ Turn(s, "respond", "loop") /\ RequestKept(s) /\ session'[s] = session[s]
        /\ session[s].peer # None /\ client[c] # "gone" /\ UNCHANGED sent
    BY <1>a, <1>1 DEF SessionRespond, Step, Turn, RequestKept, ManagerStates
  <2>2. c \in Clients /\ m \in Messages BY <1>a, <2>1 DEF EntryInv, Turn
  <2>3. \/ m = Disconnect
        \/ m.op \in {"SUBSCRIBE", "UNSUBSCRIBE"} /\ m.key \in Keys
    BY <2>2 DEF Messages
  <2>4. CASE m = Disconnect
    <3>1. m.op = "DISCONNECT" BY <2>4 DEF Disconnect
    <3>2. client' = [client EXCEPT ![c] = "leaving"] BY <1>1, <3>1 DEF SessionRespond
    <3>3. client'[c] = "leaving" BY <1>a, <2>2, <3>2
    <3> QED BY <2>1, <2>4, <3>3
  <2>5. CASE m.op \in {"SUBSCRIBE", "UNSUBSCRIBE"} /\ m.key \in Keys
    <3>1. m.op # "DISCONNECT" BY <2>5
    <3>2. client' = [client EXCEPT ![c] = "idle"] BY <1>1, <3>1 DEF SessionRespond
    <3>3. client'[c] = "idle" BY <1>a, <2>2, <3>2
    <3>4. subs' = IF manager[s].ok THEN [subs EXCEPT ![c][m.key] = subs[c][m.key] + granted] ELSE subs
      BY <1>1, <3>1 DEF SessionRespond
    <3>5. ASSUME NEW k \in Keys
          PROVE  subs'[c][k] = subs[c][k] + (IF manager[s].ok /\ m.key = k THEN granted ELSE 0)
      <4> HIDE DEF granted, m, c
      <4>0. subs[c][k] \in Int BY <1>a, <2>2
      <4>1. CASE ~ manager[s].ok BY <3>4, <4>0, <4>1
      <4>2. CASE manager[s].ok /\ m.key = k BY <1>a, <2>2, <3>4, <4>0, <4>2
      <4>3. CASE manager[s].ok /\ m.key # k BY <1>a, <2>2, <3>4, <4>0, <4>3
      <4> QED BY <4>1, <4>2, <4>3
    <3> QED BY <2>1, <2>5, <3>3, <3>5
  <2> QED BY <2>3, <2>4, <2>5
<1>2. ASSUME SessionRespondFails(s)
      PROVE  /\ Turn(s, "respond", "end") /\ RequestKept(s) /\ session'[s] = session[s]
             /\ session[s].peer = None /\ ClientsKept
  BY <1>a, <1>2 DEF SessionRespondFails, Step, Turn, RequestKept, ClientsKept, ManagerStates
<1>3. ASSUME SessionRespondDies(s)
      PROVE  manager'[s] = manager[s] /\ session'[s] = session[s] /\ ClientsKept
  BY <1>3 DEF SessionRespondDies, ClientsKept
<1>4. ASSUME SessionEnd(s)
      PROVE  /\ manager[s].pc = "end" /\ manager'[s].pc = "free" /\ manager'[s].client = None
             /\ ClientsKept /\ KeysKept(s)
             /\ session'[s].peer = session[s].peer /\ ~ session'[s].active
  BY <1>a, <1>4 DEF SessionEnd, ClientsKept, KeysKept, ManagerStates, Entries
<1> QED BY <1>1, <1>2, <1>3, <1>4

-----------------------------------------------------------------------------
(* Which client each entry belongs to.                                     *)

\* A step of one manager that keeps its own entry in place keeps every other one:
\* their clients are others.
LEMMA HolderStep ==
  ASSUME SubsInv, Places, NEW s \in Slots, ManagerNext(s),
         client'[manager[s].client] \in {"new", "waiting"} =>
           /\ client[manager[s].client] = "waiting"
           /\ subs'[manager[s].client] = subs[manager[s].client],
         client'[manager[s].client] \in {"new", "waiting", "idle"} =>
           sent'[manager[s].client] = None,
         manager'[s].client \in {manager[s].client, None},
         session'[s].peer \in {session[s].peer, manager[s].client},
         Place(manager'[s], session'[s], client', sent')
  PROVE  Places'
<1> DEFINE c == manager[s].client
<1>a. /\ c \in Clients
      /\ \A u \in Slots \ {s} : manager'[u] = manager[u] /\ session'[u] = session[u]
      /\ \A x \in Clients \ {c} : client'[x] = client[x] /\ sent'[x] = sent[x] /\ subs'[x] = subs[x]
  BY ManagerFrame
<1>b. /\ \A u \in Slots : Place(manager[u], session[u], client, sent)
      /\ Alone /\ Unbegun /\ c # None
  BY <1>a, SubscriptionsAssumption DEF Places
<1>1. ASSUME NEW u \in Slots PROVE Place(manager'[u], session'[u], client', sent')
  <2>1. CASE u = s BY <2>1
  <2>2. CASE u # s
    <3> DEFINE m == manager[u]
               e == session[u]
    <3>1. /\ m.pc # "free" => m.client \in Clients
          /\ m.client \in Clients \cup {None} /\ e.peer \in Clients \cup {None}
      BY DEF SubsInv, EntriesInv, EntryInv, ManagerStates, Entries
    <3>2. m.client # c /\ e.peer # c BY <1>b, <2>2 DEF Alone
    <3>3. /\ m.client # None => client'[m.client] = client[m.client] /\ sent'[m.client] = sent[m.client]
          /\ e.peer # None => client'[e.peer] = client[e.peer]
      BY <1>a, <3>1, <3>2
    <3>4. Place(m, e, client, sent) BY <1>b
    <3>5. Place(m, e, client', sent')
      <4> HIDE DEF m, e
      <4> HIDE DEF m, e
      <4>1. CASE m.client = None
        <5>1. m.pc = "free" BY <3>1, <4>1, SubscriptionsAssumption
        <5> QED BY <3>3, <3>4, <4>1, <5>1 DEF Place, Handling
      <4>2. CASE m.client # None
        <5>1. client'[m.client] = client[m.client] /\ sent'[m.client] = sent[m.client]
          BY <3>3, <4>2
        <5> QED BY <3>3, <3>4, <5>1 DEF Place
      <4> QED BY <4>1, <4>2
    <3> QED BY <1>a, <2>2, <3>5
  <2> QED BY <2>1, <2>2
<1>2. Alone'
  <2> SUFFICES ASSUME NEW v \in Slots, NEW u \in Slots, manager'[v].client # None,
                      manager'[v].client \in {manager'[u].client, session'[u].peer}
               PROVE  v = u
    BY DEF Alone
  <2>1. manager'[v].client = manager[v].client BY <1>a
  <2>2. manager'[u].client \in {manager[u].client, None} BY <1>a
  <2>3. session'[u].peer \in {session[u].peer, manager[u].client} BY <1>a
  <2>4. manager[v].client \in {manager[u].client, session[u].peer} BY <2>1, <2>2, <2>3
  <2> QED BY <1>b, <2>1, <2>4 DEF Alone
<1>3. Unbegun'
  <2> SUFFICES ASSUME NEW x \in Clients
               PROVE  /\ client'[x] \in {"new", "waiting", "idle"} => sent'[x] = None
                      /\ client'[x] \in {"new", "waiting"} => \A k \in Keys : subs'[x][k] = 0
    BY DEF Unbegun
  <2>1. CASE x = c BY <1>a, <1>b, <2>1 DEF Unbegun
  <2>2. CASE x # c BY <1>a, <1>b, <2>2 DEF Unbegun
  <2> QED BY <2>1, <2>2
<1> QED BY <1>1, <1>2, <1>3 DEF Places

\* Every step of a manager keeps its entry in place.
LEMMA PlacesManager == ASSUME SubsInv, Places, NEW s \in Slots, ManagerNext(s) PROVE Places'
<1> DEFINE m == manager[s]
           e == session[s]
           c == manager[s].client
<1>a. /\ Place(m, e, client, sent) /\ Unbegun /\ c \in Clients /\ c # None
      /\ e.peer \in Clients \cup {None} /\ EntryInv(m, e)
      /\ Place(m, e, client, sent)
  BY ManagerFrame, SubscriptionsAssumption DEF Places, SubsInv, EntriesInv, Entries
<1> DEFINE Goal == /\ client'[c] \in {"new", "waiting"} =>
                        client[c] = "waiting" /\ subs'[c] = subs[c]
                   /\ client'[c] \in {"new", "waiting", "idle"} => sent'[c] = None
                   /\ manager'[s].client \in {c, None}
                   /\ session'[s].peer \in {e.peer, c}
                   /\ Place(manager'[s], session'[s], client', sent')
<1> USE DEF Turn, RequestKept, ActiveKept, KeysKept, ClientsKept, Place, Handling, InSession
<1>1. ASSUME SessionOpen(s) PROVE Goal BY <1>a, <1>1, ConnectEffect DEF Unbegun
<1>2. ASSUME SessionConnect(s) PROVE Goal BY <1>a, <1>2, ConnectEffect DEF Unbegun
<1>3. ASSUME SessionConnectFails(s) PROVE Goal BY <1>a, <1>3, ConnectEffect DEF Unbegun
<1>4. ASSUME SessionLoop(s) PROVE Goal BY <1>a, <1>4, ReadEffect DEF Unbegun
<1>5. ASSUME SessionRead(s) PROVE Goal BY <1>a, <1>5, ReadEffect DEF Unbegun
<1>6. ASSUME SessionReadEOF(s) PROVE Goal BY <1>a, <1>6, ReadEffect DEF Unbegun
<1>7. ASSUME SessionSubscribe(s) PROVE Goal BY <1>a, <1>7, SubscribeEffect DEF Unbegun
<1>8. ASSUME SessionAdd(s) PROVE Goal BY <1>a, <1>8, SubscribeEffect DEF Unbegun
<1>9. ASSUME SessionLoad(s) PROVE Goal BY <1>a, <1>9, SubscribeEffect DEF Unbegun
<1>10. ASSUME SessionCount(s) PROVE Goal BY <1>a, <1>10, SubscribeEffect DEF Unbegun
<1>11. ASSUME SessionSearch(s) PROVE Goal BY <1>a, <1>11, UnsubscribeEffect DEF Unbegun
<1>12. ASSUME SessionShift(s) PROVE Goal BY <1>a, <1>12, UnsubscribeEffect DEF Unbegun
<1>13. ASSUME SessionDisconnect(s) PROVE Goal BY <1>a, <1>13, UnsubscribeEffect DEF Unbegun
<1>14. ASSUME SessionRespond(s) PROVE Goal BY <1>a, <1>14, RespondEffect DEF Unbegun, Disconnect
<1>15. ASSUME SessionRespondFails(s) PROVE Goal BY <1>a, <1>15, RespondEffect DEF Unbegun
<1>16. ASSUME SessionRespondDies(s) PROVE Goal BY <1>a, <1>16, RespondEffect DEF Unbegun
<1>17. ASSUME SessionEnd(s) PROVE Goal BY <1>a, <1>17, RespondEffect DEF Unbegun
<1>18. ASSUME SessionReset(s) PROVE Goal BY <1>a, <1>18, ConnectEffect DEF Unbegun
<1>g. Goal
  BY <1>1, <1>2, <1>3, <1>4, <1>5, <1>6, <1>7, <1>8, <1>9, <1>10, <1>11, <1>12, <1>13, <1>14, <1>15, <1>16, <1>17, <1>18
     DEF ManagerNext
<1> QED BY <1>g, HolderStep

\* A request, an exit or a crash of a client keeps every entry in place.
LEMMA ClientMoves ==
  ASSUME SubsInv, Places, NEW c \in Clients, UNCHANGED <<manager, session, subs>>,
         \A x \in Clients \ {c} : client'[x] = client[x] /\ sent'[x] = sent[x],
         \/ client[c] = "idle" /\ client'[c] = "asking" /\ sent'[c] # None
         \/ /\ client[c] \in InSession \cup {"leaving", "hungup"} /\ client'[c] = "gone"
            /\ sent'[c] = sent[c]
  PROVE  Places'
<1>a. (\A s \in Slots : Place(manager[s], session[s], client, sent)) /\ Alone /\ Unbegun
  BY DEF Places
<1>1. ASSUME NEW s \in Slots PROVE Place(manager'[s], session'[s], client', sent')
  <2> DEFINE m == manager[s]
             e == session[s]
  <2>1. /\ m.pc # "free" => m.client \in Clients
        /\ m.client \in Clients \cup {None} /\ e.peer \in Clients \cup {None}
    BY DEF SubsInv, EntriesInv, EntryInv, ManagerStates, Entries
  <2>2. Place(m, e, client, sent) BY <1>a
  <2>3. Place(m, e, client', sent')
    <3> HIDE DEF m, e
    <3>1. e.peer # None => client[e.peer] # "new" /\ client'[e.peer] # "new"
      BY <2>1, <2>2 DEF Place, InSession
    <3>2. CASE m.client = None
      <4>1. m.pc = "free" BY <2>1, <3>2, SubscriptionsAssumption
      <4> QED BY <2>2, <3>1, <3>2, <4>1 DEF Place, Handling
    <3>3. CASE m.client # None /\ m.client # c
      <4>1. client'[m.client] = client[m.client] /\ sent'[m.client] = sent[m.client]
        BY <2>1, <3>3
      <4> QED BY <2>2, <3>1, <4>1 DEF Place
    <3>4. CASE m.client = c BY <2>2, <3>1, <3>4 DEF Place, Handling, InSession
    <3> QED BY <3>2, <3>3, <3>4
  <2> QED BY <2>3
<1>2. Alone' BY <1>a DEF Alone
<1>3. Unbegun' BY <1>a DEF Unbegun, InSession
<1> QED BY <1>1, <1>2, <1>3 DEF Places

\* Every step of a client keeps the entries in place, and so does the claim of one.
LEMMA PlacesClient ==
  ASSUME SubsInv, Places, NEW c \in Clients,
         ClientNext(c) \/ \E s \in Slots : SessionClaim(s, c) \/ SessionOverlaps(s, c)
  PROVE  Places'
<1>a. /\ client \in [Clients -> {"new", "waiting", "leaving", "hungup", "gone"} \cup InSession]
      /\ sent \in [Clients -> Messages \cup {None}]
      /\ manager \in [Slots -> ManagerStates] /\ session \in [Slots -> Entries]
  BY DEF SubsInv, RestInv, EntriesInv
<1>1. ASSUME NEW k \in Keys, ClientSubscribe(c, k) \/ ClientUnsubscribe(c, k) PROVE Places'
  <2>1. /\ client[c] = "idle" /\ client' = [client EXCEPT ![c] = "asking"]
        /\ sent'[c] # None /\ \A x \in Clients \ {c} : sent'[x] = sent[x]
        /\ UNCHANGED <<manager, session, subs>>
    <3>1. \A x \in {"SUBSCRIBE", "UNSUBSCRIBE"} : [op |-> x, key |-> k] \in Messages
      BY DEF Messages
    <3>2. \A x \in Messages : x # None BY SubscriptionsAssumption
    <3> QED BY <1>a, <1>1, <3>1, <3>2 DEF ClientSubscribe, ClientUnsubscribe, serverVars
  <2> QED BY <1>a, <2>1, ClientMoves
<1>2. CASE ClientDisconnect(c)
  <2>1. /\ client[c] = "idle" /\ client' = [client EXCEPT ![c] = "asking"]
        /\ sent'[c] # None /\ \A x \in Clients \ {c} : sent'[x] = sent[x]
        /\ UNCHANGED <<manager, session, subs>>
    <3>1. Disconnect # None BY SubscriptionsAssumption DEF Messages
    <3> QED BY <1>a, <1>2, <3>1 DEF ClientDisconnect, serverVars
  <2> QED BY <1>a, <2>1, ClientMoves
<1>3. CASE ClientClose(c) \/ ClientCrash(c)
  <2>1. /\ client[c] \in InSession \cup {"leaving", "hungup"}
        /\ client' = [client EXCEPT ![c] = "gone"] /\ UNCHANGED <<manager, session, subs, sent>>
    BY <1>3 DEF ClientClose, ClientCrash, serverVars, historyVars
  <2> QED BY <1>a, <2>1, ClientMoves
<1>4. ASSUME NEW s \in Slots, SessionClaim(s, c) PROVE Places'
  <2>1. /\ manager[s].pc = "free" /\ client[c] = "new"
        /\ manager'[s].pc = "open" /\ manager'[s].client = c
        /\ session'[s].peer = session[s].peer /\ client'[c] = "waiting"
        /\ \A u \in Slots \ {s} : manager'[u] = manager[u] /\ session'[u] = session[u]
        /\ \A x \in Clients \ {c} : client'[x] = client[x]
        /\ UNCHANGED <<sent, subs>>
    <3>1. /\ manager' = [manager EXCEPT ![s] =
                           [manager[s] EXCEPT !.pc = "open", !.client = c, !.msg = None]]
          /\ session' = [session EXCEPT ![s].active = TRUE]
          /\ client' = [client EXCEPT ![c] = "waiting"]
          /\ manager[s].pc = "free" /\ client[c] = "new" /\ UNCHANGED <<sent, subs>>
      BY <1>4 DEF SessionClaim
    <3>2. manager'[s].pc = "open" /\ manager'[s].client = c BY <1>a, <3>1 DEF ManagerStates
    <3>3. session'[s].peer = session[s].peer BY <1>a, <3>1 DEF Entries
    <3> QED BY <1>a, <3>1, <3>2, <3>3
  <2>2. \A u \in Slots :
          /\ manager[u].client \in Clients \cup {None} /\ session[u].peer \in Clients \cup {None}
          /\ manager[u].pc # "free" => manager[u].client \in Clients
          /\ manager[u].client # c /\ session[u].peer # c
          /\ Place(manager[u], session[u], client, sent)
    BY <2>1, SubscriptionsAssumption DEF SubsInv, EntriesInv, EntryInv, ManagerStates, Entries, Places, Place
  <2>3. ASSUME NEW u \in Slots PROVE Place(manager'[u], session'[u], client', sent')
    <3> DEFINE m == manager[u]
               e == session[u]
    <3>1. e.peer # None => client'[e.peer] = client[e.peer] /\ client[e.peer] # "new"
      BY <2>1, <2>2 DEF Place
    <3>2. CASE u = s BY <2>1, <2>2, <3>1, <3>2, SubscriptionsAssumption DEF Place, Handling
    <3>3. CASE u # s /\ m.client = None
      <4>1. m.pc = "free" BY <2>2, <3>3, SubscriptionsAssumption
      <4>2. Place(m, e, client, sent) BY <2>2
      <4>3. Place(m, e, client', sent')
        <5> HIDE DEF m, e
        <5> QED BY <3>1, <3>3, <4>1, <4>2 DEF Place, Handling
      <4> QED BY <2>1, <3>3, <4>3
    <3>4. CASE u # s /\ m.client # None
      <4>1. client'[m.client] = client[m.client] /\ sent' = sent BY <2>1, <2>2, <3>4
      <4>2. Place(m, e, client, sent) BY <2>2
      <4>3. Place(m, e, client', sent')
        <5> HIDE DEF m, e
        <5> QED BY <3>1, <4>1, <4>2 DEF Place
      <4> QED BY <2>1, <3>4, <4>3
    <3> QED BY <3>2, <3>3, <3>4
  <2>4. Alone'
    <3> SUFFICES ASSUME NEW v \in Slots, NEW u \in Slots, manager'[v].client # None,
                        manager'[v].client \in {manager'[u].client, session'[u].peer}
                 PROVE  v = u
      BY DEF Alone
    <3>1. session'[u].peer = session[u].peer BY <2>1
    <3>2. CASE v = s /\ u # s BY <2>1, <2>2, <3>1, <3>2
    <3>3. CASE v # s /\ u = s BY <2>1, <2>2, <3>1, <3>3 DEF Places, Alone
    <3>4. CASE v # s /\ u # s BY <2>1, <3>4 DEF Places, Alone
    <3> QED BY <3>2, <3>3, <3>4
  <2>5. Unbegun' BY <2>1 DEF Places, Unbegun
  <2> QED BY <2>3, <2>4, <2>5 DEF Places
<1>5. ASSUME NEW s \in Slots, SessionOverlaps(s, c) PROVE Places'
  BY <1>5 DEF SessionOverlaps, clientVars, historyVars, Places, Place, Alone, Unbegun
<1> QED BY <1>1, <1>2, <1>3, <1>4, <1>5 DEF ClientNext

\* So does every step of the sweep: the client it hangs up is the manager's, or one
\* that a session before left there.
LEMMA PlacesHost == ASSUME SubsInv, Places, HostNext PROVE Places'
<1>a. /\ \A s \in Slots : Place(manager[s], session[s], client, sent)
      /\ Alone /\ Unbegun
      /\ client \in [Clients -> {"new", "waiting", "leaving", "hungup", "gone"} \cup InSession]
      /\ manager \in [Slots -> ManagerStates] /\ session \in [Slots -> Entries]
  BY DEF Places, SubsInv, RestInv, EntriesInv
<1>b. host.pc \in {"close", "reset"} => host.i \in Slots
  BY Numbers DEF SubsInv, RestInv
<1>1. CASE SweepStart \/ SweepCheck
  BY <1>1 DEF SweepStart, SweepCheck, hostFrame, Places, Place, Alone, Unbegun
<1>2. CASE SweepClose
  <2> DEFINE i == host.i
             p == session[i].peer
  <2>1. /\ i \in Slots /\ session'[i].peer = None /\ session'[i].active = session[i].active
        /\ \A u \in Slots \ {i} : session'[u] = session[u]
        /\ \A x \in Clients :
             client'[x] = IF x = p /\ client[x] \in InSession \cup {"waiting"} THEN "hungup"
                                                                         ELSE client[x]
        /\ UNCHANGED <<manager, sent, subs>>
    BY <1>a, <1>b, <1>2 DEF SweepClose, hostFrame, Entries
  <2>2. ASSUME NEW u \in Slots PROVE Place(manager'[u], session'[u], client', sent')
    <3> DEFINE m == manager[u]
               e == session[u]
    <3>1. /\ m.pc # "free" => m.client \in Clients
          /\ m.client \in Clients \cup {None} /\ e.peer \in Clients \cup {None}
          /\ m.pc \in Steps
      BY DEF SubsInv, EntriesInv, EntryInv, ManagerStates, Entries
    <3>2. e.peer # None => client'[e.peer] # "new" BY <1>a, <2>1, <3>1 DEF Place
    <3>3. Place(m, e, client, sent) BY <1>a
    <3>4. CASE u # i /\ m.client = None
      <4>1. m.pc = "free" BY <3>1, <3>4, SubscriptionsAssumption
      <4>2. Place(m, e, client', sent')
        <5> HIDE DEF m, e
        <5> QED BY <3>2, <3>3, <3>4, <4>1 DEF Place, Handling
      <4> QED BY <2>1, <3>4, <4>2
    <3>5. CASE u # i /\ m.client # None
      <4>1. m.client # p BY <1>a, <2>1, <3>5 DEF Alone
      <4>2. client'[m.client] = client[m.client] BY <2>1, <3>1, <3>5, <4>1
      <4>3. Place(m, e, client', sent)
        <5> HIDE DEF m, e
        <5> QED BY <3>2, <3>3, <4>2 DEF Place
      <4> QED BY <2>1, <3>5, <4>3
    <3>6. CASE u = i
      <4>1. m.client \in Clients =>
              client'[m.client] = IF m.client = e.peer /\ client[m.client] \in InSession \cup {"waiting"}
                                  THEN "hungup" ELSE client[m.client]
        BY <2>1, <3>6
      <4>2. session'[u].peer = None /\ session'[u].active = e.active BY <2>1, <3>6
      <4> DEFINE d == session'[u]
      <4>3. CASE m.client = None
        <5>1. m.pc = "free" BY <3>1, <4>3, SubscriptionsAssumption
        <5>2. Place(m, d, client', sent)
          <6> HIDE DEF m, e, d
          <6> QED BY <4>3, <5>1, <4>2 DEF Place, Handling, d
        <5> QED BY <2>1, <5>2
      <4>4. CASE m.client # None
        <5>1. Place(m, d, client', sent)
          <6> HIDE DEF m, e
          <6> QED BY <3>1, <3>3, <4>1, <4>2, <4>4 DEF Place, Handling, InSession
        <5> QED BY <2>1, <5>1
      <4> QED BY <4>3, <4>4
    <3> QED BY <3>4, <3>5, <3>6
  <2>3. Alone' BY <1>a, <2>1, SubscriptionsAssumption DEF Alone
  <2>4. Unbegun' BY <1>a, <2>1 DEF Unbegun, InSession
  <2> QED BY <2>2, <2>3, <2>4 DEF Places
<1>3. CASE SweepReset
  <2>1. /\ \A u \in Slots : /\ session'[u].peer = session[u].peer
                            /\ session'[u].active => session[u].active
        /\ UNCHANGED <<manager, client, sent, subs>>
    BY <1>a, <1>b, <1>3 DEF SweepReset, hostFrame, Entries
  <2>2. ASSUME NEW u \in Slots PROVE Place(manager'[u], session'[u], client', sent')
    <3>1. /\ session'[u].peer = session[u].peer /\ session'[u].active => session[u].active
          /\ Place(manager[u], session[u], client, sent)
      BY <1>a, <2>1
    <3> QED BY <2>1, <3>1 DEF Place
  <2>3. Alone' /\ Unbegun' BY <1>a, <2>1 DEF Alone, Unbegun
  <2> QED BY <2>2, <2>3 DEF Places
<1> QED BY <1>1, <1>2, <1>3 DEF HostNext

\* Steps that touch none of it.
LEMMA PlacesKept ==
  ASSUME Places, UNCHANGED <<manager, session, client, sent, subs>> PROVE Places'
BY DEF Places, Place, Alone, Unbegun

\* At first there is nobody.
LEMMA PlacesInit == Init => Places
BY SubscriptionsAssumption DEF Init, Places, Place, Alone, Unbegun, Handling

-----------------------------------------------------------------------------
(* What an entry holds, and what its client was granted.                   *)

\* How often key k is in slots S of an array.
CopiesIn(keys, S, k) == Cardinality({i \in S : keys[i] = k})

\* What num_subscribed_keys will be once the request being handled is counted, and the
\* slots that will then hold subscriptions.  While they move up one of them is free.
Bound(m, e) ==
  IF m.pc \in {"load", "count"}
  THEN (IF m.pc = "load" THEN e.num ELSE m.at) + (IF m.msg.op = "SUBSCRIBE" THEN 1 ELSE -1)
  ELSE e.num
Counted(m, e) == {i \in SubSlots : i < Bound(m, e) /\ ~ (m.pc = "shift" /\ i = m.at)}

\* What the response will add to the client's count of key k.
Granting(m, k) ==
  IF (m.pc \in {"shift", "load", "count"} \/ (m.pc = "respond" /\ m.ok)) /\ m.msg.key = k
  THEN IF m.msg.op = "SUBSCRIBE" THEN 1 ELSE -1
  ELSE 0

\* A request that may store a subscription, on its way or being handled.
Pending(m, x) ==
  IF \/ m.pc \in {"subscribe", "add"} \/ (m.pc \in {"load", "count"} /\ m.msg.op = "SUBSCRIBE")
     \/ (m.pc \in {"loop", "read"} /\ x \notin {None, Disconnect})
  THEN 1 ELSE 0

\* With x on its way, g granted and n requests made: the slots hold no key more often
\* than it was granted; and exactly as often if the limit cannot have been reached and
\* no sweep has emptied the entry.
Agree(m, e, x, g, n) ==
  /\ \A k \in Keys :
       /\ CopiesIn(e.keys, Counted(m, e), k) <= g[k] + Granting(m, k)
       /\ e.active /\ m.pc # "open" /\ n <= MAX_NUMBER_SUB =>
            CopiesIn(e.keys, Counted(m, e), k) = g[k] + Granting(m, k)
  /\ e.active /\ m.pc # "open" => e.num + Pending(m, x) <= n

\* Where the manager is in its request, as long as no sweep has interfered.
Marks(m, e) ==
  /\ m.pc \in {"add", "shift", "load", "count"} => m.ok
  /\ m.pc = "count" /\ e.active => m.at = e.num
  /\ m.pc = "shift" /\ e.active => m.at < e.num
  /\ m.pc = "disconnect" => m.msg = Disconnect

\* Before the entry is emptied its client, with the first request on its way at most, has
\* been granted nothing; from then on the two agree.
EntryAgrees(m, e, cl, st, g, n) ==
  /\ Marks(m, e)
  /\ m.pc = "reset" => /\ \A k \in Keys : g[m.client][k] = 0
                       /\ st[m.client] \notin {None, Disconnect} => n[m.client] # 0
  /\ e.peer # None /\ cl[e.peer] \in InSession /\ m.pc # "reset" =>
       Agree(m, e, st[e.peer], g[e.peer], n[e.peer])

AgreeInv == \A s \in Slots : EntryAgrees(manager[s], session[s], client, sent, subs, requests)

\* An entry has finitely many slots.
LEMMA SlotsFinite == IsFiniteSet(SubSlots)
BY Numbers, FS_Interval

\* Counting: fewer slots hold no more copies.
LEMMA CopiesFewer ==
  ASSUME NEW keys, NEW k, NEW T \in SUBSET SubSlots, NEW S \in SUBSET T
  PROVE  /\ CopiesIn(keys, S, k) \in Nat /\ CopiesIn(keys, T, k) \in Nat
         /\ CopiesIn(keys, S, k) <= CopiesIn(keys, T, k)
<1> DEFINE A == {i \in S : keys[i] = k}
           B == {i \in T : keys[i] = k}
<1>1. IsFiniteSet(SubSlots) BY SlotsFinite
<1>2. B \in SUBSET SubSlots /\ A \in SUBSET B OBVIOUS
<1>3. IsFiniteSet(B) BY <1>1, <1>2, FS_Subset
<1>4. IsFiniteSet(A) /\ Cardinality(A) <= Cardinality(B) BY <1>2, <1>3, FS_Subset
<1>5. Cardinality(A) \in Nat /\ Cardinality(B) \in Nat BY <1>3, <1>4, FS_CardinalityType
<1> QED BY <1>4, <1>5 DEF CopiesIn

\* One slot more counts for its key.
LEMMA CopiesAdd ==
  ASSUME NEW keys, NEW k, NEW S \in SUBSET SubSlots, NEW n \in SubSlots \ S
  PROVE  CopiesIn(keys, S \cup {n}, k) = CopiesIn(keys, S, k) + (IF keys[n] = k THEN 1 ELSE 0)
<1> DEFINE A == {i \in S : keys[i] = k}
           B == {i \in S \cup {n} : keys[i] = k}
<1>1. IsFiniteSet(SubSlots) BY SlotsFinite
<1>2. A \in SUBSET SubSlots /\ n \notin A OBVIOUS
<1>3. IsFiniteSet(A) BY <1>1, <1>2, FS_Subset
<1>4. Cardinality(A) \in Nat BY <1>3, FS_CardinalityType
<1>5. CASE keys[n] = k
  <2>1. B = A \cup {n} BY <1>5
  <2>2. Cardinality(A \cup {n}) = Cardinality(A) + 1 BY <1>2, <1>3, FS_AddElement
  <2> QED BY <1>4, <1>5, <2>1, <2>2 DEF CopiesIn
<1>6. CASE keys[n] # k
  <2>1. B = A BY <1>6
  <2> QED BY <1>4, <1>6, <2>1 DEF CopiesIn
<1> QED BY <1>5, <1>6

\* Only the slots counted matter.
LEMMA CopiesSame ==
  ASSUME NEW keys, NEW keys1, NEW k, NEW S, \A i \in S : keys1[i] = keys[i]
  PROVE  CopiesIn(keys1, S, k) = CopiesIn(keys, S, k)
<1>1. {i \in S : keys1[i] = k} = {i \in S : keys[i] = k} OBVIOUS
<1> QED BY <1>1 DEF CopiesIn

\* A subscription that moves up by one slot leaves the copies as they were.
LEMMA CopiesMove ==
  ASSUME NEW keys \in [SubSlots -> Keys \cup {NoKey}], NEW k, NEW T \in SUBSET SubSlots, NEW j \in T, j + 1 \in T
  PROVE  CopiesIn([keys EXCEPT ![j] = keys[j + 1]], T \ {j + 1}, k) = CopiesIn(keys, T \ {j}, k)
<1> DEFINE keys1 == [keys EXCEPT ![j] = keys[j + 1]]
           S == T \ {j, j + 1}
<1>1. j \in SubSlots /\ j + 1 \in SubSlots /\ j # j + 1 BY Numbers
<1>2. keys1[j] = keys[j + 1] /\ \A i \in S : keys1[i] = keys[i] BY <1>1
<1>3. T \ {j + 1} = S \cup {j} /\ T \ {j} = S \cup {j + 1} BY <1>1
<1>4. S \in SUBSET SubSlots /\ j \in SubSlots \ S /\ j + 1 \in SubSlots \ S BY <1>1
<1> HIDE DEF keys1, S
<1>5. CopiesIn(keys1, S \cup {j}, k) = CopiesIn(keys1, S, k) + (IF keys1[j] = k THEN 1 ELSE 0)
  BY <1>4, CopiesAdd
<1>6. CopiesIn(keys, S \cup {j + 1}, k) = CopiesIn(keys, S, k) + (IF keys[j + 1] = k THEN 1 ELSE 0)
  BY <1>4, CopiesAdd
<1>7. CopiesIn(keys1, S, k) = CopiesIn(keys, S, k) BY <1>2, CopiesSame
<1>8. CopiesIn(keys1, T \ {j + 1}, k) = CopiesIn(keys, T \ {j}, k)
  BY <1>2, <1>3, <1>5, <1>6, <1>7
<1> QED BY <1>8 DEF keys1

\* A step after which an entry counts no other slots, holds the same keys and grants
\* what it did.
LEMMA AgreeSame ==
  ASSUME NEW m, NEW e, NEW x, NEW g, NEW n, NEW r, NEW d, NEW y,
         Agree(m, e, x, g, n),
         Counted(r, d) = Counted(m, e), d.keys = e.keys,
         \A k \in Keys : Granting(r, k) = Granting(m, k),
         d.active /\ r.pc # "open" =>
           e.active /\ m.pc # "open" /\ d.num + Pending(r, y) <= n
  PROVE  Agree(r, d, y, g, n)
BY DEF Agree

\* The step of one manager leaves the other entries to their clients.
LEMMA AgreeStep ==
  ASSUME SubsInv, Places, AgreeInv, NEW s \in Slots, ManagerNext(s),
         EntryAgrees(manager'[s], session'[s], client', sent', subs', requests')
  PROVE  AgreeInv'
<1> DEFINE c == manager[s].client
<1>a. /\ c \in Clients
      /\ \A u \in Slots \ {s} : manager'[u] = manager[u] /\ session'[u] = session[u]
      /\ \A x \in Clients \ {c} : client'[x] = client[x] /\ sent'[x] = sent[x] /\ subs'[x] = subs[x]
      /\ requests' = requests
  BY ManagerFrame DEF managerFrame, countVars
<1>1. ASSUME NEW u \in Slots, u # s
      PROVE  EntryAgrees(manager'[u], session'[u], client', sent', subs', requests')
  <2>1. session[u].peer # c /\ session[u].peer \in Clients \cup {None}
    BY <1>a, <1>1, SubscriptionsAssumption DEF Places, Alone, SubsInv, EntriesInv, Entries
  <2>2. EntryAgrees(manager[u], session[u], client, sent, subs, requests) BY DEF AgreeInv
  <2>3. session[u].peer # None =>
          /\ client'[session[u].peer] = client[session[u].peer]
          /\ sent'[session[u].peer] = sent[session[u].peer]
          /\ subs'[session[u].peer] = subs[session[u].peer]
    BY <1>a, <2>1
  <2>5. manager[u].pc = "reset" =>
          sent'[manager[u].client] = sent[manager[u].client]
            /\ subs'[manager[u].client] = subs[manager[u].client]
    BY <1>a, <1>1, SubscriptionsAssumption DEF Places, Alone, SubsInv, EntriesInv, EntryInv
  <2>4. EntryAgrees(manager[u], session[u], client', sent', subs', requests)
    BY <2>2, <2>3, <2>5 DEF EntryAgrees
  <2> QED BY <1>a, <1>1, <2>4
<1> QED BY <1>1 DEF AgreeInv

\* What the proofs about a manager's step use of the state it starts from.
LEMMA ManagerFacts ==
  ASSUME SubsInv, Places, AgreeInv, NEW s \in Slots, ManagerNext(s)
  PROVE  /\ manager[s].client \in Clients /\ manager[s].client # None
         /\ session[s].num \in -1 .. MAX_NUMBER_SUB /\ manager[s].at \in -1 .. MAX_NUMBER_SUB
         /\ session[s].keys \in [SubSlots -> Keys \cup {NoKey}]
         /\ subs[manager[s].client] \in [Keys -> Int] /\ requests[manager[s].client] \in Nat
         /\ EntryInv(manager[s], session[s]) /\ Place(manager[s], session[s], client, sent)
         /\ EntryAgrees(manager[s], session[s], client, sent, subs, requests)
         /\ UNCHANGED requests
<1>1. manager[s].client \in Clients /\ UNCHANGED requests
  BY ManagerFrame DEF managerFrame, countVars
<1>2. requests[manager[s].client] \in Nat
  <2>1. requests[manager[s].client] \in 0 .. MaxRequests BY <1>1 DEF SubsInv, RestInv
  <2> QED BY <2>1, Numbers
<1> QED BY <1>1, <1>2, SubscriptionsAssumption DEF SubsInv, EntriesInv, RestInv, ManagerStates, Entries, Places, AgreeInv

\* Every step of a manager keeps the entry and the client in agreement.
LEMMA AgreeManager ==
  ASSUME SubsInv, Places, AgreeInv, NEW s \in Slots, ManagerNext(s) PROVE AgreeInv'
<1> DEFINE m == manager[s]
           e == session[s]
           c == manager[s].client
           Goal == EntryAgrees(manager'[s], session'[s], client', sent', subs', requests')
<1>a. /\ c \in Clients /\ c # None
      /\ e.num \in -1 .. MAX_NUMBER_SUB /\ m.at \in -1 .. MAX_NUMBER_SUB
      /\ e.keys \in [SubSlots -> Keys \cup {NoKey}]
      /\ subs[c] \in [Keys -> Int] /\ requests[c] \in Nat
      /\ EntryInv(m, e) /\ Place(m, e, client, sent)
      /\ EntryAgrees(m, e, client, sent, subs, requests) /\ UNCHANGED requests
  BY ManagerFacts
<1>1. ASSUME SessionOpen(s) \/ SessionConnectFails(s) \/ SessionRespondFails(s)
      PROVE  Goal
  <2>1. /\ manager'[s].pc \in {"connect", "free", "end"}
        /\ session'[s].peer # None => client'[session'[s].peer] \notin InSession
    BY <1>a, <1>1, ConnectEffect, RespondEffect DEF Place, Turn, ClientsKept, InSession
  <2> QED BY <2>1 DEF EntryAgrees, Marks
<1>2. ASSUME SessionConnect(s) PROVE Goal
  <2>1. /\ manager'[s].pc = "reset" /\ manager'[s].client = c
        /\ sent' = sent /\ subs' = subs /\ client[c] = "waiting"
    BY <1>a, <1>2, ConnectEffect DEF Place, Turn
  <2>2. sent[c] = None /\ \A k \in Keys : subs[c][k] = 0 BY <1>a, <2>1 DEF Places, Unbegun
  <2> QED BY <2>1, <2>2 DEF EntryAgrees, Marks
<1>15. ASSUME SessionReset(s) PROVE Goal
  <2>1. /\ m.pc = "reset" /\ manager'[s].pc = "loop" /\ session'[s].num = 0
        /\ e.peer \in {c, None} /\ session'[s].peer = e.peer /\ ClientsKept
    BY <1>a, <1>15, ConnectEffect DEF Place, Turn, ActiveKept
  <2>2. /\ \A k \in Keys : subs[c][k] = 0
        /\ sent[c] \notin {None, Disconnect} => requests[c] # 0
    BY <1>a, <2>1 DEF EntryAgrees
  <2>3. Counted(manager'[s], session'[s]) = {} BY <2>1, Numbers DEF Counted, Bound
  <2>4. \A k \in Keys : CopiesIn(session'[s].keys, {}, k) = 0
    <3>1. \A k : {i \in {} : session'[s].keys[i] = k} = {} OBVIOUS
    <3> QED BY <3>1, FS_EmptySet DEF CopiesIn
  <2>5. \A k \in Keys : Granting(manager'[s], k) = 0 BY <2>1 DEF Granting
  <2>6. 0 + Pending(manager'[s], sent[c]) <= requests[c] BY <1>a, <2>1, <2>2 DEF Pending
  <2>7. Agree(manager'[s], session'[s], sent[c], subs[c], requests[c])
    BY <1>a, <2>1, <2>2, <2>3, <2>4, <2>5, <2>6 DEF Agree
  <2> QED BY <1>a, <2>1, <2>7 DEF EntryAgrees, Marks, ClientsKept
<1>3. ASSUME SessionLoop(s) \/ SessionRead(s) PROVE Goal
  <2>1. /\ m.pc \in {"loop", "read"} /\ session'[s] = e /\ UNCHANGED <<client, subs>>
        /\ manager'[s].pc \in {"read", "end", "subscribe", "search", "disconnect"}
        /\ manager'[s].pc = "disconnect" => manager'[s].msg = Disconnect
        /\ e.peer # None => e.peer = c
    BY <1>a, <1>3, ReadEffect DEF Place, Turn, ClientsKept
  <2>2. CASE e.peer # None /\ client[c] \in InSession
    <3>1. Agree(m, e, sent[c], subs[c], requests[c]) BY <1>a, <2>1, <2>2 DEF EntryAgrees
    <3>2. Counted(manager'[s], e) = Counted(m, e) BY <2>1 DEF Counted, Bound
    <3>3. \A k \in Keys : Granting(manager'[s], k) = Granting(m, k) BY <2>1 DEF Granting
    <3>4. Pending(manager'[s], sent'[c]) <= Pending(m, sent[c])
      BY <1>a, <1>3, <2>1, ReadEffect
         DEF Pending, Place, Turn, ClientsKept, RequestKept, Disconnect
    <3>5. Pending(m, sent[c]) \in {0, 1} /\ Pending(manager'[s], sent'[c]) \in {0, 1}
      BY DEF Pending
    <3>6. e.active => e.num + Pending(manager'[s], sent'[c]) <= requests[c]
      BY <1>a, <2>1, <3>1, <3>4, <3>5 DEF Agree
    <3>7. Agree(manager'[s], e, sent'[c], subs[c], requests[c])
      BY <2>1, <3>1, <3>2, <3>3, <3>6, AgreeSame
    <3> QED BY <1>a, <2>1, <2>2, <3>7 DEF EntryAgrees, Marks
  <2> QED BY <1>a, <2>1, <2>2 DEF EntryAgrees, Marks
<1>4. ASSUME SessionReadEOF(s) PROVE Goal
  <2>1. /\ m.pc = "read" /\ session'[s] = e /\ UNCHANGED client /\ client[c] = "gone"
        /\ manager'[s].pc \in {"subscribe", "search", "disconnect"}
        /\ manager'[s].pc = "disconnect" => manager'[s].msg = Disconnect
        /\ e.peer # None => e.peer = c
    BY <1>a, <1>4, ReadEffect DEF Place
  <2> QED BY <1>a, <2>1 DEF EntryAgrees, Marks, InSession
<1>5. ASSUME SessionSubscribe(s) PROVE Goal
  <2>1. /\ m.pc = "subscribe" /\ session'[s] = e /\ ClientsKept /\ manager'[s].msg = m.msg
        /\ m.msg.op = "SUBSCRIBE" /\ manager'[s].pc \in {"add", "respond"}
        /\ manager'[s].pc = "respond" /\ manager'[s].ok => e.num = MAX_NUMBER_SUB
        /\ manager'[s].pc = "add" => manager'[s].ok
        /\ e.peer # None => e.peer = c
    BY <1>a, <1>5, SubscribeEffect DEF Place, Turn
  <2>2. CASE e.peer # None /\ client[c] \in InSession
    <3>1. Agree(m, e, sent[c], subs[c], requests[c]) BY <1>a, <2>1, <2>2 DEF EntryAgrees
    <3>2. Counted(manager'[s], e) = Counted(m, e) BY <2>1 DEF Counted, Bound
    <3>3. /\ \A k \in Keys : Granting(m, k) = 0 /\ Granting(manager'[s], k) \in {0, 1}
          /\ ~ (manager'[s].pc = "respond" /\ manager'[s].ok) =>
               \A k \in Keys : Granting(manager'[s], k) = 0
      BY <2>1 DEF Granting
    <3>4. Pending(m, sent[c]) = 1 /\ Pending(manager'[s], sent[c]) \in {0, 1} BY <2>1 DEF Pending
    <3>5. e.active => e.num + 1 <= requests[c] BY <2>1, <3>1, <3>4 DEF Agree
    <3>6. e.active => e.num + Pending(manager'[s], sent[c]) <= requests[c]
      BY <1>a, <3>4, <3>5
    <3>7. CASE manager'[s].pc = "respond" /\ manager'[s].ok
      <4>1. e.active => ~ requests[c] <= MAX_NUMBER_SUB BY <1>a, <2>1, <3>5, <3>7, Numbers
      <4>2. ASSUME NEW k \in Keys
            PROVE  CopiesIn(e.keys, Counted(m, e), k) <= subs[c][k] + Granting(manager'[s], k)
        <5>1. CopiesIn(e.keys, Counted(m, e), k) <= subs[c][k] + 0 BY <3>1, <3>3 DEF Agree
        <5>2. Counted(m, e) \in SUBSET SubSlots BY DEF Counted
        <5>3. CopiesIn(e.keys, Counted(m, e), k) \in Nat BY <5>2, CopiesFewer
        <5>4. subs[c][k] \in Int /\ Granting(manager'[s], k) \in {0, 1} BY <1>a, <3>3
        <5> QED BY <5>1, <5>3, <5>4
      <4> QED BY <1>a, <2>1, <2>2, <3>2, <3>6, <4>1, <4>2 DEF EntryAgrees, Marks, Agree, ClientsKept
    <3>8. CASE ~ (manager'[s].pc = "respond" /\ manager'[s].ok)
      <4>1. Agree(manager'[s], e, sent[c], subs[c], requests[c])
        BY <2>1, <3>1, <3>2, <3>3, <3>6, <3>8, AgreeSame
      <4> QED BY <1>a, <2>1, <2>2, <4>1 DEF EntryAgrees, Marks, ClientsKept
    <3> QED BY <3>7, <3>8
  <2> QED BY <1>a, <2>1, <2>2 DEF EntryAgrees, Marks, ClientsKept
<1>6. ASSUME SessionAdd(s) PROVE Goal
  <2> DEFINE n == e.num
  <2>1. /\ m.pc = "add" /\ manager'[s].pc = "load" /\ ActiveKept(s) /\ ClientsKept
        /\ manager'[s].msg = m.msg /\ manager'[s].ok = m.ok
        /\ session'[s].num = n /\ session'[s].keys = [e.keys EXCEPT ![n] = m.msg.key]
        /\ n \in SubSlots /\ m.msg.op = "SUBSCRIBE" /\ m.msg.key \in Keys
        /\ e.peer # None => e.peer = c
    BY <1>a, <1>6, SubscribeEffect DEF Place, Turn, RequestKept
  <2>2. manager'[s].ok BY <1>a, <2>1 DEF EntryAgrees, Marks
  <2>3. CASE e.peer # None /\ client[c] \in InSession
    <3> DEFINE S == Counted(m, e)
    <3>1. Agree(m, e, sent[c], subs[c], requests[c]) BY <1>a, <2>1, <2>3 DEF EntryAgrees
    <3>2. S \in SUBSET SubSlots /\ n \in SubSlots \ S BY <2>1, Numbers DEF Counted, Bound
    <3>3. Counted(manager'[s], session'[s]) = S \cup {n}
      BY <1>a, <2>1, Numbers, SMTT(30) DEF Counted, Bound
    <3>4. session'[s].keys[n] = m.msg.key /\ \A i \in S : session'[s].keys[i] = e.keys[i]
      BY <1>a, <2>1, <3>2
    <3>5. \A k \in Keys : /\ Granting(m, k) = 0
                         /\ Granting(manager'[s], k) = IF m.msg.key = k THEN 1 ELSE 0
      BY <2>1 DEF Granting
    <3>6. Pending(m, sent[c]) = 1 /\ Pending(manager'[s], sent[c]) = 1 BY <2>1 DEF Pending
    <3>7. ASSUME NEW k \in Keys
          PROVE  /\ CopiesIn(session'[s].keys, S \cup {n}, k) <= subs[c][k] + Granting(manager'[s], k)
                 /\ e.active /\ requests[c] <= MAX_NUMBER_SUB =>
                      CopiesIn(session'[s].keys, S \cup {n}, k) = subs[c][k] + Granting(manager'[s], k)
      <4> HIDE DEF S
      <4>1. CopiesIn(session'[s].keys, S \cup {n}, k) =
              CopiesIn(session'[s].keys, S, k) + (IF session'[s].keys[n] = k THEN 1 ELSE 0)
        BY <3>2, CopiesAdd
      <4>2. CopiesIn(session'[s].keys, S, k) = CopiesIn(e.keys, S, k) BY <3>4, CopiesSame
      <4>3. CopiesIn(e.keys, S, k) \in Nat BY <3>2, CopiesFewer
      <4>4. /\ CopiesIn(e.keys, S, k) <= subs[c][k] + 0
            /\ e.active /\ requests[c] <= MAX_NUMBER_SUB => CopiesIn(e.keys, S, k) = subs[c][k] + 0
        BY <2>1, <3>1, <3>5 DEF Agree, S
      <4>5. subs[c][k] \in Int BY <1>a
      <4> DEFINE one == IF m.msg.key = k THEN 1 ELSE 0
      <4>6. one \in {0, 1} /\ Granting(manager'[s], k) = one BY <3>5
      <4>7. CopiesIn(session'[s].keys, S \cup {n}, k) = CopiesIn(e.keys, S, k) + one
        BY <3>4, <4>1, <4>2
      <4> HIDE DEF one
      <4> QED BY <4>3, <4>4, <4>5, <4>6, <4>7
    <3>8. e.active => n + Pending(manager'[s], sent[c]) <= requests[c]
      BY <2>1, <3>1, <3>6 DEF Agree
    <3>9. Agree(manager'[s], session'[s], sent[c], subs[c], requests[c])
      <4> HIDE DEF S
      <4> QED BY <2>1, <3>3, <3>7, <3>8 DEF Agree, ActiveKept
    <3> QED BY <1>a, <2>1, <2>2, <2>3, <3>9 DEF EntryAgrees, Marks, ClientsKept, ActiveKept
  <2> QED BY <1>a, <2>1, <2>2, <2>3 DEF EntryAgrees, Marks, ClientsKept, ActiveKept
<1>7. ASSUME SessionLoad(s) PROVE Goal
  <2>1. /\ m.pc = "load" /\ manager'[s].pc = "count" /\ session'[s] = e /\ ClientsKept
        /\ manager'[s].msg = m.msg /\ manager'[s].ok = m.ok /\ manager'[s].at = e.num
        /\ e.peer # None => e.peer = c
    BY <1>a, <1>7, SubscribeEffect DEF Place, Turn
  <2>2. Counted(manager'[s], e) = Counted(m, e) BY <2>1 DEF Counted, Bound
  <2>3. \A k \in Keys : Granting(manager'[s], k) = Granting(m, k) BY <2>1 DEF Granting
  <2>4. Pending(manager'[s], sent[c]) = Pending(m, sent[c]) BY <2>1 DEF Pending
  <2>5. CASE e.peer # None /\ client[c] \in InSession
    <3>1. Agree(m, e, sent[c], subs[c], requests[c]) BY <1>a, <2>1, <2>5 DEF EntryAgrees
    <3>2. e.active => e.num + Pending(m, sent[c]) <= requests[c] BY <2>1, <3>1 DEF Agree
    <3>3. Agree(manager'[s], e, sent[c], subs[c], requests[c])
      BY <2>1, <2>2, <2>3, <2>4, <3>1, <3>2, AgreeSame
    <3> QED BY <1>a, <2>1, <2>5, <3>3 DEF EntryAgrees, Marks, ClientsKept
  <2> QED BY <1>a, <2>1, <2>5 DEF EntryAgrees, Marks, ClientsKept
<1>8. ASSUME SessionCount(s) PROVE Goal
  <2>1. /\ m.pc = "count" /\ manager'[s].pc = "respond" /\ ActiveKept(s) /\ ClientsKept
        /\ manager'[s].msg = m.msg /\ manager'[s].ok = m.ok
        /\ session'[s].keys = e.keys
        /\ \/ m.msg.op = "SUBSCRIBE" /\ session'[s].num = m.at + 1
           \/ m.msg.op = "UNSUBSCRIBE" /\ session'[s].num = m.at - 1
        /\ e.peer # None => e.peer = c
    BY <1>a, <1>8, SubscribeEffect DEF Place, Turn, RequestKept
  <2>2. Counted(manager'[s], session'[s]) = Counted(m, e) BY <1>a, <2>1 DEF Counted, Bound
  <2>3. m.ok /\ \A k \in Keys : Granting(manager'[s], k) = Granting(m, k)
    BY <1>a, <2>1 DEF Granting, EntryAgrees, Marks
  <2>5. CASE e.peer # None /\ client[c] \in InSession
    <3>1. Agree(m, e, sent[c], subs[c], requests[c]) BY <1>a, <2>1, <2>5 DEF EntryAgrees
    <3>2. /\ Pending(manager'[s], sent[c]) = 0
          /\ Pending(m, sent[c]) = IF m.msg.op = "SUBSCRIBE" THEN 1 ELSE 0
      BY <2>1 DEF Pending
    <3>3. e.active => session'[s].num + Pending(manager'[s], sent[c]) <= requests[c]
      BY <1>a, <2>1, <3>1, <3>2 DEF Agree, EntryAgrees, Marks
    <3>4. Agree(manager'[s], session'[s], sent[c], subs[c], requests[c])
      BY <2>1, <2>2, <2>3, <3>1, <3>3, AgreeSame DEF ActiveKept
    <3> QED BY <1>a, <2>1, <2>5, <3>4 DEF EntryAgrees, Marks, ClientsKept, ActiveKept
  <2> QED BY <1>a, <2>1, <2>5 DEF EntryAgrees, Marks, ClientsKept, ActiveKept
<1>9. ASSUME SessionSearch(s) PROVE Goal
  <2> DEFINE i == m.at
  <2>1. /\ m.pc = "search" /\ session'[s] = e /\ ClientsKept /\ manager'[s].msg = m.msg
        /\ m.msg.op = "UNSUBSCRIBE"
        /\ \/ manager'[s].pc = "respond" /\ ~ manager'[s].ok
           \/ manager'[s].pc = "search"
           \/ /\ manager'[s].pc = "shift" /\ manager'[s].ok /\ manager'[s].at = i
              /\ i < e.num /\ e.keys[i] = m.msg.key
        /\ e.peer # None => e.peer = c /\ 0 <= i
    BY <1>a, <1>9, UnsubscribeEffect DEF Place, Turn, EntryInv
  <2>2. CASE e.peer # None /\ client[c] \in InSession
    <3>1. Agree(m, e, sent[c], subs[c], requests[c]) BY <1>a, <2>1, <2>2 DEF EntryAgrees
    <3>2. Pending(m, sent[c]) = 0 /\ Pending(manager'[s], sent[c]) = 0 BY <2>1 DEF Pending
    <3>3. e.active => e.num + 0 <= requests[c] BY <2>1, <3>1, <3>2 DEF Agree
    <3>4. \A k \in Keys : Granting(m, k) = 0 BY <2>1 DEF Granting
    <3>5. CASE manager'[s].pc # "shift"
      <4>1. Counted(manager'[s], e) = Counted(m, e) BY <2>1, <3>5 DEF Counted, Bound
      <4>2. \A k \in Keys : Granting(manager'[s], k) = Granting(m, k)
        BY <2>1, <3>4, <3>5 DEF Granting
      <4>3. Agree(manager'[s], e, sent[c], subs[c], requests[c])
        BY <2>1, <3>1, <3>2, <3>3, <4>1, <4>2, AgreeSame
      <4> QED BY <1>a, <2>1, <2>2, <3>5, <4>3 DEF EntryAgrees, Marks, ClientsKept
    <3>6. CASE manager'[s].pc = "shift"
      <4> DEFINE S == Counted(manager'[s], e)
      <4>1. i \in SubSlots BY <1>a, <2>1, <2>2, <3>6, Numbers
      <4>2. S \in SUBSET SubSlots /\ i \in SubSlots \ S /\ Counted(m, e) = S \cup {i}
        BY <2>1, <3>6, <4>1 DEF Counted, Bound
      <4>3. \A k \in Keys : Granting(manager'[s], k) = IF e.keys[i] = k THEN -1 ELSE 0
        BY <2>1, <3>6 DEF Granting
      <4>4. ASSUME NEW k \in Keys
            PROVE  /\ CopiesIn(e.keys, S, k) <= subs[c][k] + Granting(manager'[s], k)
                   /\ e.active /\ requests[c] <= MAX_NUMBER_SUB =>
                        CopiesIn(e.keys, S, k) = subs[c][k] + Granting(manager'[s], k)
        <5> HIDE DEF S
        <5> DEFINE one == IF e.keys[i] = k THEN 1 ELSE 0
        <5>1. CopiesIn(e.keys, S \cup {i}, k) = CopiesIn(e.keys, S, k) + one BY <4>2, CopiesAdd
        <5>2. CopiesIn(e.keys, S, k) \in Nat /\ subs[c][k] \in Int BY <1>a, <4>2, CopiesFewer
        <5>3. /\ CopiesIn(e.keys, S \cup {i}, k) <= subs[c][k] + 0
              /\ e.active /\ requests[c] <= MAX_NUMBER_SUB =>
                   CopiesIn(e.keys, S \cup {i}, k) = subs[c][k] + 0
          BY <2>1, <3>1, <3>4, <4>2 DEF Agree
        <5>4. one \in {0, 1} /\ Granting(manager'[s], k) = - one BY <4>3
        <5> HIDE DEF one
        <5> QED BY <5>1, <5>2, <5>3, <5>4
      <4>5. Agree(manager'[s], e, sent[c], subs[c], requests[c])
        BY <2>1, <3>2, <3>3, <3>6, <4>4 DEF Agree
      <4> QED BY <1>a, <2>1, <2>2, <3>6, <4>5 DEF EntryAgrees, Marks, ClientsKept
    <3> QED BY <3>5, <3>6
  <2> QED BY <1>a, <2>1, <2>2 DEF EntryAgrees, Marks, ClientsKept
<1>10. ASSUME SessionShift(s) PROVE Goal
  <2> DEFINE j == m.at
  <2>1. /\ m.pc = "shift" /\ manager'[s].msg = m.msg /\ m.msg.op = "UNSUBSCRIBE"
        /\ manager'[s].ok = m.ok /\ ActiveKept(s) /\ ClientsKept /\ session'[s].num = e.num
        /\ e.peer # None => e.peer = c
        /\ \/ /\ manager'[s].pc = "shift" /\ manager'[s].at = j + 1
              /\ j \in SubSlots /\ j + 1 \in SubSlots /\ j + 1 < e.num
              /\ session'[s].keys = [e.keys EXCEPT ![j] = e.keys[j + 1]]
           \/ /\ manager'[s].pc = "load" /\ session'[s].keys = e.keys
              /\ e.num <= j + 1
    BY <1>a, <1>10, UnsubscribeEffect DEF Place, Turn
  <2>2. m.ok /\ (e.active => j < e.num) BY <1>a, <2>1 DEF EntryAgrees, Marks
  <2>3. \A k \in Keys : Granting(manager'[s], k) = Granting(m, k) BY <2>1 DEF Granting
  <2>4. Pending(m, sent[c]) = 0 /\ Pending(manager'[s], sent[c]) = 0 BY <2>1 DEF Pending
  <2>5. Marks(manager'[s], session'[s]) BY <1>a, <2>1, <2>2 DEF Marks, ActiveKept
  <2>6. CASE e.peer # None /\ client[c] \in InSession
    <3> DEFINE S == Counted(m, e)
               R == Counted(manager'[s], session'[s])
    <3>1. Agree(m, e, sent[c], subs[c], requests[c]) BY <1>a, <2>1, <2>6 DEF EntryAgrees
    <3>2. S \in SUBSET SubSlots /\ R \in SUBSET SubSlots BY DEF Counted
    <3>3. ASSUME NEW k \in Keys
          PROVE  /\ CopiesIn(session'[s].keys, R, k) <= CopiesIn(e.keys, S, k)
                 /\ e.active => CopiesIn(session'[s].keys, R, k) = CopiesIn(e.keys, S, k)
      <4>1. CASE manager'[s].pc = "shift"
        <5> DEFINE T == {i \in SubSlots : i < e.num}
        <5>1. T \in SUBSET SubSlots /\ j \in T /\ j + 1 \in T BY <1>a, <2>1, <4>1, Numbers, SMTT(30)
        <5>2. S = T \ {j} /\ R = T \ {j + 1} BY <2>1, <4>1 DEF Counted, Bound
        <5>3. session'[s].keys = [e.keys EXCEPT ![j] = e.keys[j + 1]] BY <2>1, <4>1
        <5> HIDE DEF T, S, R
        <5>4. CopiesIn(session'[s].keys, R, k) = CopiesIn(e.keys, S, k)
          BY <1>a, <5>1, <5>2, <5>3, CopiesMove
        <5>5. CopiesIn(e.keys, S, k) \in Nat BY <3>2, CopiesFewer
        <5> QED BY <5>4, <5>5
      <4>2. CASE manager'[s].pc = "load"
        <5>1. R \in SUBSET S BY <1>a, <2>1, <4>2, Numbers DEF Counted, Bound
        <5>2. e.active => R = S BY <1>a, <2>1, <2>2, <4>2, Numbers, SMTT(30) DEF Counted, Bound
        <5>3. session'[s].keys = e.keys BY <2>1, <4>2
        <5> HIDE DEF S, R
        <5> QED BY <3>2, <5>1, <5>2, <5>3, CopiesFewer
      <4> QED BY <2>1, <4>1, <4>2
    <3>4. ASSUME NEW k \in Keys
          PROVE  /\ CopiesIn(session'[s].keys, R, k) <= subs[c][k] + Granting(manager'[s], k)
                 /\ e.active /\ requests[c] <= MAX_NUMBER_SUB =>
                      CopiesIn(session'[s].keys, R, k) = subs[c][k] + Granting(manager'[s], k)
      <4>1. /\ CopiesIn(e.keys, S, k) <= subs[c][k] + Granting(m, k)
            /\ e.active /\ requests[c] <= MAX_NUMBER_SUB =>
                 CopiesIn(e.keys, S, k) = subs[c][k] + Granting(m, k)
        BY <2>1, <3>1 DEF Agree
      <4>2. CopiesIn(session'[s].keys, R, k) \in Nat /\ CopiesIn(e.keys, S, k) \in Nat
        <5> HIDE DEF S, R
        <5> QED BY <3>2, CopiesFewer
      <4>3. Granting(m, k) \in {-1, 0, 1} BY DEF Granting
      <4>4. subs[c][k] \in Int BY <1>a
      <4> HIDE DEF S, R
      <4> QED BY <2>3, <3>3, <4>1, <4>2, <4>3, <4>4
    <3>5. e.active => session'[s].num + Pending(manager'[s], sent[c]) <= requests[c]
      BY <2>1, <2>4, <3>1 DEF Agree
    <3>6. Agree(manager'[s], session'[s], sent[c], subs[c], requests[c])
      BY <2>1, <3>4, <3>5 DEF Agree, ActiveKept
    <3> QED BY <1>a, <2>1, <2>5, <2>6, <3>6 DEF EntryAgrees, ClientsKept, ActiveKept
  <2> QED BY <1>a, <2>1, <2>5, <2>6 DEF EntryAgrees, ClientsKept, ActiveKept
<1>11. ASSUME SessionDisconnect(s) PROVE Goal
  <2>1. /\ m.pc = "disconnect" /\ manager'[s].pc = "respond" /\ ClientsKept
        /\ manager'[s].msg = m.msg /\ session'[s].peer = e.peer /\ session'[s].keys = e.keys
        /\ ~ session'[s].active /\ session'[s].num = 0
        /\ e.peer # None => e.peer = c
    BY <1>a, <1>11, UnsubscribeEffect DEF Place, Turn
  <2>2. CASE e.peer # None /\ client[c] \in InSession
    <3> DEFINE S == Counted(m, e)
               R == Counted(manager'[s], session'[s])
    <3>1. Agree(m, e, sent[c], subs[c], requests[c]) BY <1>a, <2>1, <2>2 DEF EntryAgrees
    <3>2. m.msg = Disconnect BY <1>a, <2>1 DEF EntryAgrees, Marks
    <3>3. \A k \in Keys : Granting(m, k) = 0 /\ Granting(manager'[s], k) = 0
      BY <2>1, <3>2, SubscriptionsAssumption DEF Granting, Disconnect
    <3>4. S \in SUBSET SubSlots /\ R \in SUBSET S BY <1>a, <2>1, Numbers DEF Counted, Bound
    <3>5. ASSUME NEW k \in Keys
          PROVE  CopiesIn(session'[s].keys, R, k) <= subs[c][k] + Granting(manager'[s], k)
      <4>1. CopiesIn(e.keys, S, k) <= subs[c][k] + 0 BY <3>1, <3>3 DEF Agree
      <4> HIDE DEF S, R
      <4>2. /\ CopiesIn(e.keys, R, k) \in Nat /\ CopiesIn(e.keys, S, k) \in Nat
            /\ CopiesIn(e.keys, R, k) <= CopiesIn(e.keys, S, k) /\ subs[c][k] \in Int
        BY <1>a, <3>4, CopiesFewer
      <4>3. session'[s].keys = e.keys /\ Granting(manager'[s], k) = 0 BY <2>1, <3>3
      <4> QED BY <4>1, <4>2, <4>3
    <3>6. Agree(manager'[s], session'[s], sent[c], subs[c], requests[c])
      BY <2>1, <3>5 DEF Agree
    <3> QED BY <1>a, <2>1, <2>2, <3>6 DEF EntryAgrees, Marks, ClientsKept
  <2> QED BY <1>a, <2>1, <2>2 DEF EntryAgrees, Marks, ClientsKept
<1>12. ASSUME SessionRespond(s) PROVE Goal
  <2>1. /\ m.pc = "respond" /\ manager'[s].pc = "loop" /\ session'[s] = e /\ UNCHANGED sent
        /\ e.peer = c /\ client[c] = "asking" /\ sent[c] = None
        /\ \/ client'[c] = "leaving"
           \/ /\ client'[c] = "idle"
              /\ \A k \in Keys : subs'[c][k] = subs[c][k] +
                   (IF m.ok /\ m.msg.key = k THEN IF m.msg.op = "SUBSCRIBE" THEN 1 ELSE -1 ELSE 0)
    BY <1>a, <1>12, RespondEffect DEF Place, Turn, Handling
  <2>2. CASE client'[c] = "idle"
    <3>1. Agree(m, e, sent[c], subs[c], requests[c]) BY <1>a, <2>1 DEF EntryAgrees, InSession
    <3>2. \A k \in Keys : subs'[c][k] = subs[c][k] + Granting(m, k) BY <2>1, <2>2 DEF Granting
    <3>3. \A k \in Keys : Granting(manager'[s], k) = 0 BY <2>1 DEF Granting
    <3>4. Counted(manager'[s], e) = Counted(m, e) BY <2>1 DEF Counted, Bound
    <3>5. Pending(m, sent[c]) = 0 /\ Pending(manager'[s], sent[c]) = 0 BY <2>1 DEF Pending
    <3>6. \A k \in Keys : subs'[c][k] + Granting(manager'[s], k) = subs[c][k] + Granting(m, k)
      <4> SUFFICES ASSUME NEW k \in Keys
                   PROVE  subs'[c][k] + Granting(manager'[s], k) = subs[c][k] + Granting(m, k)
        OBVIOUS
      <4>1. subs[c][k] \in Int /\ Granting(m, k) \in {-1, 0, 1} BY <1>a DEF Granting
      <4> QED BY <3>2, <3>3, <4>1
    <3>7. Agree(manager'[s], e, sent[c], subs'[c], requests[c])
      BY <2>1, <3>1, <3>4, <3>5, <3>6 DEF Agree
    <3> QED BY <1>a, <2>1, <2>2, <3>7 DEF EntryAgrees, Marks
  <2> QED BY <1>a, <2>1, <2>2 DEF EntryAgrees, Marks, InSession
<1>13. ASSUME SessionRespondDies(s) PROVE Goal
  BY <1>a, <1>13, RespondEffect DEF EntryAgrees, ClientsKept
<1>14. ASSUME SessionEnd(s) PROVE Goal
  <2>1. /\ m.pc = "end" /\ manager'[s].pc = "free" /\ ClientsKept /\ KeysKept(s)
        /\ session'[s].peer = e.peer /\ ~ session'[s].active
    BY <1>14, RespondEffect
  <2>2. ASSUME NEW x, NEW g, NEW n, Agree(m, e, x, g, n) PROVE Agree(manager'[s], session'[s], x, g, n)
    <3>1. Counted(manager'[s], session'[s]) = Counted(m, e) BY <2>1 DEF Counted, Bound, KeysKept
    <3>2. \A k \in Keys : Granting(manager'[s], k) = Granting(m, k) BY <2>1 DEF Granting
    <3> QED BY <2>1, <2>2, <3>1, <3>2, AgreeSame DEF KeysKept
  <2> QED BY <1>a, <2>1, <2>2 DEF EntryAgrees, Marks, ClientsKept
<1>g. Goal
  BY <1>1, <1>2, <1>3, <1>4, <1>5, <1>6, <1>7, <1>8, <1>9, <1>10, <1>11, <1>12, <1>13, <1>14,
     <1>15 DEF ManagerNext
<1> QED BY <1>g, AgreeStep

\* A request, an exit or a crash of a client leaves what was agreed.
LEMMA AgreeMoves ==
  ASSUME SubsInv, AgreeInv, NEW c \in Clients, UNCHANGED <<manager, session, subs>>,
         \A x \in Clients \ {c} :
           client'[x] = client[x] /\ sent'[x] = sent[x] /\ requests'[x] = requests[x],
         \/ client'[c] \notin InSession /\ sent'[c] = sent[c] /\ requests'[c] = requests[c]
         \/ client[c] \in InSession /\ requests'[c] = requests[c] + 1
         \/ client[c] \in InSession /\ requests'[c] = requests[c] /\ sent'[c] = Disconnect
  PROVE  AgreeInv'
<1>1. ASSUME NEW s \in Slots
      PROVE  EntryAgrees(manager'[s], session'[s], client', sent', subs', requests')
  <2> DEFINE m == manager[s]
             e == session[s]
             p == session[s].peer
  <2>1. EntryAgrees(m, e, client, sent, subs, requests) BY DEF AgreeInv
  <2>2. /\ p \in Clients \cup {None} /\ e.num \in -1 .. MAX_NUMBER_SUB
        /\ \A x \in Clients : requests[x] \in Nat
    <3>1. \A x \in Clients : requests[x] \in 0 .. MaxRequests BY DEF SubsInv, RestInv
    <3> QED BY <3>1, Numbers DEF SubsInv, EntriesInv, Entries
  <2>0. m.pc = "reset" => /\ \A k \in Keys : subs[m.client][k] = 0
                          /\ sent'[m.client] \notin {None, Disconnect} => requests'[m.client] # 0
    <3> SUFFICES ASSUME m.pc = "reset"
                 PROVE  /\ \A k \in Keys : subs[m.client][k] = 0
                        /\ sent'[m.client] \notin {None, Disconnect} => requests'[m.client] # 0
      OBVIOUS
    <3>1. /\ m.client \in Clients /\ \A k \in Keys : subs[m.client][k] = 0
          /\ sent[m.client] \notin {None, Disconnect} => requests[m.client] # 0
      BY <2>1 DEF EntryAgrees, SubsInv, EntriesInv, EntryInv
    <3>2. CASE m.client # c BY <3>1, <3>2
    <3>3. CASE m.client = c BY <2>2, <3>1, <3>3
    <3> QED BY <3>1, <3>2, <3>3
  <2>3. CASE p # c
    <3>1. p # None => client'[p] = client[p] /\ sent'[p] = sent[p] /\ requests'[p] = requests[p]
      BY <2>2, <2>3
    <3> HIDE DEF m, e
    <3>2. EntryAgrees(m, e, client', sent', subs, requests')
      BY <2>0, <2>1, <2>2, <3>1 DEF EntryAgrees, p, e
    <3> QED BY <3>2 DEF m, e
  <2>4. CASE p = c /\ client'[c] \in InSession /\ m.pc # "reset"
    <3>0. c # None BY SubscriptionsAssumption
    <3>1. Agree(m, e, sent[c], subs[c], requests[c]) BY <2>1, <2>4, <3>0 DEF EntryAgrees
    <3>2. requests[c] <= requests'[c] /\ requests[c] \in Nat /\ requests'[c] \in Nat
      BY <2>2, <2>4
    <3>3. Pending(m, sent[c]) \in {0, 1} /\ Pending(m, sent'[c]) \in {0, 1} BY DEF Pending
    <3>4. sent'[c] = Disconnect => Pending(m, sent'[c]) <= Pending(m, sent[c]) BY DEF Pending
    <3>5. e.active /\ m.pc # "open" => e.num + Pending(m, sent'[c]) <= requests'[c]
      <4>1. e.active /\ m.pc # "open" => e.num + Pending(m, sent[c]) <= requests[c] BY <3>1 DEF Agree
      <4>2. CASE requests'[c] = requests[c] + 1 BY <2>2, <3>2, <3>3, <4>1, <4>2
      <4>3. CASE requests'[c] = requests[c] /\ sent'[c] = Disconnect
        BY <2>2, <3>2, <3>3, <3>4, <4>1, <4>3
      <4> QED BY <2>4, <4>2, <4>3
    <3>6. requests'[c] <= MAX_NUMBER_SUB => requests[c] <= MAX_NUMBER_SUB BY <3>2, Numbers
    <3>7. Agree(m, e, sent'[c], subs[c], requests'[c])
      <4> HIDE DEF m, e
      <4> QED BY <3>1, <3>5, <3>6 DEF Agree
    <3> QED BY <2>1, <2>4, <3>7 DEF EntryAgrees
  <2>5. CASE p = c /\ ~ (client'[c] \in InSession /\ m.pc # "reset")
    BY <2>0, <2>1, <2>5 DEF EntryAgrees
  <2> QED BY <2>3, <2>4, <2>5
<1> QED BY <1>1 DEF AgreeInv

\* Every step of a client, and the claim of an entry for one.
LEMMA AgreeClient ==
  ASSUME SubsInv, Places, AgreeInv, NEW c \in Clients,
         ClientNext(c) \/ \E s \in Slots : SessionClaim(s, c) \/ SessionOverlaps(s, c)
  PROVE  AgreeInv'
<1>a. /\ client \in [Clients -> {"new", "waiting", "leaving", "hungup", "gone"} \cup InSession]
      /\ sent \in [Clients -> Messages \cup {None}] /\ requests \in [Clients -> 0 .. MaxRequests]
      /\ manager \in [Slots -> ManagerStates] /\ session \in [Slots -> Entries]
  BY DEF SubsInv, RestInv, EntriesInv
<1>1. ASSUME NEW k \in Keys, ClientSubscribe(c, k) \/ ClientUnsubscribe(c, k) PROVE AgreeInv'
  <2>1. /\ client[c] = "idle" /\ requests'[c] = requests[c] + 1
        /\ \A x \in Clients \ {c} :
             client'[x] = client[x] /\ sent'[x] = sent[x] /\ requests'[x] = requests[x]
        /\ UNCHANGED <<manager, session, subs>>
    BY <1>a, <1>1 DEF ClientSubscribe, ClientUnsubscribe, serverVars
  <2> QED BY <2>1, AgreeMoves DEF InSession
<1>2. CASE ClientDisconnect(c)
  <2>1. /\ client[c] = "idle" /\ sent'[c] = Disconnect
        /\ \A x \in Clients \ {c} : client'[x] = client[x] /\ sent'[x] = sent[x]
        /\ UNCHANGED <<manager, session, subs, requests>>
    BY <1>a, <1>2 DEF ClientDisconnect, serverVars, countVars
  <2> QED BY <2>1, AgreeMoves DEF InSession
<1>3. CASE ClientClose(c) \/ ClientCrash(c)
  <2>1. /\ client'[c] = "gone" /\ \A x \in Clients \ {c} : client'[x] = client[x]
        /\ UNCHANGED <<manager, session, subs, sent, requests>>
    BY <1>a, <1>3 DEF ClientClose, ClientCrash, serverVars, historyVars, countVars
  <2> QED BY <2>1, AgreeMoves DEF InSession
<1>4. ASSUME NEW s \in Slots, SessionClaim(s, c) PROVE AgreeInv'
  <2>1. /\ manager' = [manager EXCEPT ![s] =
                         [manager[s] EXCEPT !.pc = "open", !.client = c, !.msg = None]]
        /\ session' = [session EXCEPT ![s].active = TRUE]
        /\ client' = [client EXCEPT ![c] = "waiting"]
        /\ manager[s].pc = "free" /\ client[c] = "new" /\ UNCHANGED <<sent, subs, requests>>
    BY <1>4 DEF SessionClaim, managerFrame, countVars
  <2>2. manager'[s].pc = "open" BY <1>a, <2>1 DEF ManagerStates
  <2>3. KeysKept(s) /\ session'[s].peer = session[s].peer BY <1>a, <2>1 DEF Entries, KeysKept
  <2>4. \A x \in Clients : client'[x] \in InSession => client[x] \in InSession
    BY <1>a, <2>1 DEF InSession
  <2>5. \A u \in Slots : /\ session[u].peer \in Clients \cup {None}
                         /\ EntryAgrees(manager[u], session[u], client, sent, subs, requests)
    BY <1>a DEF AgreeInv, Entries
  <2>6. ASSUME NEW x, NEW g, NEW n, Agree(manager[s], session[s], x, g, n)
        PROVE Agree(manager'[s], session'[s], x, g, n)
    <3>1. Counted(manager'[s], session'[s]) = Counted(manager[s], session[s])
      BY <2>1, <2>2, <2>3 DEF Counted, Bound, KeysKept
    <3>2. \A k \in Keys : Granting(manager'[s], k) = Granting(manager[s], k)
      BY <2>1, <2>2 DEF Granting
    <3> QED BY <2>2, <2>3, <2>6, <3>1, <3>2, AgreeSame DEF KeysKept
  <2>7. EntryAgrees(manager'[s], session'[s], client', sent', subs', requests')
    BY <2>1, <2>2, <2>3, <2>4, <2>5, <2>6 DEF EntryAgrees, Marks
  <2>8. ASSUME NEW u \in Slots, u # s
        PROVE  EntryAgrees(manager'[u], session'[u], client', sent', subs', requests')
    <3>1. manager'[u] = manager[u] /\ session'[u] = session[u] BY <1>a, <2>1, <2>8
    <3>2. EntryAgrees(manager[u], session[u], client', sent, subs, requests)
      BY <2>4, <2>5 DEF EntryAgrees
    <3> QED BY <2>1, <3>1, <3>2
  <2> QED BY <2>7, <2>8 DEF AgreeInv
<1>5. ASSUME NEW s \in Slots, SessionOverlaps(s, c) PROVE AgreeInv'
  BY <1>5 DEF SessionOverlaps, clientVars, countVars, historyVars, AgreeInv
<1> QED BY <1>1, <1>2, <1>3, <1>4, <1>5 DEF ClientNext

\* Every step of the sweep: it hangs up the client whose FIFOs it closes, and makes
\* the entry it empties inactive.
LEMMA AgreeHost == ASSUME SubsInv, Places, AgreeInv, HostNext PROVE AgreeInv'
<1>a. /\ \A s \in Slots : EntryAgrees(manager[s], session[s], client, sent, subs, requests)
      /\ client \in [Clients -> {"new", "waiting", "leaving", "hungup", "gone"} \cup InSession]
      /\ manager \in [Slots -> ManagerStates] /\ session \in [Slots -> Entries]
      /\ \A s \in Slots : EntryInv(manager[s], session[s])
      /\ subs \in [Clients -> [Keys -> Int]]
  BY DEF AgreeInv, SubsInv, RestInv, EntriesInv
<1>b. host.pc \in {"close", "reset"} => host.i \in Slots
  BY Numbers DEF SubsInv, RestInv
<1>1. CASE SweepStart \/ SweepCheck
  <2>1. UNCHANGED <<manager, session, client, sent, subs, requests>>
    BY <1>1 DEF SweepStart, SweepCheck, hostFrame
  <2> QED BY <1>a, <2>1 DEF AgreeInv
<1>2. CASE SweepClose
  <2> DEFINE i == host.i
  <2>1. /\ i \in Slots /\ session'[i].peer = None /\ session'[i].num = session[i].num
        /\ session'[i].active = session[i].active
        /\ \A u \in Slots \ {i} : session'[u] = session[u]
        /\ \A x \in Clients : client'[x] \in InSession => client[x] \in InSession
        /\ UNCHANGED <<manager, sent, subs, requests>>
    BY <1>a, <1>b, <1>2 DEF SweepClose, hostFrame, Entries, InSession
  <2>2. ASSUME NEW u \in Slots
        PROVE  EntryAgrees(manager[u], session'[u], client', sent, subs, requests)
    <3>1. EntryAgrees(manager[u], session[u], client, sent, subs, requests) BY <1>a
    <3>2. session[u].peer \in Clients \cup {None} BY <1>a DEF Entries
    <3>3. CASE u = i BY <2>1, <3>1, <3>3 DEF EntryAgrees, Marks
    <3>4. CASE u # i BY <2>1, <3>1, <3>2, <3>4 DEF EntryAgrees
    <3> QED BY <3>3, <3>4
  <2> QED BY <2>1, <2>2 DEF AgreeInv
<1>3. CASE SweepReset
  <2> DEFINE i == host.i
             m == manager[i]
             e == session[i]
             d == session'[i]
  <2>1. /\ i \in Slots /\ d.peer = e.peer /\ d.keys = e.keys /\ d.num = 0 /\ ~ d.active
        /\ \A u \in Slots \ {i} : session'[u] = session[u]
        /\ UNCHANGED <<manager, client, sent, subs, requests>>
    BY <1>a, <1>b, <1>3 DEF SweepReset, hostFrame, Entries
  <2>2. ASSUME NEW x, NEW g \in [Keys -> Int], NEW n, Agree(m, e, x, g, n) PROVE Agree(m, d, x, g, n)
    <3> DEFINE S == Counted(m, e)
               R == Counted(m, d)
    <3>1. S \in SUBSET SubSlots /\ R \in SUBSET S
      <4>1. e.num \in -1 .. MAX_NUMBER_SUB /\ (e.num = -1 => m.pc # "load") BY <1>a, <2>1 DEF Entries, EntryInv
      <4>2. m.pc # "load" \/ 0 <= e.num BY <4>1, Numbers
      <4> QED BY <1>a, <2>1, <4>1, <4>2, Numbers DEF Counted, Bound
    <3>2. ASSUME NEW k \in Keys PROVE CopiesIn(d.keys, R, k) <= g[k] + Granting(m, k)
      <4>1. CopiesIn(e.keys, S, k) <= g[k] + Granting(m, k) BY <2>2 DEF Agree
      <4>2. g[k] \in Int /\ Granting(m, k) \in {-1, 0, 1} BY <2>2 DEF Granting
      <4> HIDE DEF S, R
      <4>3. /\ CopiesIn(e.keys, R, k) \in Nat /\ CopiesIn(e.keys, S, k) \in Nat
            /\ CopiesIn(e.keys, R, k) <= CopiesIn(e.keys, S, k)
        BY <3>1, CopiesFewer
      <4>4. d.keys = e.keys BY <2>1
      <4> HIDE DEF d, e, m
      <4> QED BY <4>1, <4>2, <4>3, <4>4
    <3> QED BY <2>1, <3>2 DEF Agree
  <2>3. EntryAgrees(m, d, client, sent, subs, requests)
    <3>1. EntryAgrees(m, e, client, sent, subs, requests) BY <1>a, <2>1
    <3>2. e.peer # None => subs[e.peer] \in [Keys -> Int]
      BY <1>a, <2>1 DEF Entries
    <3> QED BY <2>1, <2>2, <3>1, <3>2 DEF EntryAgrees, Marks
  <2> QED BY <1>a, <2>1, <2>3 DEF AgreeInv
<1> QED BY <1>1, <1>2, <1>3 DEF HostNext

\* Steps that touch none of it.
LEMMA AgreeKept ==
  ASSUME AgreeInv, UNCHANGED <<manager, session, client, sent, subs, requests>> PROVE AgreeInv'
BY DEF AgreeInv

\* At first no entry has a client.
LEMMA AgreeInit == Init => AgreeInv
BY DEF Init, AgreeInv, EntryAgrees, Marks

-----------------------------------------------------------------------------
(* The clients that a change does not concern.                             *)

\* No slot that counts, or will once the request is counted, holds key k, and the
\* request stores none.
Free(m, e, k) ==
  /\ \A i \in SubSlots : i < e.num \/ i < Bound(m, e) => e.keys[i] # k
  /\ m.pc \in {"subscribe", "add"} => m.msg.key # k

\* The job thread has not found its key in entry e, which is u, nor is about to.
NotFound(q, u, e) ==
  q.s = u => q.pc # "write" /\ (q.pc = "compare" => e.keys[q.j] # q.key)

\* Job thread t has nothing to tell client c: the client is in session, does not ask for
\* the key, and no entry it is the client of holds it.
NothingToTell(c, t) ==
  /\ job[t].pc # "job" /\ client[c] \notin {"new", "waiting"}
  /\ sent[c] # None /\ sent[c].op = "SUBSCRIBE" => sent[c].key # job[t].key
  /\ \A u \in Slots : session[u].peer = c =>
       Free(manager[u], session[u], job[t].key) /\ NotFound(job[t], u, session[u])

QuietInv ==
  \A t \in JobThreads : \A c \in watch[t].quiet \ watch[t].fresh : client[c] # "gone" => NothingToTell(c, t)

\* What is left to show for the step of one manager: about its own entry.
LEMMA QuietStep ==
  ASSUME SubsInv, Places, QuietInv, NEW s \in Slots, ManagerNext(s),
         client[manager[s].client] = "gone" => client'[manager[s].client] = "gone",
         client[manager[s].client] \notin {"new", "waiting"} =>
           client'[manager[s].client] \notin {"new", "waiting"},
         sent'[manager[s].client] \in {sent[manager[s].client], None},
         \A t \in JobThreads : \A c \in watch[t].quiet \ watch[t].fresh :
           client[c] # "gone" /\ NothingToTell(c, t) /\ session'[s].peer = c =>
             Free(manager'[s], session'[s], job[t].key) /\ NotFound(job[t], s, session'[s])
  PROVE  QuietInv'
<1> DEFINE d == manager[s].client
<1>a. /\ d \in Clients
      /\ \A u \in Slots \ {s} : manager'[u] = manager[u] /\ session'[u] = session[u]
      /\ \A x \in Clients \ {d} : client'[x] = client[x] /\ sent'[x] = sent[x]
      /\ UNCHANGED <<job, watch>>
  BY ManagerFrame DEF managerFrame
<1> SUFFICES ASSUME NEW t \in JobThreads, NEW c \in watch[t].quiet \ watch[t].fresh, client'[c] # "gone"
             PROVE  NothingToTell(c, t)'
  BY <1>a DEF QuietInv
<1>1. c \in Clients BY DEF SubsInv, RestInv, Watches
<1>2. client[c] # "gone" BY <1>a, <1>1
<1>3. NothingToTell(c, t) BY <1>2 DEF QuietInv
<1>4. /\ client'[c] \notin {"new", "waiting"}
      /\ sent'[c] # None /\ sent'[c].op = "SUBSCRIBE" => sent'[c].key # job[t].key
  BY <1>a, <1>1, <1>3 DEF NothingToTell
<1>5. ASSUME NEW u \in Slots, session'[u].peer = c
      PROVE  Free(manager'[u], session'[u], job[t].key) /\ NotFound(job[t], u, session'[u])
  <2>1. CASE u = s BY <1>2, <1>3, <1>5, <2>1
  <2>2. CASE u # s BY <1>a, <1>3, <1>5, <2>2 DEF NothingToTell
  <2> QED BY <2>1, <2>2
<1> QED BY <1>a, <1>3, <1>4, <1>5 DEF NothingToTell

\* Every step of a manager keeps the other clients' keys out of their entries.
LEMMA QuietManager ==
  ASSUME SubsInv, Places, AgreeInv, QuietInv, NEW s \in Slots, ManagerNext(s) PROVE QuietInv'
<1> DEFINE m == manager[s]
           e == session[s]
           d == manager[s].client
           Moves == /\ client[d] = "gone" => client'[d] = "gone"
                    /\ client[d] \notin {"new", "waiting"} => client'[d] \notin {"new", "waiting"}
                    /\ sent'[d] \in {sent[d], None}
           Keeps(q, c) == Free(m, e, q.key) /\ NotFound(q, s, e) /\ session'[s].peer = c =>
                            Free(manager'[s], session'[s], q.key) /\ NotFound(q, s, session'[s])
<1>a. /\ d \in Clients /\ d # None
      /\ e.num \in -1 .. MAX_NUMBER_SUB /\ m.at \in -1 .. MAX_NUMBER_SUB
      /\ e.keys \in [SubSlots -> Keys \cup {NoKey}]
      /\ EntryInv(m, e) /\ Place(m, e, client, sent)
      /\ EntryAgrees(m, e, client, sent, subs, requests)
  BY ManagerFacts
<1>b. ASSUME Moves, NEW t \in JobThreads, NEW c \in watch[t].quiet \ watch[t].fresh,
             client[c] # "gone", NothingToTell(c, t)
      PROVE  /\ c \in Clients /\ c # None /\ client[c] \notin {"new", "waiting", "gone"}
             /\ e.peer = c => Free(m, e, job[t].key) /\ NotFound(job[t], s, e)
             /\ job[t].pc = "compare" => job[t].j \in SubSlots
  <2>1. c \in Clients BY DEF SubsInv, RestInv, Watches
  <2>2. job[t].pc = "compare" => job[t].j \in SubSlots BY Numbers DEF SubsInv, RestInv
  <2> QED BY <1>b, <2>1, <2>2, SubscriptionsAssumption DEF NothingToTell
<1> DEFINE Goal == /\ Moves
                   /\ \A t \in JobThreads : \A c \in watch[t].quiet \ watch[t].fresh :
                        client[c] # "gone" /\ NothingToTell(c, t) /\ session'[s].peer = c =>
                          Free(manager'[s], session'[s], job[t].key) /\ NotFound(job[t], s, session'[s])
<1>1. ASSUME SessionOpen(s) \/ SessionConnect(s) \/ SessionConnectFails(s) PROVE Goal
  <2>1. /\ Moves
        /\ session'[s].peer = None \/ (session'[s].peer = d /\ client[d] = "waiting")
    BY <1>a, <1>1, ConnectEffect DEF Place, Turn, ClientsKept, ActiveKept
  <2> QED BY <1>b, <2>1
<1>2. ASSUME SessionLoop(s) \/ SessionRespond(s) \/ SessionRespondFails(s)
             \/ SessionRespondDies(s) \/ SessionEnd(s)
      PROVE  Goal
  <2>1. Moves BY <1>a, <1>2, ReadEffect, RespondEffect DEF ClientsKept
  <2>2. /\ session'[s].peer = e.peer /\ session'[s].num = e.num /\ session'[s].keys = e.keys
        /\ \/ manager'[s] = m
           \/ /\ m.pc \in {"loop", "respond", "end"}
              /\ manager'[s].pc \in {"read", "end", "loop", "free"}
    BY <1>2, ReadEffect, RespondEffect DEF Turn, KeysKept
  <2>3. ASSUME NEW q, Free(m, e, q.key), NotFound(q, s, e)
        PROVE  Free(manager'[s], session'[s], q.key) /\ NotFound(q, s, session'[s])
    BY <2>2, <2>3 DEF Free, Bound, NotFound
  <2> QED BY <1>b, <2>1, <2>2, <2>3
<1>3. ASSUME SessionRead(s) PROVE Goal
  <2>1. /\ Moves /\ session'[s] = e /\ m.pc = "read"
        /\ manager'[s].msg = sent[d] /\ sent[d] # None
        /\ manager'[s].pc \in {"subscribe", "search", "disconnect"}
        /\ manager'[s].pc = "subscribe" => sent[d].op = "SUBSCRIBE"
        /\ e.peer # None => e.peer = d
    BY <1>a, <1>3, ReadEffect DEF Place
  <2>2. ASSUME NEW q, Free(m, e, q.key), sent[d].op = "SUBSCRIBE" => sent[d].key # q.key
        PROVE  Free(manager'[s], session'[s], q.key)
    BY <2>1, <2>2 DEF Free, Bound
  <2>3. ASSUME NEW t \in JobThreads, NEW c \in watch[t].quiet \ watch[t].fresh,
               client[c] # "gone", NothingToTell(c, t), e.peer = c
        PROVE  Free(manager'[s], session'[s], job[t].key) /\ NotFound(job[t], s, e)
    <3>1. Free(m, e, job[t].key) /\ NotFound(job[t], s, e) /\ c = d BY <1>b, <2>1, <2>3
    <3>2. sent[d].op = "SUBSCRIBE" => sent[d].key # job[t].key
      BY <2>1, <2>3, <3>1 DEF NothingToTell
    <3> QED BY <2>2, <3>1, <3>2
  <2> QED BY <2>1, <2>3
<1>4. ASSUME SessionReadEOF(s) PROVE Goal
  <2>1. /\ Moves /\ session'[s] = e /\ client[d] = "gone" /\ e.peer \in {None, d}
    BY <1>a, <1>4, ReadEffect DEF Place
  <2> QED BY <1>b, <2>1
<1>5. ASSUME SessionSubscribe(s) \/ SessionLoad(s) \/ SessionCount(s) PROVE Goal
  <2>1. /\ Moves /\ session'[s].peer = e.peer /\ session'[s].keys = e.keys
        /\ manager'[s].msg = m.msg
    BY <1>a, <1>5, SubscribeEffect DEF Turn, RequestKept, ClientsKept, ActiveKept
  <2>3. \/ /\ m.pc = "subscribe" /\ manager'[s].pc \in {"add", "respond"}
           /\ session'[s].num = e.num
        \/ /\ m.pc = "load" /\ manager'[s].pc = "count" /\ manager'[s].at = e.num
           /\ session'[s].num = e.num
        \/ m.pc = "count" /\ manager'[s].pc = "respond" /\ session'[s].num = Bound(m, e)
    <3>1. CASE SessionSubscribe(s) BY <3>1, SubscribeEffect DEF Turn
    <3>2. CASE SessionLoad(s) BY <3>2, SubscribeEffect DEF Turn
    <3>3. CASE SessionCount(s)
      <4>1. /\ m.pc = "count" /\ manager'[s].pc = "respond"
            /\ \/ m.msg.op = "SUBSCRIBE" /\ session'[s].num = m.at + 1
               \/ m.msg.op = "UNSUBSCRIBE" /\ session'[s].num = m.at - 1
        BY <3>3, SubscribeEffect DEF Turn
      <4>2. m.at - 1 = m.at + (-1) BY <1>a, Numbers
      <4>3. session'[s].num = Bound(m, e) BY <4>1, <4>2 DEF Bound
      <4> QED BY <4>1, <4>3
    <3> QED BY <1>5, <3>1, <3>2, <3>3
  <2>2. ASSUME NEW q, Free(m, e, q.key), NotFound(q, s, e)
        PROVE  Free(manager'[s], session'[s], q.key) /\ NotFound(q, s, session'[s])
    <3>1. NotFound(q, s, session'[s]) BY <2>1, <2>2 DEF NotFound
    <3>2. \A i \in SubSlots : i < session'[s].num \/ i < Bound(manager'[s], session'[s]) =>
                                i < e.num \/ i < Bound(m, e)
      BY <2>1, <2>3 DEF Bound
    <3>3. manager'[s].pc \in {"subscribe", "add"} => m.pc = "subscribe" BY <2>3
    <3> QED BY <2>1, <2>2, <3>1, <3>2, <3>3 DEF Free
  <2> QED BY <1>b, <2>1, <2>2
<1>6. ASSUME SessionAdd(s) PROVE Goal
  <2>1. /\ Moves /\ session'[s].peer = e.peer /\ session'[s].num = e.num /\ e.num \in SubSlots
        /\ session'[s].keys = [e.keys EXCEPT ![e.num] = m.msg.key]
        /\ manager'[s].msg = m.msg /\ m.msg.op = "SUBSCRIBE"
        /\ m.pc = "add" /\ manager'[s].pc = "load"
    BY <1>6, SubscribeEffect DEF Turn, RequestKept, ClientsKept, ActiveKept
  <2>2. ASSUME NEW q, Free(m, e, q.key), NotFound(q, s, e), q.pc = "compare" => q.j \in SubSlots
        PROVE  Free(manager'[s], session'[s], q.key) /\ NotFound(q, s, session'[s])
    <3>1. m.msg.key # q.key BY <2>1, <2>2 DEF Free
    <3>2. ASSUME NEW i \in SubSlots, i < e.num + 1 PROVE session'[s].keys[i] # q.key
      <4>1. CASE i = e.num BY <1>a, <2>1, <3>1, <4>1
      <4>2. CASE i # e.num
        <5>1. i < e.num BY <1>a, <2>1, <3>2, <4>2, Numbers
        <5> QED BY <1>a, <2>1, <2>2, <4>2, <5>1 DEF Free
      <4> QED BY <4>1, <4>2
    <3>3. Free(manager'[s], session'[s], q.key)
      <4>1. Bound(manager'[s], session'[s]) = e.num + 1 BY <2>1 DEF Bound
      <4>2. \A i \in SubSlots : i < e.num => i < e.num + 1 BY <1>a, Numbers
      <4> QED BY <2>1, <3>2, <4>1, <4>2 DEF Free
    <3>4. NotFound(q, s, session'[s])
      <4>1. \A j \in SubSlots : session'[s].keys[j] \in {e.keys[j], m.msg.key}
        BY <1>a, <2>1
      <4> QED BY <2>2, <3>1, <4>1 DEF NotFound
    <3> QED BY <3>3, <3>4
  <2> QED BY <1>b, <2>1, <2>2
<1>7. ASSUME SessionSearch(s) PROVE Goal
  <2>1. /\ Moves /\ session'[s] = e /\ manager'[s].pc \in {"respond", "shift", "search"}
        /\ m.pc = "search"
    BY <1>a, <1>7, UnsubscribeEffect DEF Turn, ClientsKept
  <2>2. ASSUME NEW k, Free(m, e, k) PROVE Free(manager'[s], e, k)
    BY <2>1, <2>2 DEF Free, Bound
  <2> QED BY <1>b, <2>1, <2>2
<1>8. ASSUME SessionShift(s) PROVE Goal
  <2>1. /\ Moves /\ session'[s].peer = e.peer /\ session'[s].num = e.num
        /\ manager'[s].msg = m.msg /\ m.msg.op = "UNSUBSCRIBE" /\ m.pc = "shift"
        /\ \/ /\ manager'[s].pc = "shift"
              /\ m.at \in SubSlots /\ m.at + 1 \in SubSlots /\ m.at + 1 < e.num
              /\ session'[s].keys = [e.keys EXCEPT ![m.at] = e.keys[m.at + 1]]
           \/ manager'[s].pc = "load" /\ session'[s].keys = e.keys
    BY <1>a, <1>8, UnsubscribeEffect DEF Turn, ClientsKept, ActiveKept
  <2>2. ASSUME NEW q, Free(m, e, q.key), NotFound(q, s, e), q.pc = "compare" => q.j \in SubSlots
        PROVE  Free(manager'[s], session'[s], q.key) /\ NotFound(q, s, session'[s])
    <3>1. \A i \in SubSlots : i < e.num => e.keys[i] # q.key BY <2>2 DEF Free
    <3>2. \A i \in SubSlots : session'[s].keys[i] = e.keys[i] \/ session'[s].keys[i] # q.key
      BY <1>a, <2>1, <3>1
    <3>3. \A i \in SubSlots : i < session'[s].num \/ i < Bound(manager'[s], session'[s]) => i < e.num
      <4>1. Bound(manager'[s], session'[s]) = e.num \/ Bound(manager'[s], session'[s]) = e.num + (-1)
        BY <2>1 DEF Bound
      <4>2. \A i \in SubSlots : i < e.num + (-1) => i < e.num BY <1>a, Numbers
      <4> QED BY <2>1, <4>1, <4>2
    <3>4. Free(manager'[s], session'[s], q.key) BY <2>1, <3>1, <3>2, <3>3 DEF Free
    <3>5. NotFound(q, s, session'[s]) BY <2>2, <3>2 DEF NotFound
    <3> QED BY <3>4, <3>5
  <2> QED BY <1>b, <2>1, <2>2
<1>9. ASSUME SessionDisconnect(s) PROVE Goal
  <2>1. /\ Moves /\ session'[s].peer = e.peer /\ session'[s].keys = e.keys
        /\ session'[s].num = 0 /\ manager'[s].pc = "respond"
    BY <1>a, <1>9, UnsubscribeEffect DEF Turn, ClientsKept
  <2>2. ASSUME NEW q, Free(m, e, q.key), NotFound(q, s, e)
        PROVE  Free(manager'[s], session'[s], q.key) /\ NotFound(q, s, session'[s])
    <3>1. \A i \in SubSlots : ~ (i < 0) BY Numbers
    <3>2. Bound(manager'[s], session'[s]) = 0 BY <2>1 DEF Bound
    <3>3. Free(manager'[s], session'[s], q.key) BY <2>1, <3>1, <3>2 DEF Free
    <3> QED BY <2>1, <2>2, <3>3 DEF NotFound
  <2> QED BY <1>b, <2>1, <2>2
<1>10. ASSUME SessionReset(s) PROVE Goal
  <2>1. /\ Moves /\ session'[s].peer = e.peer /\ session'[s].keys = e.keys
        /\ session'[s].num = 0 /\ manager'[s].pc = "loop"
    BY <1>a, <1>10, ConnectEffect DEF Turn, ClientsKept, ActiveKept
  <2>2. ASSUME NEW q, Free(m, e, q.key), NotFound(q, s, e)
        PROVE  Free(manager'[s], session'[s], q.key) /\ NotFound(q, s, session'[s])
    <3>1. \A i \in SubSlots : ~ (i < 0) BY Numbers
    <3>2. Bound(manager'[s], session'[s]) = 0 BY <2>1 DEF Bound
    <3>3. Free(manager'[s], session'[s], q.key) BY <2>1, <3>1, <3>2 DEF Free
    <3> QED BY <2>1, <2>2, <3>3 DEF NotFound
  <2> QED BY <1>b, <2>1, <2>2
<1>g. Goal
  BY <1>1, <1>2, <1>3, <1>4, <1>5, <1>6, <1>7, <1>8, <1>9, <1>10 DEF ManagerNext
<1> QED BY <1>g, QuietStep

\* A request, an exit or a crash of a client leaves the others alone.
LEMMA QuietMoves ==
  ASSUME SubsInv, QuietInv, NEW c \in Clients, UNCHANGED <<manager, session, job>>,
         \A x \in Clients \ {c} : client'[x] = client[x] /\ sent'[x] = sent[x],
         \A t \in JobThreads : watch'[t].quiet \ watch'[t].fresh \subseteq watch[t].quiet \ watch[t].fresh,
         \A t \in JobThreads : c \in watch'[t].quiet \ watch'[t].fresh /\ client'[c] # "gone" =>
           /\ client[c] # "gone" /\ client'[c] \notin {"new", "waiting"}
           /\ sent'[c] # None /\ sent'[c].op = "SUBSCRIBE" => sent'[c].key # job[t].key
  PROVE  QuietInv'
<1> SUFFICES ASSUME NEW t \in JobThreads, NEW x \in watch'[t].quiet \ watch'[t].fresh, client'[x] # "gone"
             PROVE  NothingToTell(x, t)'
  BY DEF QuietInv
<1>1. x \in watch[t].quiet \ watch[t].fresh /\ x \in Clients BY DEF SubsInv, RestInv, Watches
<1>2. client[x] # "gone" BY <1>1
<1>3. NothingToTell(x, t) BY <1>1, <1>2 DEF QuietInv
<1>4. /\ client'[x] \notin {"new", "waiting"}
      /\ sent'[x] # None /\ sent'[x].op = "SUBSCRIBE" => sent'[x].key # job[t].key
  <2>1. CASE x = c BY <2>1
  <2>2. CASE x # c BY <1>1, <1>3, <2>2 DEF NothingToTell
  <2> QED BY <2>1, <2>2
<1> QED BY <1>3, <1>4 DEF NothingToTell

\* Every step of a client, and the claim of an entry for one.
LEMMA QuietClient ==
  ASSUME SubsInv, QuietInv, NEW c \in Clients,
         ClientNext(c) \/ \E s \in Slots : SessionClaim(s, c) \/ SessionOverlaps(s, c)
  PROVE  QuietInv'
<1> USE DEF Watches
<1>a. /\ client \in [Clients -> {"new", "waiting", "leaving", "hungup", "gone"} \cup InSession]
      /\ sent \in [Clients -> Messages \cup {None}]
      /\ watch \in [JobThreads -> Watches]
      /\ manager \in [Slots -> ManagerStates] /\ session \in [Slots -> Entries]
  BY DEF SubsInv, RestInv, EntriesInv
<1>1. ASSUME NEW k \in Keys, ClientSubscribe(c, k) PROVE QuietInv'
  <2>1. /\ client[c] = "idle" /\ client'[c] = "asking" /\ sent'[c] = [op |-> "SUBSCRIBE", key |-> k]
        /\ \A x \in Clients \ {c} : client'[x] = client[x] /\ sent'[x] = sent[x]
        /\ UNCHANGED <<manager, session, job>>
    BY <1>a, <1>1 DEF ClientSubscribe, serverVars
  <2>2. \A t \in JobThreads : /\ watch'[t].quiet \ watch'[t].fresh \subseteq watch[t].quiet \ watch[t].fresh
                              /\ job[t].key = k => c \notin watch'[t].quiet
    BY <1>a, <1>1 DEF ClientSubscribe
  <2> QED BY <2>1, <2>2, QuietMoves
<1>2. ASSUME NEW k \in Keys, ClientUnsubscribe(c, k) PROVE QuietInv'
  <2>1. /\ client[c] = "idle" /\ client'[c] = "asking" /\ sent'[c] = [op |-> "UNSUBSCRIBE", key |-> k]
        /\ \A x \in Clients \ {c} : client'[x] = client[x] /\ sent'[x] = sent[x]
        /\ UNCHANGED <<manager, session, job>>
    BY <1>a, <1>2 DEF ClientUnsubscribe, serverVars
  <2>2. \A t \in JobThreads : watch'[t].quiet \ watch'[t].fresh \subseteq watch[t].quiet \ watch[t].fresh
    BY <1>a, <1>2 DEF ClientUnsubscribe
  <2> QED BY <2>1, <2>2, QuietMoves
<1>3. CASE ClientDisconnect(c)
  <2>1. /\ client[c] = "idle" /\ client'[c] = "asking" /\ sent'[c] = Disconnect
        /\ \A x \in Clients \ {c} : client'[x] = client[x] /\ sent'[x] = sent[x]
        /\ UNCHANGED <<manager, session, job>>
    BY <1>a, <1>3 DEF ClientDisconnect, serverVars
  <2>2. \A t \in JobThreads : watch'[t].quiet \ watch'[t].fresh \subseteq watch[t].quiet \ watch[t].fresh
    BY <1>a, <1>3 DEF ClientDisconnect, Forget
  <2>3. Disconnect.op # "SUBSCRIBE" BY DEF Disconnect
  <2> QED BY <2>1, <2>2, <2>3, QuietMoves
<1>4. CASE ClientClose(c) \/ ClientCrash(c)
  <2>1. /\ client'[c] = "gone" /\ UNCHANGED <<manager, session, job, sent>>
        /\ \A x \in Clients \ {c} : client'[x] = client[x]
    BY <1>a, <1>4 DEF ClientClose, ClientCrash, serverVars
  <2>2. \A t \in JobThreads : watch'[t].quiet \ watch'[t].fresh \subseteq watch[t].quiet \ watch[t].fresh
    BY <1>a, <1>4 DEF ClientClose, ClientCrash, historyVars, Forget
  <2> QED BY <2>1, <2>2, QuietMoves
<1>5. ASSUME NEW s \in Slots, SessionClaim(s, c) PROVE QuietInv'
  <2>1. /\ manager[s].pc = "free" /\ client[c] = "new" /\ client'[c] = "waiting"
        /\ manager'[s].pc = "open"
        /\ session'[s].peer = session[s].peer /\ KeysKept(s)
        /\ \A u \in Slots \ {s} : manager'[u] = manager[u] /\ session'[u] = session[u]
        /\ \A x \in Clients \ {c} : client'[x] = client[x]
        /\ UNCHANGED <<sent, watch, job>>
    <3>1. /\ manager' = [manager EXCEPT ![s] =
                           [manager[s] EXCEPT !.pc = "open", !.client = c, !.msg = None]]
          /\ session' = [session EXCEPT ![s].active = TRUE]
          /\ client' = [client EXCEPT ![c] = "waiting"]
          /\ manager[s].pc = "free" /\ client[c] = "new" /\ UNCHANGED <<sent, watch, job>>
      BY <1>5 DEF SessionClaim, managerFrame
    <3>2. manager'[s].pc = "open" BY <1>a, <3>1 DEF ManagerStates
    <3>3. session'[s].peer = session[s].peer /\ KeysKept(s) BY <1>a, <3>1 DEF Entries, KeysKept
    <3> QED BY <1>a, <3>1, <3>2, <3>3
  <2> SUFFICES ASSUME NEW t \in JobThreads, NEW x \in watch[t].quiet \ watch[t].fresh, client'[x] # "gone"
               PROVE  NothingToTell(x, t)'
    BY <2>1 DEF QuietInv
  <2>2. x \in Clients BY <1>a
  <2>3. client[x] # "gone" BY <2>1, <2>2
  <2>4. NothingToTell(x, t) BY <2>3 DEF QuietInv
  <2>5. client'[x] = client[x] BY <2>1, <2>2, <2>4 DEF NothingToTell
  <2>6. ASSUME NEW u \in Slots, session'[u].peer = x
        PROVE  Free(manager'[u], session'[u], job[t].key) /\ NotFound(job[t], u, session'[u])
    <3>1. session[u].peer = x BY <2>1, <2>6
    <3>2. Free(manager[u], session[u], job[t].key) /\ NotFound(job[t], u, session[u])
      BY <2>4, <3>1 DEF NothingToTell
    <3>3. CASE u = s BY <2>1, <3>2, <3>3 DEF Free, Bound, NotFound, KeysKept
    <3>4. CASE u # s BY <2>1, <3>2, <3>4
    <3> QED BY <3>3, <3>4
  <2> QED BY <2>1, <2>4, <2>5, <2>6 DEF NothingToTell
<1>6. ASSUME NEW s \in Slots, SessionOverlaps(s, c) PROVE QuietInv'
  BY <1>6 DEF SessionOverlaps, clientVars, historyVars, QuietInv, NothingToTell
<1> QED BY <1>1, <1>2, <1>3, <1>4, <1>5, <1>6 DEF ClientNext

\* Every step of the sweep: an emptied entry holds no more keys than before.
LEMMA QuietHost == ASSUME SubsInv, QuietInv, HostNext PROVE QuietInv'
<1> USE DEF Watches
<1>a. /\ client \in [Clients -> {"new", "waiting", "leaving", "hungup", "gone"} \cup InSession]
      /\ watch \in [JobThreads -> Watches]
      /\ manager \in [Slots -> ManagerStates] /\ session \in [Slots -> Entries]
      /\ \A u \in Slots : EntryInv(manager[u], session[u])
  BY DEF SubsInv, RestInv, EntriesInv
<1>b. host.pc \in {"close", "reset"} => host.i \in Slots
  BY Numbers DEF SubsInv, RestInv
<1>1. CASE SweepStart \/ SweepCheck
  <2>1. UNCHANGED <<manager, session, client, sent, job, watch>>
    BY <1>1 DEF SweepStart, SweepCheck, hostFrame
  <2> QED BY <2>1 DEF QuietInv, NothingToTell
<1>c. ASSUME UNCHANGED <<manager, sent, job>>,
             \A t \in JobThreads : watch'[t].quiet = watch[t].quiet /\ watch'[t].fresh = watch[t].fresh,
             \A x \in Clients : /\ client[x] = "gone" => client'[x] = "gone"
                                /\ client'[x] \in {"new", "waiting"} => client[x] \in {"new", "waiting"},
             \A x \in Clients, u \in Slots : session'[u].peer = x =>
               /\ session[u].peer = x /\ session'[u].keys = session[u].keys
               /\ session'[u].num \in {session[u].num, 0}
      PROVE  QuietInv'
  <2> SUFFICES ASSUME NEW t \in JobThreads, NEW x \in watch[t].quiet \ watch[t].fresh, client'[x] # "gone"
               PROVE  NothingToTell(x, t)'
    BY <1>c DEF QuietInv
  <2>1. x \in Clients BY <1>a
  <2>2. client[x] # "gone" BY <1>c, <2>1
  <2>3. NothingToTell(x, t) BY <2>2 DEF QuietInv
  <2>4. ASSUME NEW u \in Slots, session'[u].peer = x
        PROVE  Free(manager[u], session'[u], job[t].key) /\ NotFound(job[t], u, session'[u])
    <3> DEFINE m == manager[u]
               e == session[u]
               d == session'[u]
    <3>1. /\ d.keys = e.keys /\ d.num \in {e.num, 0}
          /\ Free(m, e, job[t].key) /\ NotFound(job[t], u, e)
      BY <1>c, <2>1, <2>3, <2>4 DEF NothingToTell
    <3>2. e.num \in -1 .. MAX_NUMBER_SUB /\ (m.pc = "load" => e.num # -1)
      BY <1>a DEF Entries, EntryInv
    <3>3. \A i \in SubSlots : i < d.num \/ i < Bound(m, d) => i < e.num \/ i < Bound(m, e)
      <4>1. CASE d.num = e.num BY <4>1 DEF Bound
      <4>2. CASE d.num = 0
        <5>1. \A i \in SubSlots : ~ (i < 0) BY Numbers
        <5>2. m.pc # "load" => Bound(m, d) = Bound(m, e) \/ Bound(m, d) = 0 BY <4>2 DEF Bound
        <5>3. m.pc = "load" => \A i \in SubSlots : i < Bound(m, d) => i < Bound(m, e)
          <6> SUFFICES ASSUME m.pc = "load", NEW i \in SubSlots, i < Bound(m, d)
                       PROVE  i < Bound(m, e)
            OBVIOUS
          <6>1. 0 <= e.num /\ e.num \in Int /\ i \in Int BY <3>2, Numbers
          <6> HIDE DEF m, e
          <6>2. CASE m.msg.op = "SUBSCRIBE"
            <7>1. Bound(m, d) = 0 + 1 /\ Bound(m, e) = e.num + 1 BY <4>2, <6>2 DEF Bound
            <7> QED BY <6>1, <7>1
          <6>3. CASE m.msg.op # "SUBSCRIBE"
            <7>1. Bound(m, d) = 0 + (-1) BY <4>2, <6>3 DEF Bound
            <7> QED BY <7>1, Numbers
          <6> QED BY <6>2, <6>3
        <5> QED BY <4>2, <5>1, <5>2, <5>3
      <4> QED BY <3>1, <4>1, <4>2
    <3>4. Free(m, d, job[t].key)
      <4> HIDE DEF m, e, d
      <4> QED BY <3>1, <3>3 DEF Free
    <3> QED BY <3>1, <3>4 DEF NotFound
  <2> QED BY <1>c, <2>1, <2>3, <2>4 DEF NothingToTell
<1>2. CASE SweepClose
  <2> DEFINE i == host.i
  <2>1. /\ i \in Slots /\ session'[i].peer = None
        /\ \A u \in Slots \ {i} : session'[u] = session[u]
        /\ \A x \in Clients : client'[x] \in {client[x], "hungup"} /\ (client[x] = "gone" => client'[x] = "gone")
        /\ UNCHANGED <<manager, sent, job>>
    BY <1>a, <1>b, <1>2 DEF SweepClose, hostFrame, Entries, InSession
  <2>2. \A t \in JobThreads : watch'[t].quiet = watch[t].quiet /\ watch'[t].fresh = watch[t].fresh
    BY <1>a, <1>2 DEF SweepClose, Forget
  <2> QED BY <1>c, <2>1, <2>2, SubscriptionsAssumption
<1>3. CASE SweepReset
  <2> DEFINE i == host.i
  <2>1. /\ i \in Slots /\ session'[i].peer = session[i].peer /\ session'[i].keys = session[i].keys
        /\ session'[i].num = 0
        /\ \A u \in Slots \ {i} : session'[u] = session[u]
        /\ UNCHANGED <<manager, sent, client, job>>
    BY <1>a, <1>b, <1>3 DEF SweepReset, hostFrame, Entries
  <2>2. \A t \in JobThreads : watch'[t].quiet = watch[t].quiet /\ watch'[t].fresh = watch[t].fresh
    BY <1>a, <1>3 DEF SweepReset, Forget
  <2> QED BY <1>c, <2>1, <2>2
<1> QED BY <1>1, <1>2, <1>3 DEF HostNext

\* Who a change does not concern holds no subscription to its key: its entry agrees
\* with what it was granted, and between two requests nothing is on its way.
LEMMA QuietChange ==
  ASSUME SubsInv, Places, AgreeInv, NEW c \in Clients, client[c] = "idle", NEW k \in Keys,
         subs[c][k] = 0, ~ Fresh(c), NEW u \in Slots, session[u].peer = c
  PROVE  Free(manager[u], session[u], k)
<1> DEFINE m == manager[u]
           e == session[u]
           S == Counted(m, e)
<1>1. /\ Place(m, e, client, sent) /\ EntryAgrees(m, e, client, sent, subs, requests)
      /\ c # None /\ m.pc \in Steps
  BY SubscriptionsAssumption DEF Places, AgreeInv, SubsInv, EntriesInv, ManagerStates
<1>2. m.pc \in {"free", "open", "loop", "read", "end"}
  BY <1>1 DEF Place, Steps, Handling, Fresh
<1>3. Agree(m, e, sent[c], subs[c], requests[c]) BY <1>1, <1>2 DEF EntryAgrees, InSession
<1>4. Granting(m, k) = 0 BY <1>2 DEF Granting
<1>5. CopiesIn(e.keys, S, k) <= 0 + 0 BY <1>3, <1>4 DEF Agree
<1>6. S \in SUBSET SubSlots BY DEF Counted
<1> HIDE DEF S
<1>7. CopiesIn(e.keys, S, k) \in Nat BY <1>6, CopiesFewer
<1>8. CopiesIn(e.keys, S, k) = 0 BY <1>5, <1>7
<1>9. {i \in S : e.keys[i] = k} = {}
  <2>1. {i \in S : e.keys[i] = k} \in SUBSET SubSlots BY <1>6
  <2>2. IsFiniteSet(SubSlots) BY SlotsFinite
  <2>3. IsFiniteSet({i \in S : e.keys[i] = k}) BY <2>1, <2>2, FS_Subset
  <2> QED BY <1>8, <2>3, FS_EmptySet DEF CopiesIn
<1>10. Bound(m, e) = e.num BY <1>2 DEF Bound
<1>11. S = {i \in SubSlots : i < e.num} BY <1>2, <1>10 DEF S, Counted
<1> QED BY <1>2, <1>9, <1>10, <1>11 DEF Free

\* Every step of a job thread: it finds its key in no entry of a client that it has
\* nothing to tell.
LEMMA QuietJob ==
  ASSUME SubsInv, Places, AgreeInv, QuietInv, NEW t \in JobThreads,
         NotifyNext(t) \/ \E k \in Keys : JobWrite(t, k) \/ JobDelete(t, k)
  PROVE  QuietInv'
<1> USE DEF Watches
<1> DEFINE q == job[t]
<1>a. /\ watch \in [JobThreads -> Watches]
      /\ job \in [JobThreads ->
           [pc : {"job", "active", "num", "compare", "write"}, key : Keys \cup {NoKey},
            s : 0 .. MAX_SESSION_COUNT, j : 0 .. MAX_NUMBER_SUB]]
      /\ session \in [Slots -> Entries]
  BY DEF SubsInv, RestInv, EntriesInv
<1>b. /\ q.pc \in {"num", "compare", "write"} => q.s \in Slots
      /\ q.pc \in {"compare", "write"} => q.j \in SubSlots
  BY <1>a, Numbers DEF SubsInv, RestInv
<1>c. UNCHANGED <<session, manager, client, sent, subs>>
  BY DEF NotifyNext, NotifyActive, NotifyNum, NotifyCompare, NotifyWrite, NotifyEnd, JobWrite,
         JobDelete, JobChange, jobFrame
<1>d. \A u \in JobThreads \ {t} : job'[u] = job[u] /\ watch'[u] = watch[u]
  BY <1>a DEF NotifyNext, NotifyActive, NotifyNum, NotifyCompare, NotifyWrite, NotifyEnd, JobWrite,
         JobDelete, JobChange, jobFrame
<1>e. ASSUME \A c \in watch'[t].quiet \ watch'[t].fresh : client[c] # "gone" => NothingToTell(c, t)'
      PROVE  QuietInv'
  <2> SUFFICES ASSUME NEW u \in JobThreads, u # t, NEW c \in watch'[u].quiet \ watch'[u].fresh, client'[c] # "gone"
               PROVE  NothingToTell(c, u)'
    BY <1>c, <1>e DEF QuietInv
  <2>1. NothingToTell(c, u) BY <1>c, <1>d DEF QuietInv
  <2> QED BY <1>c, <1>d, <2>1 DEF NothingToTell
<1>f. ASSUME watch'[t].quiet = watch[t].quiet /\ watch'[t].fresh = watch[t].fresh, job'[t].key = q.key, job'[t].pc # "job",
             ASSUME NEW u \in Slots, Free(manager[u], session[u], q.key), NotFound(q, u, session[u])
             PROVE  NotFound(job'[t], u, session[u])
      PROVE  QuietInv'
  <2> SUFFICES ASSUME NEW c \in watch[t].quiet \ watch[t].fresh, client[c] # "gone" PROVE NothingToTell(c, t)'
    BY <1>e, <1>f
  <2>1. NothingToTell(c, t) BY DEF QuietInv
  <2> QED BY <1>c, <1>f, <2>1 DEF NothingToTell
<1>1. CASE NotifyActive(t)
  <2>1. watch' = watch /\ job'[t].key = q.key /\ job'[t].pc \in {"active", "num"}
    BY <1>a, <1>1 DEF NotifyActive
  <2> QED BY <1>f, <2>1 DEF NotFound
<1>2. CASE NotifyNum(t)
  <2>1. /\ watch' = watch /\ job'[t].key = q.key /\ q.pc = "num"
        /\ \/ job'[t].pc = "active"
           \/ /\ job'[t].pc = "compare" /\ job'[t].s = q.s /\ job'[t].j = q.j
              /\ q.j < session[q.s].num
    BY <1>a, <1>2 DEF NotifyNum
  <2>2. q.j < session[q.s].num => q.j \in SubSlots
    <3>1. q.s \in Slots BY <1>b, <2>1
    <3>2. session[q.s].num \in -1 .. MAX_NUMBER_SUB /\ q.j \in 0 .. MAX_NUMBER_SUB
      BY <1>a, <3>1 DEF Entries
    <3> QED BY <3>2, Numbers
  <2>3. ASSUME NEW u \in Slots, Free(manager[u], session[u], q.key), NotFound(q, u, session[u])
        PROVE  NotFound(job'[t], u, session[u])
    BY <2>1, <2>2, <2>3 DEF NotFound, Free
  <2> QED BY <1>f, <2>1, <2>3
<1>3. CASE NotifyCompare(t)
  <2>1. /\ watch' = watch /\ job'[t].key = q.key /\ q.pc = "compare"
        /\ \/ job'[t].pc = "num"
           \/ /\ job'[t].pc = "write" /\ job'[t].s = q.s
              /\ session[q.s].keys[q.j] = q.key
    BY <1>a, <1>3 DEF NotifyCompare
  <2>2. ASSUME NEW u \in Slots, NotFound(q, u, session[u]) PROVE NotFound(job'[t], u, session[u])
    BY <2>1, <2>2 DEF NotFound
  <2> QED BY <1>f, <2>1, <2>2
<1>4. CASE NotifyWrite(t)
  <2>1. watch'[t].quiet = watch[t].quiet /\ watch'[t].fresh = watch[t].fresh /\ job'[t].key = q.key /\ job'[t].pc = "num"
    BY <1>a, <1>4 DEF NotifyWrite
  <2> QED BY <1>f, <2>1 DEF NotFound
<1>5. CASE NotifyEnd(t)
  <2>1. watch'[t].quiet = {} BY <1>a, <1>5 DEF NotifyEnd, Nobody
  <2> QED BY <1>e, <2>1
<1>6. ASSUME NEW k \in Keys, JobWrite(t, k) \/ JobDelete(t, k) PROVE QuietInv'
  <2>1. /\ job'[t].pc = "active" /\ job'[t].key = k
        /\ watch'[t].quiet = {c \in Clients : client[c] = "idle" /\ subs[c][k] = 0}
        /\ watch'[t].fresh = {c \in Clients : client[c] = "idle" /\ Fresh(c)}
    <3>1. PICK T : JobChange(t, k, T) BY <1>6 DEF JobWrite, JobDelete
    <3>2. /\ job' = [job EXCEPT ![t] = [pc |-> "active", key |-> k, s |-> 0, j |-> 0]]
          /\ \E A : watch' = [watch EXCEPT ![t] =
               [owed |-> A, moved |-> {},
                quiet |-> {c \in {d \in Clients : client[d] = "idle"} : subs[c][k] = 0},
                fresh |-> {c \in {d \in Clients : client[d] = "idle"} : Fresh(c)}]]
      BY <3>1 DEF JobChange
    <3> QED BY <1>a, <3>2
  <2>2. ASSUME NEW c \in watch'[t].quiet \ watch'[t].fresh PROVE NothingToTell(c, t)'
    <3>1. c \in Clients /\ client[c] = "idle" /\ subs[c][k] = 0 /\ ~ Fresh(c) BY <2>1, <2>2
    <3>2. sent[c] = None BY <3>1 DEF Places, Unbegun
    <3>3. \A u \in Slots : session[u].peer = c => Free(manager[u], session[u], k)
      BY <3>1, QuietChange
    <3>4. \A u \in Slots : NotFound(job'[t], u, session[u]) BY <2>1 DEF NotFound
    <3> QED BY <1>c, <2>1, <3>1, <3>2, <3>3, <3>4 DEF NothingToTell
  <2> QED BY <1>e, <2>2
<1> QED BY <1>1, <1>2, <1>3, <1>4, <1>5, <1>6 DEF NotifyNext

LEMMA QuietInit == Init => QuietInv
BY DEF Init, QuietInv, Nobody

\* What is found is for a client that the change concerns.
LEMMA QuietFollows == ASSUME SubsInv, QuietInv PROVE QuietClients
<1> SUFFICES ASSUME NEW t \in JobThreads, job[t].pc = "write",
                    NEW c \in watch[t].quiet \ watch[t].fresh, client[c] # "gone", session[job[t].s].peer = c
             PROVE  FALSE
  BY DEF QuietClients
<1>1. job[t].s \in Slots BY Numbers DEF SubsInv, RestInv
<1> QED BY <1>1 DEF QuietInv, NothingToTell, NotFound

-----------------------------------------------------------------------------
(* The invariant of the sessions.                                          *)

SessionsInv == SubsInv /\ Places /\ AgreeInv /\ QuietInv

LEMMA SessionsStep == SessionsInv /\ [Next]_vars => SessionsInv'
<1> SUFFICES ASSUME SessionsInv, [Next]_vars PROVE SessionsInv' OBVIOUS
<1>a. SubsInv /\ Places /\ AgreeInv /\ QuietInv BY DEF SessionsInv
<1>b. SubsInv' BY <1>a, SubsStep
<1>1. ASSUME NEW c \in Clients,
             ClientNext(c) \/ \E s \in Slots : SessionClaim(s, c) \/ SessionOverlaps(s, c)
      PROVE  SessionsInv'
  BY <1>a, <1>b, <1>1, PlacesClient, AgreeClient, QuietClient DEF SessionsInv
<1>2. ASSUME NEW s \in Slots, ManagerNext(s) PROVE SessionsInv'
  BY <1>a, <1>b, <1>2, PlacesManager, AgreeManager, QuietManager DEF SessionsInv
<1>3. CASE HostNext
  BY <1>a, <1>b, <1>3, PlacesHost, AgreeHost, QuietHost DEF SessionsInv
<1>4. ASSUME NEW t \in JobThreads,
             NotifyNext(t) \/ \E k \in Keys : JobWrite(t, k) \/ JobDelete(t, k)
      PROVE  SessionsInv'
  <2>1. UNCHANGED <<manager, session, client, sent, subs, requests>>
    BY <1>4 DEF NotifyNext, NotifyActive, NotifyNum, NotifyCompare, NotifyWrite, NotifyEnd,
           JobWrite, JobDelete, JobChange, jobFrame
  <2> QED BY <1>a, <1>b, <1>4, <2>1, PlacesKept, AgreeKept, QuietJob DEF SessionsInv
<1>5. CASE UNCHANGED vars
  <2>1. UNCHANGED <<manager, session, client, sent, subs, requests, job, watch>>
    BY <1>5 DEF vars, serverVars, clientVars, countVars, historyVars
  <2>2. QuietInv' BY <1>a, <2>1 DEF QuietInv, NothingToTell
  <2> QED BY <1>a, <1>b, <2>1, <2>2, PlacesKept, AgreeKept DEF SessionsInv
<1> QED BY <1>1, <1>2, <1>3, <1>4, <1>5 DEF Next, Running

LEMMA SessionsInit == Init => SessionsInv
BY SubsInit, PlacesInit, AgreeInit, QuietInit DEF SessionsInv

\* Between two requests the copies in an entry are those that were granted.
LEMMA AgreeFollows == ASSUME SubsInv, Places, AgreeInv PROVE SubscriptionsAgree
<1> SUFFICES ASSUME NEW s \in Slots, manager[s].pc = "read", session[s].active,
                    client[manager[s].client] \in InSession, NEW k \in Keys
             PROVE  LET c == manager[s].client IN
                    /\ Copies(s, k) <= subs[c][k]
                    /\ requests[c] <= MAX_NUMBER_SUB => Copies(s, k) = subs[c][k]
  BY DEF SubscriptionsAgree
<1> DEFINE m == manager[s]
           e == session[s]
           c == manager[s].client
<1>1. /\ Place(m, e, client, sent) /\ EntryAgrees(m, e, client, sent, subs, requests)
      /\ c \in Clients /\ c # None
  BY SubscriptionsAssumption DEF Places, AgreeInv, SubsInv, EntriesInv, EntryInv
<1>2. e.peer = c BY <1>1 DEF Place, InSession
<1>3. Agree(m, e, sent[c], subs[c], requests[c]) BY <1>1, <1>2 DEF EntryAgrees
<1>4. Granting(m, k) = 0 BY DEF Granting
<1>5. CopiesIn(e.keys, Counted(m, e), k) = Copies(s, k)
  <2>1. {i \in Counted(m, e) : e.keys[i] = k} = {i \in SubSlots : i < e.num /\ e.keys[i] = k}
    BY DEF Counted, Bound
  <2> QED BY <2>1 DEF CopiesIn, Copies
<1>6. subs[c][k] + 0 = subs[c][k]
  <2>1. subs[c][k] \in Int BY <1>1 DEF SubsInv, RestInv
  <2> QED BY <2>1
<1> QED BY <1>3, <1>4, <1>5, <1>6 DEF Agree

\* An entry whose manager waits for the next request holds no subscription more often
\* than its client was granted it, and exactly as often until the limit was reached,
\* for any number of sessions, slots and sweeps (main.c:294-337).
THEOREM EntriesAgree == Spec => []SubscriptionsAgree
<1>1. SessionsInv => SubscriptionsAgree BY AgreeFollows DEF SessionsInv
<1> QED BY <1>1, SessionsInit, SessionsStep, PTL DEF Spec

\* notify_clients tells no running client of a key it was not subscribed to when it
\* changed and did not ask for since, although it reads the entries unlocked and a
\* sweep may leave a subscription counted, unless the client's manager had not come
\* past main.c:275 at the change (main.c:102-123, 265-275, 297, 486).
THEOREM QuietClientsUntold == Spec => []QuietClients
<1>1. SessionsInv => QuietClients BY QuietFollows DEF SessionsInv
<1> QED BY <1>1, SessionsInit, SessionsStep, PTL DEF Spec

-----------------------------------------------------------------------------
(* The managers of the clients in session.                                 *)

\* The client's manager, whose entry is active until it has answered a DISCONNECT.
Serves(m, e, c) ==
  m.client = c /\ (e.active \/ (m.pc = "respond" /\ m.msg = Disconnect))

\* A client that no sweep has left behind has one from its CONNECT request on.
ServedInv ==
  \A c \in Clients : client[c] \in InSession \cup {"waiting"} /\ c \notin missed =>
    \E s \in Slots : Serves(manager[s], session[s], c)

\* Every step of a manager: it lets go of its client only once that has disconnected,
\* or the sweep has closed its FIFOs.
LEMMA ServedManager ==
  ASSUME SubsInv, Places, AgreeInv, ServedInv, NEW s \in Slots, ManagerNext(s) PROVE ServedInv'
<1> DEFINE m == manager[s]
           e == session[s]
           c == manager[s].client
           Goal == client'[c] \in InSession \cup {"waiting"} =>
                     /\ client[c] \in InSession \cup {"waiting"}
                     /\ Serves(m, e, c) => Serves(manager'[s], session'[s], c)
<1>a. /\ c \in Clients /\ c # None
      /\ EntryInv(m, e) /\ Place(m, e, client, sent)
      /\ EntryAgrees(m, e, client, sent, subs, requests)
  BY ManagerFacts
<1>b. /\ \A u \in Slots \ {s} : manager'[u] = manager[u] /\ session'[u] = session[u]
      /\ \A x \in Clients \ {c} : client'[x] = client[x]
      /\ missed' = missed
  BY ManagerFrame DEF managerFrame
<1> USE DEF Serves
<1>1. ASSUME SessionOpen(s) \/ SessionConnect(s) \/ SessionConnectFails(s) \/ SessionReset(s)
      PROVE  Goal
  BY <1>a, <1>1, ConnectEffect
     DEF Place, Turn, RequestKept, ActiveKept, ClientsKept, InSession
<1>2. ASSUME SessionLoop(s) \/ SessionRead(s) \/ SessionReadEOF(s) PROVE Goal
  BY <1>a, <1>2, ReadEffect DEF Place, Turn, RequestKept, ClientsKept, InSession
<1>3. ASSUME SessionSubscribe(s) \/ SessionAdd(s) \/ SessionLoad(s) \/ SessionCount(s)
             \/ SessionSearch(s) \/ SessionShift(s)
      PROVE  Goal
  <2>1. /\ m.pc # "respond" /\ manager'[s].client = c /\ session'[s].active = e.active
        /\ ClientsKept
    BY <1>3, SubscribeEffect, UnsubscribeEffect DEF Turn, ActiveKept
  <2> QED BY <2>1 DEF ClientsKept
<1>4. ASSUME SessionDisconnect(s) PROVE Goal
  <2>1. m.msg = Disconnect
    BY <1>a, <1>4, UnsubscribeEffect DEF Turn, EntryAgrees, Marks
  <2> QED BY <1>4, <2>1, UnsubscribeEffect DEF Turn, ClientsKept
<1>5. ASSUME SessionRespond(s) PROVE Goal
  <2>1. /\ m.pc = "respond" /\ manager'[s].client = c /\ session'[s] = e
        /\ e.peer # None /\ client[c] # "gone"
        /\ m.msg = Disconnect => client'[c] = "leaving"
    <3>1. Disconnect.op \notin {"SUBSCRIBE", "UNSUBSCRIBE"} BY DEF Disconnect
    <3> QED BY <1>5, <3>1, RespondEffect DEF Turn
  <2>2. client[c] = "asking" BY <1>a, <2>1 DEF Place, Handling
  <2> QED BY <2>1, <2>2 DEF InSession
<1>6. ASSUME SessionRespondFails(s) PROVE Goal
  <2>1. client[c] \notin InSession \cup {"waiting"} /\ client'[c] = client[c]
    BY <1>a, <1>6, RespondEffect DEF Place, Turn, ClientsKept, InSession
  <2> QED BY <2>1
<1>7. ASSUME SessionRespondDies(s) PROVE Goal
  BY <1>7, RespondEffect DEF ClientsKept
<1>8. ASSUME SessionEnd(s) PROVE Goal
  <2>1. m.pc = "end" /\ client'[c] = client[c] BY <1>8, RespondEffect DEF ClientsKept
  <2> QED BY <1>a, <2>1 DEF Place, InSession
<1>g. Goal BY <1>1, <1>2, <1>3, <1>4, <1>5, <1>6, <1>7, <1>8 DEF ManagerNext
<1> HIDE DEF Serves
<1> SUFFICES ASSUME NEW x \in Clients, client'[x] \in InSession \cup {"waiting"}, x \notin missed
             PROVE  \E u \in Slots : Serves(manager'[u], session'[u], x)
  BY <1>b DEF ServedInv
<1>9. client[x] \in InSession \cup {"waiting"} BY <1>b, <1>g
<1>10. PICK u \in Slots : Serves(manager[u], session[u], x) BY <1>9 DEF ServedInv
<1>11. CASE u = s
  <2>1. x = c BY <1>10, <1>11 DEF Serves
  <2> QED BY <1>g, <1>10, <1>11, <2>1
<1>12. CASE u # s BY <1>b, <1>10, <1>12
<1> QED BY <1>11, <1>12

\* Every step of a client, and the claim of an entry for one.
LEMMA ServedClient ==
  ASSUME SubsInv, Places, ServedInv, NEW c \in Clients,
         ClientNext(c) \/ \E s \in Slots : SessionClaim(s, c) \/ SessionOverlaps(s, c)
  PROVE  ServedInv'
<1>a. /\ client \in [Clients -> {"new", "waiting", "leaving", "hungup", "gone"} \cup InSession]
      /\ manager \in [Slots -> ManagerStates] /\ session \in [Slots -> Entries]
  BY DEF SubsInv, RestInv, EntriesInv
<1>1. CASE ClientNext(c)
  <2>1. /\ UNCHANGED <<manager, session, missed>>
        /\ \A x \in Clients : client'[x] \in InSession \cup {"waiting"} =>
                              client[x] \in InSession \cup {"waiting"}
    BY <1>a, <1>1 DEF ClientNext, ClientSubscribe, ClientUnsubscribe, ClientDisconnect, ClientClose,
           ClientCrash, serverVars, historyVars, InSession
  <2> QED BY <2>1 DEF ServedInv, Serves
<1>2. ASSUME NEW s \in Slots, SessionClaim(s, c) PROVE ServedInv'
  <2>1. /\ manager[s].pc = "free" /\ manager'[s].client = c /\ session'[s].active
        /\ \A u \in Slots \ {s} : manager'[u] = manager[u] /\ session'[u] = session[u]
        /\ \A x \in Clients \ {c} : client'[x] = client[x]
        /\ UNCHANGED missed
    <3>1. /\ manager' = [manager EXCEPT ![s] =
                           [manager[s] EXCEPT !.pc = "open", !.client = c, !.msg = None]]
          /\ session' = [session EXCEPT ![s].active = TRUE]
          /\ client' = [client EXCEPT ![c] = "waiting"]
          /\ manager[s].pc = "free" /\ UNCHANGED missed
      BY <1>2 DEF SessionClaim, managerFrame
    <3>2. manager'[s].client = c BY <1>a, <3>1 DEF ManagerStates
    <3>3. session'[s].active BY <1>a, <3>1 DEF Entries
    <3> QED BY <1>a, <3>1, <3>2, <3>3
  <2> SUFFICES ASSUME NEW x \in Clients, client'[x] \in InSession \cup {"waiting"}, x \notin missed
               PROVE  \E u \in Slots : Serves(manager'[u], session'[u], x)
    BY <2>1 DEF ServedInv
  <2>2. CASE x = c BY <2>1, <2>2 DEF Serves
  <2>3. CASE x # c
    <3>1. PICK u \in Slots : Serves(manager[u], session[u], x) BY <2>1, <2>3 DEF ServedInv
    <3>2. client[x] = client'[x] /\ x # None BY <2>1, <2>3, SubscriptionsAssumption
    <3>3. u # s BY <2>1, <3>1, <3>2 DEF Serves, Places, Place, InSession
    <3> QED BY <2>1, <3>1, <3>3
  <2> QED BY <2>2, <2>3
<1>3. ASSUME NEW s \in Slots, SessionOverlaps(s, c) PROVE ServedInv'
  BY <1>3 DEF SessionOverlaps, clientVars, historyVars, ServedInv, Serves
<1> QED BY <1>1, <1>2, <1>3

\* Every step of the sweep: whom it leaves with an inactive entry is one left behind.
LEMMA ServedHost == ASSUME SubsInv, ServedInv, HostNext PROVE ServedInv'
<1>a. session \in [Slots -> Entries] /\ client \in
        [Clients -> {"new", "waiting", "leaving", "hungup", "gone"} \cup InSession]
  BY DEF SubsInv, EntriesInv, RestInv
<1>b. host.pc \in {"close", "reset"} => host.i \in Slots
  BY Numbers DEF SubsInv, RestInv
<1>1. CASE SweepStart \/ SweepCheck
  BY <1>1 DEF SweepStart, SweepCheck, hostFrame, ServedInv, Serves
<1>2. CASE SweepClose
  <2>1. /\ UNCHANGED <<manager, missed>> /\ \A u \in Slots : session'[u].active = session[u].active
        /\ \A x \in Clients : client'[x] \in InSession \cup {"waiting"} => client'[x] = client[x]
    BY <1>a, <1>b, <1>2 DEF SweepClose, hostFrame, Entries, InSession
  <2> QED BY <2>1 DEF ServedInv, Serves
<1>3. CASE SweepReset
  <2>1. /\ UNCHANGED <<manager, client>> /\ \A u \in Slots \ {host.i} : session'[u] = session[u]
        /\ missed' = missed \cup {x \in Clients : /\ manager[host.i].client = x
                                                 /\ client[x] \in InSession \cup {"waiting"}}
    BY <1>a, <1>b, <1>3 DEF SweepReset, hostFrame
  <2> SUFFICES ASSUME NEW x \in Clients, client[x] \in InSession \cup {"waiting"}, x \notin missed'
               PROVE  \E u \in Slots : Serves(manager[u], session'[u], x)
    BY <2>1 DEF ServedInv
  <2>2. PICK u \in Slots : Serves(manager[u], session[u], x) BY <2>1 DEF ServedInv
  <2>3. u # host.i BY <2>1, <2>2 DEF Serves
  <2> QED BY <2>1, <2>2, <2>3
<1> QED BY <1>1, <1>2, <1>3 DEF HostNext

LEMMA ServedStep == SessionsInv /\ ServedInv /\ [Next]_vars => ServedInv'
<1> SUFFICES ASSUME SessionsInv, ServedInv, [Next]_vars PROVE ServedInv' OBVIOUS
<1>a. SubsInv /\ Places /\ AgreeInv BY DEF SessionsInv
<1>1. ASSUME NEW t \in JobThreads,
             NotifyNext(t) \/ \E k \in Keys : JobWrite(t, k) \/ JobDelete(t, k)
      PROVE  ServedInv'
  <2>1. UNCHANGED <<manager, session, client, missed>>
    BY <1>1 DEF NotifyNext, NotifyActive, NotifyNum, NotifyCompare, NotifyWrite, NotifyEnd,
           JobWrite, JobDelete, JobChange, jobFrame
  <2> QED BY <2>1 DEF ServedInv, Serves
<1>2. CASE UNCHANGED vars
  BY <1>2 DEF vars, serverVars, clientVars, historyVars, ServedInv, Serves
<1> QED BY <1>a, <1>1, <1>2, ServedClient, ServedManager, ServedHost DEF Next, Running

\* A client in session has a manager at work for it, and the FIFOs of the entry are its
\* own.
LEMMA ServedFollows == ASSUME SubsInv, Places, ServedInv PROVE ClientsServed
<1> SUFFICES ASSUME NEW c \in Clients, client[c] \in InSession, c \notin missed
             PROVE  \E s \in Slots : /\ manager[s].client = c /\ manager[s].pc # "end"
                                    /\ session[s].peer = c
  BY DEF ClientsServed
<1>1. PICK s \in Slots : Serves(manager[s], session[s], c) BY DEF ServedInv
<1>2. Place(manager[s], session[s], client, sent) /\ c # None
  BY SubscriptionsAssumption DEF Places
<1> QED BY <1>1, <1>2 DEF Serves, Place, InSession

\* Whatever sweeps, refused requests and crashes there are, a client in session has a
\* manager that goes on serving it with its own FIFOs, unless a sweep passed over its entry
\* before they were open; as long as no two managers are in one entry (main.c:245-351,
\* 474-491).
THEOREM ClientsAreServed == Spec => []ClientsServed
<1>1. Init => ServedInv BY DEF Init, ServedInv, InSession
<1>2. SessionsInv /\ ServedInv => ClientsServed BY ServedFollows DEF SessionsInv
<1> QED BY <1>1, <1>2, SessionsInit, SessionsStep, ServedStep, PTL DEF Spec

-----------------------------------------------------------------------------
(* The clients that a change concerns.                                     *)

\* The job thread has slot i of entry u still before it.
Ahead(q, u, i) == q.s < u \/ (q.s = u /\ (q.pc = "active" \/ q.j <= i))

\* Entry u is client c's, whose only request can be a SUBSCRIBE, and holds the key that
\* the job thread looks for in a slot it has still before it.
Holds(m, e, c, q, u) ==
  /\ m.client = c /\ e.peer = c /\ e.active
  /\ m.pc \in {"loop", "read", "subscribe", "add", "load", "count", "respond"}
  /\ m.pc \in Handling => m.msg.op = "SUBSCRIBE"
  /\ \E i \in SubSlots : i < e.num /\ e.keys[i] = q.key /\ Ahead(q, u, i)

\* Client c is in session, asks for no more than further keys, and will be told.
ToBeTold(c, t) ==
  /\ client[c] \in InSession
  /\ sent[c] # None => sent[c].op = "SUBSCRIBE"
  /\ \E u \in Slots : Holds(manager[u], session[u], c, job[t], u)

SteadyInv == \A t \in JobThreads : \A c \in watch[t].owed \ watch[t].moved : ToBeTold(c, t)

\* The step of the manager that serves such a client: what the entry holds stays where
\* it is while a SUBSCRIBE is handled.
LEMMA HoldsStep ==
  ASSUME SubsInv, Places, AgreeInv, NEW s \in Slots, ManagerNext(s), NEW c \in Clients, NEW q,
         client[c] \in InSession, sent[c] # None => sent[c].op = "SUBSCRIBE",
         Holds(manager[s], session[s], c, q, s)
  PROVE  /\ Holds(manager'[s], session'[s], c, q, s)
         /\ client'[c] \in InSession
         /\ sent'[c] # None => sent'[c].op = "SUBSCRIBE"
<1> DEFINE m == manager[s]
           e == session[s]
           Goal == /\ Holds(manager'[s], session'[s], c, q, s)
                   /\ client'[c] \in InSession
                   /\ sent'[c] # None => sent'[c].op = "SUBSCRIBE"
           Stays == /\ session'[s].num \in {e.num, e.num + 1}
                    /\ \A i \in SubSlots : i < e.num => session'[s].keys[i] = e.keys[i]
<1>a. /\ c # None /\ e.num \in -1 .. MAX_NUMBER_SUB /\ m.at \in -1 .. MAX_NUMBER_SUB
      /\ e.keys \in [SubSlots -> Keys \cup {NoKey}]
      /\ EntryInv(m, e) /\ Place(m, e, client, sent)
      /\ EntryAgrees(m, e, client, sent, subs, requests)
  BY ManagerFacts, SubscriptionsAssumption
<1>b. /\ m.client = c /\ e.peer = c /\ e.active
      /\ m.pc \in {"loop", "read", "subscribe", "add", "load", "count", "respond"}
      /\ m.pc \in Handling => m.msg.op = "SUBSCRIBE"
      /\ \E i \in SubSlots : i < e.num /\ e.keys[i] = q.key /\ Ahead(q, s, i)
  BY DEF Holds
<1>c. ASSUME Stays
      PROVE  \E i \in SubSlots : /\ i < session'[s].num /\ session'[s].keys[i] = q.key
                                 /\ Ahead(q, s, i)
  <2>1. PICK i \in SubSlots : i < e.num /\ e.keys[i] = q.key /\ Ahead(q, s, i) BY <1>b
  <2>2. i < session'[s].num BY <1>a, <1>c, <2>1, Numbers
  <2> QED BY <1>c, <2>1, <2>2
<1>d. ASSUME session'[s].keys = e.keys, session'[s].num = e.num PROVE Stays
  BY <1>d
<1>1. ASSUME SessionLoop(s) PROVE Goal
  <2>1. /\ session'[s] = e /\ manager'[s].pc = "read" /\ manager'[s].client = c /\ ClientsKept
    BY <1>a, <1>b, <1>1, ReadEffect DEF Turn
  <2> QED BY <1>b, <1>c, <1>d, <2>1 DEF Holds, ClientsKept, Handling
<1>2. ASSUME SessionRead(s) PROVE Goal
  <2>1. /\ m.pc = "read" /\ session'[s] = e /\ manager'[s].client = c /\ UNCHANGED client
        /\ manager'[s].msg = sent[c] /\ sent[c] # None /\ sent'[c] = None
        /\ \/ manager'[s].msg.op = "SUBSCRIBE" /\ manager'[s].pc = "subscribe"
           \/ manager'[s].msg.op = "UNSUBSCRIBE"
           \/ manager'[s].msg = Disconnect
    BY <1>b, <1>2, ReadEffect
  <2>2. manager'[s].msg.op = "SUBSCRIBE" /\ manager'[s].pc = "subscribe"
    BY <2>1 DEF Disconnect
  <2> QED BY <1>b, <1>c, <1>d, <2>1, <2>2 DEF Holds
<1>3. ASSUME SessionReadEOF(s) PROVE FALSE
  BY <1>b, <1>3, ReadEffect DEF InSession
<1>4. ASSUME SessionSubscribe(s) \/ SessionLoad(s) PROVE Goal
  <2>1. /\ session'[s] = e /\ manager'[s].client = c /\ ClientsKept
        /\ m.pc \in {"subscribe", "load"} /\ manager'[s].msg = m.msg
        /\ manager'[s].pc \in {"add", "respond", "count"}
    BY <1>b, <1>4, SubscribeEffect DEF Turn
  <2> QED BY <1>b, <1>c, <1>d, <2>1 DEF Holds, ClientsKept, Handling
<1>5. ASSUME SessionAdd(s) PROVE Goal
  <2>1. /\ session'[s].num = e.num /\ ActiveKept(s) /\ manager'[s].client = c /\ ClientsKept
        /\ session'[s].keys = [e.keys EXCEPT ![e.num] = m.msg.key]
        /\ manager'[s].msg = m.msg /\ m.msg.op = "SUBSCRIBE" /\ manager'[s].pc = "load"
    BY <1>b, <1>5, SubscribeEffect DEF Turn, RequestKept
  <2>2. \A i \in SubSlots : i < e.num => i # e.num BY <1>a, Numbers
  <2>3. Stays BY <1>a, <2>1, <2>2
  <2> QED BY <1>b, <1>c, <2>1, <2>3 DEF Holds, ClientsKept, ActiveKept
<1>6. ASSUME SessionCount(s) PROVE Goal
  <2>1. /\ m.pc = "count" /\ session'[s].keys = e.keys /\ ActiveKept(s) /\ ClientsKept
        /\ manager'[s].client = c /\ manager'[s].msg = m.msg /\ manager'[s].pc = "respond"
        /\ \/ m.msg.op = "SUBSCRIBE" /\ session'[s].num = m.at + 1
           \/ m.msg.op = "UNSUBSCRIBE"
    BY <1>b, <1>6, SubscribeEffect DEF Turn, RequestKept
  <2>2. m.msg.op = "SUBSCRIBE" BY <1>b, <2>1 DEF Handling
  <2>3. m.at = e.num BY <1>a, <1>b, <2>1 DEF EntryAgrees, Marks
  <2>4. Stays BY <2>1, <2>2, <2>3
  <2> QED BY <1>b, <1>c, <2>1, <2>2, <2>4 DEF Holds, ClientsKept, ActiveKept
<1>7. ASSUME SessionRespond(s) PROVE Goal
  <2>1. m.pc = "respond" BY <1>7, RespondEffect DEF Turn
  <2>2. m.msg.op = "SUBSCRIBE" BY <1>b, <2>1 DEF Handling
  <2>3. /\ session'[s] = e /\ manager'[s].client = c /\ manager'[s].pc = "loop"
        /\ client'[c] = "idle" /\ UNCHANGED sent
    BY <1>b, <1>7, <2>2, RespondEffect DEF Turn, Disconnect
  <2> QED BY <1>b, <1>c, <1>d, <2>3 DEF Holds, Handling, InSession
<1>8. ASSUME SessionRespondFails(s) PROVE FALSE
  BY <1>a, <1>b, <1>8, RespondEffect
<1>9. ASSUME SessionRespondDies(s) PROVE Goal
  BY <1>9, RespondEffect DEF ClientsKept
<1>10. ASSUME \/ SessionOpen(s) \/ SessionConnect(s) \/ SessionConnectFails(s) \/ SessionReset(s)
              \/ SessionSearch(s) \/ SessionShift(s) \/ SessionDisconnect(s) \/ SessionEnd(s)
       PROVE  FALSE
  BY <1>b, <1>10, ConnectEffect, UnsubscribeEffect, RespondEffect, ZenonT(60) DEF Turn
<1> QED
  BY <1>1, <1>2, <1>3, <1>4, <1>5, <1>6, <1>7, <1>8, <1>9, <1>10 DEF ManagerNext

\* A step that leaves a client of the change alone, and its entry as it was for it.
LEMMA SteadyManager ==
  ASSUME SubsInv, Places, AgreeInv, SteadyInv, NEW s \in Slots, ManagerNext(s) PROVE SteadyInv'
<1>a. /\ manager[s].client \in Clients /\ manager[s].client # None
      /\ \A u \in Slots \ {s} : manager'[u] = manager[u] /\ session'[u] = session[u]
      /\ \A x \in Clients \ {manager[s].client} : client'[x] = client[x] /\ sent'[x] = sent[x]
      /\ UNCHANGED <<job, watch>>
  BY ManagerFrame, SubscriptionsAssumption DEF managerFrame
<1> SUFFICES ASSUME NEW t \in JobThreads, NEW c \in watch[t].owed \ watch[t].moved
             PROVE  ToBeTold(c, t)'
  BY <1>a DEF SteadyInv
<1>1. c \in Clients /\ ToBeTold(c, t) BY DEF SteadyInv, SubsInv, RestInv, Watches
<1>2. PICK u \in Slots : Holds(manager[u], session[u], c, job[t], u) BY <1>1 DEF ToBeTold
<1>3. CASE u = s
  <2>1. /\ Holds(manager'[s], session'[s], c, job[t], s)
        /\ client'[c] \in InSession
        /\ sent'[c] # None => sent'[c].op = "SUBSCRIBE"
    BY <1>1, <1>2, <1>3, HoldsStep DEF ToBeTold
  <2> QED BY <1>a, <2>1 DEF ToBeTold
<1>4. CASE u # s
  <2>1. c # manager[s].client BY <1>a, <1>2, <1>4 DEF Holds, Places, Alone
  <2>2. Holds(manager'[u], session'[u], c, job[t], u) BY <1>a, <1>2, <1>4
  <2> QED BY <1>a, <1>1, <2>1, <2>2 DEF ToBeTold
<1> QED BY <1>3, <1>4

\* Every step of a client, and the claim of an entry for one.
LEMMA SteadyClient ==
  ASSUME SubsInv, SteadyInv, NEW c \in Clients,
         ClientNext(c) \/ \E s \in Slots : SessionClaim(s, c) \/ SessionOverlaps(s, c)
  PROVE  SteadyInv'
<1> USE DEF Watches
<1>a. /\ client \in [Clients -> {"new", "waiting", "leaving", "hungup", "gone"} \cup InSession]
      /\ sent \in [Clients -> Messages \cup {None}]
      /\ watch \in [JobThreads -> Watches]
      /\ manager \in [Slots -> ManagerStates] /\ session \in [Slots -> Entries]
  BY DEF SubsInv, RestInv, EntriesInv
<1>b. ASSUME UNCHANGED <<manager, session, job>>,
             \A x \in Clients \ {c} : client'[x] = client[x] /\ sent'[x] = sent[x],
             \A t \in JobThreads : watch'[t].owed \ watch'[t].moved \subseteq watch[t].owed \ watch[t].moved,
             \/ client'[c] \in InSession /\ sent'[c].op = "SUBSCRIBE"
             \/ client[c] \notin InSession
             \/ \A t \in JobThreads : c \notin watch'[t].owed \ watch'[t].moved
      PROVE  SteadyInv'
  <2> SUFFICES ASSUME NEW t \in JobThreads, NEW x \in watch'[t].owed \ watch'[t].moved
               PROVE  ToBeTold(x, t)'
    BY DEF SteadyInv
  <2>1. x \in watch[t].owed \ watch[t].moved BY <1>b
  <2>2. x \in Clients /\ ToBeTold(x, t) BY <1>a, <2>1 DEF SteadyInv
  <2>3. client'[x] \in InSession /\ (sent'[x] # None => sent'[x].op = "SUBSCRIBE")
    BY <1>b, <2>2 DEF ToBeTold
  <2> QED BY <1>b, <2>2, <2>3 DEF ToBeTold
<1>c. ASSUME Forget(c)
      PROVE  \A t \in JobThreads : /\ watch'[t].owed = watch[t].owed \ {c}
                                   /\ watch'[t].moved = watch[t].moved
  BY <1>a, <1>c DEF Forget
<1>1. ASSUME NEW k \in Keys, ClientSubscribe(c, k) PROVE SteadyInv'
  <2>1. /\ client'[c] = "asking" /\ sent'[c].op = "SUBSCRIBE"
        /\ \A x \in Clients \ {c} : client'[x] = client[x] /\ sent'[x] = sent[x]
        /\ UNCHANGED <<manager, session, job>>
    BY <1>a, <1>1 DEF ClientSubscribe, serverVars
  <2>2. \A t \in JobThreads : watch'[t].owed = watch[t].owed /\ watch'[t].moved = watch[t].moved
    BY <1>a, <1>1 DEF ClientSubscribe
  <2> QED BY <1>b, <2>1, <2>2 DEF InSession
<1>2. ASSUME NEW k \in Keys, ClientUnsubscribe(c, k) PROVE SteadyInv'
  <2>1. /\ \A x \in Clients \ {c} : client'[x] = client[x] /\ sent'[x] = sent[x]
        /\ UNCHANGED <<manager, session, job>>
    BY <1>a, <1>2 DEF ClientUnsubscribe, serverVars
  <2>2. ASSUME NEW t \in JobThreads
        PROVE  /\ watch'[t].owed \ watch'[t].moved \subseteq watch[t].owed \ watch[t].moved
               /\ c \notin watch'[t].owed \ watch'[t].moved
    <3>1. \/ watch'[t].owed = watch[t].owed \ {c} /\ watch'[t].moved = watch[t].moved
          \/ watch'[t].owed = watch[t].owed /\ watch'[t].moved = watch[t].moved \cup {c}
      BY <1>a, <1>2 DEF ClientUnsubscribe
    <3> QED BY <3>1
  <2> QED BY <1>b, <2>1, <2>2
<1>3. CASE ClientDisconnect(c)
  <2>1. /\ \A x \in Clients \ {c} : client'[x] = client[x] /\ sent'[x] = sent[x]
        /\ UNCHANGED <<manager, session, job>> /\ Forget(c)
    BY <1>a, <1>3 DEF ClientDisconnect, serverVars
  <2> QED BY <1>b, <1>c, <2>1
<1>4. CASE ClientClose(c)
  <2>1. /\ \A x \in Clients \ {c} : client'[x] = client[x]
        /\ client[c] \in {"leaving", "hungup"}
        /\ UNCHANGED <<manager, session, job, sent, watch>>
    BY <1>a, <1>4 DEF ClientClose, serverVars, historyVars
  <2> QED BY <1>b, <2>1 DEF InSession
<1>5. CASE ClientCrash(c)
  <2>1. /\ \A x \in Clients \ {c} : client'[x] = client[x]
        /\ UNCHANGED <<manager, session, job, sent>> /\ Forget(c)
    BY <1>a, <1>5 DEF ClientCrash, serverVars
  <2> QED BY <1>b, <1>c, <2>1
<1>6. ASSUME NEW s \in Slots, SessionClaim(s, c) PROVE SteadyInv'
  <2>1. /\ manager[s].pc = "free" /\ client[c] = "new"
        /\ \A u \in Slots \ {s} : manager'[u] = manager[u] /\ session'[u] = session[u]
        /\ \A x \in Clients \ {c} : client'[x] = client[x]
        /\ UNCHANGED <<sent, job, watch>>
    BY <1>a, <1>6 DEF SessionClaim, managerFrame
  <2> SUFFICES ASSUME NEW t \in JobThreads, NEW x \in watch[t].owed \ watch[t].moved
               PROVE  ToBeTold(x, t)'
    BY <2>1 DEF SteadyInv
  <2>2. x \in Clients /\ ToBeTold(x, t) BY <1>a DEF SteadyInv
  <2>3. client'[x] = client[x] BY <2>1, <2>2 DEF ToBeTold, InSession
  <2>4. PICK u \in Slots : Holds(manager[u], session[u], x, job[t], u) BY <2>2 DEF ToBeTold
  <2>5. u # s BY <2>1, <2>4 DEF Holds
  <2>6. Holds(manager'[u], session'[u], x, job[t], u) BY <2>1, <2>4, <2>5
  <2> QED BY <2>1, <2>2, <2>3, <2>6 DEF ToBeTold
<1>7. ASSUME NEW s \in Slots, SessionOverlaps(s, c) PROVE SteadyInv'
  BY <1>7 DEF SessionOverlaps, clientVars, historyVars, SteadyInv, ToBeTold
<1> QED BY <1>1, <1>2, <1>3, <1>4, <1>5, <1>6, <1>7 DEF ClientNext

\* Every step of the sweep: a client whose session it ends is no longer owed anything.
LEMMA SteadyHost == ASSUME SubsInv, Places, SteadyInv, HostNext PROVE SteadyInv'
<1> USE DEF Watches
<1>a. /\ watch \in [JobThreads -> Watches]
      /\ session \in [Slots -> Entries]
  BY DEF SubsInv, RestInv, EntriesInv
<1>b. host.pc \in {"close", "reset"} => host.i \in Slots
  BY Numbers DEF SubsInv, RestInv
<1>1. CASE SweepStart \/ SweepCheck
  <2>1. UNCHANGED <<manager, session, client, sent, job, watch>>
    BY <1>1 DEF SweepStart, SweepCheck, hostFrame
  <2> QED BY <2>1 DEF SteadyInv, ToBeTold
<1>2. CASE SweepClose \/ SweepReset
  <2> DEFINE i == host.i
             p == session[i].peer
  <2>1. /\ i \in Slots /\ \A u \in Slots \ {i} : session'[u] = session[u]
        /\ \A x \in Clients \ {p} : client'[x] = client[x]
        /\ UNCHANGED <<manager, sent, job>> /\ Forget(p)
    <3>1. CASE SweepClose BY <1>a, <1>b, <3>1 DEF SweepClose, hostFrame
    <3>2. CASE SweepReset BY <1>a, <1>b, <3>2 DEF SweepReset, hostFrame
    <3> QED BY <1>2, <3>1, <3>2
  <2>2. \A t \in JobThreads : watch'[t].owed = watch[t].owed \ {p} /\ watch'[t].moved = watch[t].moved
    BY <1>a, <2>1 DEF Forget
  <2> SUFFICES ASSUME NEW t \in JobThreads, NEW x \in watch[t].owed \ watch[t].moved, x # p
               PROVE  ToBeTold(x, t)'
    BY <2>2 DEF SteadyInv
  <2>3. x \in Clients /\ ToBeTold(x, t) BY <1>a DEF SteadyInv
  <2>4. PICK u \in Slots : Holds(manager[u], session[u], x, job[t], u) BY <2>3 DEF ToBeTold
  <2>5. u # i BY <2>4 DEF Holds
  <2>6. Holds(manager'[u], session'[u], x, job'[t], u) BY <2>1, <2>4, <2>5
  <2> QED BY <2>1, <2>3, <2>6 DEF ToBeTold
<1> QED BY <1>1, <1>2 DEF HostNext

\* The client of the change has its entry, and it is still before the job thread.
LEMMA SteadyChange ==
  ASSUME SubsInv, Places, NEW c \in Clients, client[c] = "idle", NEW k \in Keys, Subscribed(c, k),
         NEW q, q.pc = "active", q.s = 0, q.key = k
  PROVE  \E u \in Slots : Holds(manager[u], session[u], c, q, u)
<1>1. PICK u \in Slots : session[u].active /\ manager[u].client = c /\ Copies(u, k) > 0
  BY DEF Subscribed
<1> DEFINE m == manager[u]
           e == session[u]
<1>2. Place(m, e, client, sent) /\ c # None /\ m.pc \in Steps
  BY SubscriptionsAssumption DEF Places, SubsInv, EntriesInv, ManagerStates
<1>3. e.peer = c /\ m.pc \in {"loop", "read"}
  BY <1>1, <1>2 DEF Place, Steps, Handling, InSession, Subscribed, Fresh
<1>4. \E i \in SubSlots : i < e.num /\ e.keys[i] = k
  <2>1. {i \in SubSlots : i < e.num /\ e.keys[i] = k} # {} BY <1>1, FS_EmptySet DEF Copies
  <2> QED BY <2>1
<1>5. \A i : Ahead(q, u, i) BY Numbers DEF Ahead
<1> QED BY <1>1, <1>3, <1>4, <1>5 DEF Holds, Handling

\* Every step of a job thread: it passes over no slot that holds its key.
LEMMA SteadyJob ==
  ASSUME SubsInv, Places, SteadyInv, NEW t \in JobThreads,
         NotifyNext(t) \/ \E k \in Keys : JobWrite(t, k) \/ JobDelete(t, k)
  PROVE  SteadyInv'
<1> USE DEF Watches
<1> DEFINE q == job[t]
           Steady == watch[t].owed \ watch[t].moved
           Steady1 == watch'[t].owed \ watch'[t].moved
<1>a. /\ watch \in [JobThreads -> Watches]
      /\ job \in [JobThreads ->
           [pc : {"job", "active", "num", "compare", "write"}, key : Keys \cup {NoKey},
            s : 0 .. MAX_SESSION_COUNT, j : 0 .. MAX_NUMBER_SUB]]
      /\ session \in [Slots -> Entries]
  BY DEF SubsInv, RestInv, EntriesInv
<1>b. q.s \in Nat /\ q.j \in Nat BY <1>a, Numbers
<1>c. UNCHANGED <<session, manager, client, sent>>
  BY DEF NotifyNext, NotifyActive, NotifyNum, NotifyCompare, NotifyWrite, NotifyEnd, JobWrite,
         JobDelete, JobChange, jobFrame
<1>d. \A u \in JobThreads \ {t} : job'[u] = job[u] /\ watch'[u] = watch[u]
  BY <1>a DEF NotifyNext, NotifyActive, NotifyNum, NotifyCompare, NotifyWrite, NotifyEnd, JobWrite,
         JobDelete, JobChange, jobFrame
<1>e. ASSUME \A c \in Steady1 : ToBeTold(c, t)' PROVE SteadyInv'
  <2> SUFFICES ASSUME NEW u \in JobThreads, u # t, NEW c \in watch'[u].owed \ watch'[u].moved
               PROVE  ToBeTold(c, u)'
    BY <1>e DEF SteadyInv
  <2>1. ToBeTold(c, u) BY <1>d DEF SteadyInv
  <2> QED BY <1>c, <1>d, <2>1 DEF ToBeTold
<1>f. ASSUME Steady1 \subseteq Steady, job'[t].key = q.key,
             ASSUME NEW c \in Steady1, NEW u \in Slots, NEW i \in SubSlots,
                    session[u].peer = c, session[u].active,
                    i < session[u].num, session[u].keys[i] = q.key, Ahead(q, u, i)
             PROVE  Ahead(job'[t], u, i)
      PROVE  SteadyInv'
  <2> SUFFICES ASSUME NEW c \in Steady1 PROVE ToBeTold(c, t)' BY <1>e
  <2>1. ToBeTold(c, t) BY <1>f DEF SteadyInv
  <2>2. PICK u \in Slots : Holds(manager[u], session[u], c, q, u) BY <2>1 DEF ToBeTold
  <2>3. Holds(manager[u], session[u], c, job'[t], u) BY <1>f, <2>2 DEF Holds
  <2> QED BY <1>c, <2>1, <2>3 DEF ToBeTold
<1>1. CASE NotifyActive(t)
  <2>1. /\ watch' = watch /\ job'[t].key = q.key /\ q.pc = "active"
        /\ \/ job'[t].pc = "num" /\ job'[t].s = q.s /\ job'[t].j = 0
           \/ ~ session[q.s].active /\ job'[t].s = q.s + 1 /\ job'[t].pc = "active"
    BY <1>a, <1>1 DEF NotifyActive
  <2>2. ASSUME NEW u \in Slots, NEW i \in SubSlots, session[u].active, Ahead(q, u, i)
        PROVE  Ahead(job'[t], u, i)
    BY <1>b, <2>1, <2>2, Numbers DEF Ahead
  <2> QED BY <1>f, <2>1, <2>2
<1>2. CASE NotifyNum(t)
  <2>1. /\ watch' = watch /\ job'[t].key = q.key /\ q.pc = "num"
        /\ \/ job'[t].s = q.s /\ job'[t].j = q.j
           \/ ~ q.j < session[q.s].num /\ job'[t].s = q.s + 1 /\ job'[t].pc = "active"
    BY <1>a, <1>2 DEF NotifyNum
  <2>2. ASSUME NEW u \in Slots, NEW i \in SubSlots, i < session[u].num, Ahead(q, u, i)
        PROVE  Ahead(job'[t], u, i)
    <3>1. session[u].num \in Int /\ i \in Int /\ u \in Int BY <1>a, Numbers DEF Entries
    <3> QED BY <1>b, <2>1, <2>2, <3>1 DEF Ahead
  <2> QED BY <1>f, <2>1, <2>2
<1>3. CASE NotifyCompare(t)
  <2>1. /\ watch' = watch /\ job'[t].key = q.key /\ q.pc = "compare" /\ job'[t].s = q.s
        /\ \/ job'[t].j = q.j
           \/ session[q.s].keys[q.j] # q.key /\ job'[t].j = q.j + 1
    BY <1>a, <1>3 DEF NotifyCompare
  <2>2. ASSUME NEW u \in Slots, NEW i \in SubSlots, session[u].keys[i] = q.key, Ahead(q, u, i)
        PROVE  Ahead(job'[t], u, i)
    <3>1. i \in Int /\ u \in Int BY Numbers
    <3>2. CASE q.s < u BY <2>1, <3>2 DEF Ahead
    <3>3. CASE q.s = u /\ q.j <= i
      <4>1. job'[t].j # q.j => q.j # i BY <2>1, <2>2, <3>3
      <4> QED BY <1>b, <2>1, <3>1, <3>3, <4>1 DEF Ahead
    <3> QED BY <2>1, <2>2, <3>2, <3>3 DEF Ahead
  <2> QED BY <1>f, <2>1, <2>2
<1>4. CASE NotifyWrite(t)
  <2>1. /\ watch'[t].owed = watch[t].owed \ {session[q.s].peer}
        /\ watch'[t].moved = watch[t].moved
        /\ job'[t].key = q.key /\ q.pc = "write" /\ job'[t].s = q.s
    BY <1>a, <1>4 DEF NotifyWrite
  <2>2. ASSUME NEW c \in Steady1, NEW u \in Slots, NEW i \in SubSlots,
               session[u].peer = c, Ahead(q, u, i)
        PROVE  Ahead(job'[t], u, i)
    BY <2>1, <2>2 DEF Ahead
  <2> QED BY <1>f, <2>1, <2>2
<1>5. CASE NotifyEnd(t)
  <2>1. Steady1 = {} BY <1>a, <1>5 DEF NotifyEnd, Nobody
  <2> QED BY <1>e, <2>1
<1>6. ASSUME NEW k \in Keys, JobWrite(t, k) \/ JobDelete(t, k) PROVE SteadyInv'
  <2>1. /\ job'[t].pc = "active" /\ job'[t].key = k /\ job'[t].s = 0
        /\ watch'[t].owed = {c \in {d \in Clients : client[d] = "idle"} : Subscribed(c, k)}
    <3>1. PICK T : JobChange(t, k, T) BY <1>6 DEF JobWrite, JobDelete
    <3>2. /\ job' = [job EXCEPT ![t] = [pc |-> "active", key |-> k, s |-> 0, j |-> 0]]
          /\ \E A, B : watch' = [watch EXCEPT ![t] =
               [owed |-> {c \in {d \in Clients : client[d] = "idle"} : Subscribed(c, k)},
                moved |-> {}, quiet |-> A, fresh |-> B]]
      BY <3>1 DEF JobChange
    <3> QED BY <1>a, <3>2
  <2>2. ASSUME NEW c \in Steady1 PROVE ToBeTold(c, t)'
    <3>1. c \in Clients /\ client[c] = "idle" /\ Subscribed(c, k) BY <2>1, <2>2
    <3>2. sent[c] = None BY <3>1 DEF Places, Unbegun
    <3>3. \E u \in Slots : Holds(manager[u], session[u], c, job'[t], u)
      BY <2>1, <3>1, SteadyChange
    <3> QED BY <1>c, <3>1, <3>2, <3>3 DEF ToBeTold, InSession
  <2> QED BY <1>e, <2>2
<1> QED BY <1>1, <1>2, <1>3, <1>4, <1>5, <1>6 DEF NotifyNext

LEMMA SteadyStep == SessionsInv /\ SteadyInv /\ [Next]_vars => SteadyInv'
<1> SUFFICES ASSUME SessionsInv, SteadyInv, [Next]_vars PROVE SteadyInv' OBVIOUS
<1>a. SubsInv /\ Places /\ AgreeInv BY DEF SessionsInv
<1>1. CASE UNCHANGED vars
  <2>1. UNCHANGED <<manager, session, client, sent, job, watch>>
    BY <1>1 DEF vars, serverVars, clientVars, historyVars
  <2> QED BY <2>1 DEF SteadyInv, ToBeTold
<1> QED BY <1>a, <1>1, SteadyClient, SteadyManager, SteadyHost, SteadyJob DEF Next, Running

\* When the job thread has passed the last entry nobody steady is left to be told.
LEMMA SteadyFollows == ASSUME SubsInv, SteadyInv PROVE SteadyNotified
<1> SUFFICES ASSUME NEW t \in JobThreads, job[t].pc = "active", job[t].s = MAX_SESSION_COUNT,
                    NEW c \in watch[t].owed \ watch[t].moved
             PROVE  FALSE
  BY DEF SteadyNotified
<1>1. PICK u \in Slots : Holds(manager[u], session[u], c, job[t], u)
  BY DEF SteadyInv, ToBeTold
<1>2. \E i \in SubSlots : Ahead(job[t], u, i) BY <1>1 DEF Holds
<1> QED BY <1>2, Numbers DEF Ahead

\* notify_clients, which takes no lock, tells every client that awaited no response and
\* whose entry held the key when it changed, unless meanwhile its session ended, by
\* itself or by a sweep, or it unsubscribed something: no SUBSCRIBE, other session or
\* other notification makes it miss one (main.c:102-123).
THEOREM SteadyClientsTold == Spec => []SteadyNotified
<1>1. Init => SteadyInv BY DEF Init, SteadyInv, Nobody
<1>2. SessionsInv /\ SteadyInv => SteadyNotified BY SteadyFollows DEF SessionsInv
<1> QED BY <1>1, <1>2, SessionsInit, SessionsStep, SteadyStep, PTL DEF Spec
=============================================================================
