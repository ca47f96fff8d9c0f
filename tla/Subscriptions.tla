---------------------------- MODULE Subscriptions ----------------------------
(***************************************************************************)
(* Sessions and notifications: handle_session and the host's sweep change  *)
(* an entry of sessions[] while job threads read it in notify_clients      *)
(* without any lock (src/server/main.c), and what the clients see of it    *)
(* (src/client/api.c, main.c).                                             *)
(*                                                                         *)
(* A step makes one access to what other threads use.  The three FIFOs of  *)
(* an entry are one: they are opened and closed together, and the client   *)
(* at the other end is their value.  A WRITE or DELETE has one pair; that  *)
(* the store changes in one instant is what KVStore shows.  Descriptor     *)
(* numbers are not modelled.                                               *)
(*                                                                         *)
(* A manager is known by its entry.  With several entries a request may be *)
(* given an entry whose last manager has not left it: the behaviour is     *)
(* followed up to there (shared), and from there on in SessionPool.        *)
(***************************************************************************)
EXTENDS Integers, Sequences, FiniteSets

CONSTANTS
  MAX_SESSION_COUNT, MAX_NUMBER_SUB,
  Keys, Clients, JobThreads,
  None,          \* no client, no message
  NoKey,         \* what subscribed_keys holds at first
  MaxRequests,   \* bound on the SUBSCRIBEs and UNSUBSCRIBEs of a client
  MaxChanges,    \* bound on the WRITEs and DELETEs
  MaxSweeps,     \* bound on the SIGUSR1 acted upon
  MaxCrashes     \* bound on the clients that vanish

Slots    == 0 .. MAX_SESSION_COUNT - 1
SubSlots == 0 .. MAX_NUMBER_SUB - 1
Disconnect == [op |-> "DISCONNECT", key |-> NoKey]  \* only its code is read
Messages == [op : {"SUBSCRIBE", "UNSUBSCRIBE"}, key : Keys] \cup {Disconnect}

ASSUME SubscriptionsAssumption ==
  /\ MAX_SESSION_COUNT \in Nat \ {0} /\ MAX_NUMBER_SUB \in Nat \ {0}
  /\ None \notin Clients \cup Messages /\ NoKey \notin Keys
  /\ {MaxRequests, MaxChanges, MaxSweeps, MaxCrashes} \subseteq Nat

VARIABLES
  alive,     \* FALSE once SIGPIPE has ended the server
  shared,    \* TRUE once two managers are in one entry
  session,   \* sessions[]: active, num_subscribed_keys, subscribed_keys, peer
  manager,   \* of each entry's manager: step, client, local_buffer, i, response
  client,    \* what each client process is doing
  sent,      \* the message in each client's request FIFO
  stored,    \* the keys in the table
  job,       \* of each job thread: step and place in notify_clients
  host,      \* the host's sweep: step and i
  requests, changes, sweeps, crashes,  \* counts, for the bounds
  \* History variables, read only by the properties.
  subs,      \* copies of each subscription each client was granted
  watch,     \* clients each running notification concerns
  missed     \* clients whose entry a sweep found before its FIFOs were open

serverVars == <<alive, shared, session, manager>>
clientVars == <<client, sent>>
countVars  == <<requests, changes, sweeps, crashes>>
historyVars == <<subs, watch, missed>>
vars == <<serverVars, clientVars, stored, job, host, countVars, historyVars>>

InSession == {"idle", "asking"}
Nobody == [owed |-> {}, moved |-> {}, quiet |-> {}, fresh |-> {}]

\* The type invariant.
TypeOK ==
  /\ alive \in BOOLEAN /\ shared \in BOOLEAN
  /\ session \in [Slots -> [active : BOOLEAN, peer : Clients \cup {None},
                            num : -1 .. MAX_NUMBER_SUB,
                            keys : [SubSlots -> Keys \cup {NoKey}]]]
  /\ manager \in [Slots ->
       [pc : {"free", "open", "connect", "reset", "loop", "read", "subscribe", "add",
              "search", "shift", "load", "count", "disconnect", "respond", "end"},
        client : Clients \cup {None}, msg : Messages \cup {None},
        at : -1 .. MAX_NUMBER_SUB, ok : BOOLEAN]]
  /\ client \in [Clients -> {"new", "waiting", "leaving", "hungup", "gone"} \cup InSession]
  /\ sent \in [Clients -> Messages \cup {None}]
  /\ stored \in SUBSET Keys
  /\ job \in [JobThreads ->
       [pc : {"job", "active", "num", "compare", "write"}, key : Keys \cup {NoKey},
        s : 0 .. MAX_SESSION_COUNT, j : 0 .. MAX_NUMBER_SUB]]
  /\ host \in [pc : {"listen", "check", "close", "reset"}, i : 0 .. MAX_SESSION_COUNT]
  /\ requests \in [Clients -> 0 .. MaxRequests]
  /\ changes \in 0 .. MaxChanges
  /\ sweeps \in 0 .. MaxSweeps /\ crashes \in 0 .. MaxCrashes
  /\ subs \in [Clients -> [Keys -> Int]]
  /\ watch \in [JobThreads -> [owed : SUBSET Clients, moved : SUBSET Clients,
                               quiet : SUBSET Clients, fresh : SUBSET Clients]]
  /\ missed \in SUBSET Clients

\* Every session inactive, no client started; jobs may have stored keys before.
Init ==
  /\ alive = TRUE /\ shared = FALSE
  /\ session = [s \in Slots |-> [active |-> FALSE, peer |-> None, num |-> 0,
                                 keys |-> [i \in SubSlots |-> NoKey]]]
  /\ manager = [s \in Slots |-> [pc |-> "free", client |-> None, msg |-> None,
                                 at |-> 0, ok |-> FALSE]]
  /\ client = [c \in Clients |-> "new"]
  /\ sent = [c \in Clients |-> None]
  /\ stored \in SUBSET Keys
  /\ job = [t \in JobThreads |-> [pc |-> "job", key |-> NoKey, s |-> 0, j |-> 0]]
  /\ host = [pc |-> "listen", i |-> 0]
  /\ requests = [c \in Clients |-> 0] /\ changes = 0 /\ sweeps = 0 /\ crashes = 0
  /\ subs = [c \in Clients |-> [k \in Keys |-> 0]]
  /\ watch = [t \in JobThreads |-> Nobody]
  /\ missed = {}

-----------------------------------------------------------------------------
(* Clients: kvs_subscribe, kvs_unsubscribe and kvs_disconnect write one    *)
(* message and wait for its response.                                      *)

Forget(c) == watch' = [t \in JobThreads |-> [watch[t] EXCEPT !.owed = @ \ {c}]]

ClientSubscribe(c, k) ==
  /\ client[c] = "idle" /\ requests[c] < MaxRequests
  /\ client' = [client EXCEPT ![c] = "asking"]
  /\ sent' = [sent EXCEPT ![c] = [op |-> "SUBSCRIBE", key |-> k]]
  /\ requests' = [requests EXCEPT ![c] = @ + 1]
  /\ watch' = [t \in JobThreads |->
       IF job[t].key = k THEN [watch[t] EXCEPT !.quiet = @ \ {c}] ELSE watch[t]]
  /\ UNCHANGED <<serverVars, stored, job, host, changes, sweeps, crashes, subs, missed>>

ClientUnsubscribe(c, k) ==
  /\ client[c] = "idle" /\ requests[c] < MaxRequests
  /\ client' = [client EXCEPT ![c] = "asking"]
  /\ sent' = [sent EXCEPT ![c] = [op |-> "UNSUBSCRIBE", key |-> k]]
  /\ requests' = [requests EXCEPT ![c] = @ + 1]
  /\ watch' = [t \in JobThreads |->
       IF job[t].key = k THEN [watch[t] EXCEPT !.owed = @ \ {c}]
                         ELSE [watch[t] EXCEPT !.moved = @ \cup {c}]]
  /\ UNCHANGED <<serverVars, stored, job, host, changes, sweeps, crashes, subs, missed>>

ClientDisconnect(c) ==
  /\ client[c] = "idle"
  /\ client' = [client EXCEPT ![c] = "asking"]
  /\ sent' = [sent EXCEPT ![c] = Disconnect]
  /\ Forget(c)
  /\ UNCHANGED <<serverVars, stored, job, host, countVars, subs, missed>>

\* After the response to DISCONNECT, or when its notification thread finds the
\* end of the FIFO, the client closes its FIFOs and exits.
ClientClose(c) ==
  /\ client[c] \in {"leaving", "hungup"}
  /\ client' = [client EXCEPT ![c] = "gone"]
  /\ UNCHANGED <<serverVars, sent, stored, job, host, countVars, historyVars>>

ClientCrash(c) ==
  /\ client[c] \in InSession /\ crashes < MaxCrashes
  /\ client' = [client EXCEPT ![c] = "gone"]
  /\ crashes' = crashes + 1
  /\ Forget(c)
  /\ UNCHANGED <<serverVars, sent, stored, job, host, requests, changes, sweeps, subs,
                 missed>>

-----------------------------------------------------------------------------
(* The manager of entry s: manager_task and handle_session.                *)

Step(s, from, to) == manager[s].pc = from /\ manager' = [manager EXCEPT ![s].pc = to]
managerFrame == <<shared, stored, job, host, countVars, watch, missed>>

\* A CONNECT request taken from the buffer, an inactive entry marked active; the
\* manager of the session before has left the entry.
SessionClaim(s, c) ==
  /\ manager[s].pc = "free" /\ ~ session[s].active /\ client[c] = "new"
  /\ manager' = [manager EXCEPT ![s] = [@ EXCEPT !.pc = "open", !.client = c, !.msg = None]]
  /\ session' = [session EXCEPT ![s].active = TRUE]
  /\ client' = [client EXCEPT ![c] = "waiting"]
  /\ UNCHANGED <<alive, sent, subs, managerFrame>>

\* It has not when another manager thread claims the entry: both chose it while it
\* looked free, or it is on its way out past a DISCONNECT or a sweep.
SessionOverlaps(s, c) ==
  /\ manager[s].pc # "free" /\ client[c] = "new"
  /\ \E r \in Slots : manager[r].pc = "free"
  /\ shared' = TRUE
  /\ UNCHANGED <<alive, session, manager, clientVars, stored, job, host, countVars,
                 historyVars>>

\* The open()s, each of which waits for the client's.
SessionOpen(s) ==
  /\ Step(s, "open", "connect")
  /\ session' = [session EXCEPT ![s].peer = manager[s].client]
  /\ UNCHANGED <<alive, client, sent, subs, managerFrame>>

\* The response to CONNECT; the client reads it.
SessionConnect(s) ==
  /\ Step(s, "connect", "reset")
  /\ session[s].peer # None
  /\ client' = [client EXCEPT ![manager[s].client] = "idle"]
  /\ UNCHANGED <<alive, session, sent, subs, managerFrame>>

\* Mutant: the subscriptions of the session before are kept.
SessionResetKeeps(s) ==
  /\ Step(s, "reset", "loop")
  /\ UNCHANGED <<alive, session, client, sent, subs, managerFrame>>

\* Only now the subscriptions start empty.
SessionReset(s) ==
  /\ Step(s, "reset", "loop")
  /\ session' = [session EXCEPT ![s].num = 0]
  /\ UNCHANGED <<alive, client, sent, subs, managerFrame>>

\* The sweep closed the FIFOs: the response fails, and handle_session returns.
SessionConnectFails(s) ==
  /\ session[s].peer = None
  /\ Step(s, "connect", "free")
  /\ session' = [session EXCEPT ![s].active = FALSE]
  /\ UNCHANGED <<alive, client, sent, subs, managerFrame>>

\* while (session->active), and the start of the read, which fails when the
\* sweep has closed the FIFO.
SessionLoop(s) ==
  /\ Step(s, "loop", IF session[s].active /\ session[s].peer # None THEN "read" ELSE "end")
  /\ UNCHANGED <<alive, session, client, sent, subs, managerFrame>>

HandlerOf(m) == CASE m.op = "SUBSCRIBE"   -> "subscribe"
                  [] m.op = "UNSUBSCRIBE" -> "search"
                  [] m.op = "DISCONNECT"  -> "disconnect"

Dispatch(s, m) ==
  manager' = [manager EXCEPT ![s] = [@ EXCEPT !.pc = HandlerOf(m), !.msg = m, !.at = 0]]

SessionRead(s) ==
  LET c == manager[s].client IN
  /\ manager[s].pc = "read" /\ sent[c] # None
  /\ Dispatch(s, sent[c])
  /\ sent' = [sent EXCEPT ![c] = None]
  /\ UNCHANGED <<alive, session, client, subs, managerFrame>>

\* End of file is not told from a message: local_buffer is handled once more,
\* or, when nothing was read yet, whatever the stack held.
SessionReadEOF(s) ==
  LET c == manager[s].client IN
  /\ manager[s].pc = "read" /\ sent[c] = None /\ client[c] = "gone"
  /\ \E m \in IF manager[s].msg # None THEN {manager[s].msg} ELSE Messages : Dispatch(s, m)
  /\ UNCHANGED <<alive, session, client, sent, subs, managerFrame>>

\* Mutant: a key that does not exist ends the session.
SessionSubscribeQuits(s) ==
  LET exists == manager[s].msg.key \in stored IN
  /\ manager[s].pc = "subscribe"
  /\ manager' = [manager EXCEPT ![s] =
       [@ EXCEPT !.ok = exists,
                 !.pc = IF exists /\ session[s].num < MAX_NUMBER_SUB THEN "add" ELSE "end"]]
  /\ UNCHANGED <<alive, session, client, sent, subs, managerFrame>>

\* kvs_key_exists, and the test of num_subscribed_keys: when it is at its limit
\* the response is the same and nothing is stored.
SessionSubscribe(s) ==
  LET exists == manager[s].msg.key \in stored IN
  /\ manager[s].pc = "subscribe"
  /\ manager' = [manager EXCEPT ![s] =
       [@ EXCEPT !.ok = exists,
                 !.pc = IF exists /\ session[s].num < MAX_NUMBER_SUB THEN "add" ELSE "respond"]]
  /\ UNCHANGED <<alive, session, client, sent, subs, managerFrame>>

SessionAdd(s) ==
  /\ Step(s, "add", "load")
  /\ session' = [session EXCEPT ![s].keys[session[s].num] = manager[s].msg.key]
  /\ UNCHANGED <<alive, client, sent, subs, managerFrame>>

\* num_subscribed_keys++ and --: a load, then a store.
SessionLoad(s) ==
  /\ manager[s].pc = "load"
  /\ manager' = [manager EXCEPT ![s] = [@ EXCEPT !.pc = "count", !.at = session[s].num]]
  /\ UNCHANGED <<alive, session, client, sent, subs, managerFrame>>

SessionCount(s) ==
  /\ Step(s, "count", "respond")
  /\ session' = [session EXCEPT ![s].num =
       manager[s].at + (IF manager[s].msg.op = "SUBSCRIBE" THEN 1 ELSE -1)]
  /\ UNCHANGED <<alive, client, sent, subs, managerFrame>>

\* One turn of the loop over the subscriptions; the step after the last turn.
SearchTurn(s, end) ==
  LET i == manager[s].at IN
  /\ manager[s].pc = "search"
  /\ manager' = [manager EXCEPT ![s] =
       CASE i >= session[s].num -> [@ EXCEPT !.pc = end, !.ok = FALSE]
         [] i < session[s].num /\ session[s].keys[i] = manager[s].msg.key ->
              [@ EXCEPT !.pc = "shift", !.ok = TRUE]
         [] OTHER -> [@ EXCEPT !.at = i + 1]]
  /\ UNCHANGED <<alive, session, client, sent, subs, managerFrame>>

\* Mutants: a key that is not found is counted off, or not answered.
SessionSearchCounts(s) == SearchTurn(s, "load")
SessionSearchSilent(s) == SearchTurn(s, "loop")

\* A key that is not found is answered with the result still FALSE.
SessionSearch(s) == SearchTurn(s, "respond")

\* One turn of the loop that moves the later subscriptions up; the last index it
\* moves into is num - last - 1.
ShiftTurn(s, last, end) ==
  LET j == manager[s].at IN
  /\ manager[s].pc = "shift"
  /\ IF j < session[s].num - last
     THEN /\ session' = [session EXCEPT ![s].keys[j] = session[s].keys[j + 1]]
          /\ manager' = [manager EXCEPT ![s].at = j + 1]
     ELSE /\ manager' = [manager EXCEPT ![s].pc = end]
          /\ UNCHANGED session
  /\ UNCHANGED <<alive, client, sent, subs, managerFrame>>

\* Mutants: the last subscription is not moved, or stays counted.
SessionShiftShort(s)   == ShiftTurn(s, 2, "load")
SessionShiftCounted(s) == ShiftTurn(s, 1, "respond")

SessionShift(s) == ShiftTurn(s, 1, "load")

SessionDisconnect(s) ==
  /\ manager[s].pc = "disconnect"
  /\ manager' = [manager EXCEPT ![s] = [@ EXCEPT !.pc = "respond", !.ok = TRUE]]
  /\ session' = [session EXCEPT ![s] = [@ EXCEPT !.active = FALSE, !.num = 0]]
  /\ UNCHANGED <<alive, client, sent, subs, managerFrame>>

\* The client reads the response.
SessionRespond(s) ==
  LET c == manager[s].client
      m == manager[s].msg
      granted == IF m.op = "SUBSCRIBE" THEN 1 ELSE -1
  IN
  /\ Step(s, "respond", "loop")
  /\ session[s].peer # None /\ client[c] # "gone"
  /\ client' = [client EXCEPT ![c] = IF m.op = "DISCONNECT" THEN "leaving" ELSE "idle"]
  /\ subs' = IF m.op = "DISCONNECT" THEN [subs EXCEPT ![c] = [k \in Keys |-> 0]]
             ELSE IF manager[s].ok THEN [subs EXCEPT ![c][m.key] = @ + granted]
             ELSE subs
  /\ UNCHANGED <<alive, session, sent, managerFrame>>

\* Mutant: the response is written again until it succeeds.
SessionRespondRetries(s) ==
  /\ session[s].peer = None
  /\ Step(s, "respond", "respond")
  /\ UNCHANGED <<alive, session, client, sent, subs, managerFrame>>

\* The sweep closed the FIFO: write fails.
SessionRespondFails(s) ==
  /\ session[s].peer = None
  /\ Step(s, "respond", "end")
  /\ UNCHANGED <<alive, session, client, sent, subs, managerFrame>>

\* The FIFO has no reader any more: SIGPIPE, which nothing in the server
\* handles or ignores, ends it.
SessionRespondDies(s) ==
  /\ manager[s].pc = "respond"
  /\ session[s].peer # None /\ client[manager[s].client] = "gone"
  /\ alive' = FALSE
  /\ UNCHANGED <<session, manager, client, sent, subs, managerFrame>>

\* The critical section after the loop, which a sweep keeps out.
SessionEnd(s) ==
  /\ manager[s].pc = "end" /\ host.pc = "listen"
  /\ manager' = [manager EXCEPT ![s] = [@ EXCEPT !.pc = "free", !.client = None]]
  /\ session' = [session EXCEPT ![s].active = FALSE]
  /\ UNCHANGED <<alive, client, sent, subs, managerFrame>>

-----------------------------------------------------------------------------
(* The host's sweep after SIGUSR1.                                         *)

hostFrame == <<alive, shared, manager, sent, stored, job, requests, changes, crashes, subs>>

SweepStart ==
  /\ host.pc = "listen" /\ sweeps < MaxSweeps
  /\ host' = [pc |-> "check", i |-> 0]
  /\ sweeps' = sweeps + 1
  /\ UNCHANGED <<session, client, watch, missed, hostFrame>>

\* The test of active, or the end of the loop.
SweepCheck ==
  /\ host.pc = "check"
  /\ host' = CASE host.i = MAX_SESSION_COUNT -> [pc |-> "listen", i |-> 0]
               [] host.i < MAX_SESSION_COUNT /\ session[host.i].active ->
                    [host EXCEPT !.pc = "close"]
               [] OTHER -> [host EXCEPT !.i = @ + 1]
  /\ UNCHANGED <<session, client, watch, missed, sweeps, hostFrame>>

\* The close()s; the client finds the end of its FIFOs.
SweepClose ==
  /\ host.pc = "close"
  /\ host' = [host EXCEPT !.pc = "reset"]
  /\ session' = [session EXCEPT ![host.i].peer = None]
  /\ LET c == session[host.i].peer IN
       /\ client' = [d \in Clients |->
            IF d = c /\ client[d] \in InSession \cup {"waiting"} THEN "hungup" ELSE client[d]]
       /\ Forget(c)
  /\ UNCHANGED <<missed, sweeps, hostFrame>>

\* A client that the sweep did not hang up is left with an inactive entry.
SweepReset ==
  /\ host.pc = "reset"
  /\ host' = [pc |-> "check", i |-> host.i + 1]
  /\ session' = [session EXCEPT ![host.i] = [@ EXCEPT !.active = FALSE, !.num = 0]]
  /\ Forget(session[host.i].peer)
  /\ missed' = missed \cup {c \in Clients : /\ manager[host.i].client = c
                                            /\ client[c] \in InSession \cup {"waiting"}}
  /\ UNCHANGED <<client, sweeps, hostFrame>>

-----------------------------------------------------------------------------
(* Job threads: run_job's WRITE and DELETE, and notify_clients.            *)

jobFrame == <<shared, session, manager, client, sent, host, requests, sweeps, crashes, subs,
              missed>>

\* The client has a session the sweep has not ended.
InPlace(c) == \E s \in Slots : session[s].active /\ manager[s].client = c

\* How often the entry holds a subscription to the key.
Copies(s, k) ==
  Cardinality({i \in SubSlots : i < session[s].num /\ session[s].keys[i] = k})

\* The client's manager has not yet emptied the subscriptions of its entry.
Fresh(c) == \E s \in Slots : manager[s].client = c /\ manager[s].pc = "reset"

\* That session's entry holds a subscription of the client to the key.
Subscribed(c, k) ==
  ~ Fresh(c) /\ \E s \in Slots : session[s].active /\ manager[s].client = c /\ Copies(s, k) > 0

\* kvs_write or kvs_delete of key k, missing or not.  Who is owed the
\* notification, and to whom it would be a surprise, is settled here.
JobChange(t, k, stored1) ==
  /\ job[t].pc = "job" /\ changes < MaxChanges
  /\ changes' = changes + 1
  /\ stored' = stored1
  /\ job' = [job EXCEPT ![t] = [pc |-> "active", key |-> k, s |-> 0, j |-> 0]]
  /\ LET idle == {c \in Clients : client[c] = "idle"} IN
       watch' = [watch EXCEPT ![t] = [owed  |-> {c \in idle : Subscribed(c, k)},
                                      moved |-> {},
                                      quiet |-> {c \in idle : subs[c][k] = 0},
                                      fresh |-> {c \in idle : Fresh(c)}]]
  /\ UNCHANGED <<alive, jobFrame>>

JobWrite(t, k)  == JobChange(t, k, stored \cup {k})
JobDelete(t, k) == JobChange(t, k, stored \ {k})

\* The loop over sessions[].
NotifyActive(t) ==
  LET s == job[t].s IN
  /\ job[t].pc = "active" /\ s < MAX_SESSION_COUNT
  /\ job' = [job EXCEPT ![t] =
       IF session[s].active THEN [@ EXCEPT !.pc = "num", !.j = 0] ELSE [@ EXCEPT !.s = s + 1]]
  /\ UNCHANGED <<alive, stored, changes, watch, jobFrame>>

\* Mutant: the last subscription is left out.
NotifyNumShort(t) ==
  /\ job[t].pc = "num"
  /\ job' = [job EXCEPT ![t] =
       IF job[t].j < session[job[t].s].num - 1
       THEN [@ EXCEPT !.pc = "compare"] ELSE [@ EXCEPT !.pc = "active", !.s = job[t].s + 1]]
  /\ UNCHANGED <<alive, stored, changes, watch, jobFrame>>

\* The condition of the loop over the subscriptions of the entry.
NotifyNum(t) ==
  /\ job[t].pc = "num"
  /\ job' = [job EXCEPT ![t] =
       IF job[t].j < session[job[t].s].num THEN [@ EXCEPT !.pc = "compare"]
                                           ELSE [@ EXCEPT !.pc = "active", !.s = job[t].s + 1]]
  /\ UNCHANGED <<alive, stored, changes, watch, jobFrame>>

NotifyCompare(t) ==
  /\ job[t].pc = "compare"
  /\ job' = [job EXCEPT ![t] =
       IF session[job[t].s].keys[job[t].j] = job[t].key
       THEN [@ EXCEPT !.pc = "write"] ELSE [@ EXCEPT !.pc = "num", !.j = job[t].j + 1]]
  /\ UNCHANGED <<alive, stored, changes, watch, jobFrame>>

\* The write to the notification FIFO the entry has now: it reaches the client
\* there, fails if the FIFO is closed, or raises SIGPIPE.
NotifyWrite(t) ==
  LET c == session[job[t].s].peer IN
  /\ job[t].pc = "write"
  /\ job' = [job EXCEPT ![t] = [@ EXCEPT !.pc = "num", !.j = job[t].j + 1]]
  /\ alive' = (c = None \/ client[c] # "gone")
  /\ watch' = [watch EXCEPT ![t].owed = @ \ {c}]
  /\ UNCHANGED <<stored, changes, jobFrame>>

NotifyEnd(t) ==
  /\ job[t].pc = "active" /\ job[t].s = MAX_SESSION_COUNT
  /\ job' = [job EXCEPT ![t].pc = "job"]
  /\ watch' = [watch EXCEPT ![t] = Nobody]
  /\ UNCHANGED <<alive, stored, changes, jobFrame>>

-----------------------------------------------------------------------------
ClientNext(c) ==
  \/ \E k \in Keys : ClientSubscribe(c, k) \/ ClientUnsubscribe(c, k)
  \/ ClientDisconnect(c) \/ ClientClose(c) \/ ClientCrash(c)

\* What the manager of entry s does without a new client.
ManagerNext(s) ==
  \/ SessionOpen(s) \/ SessionConnect(s) \/ SessionConnectFails(s)
  \/ SessionReset(s) \/ SessionLoop(s)
  \/ SessionRead(s) \/ SessionReadEOF(s)
  \/ SessionSubscribe(s) \/ SessionAdd(s) \/ SessionLoad(s) \/ SessionCount(s)
  \/ SessionSearch(s) \/ SessionShift(s) \/ SessionDisconnect(s)
  \/ SessionRespond(s) \/ SessionRespondFails(s) \/ SessionRespondDies(s) \/ SessionEnd(s)

HostNext == SweepStart \/ SweepCheck \/ SweepClose \/ SweepReset

NotifyNext(t) ==
  \/ NotifyActive(t) \/ NotifyNum(t) \/ NotifyCompare(t) \/ NotifyWrite(t) \/ NotifyEnd(t)

\* Nothing happens after the server's end that the properties are about; what
\* follows when two managers are in one entry is SessionPool's.
Running == alive /\ ~ shared

Next ==
  /\ Running
  /\ \/ \E c \in Clients : \/ ClientNext(c)
                            \/ \E s \in Slots : SessionClaim(s, c) \/ SessionOverlaps(s, c)
     \/ \E s \in Slots : ManagerNext(s)
     \/ HostNext
     \/ \E t \in JobThreads :
          NotifyNext(t) \/ \E k \in Keys : JobWrite(t, k) \/ JobDelete(t, k)

Spec == Init /\ [][Next]_vars

\* The managers and a sweep once begun keep running, clients that are told to go do so.
FairSpec ==
  /\ Spec
  /\ \A s \in Slots : WF_vars(Running /\ ManagerNext(s))
  /\ WF_vars(Running /\ (SweepCheck \/ SweepClose \/ SweepReset))
  /\ WF_vars(Running /\ \E c \in Clients : ClientClose(c))

-----------------------------------------------------------------------------
(* What holds.                                                             *)

\* While the manager waits for the next request its entry holds no subscription
\* more often than the client was granted it; and exactly as often as long as the
\* client cannot have reached the limit, where the response is 1 although nothing
\* is stored (main.c:294-327).  Adding, finding and moving up lose and leave nothing.
SubscriptionsAgree ==
  \A s \in Slots : LET c == manager[s].client IN
    manager[s].pc = "read" /\ session[s].active /\ client[c] \in InSession
      => \A k \in Keys :
           /\ Copies(s, k) <= subs[c][k]
           /\ requests[c] <= MAX_NUMBER_SUB => Copies(s, k) = subs[c][k]

\* notify_clients, without a lock, tells every client whose entry held the key when
\* it changed, provided that since then its session has not ended and
\* the client has unsubscribed neither this key nor another one (main.c:102-123).
\* New subscriptions may come in meanwhile.
SteadyNotified ==
  \A t \in JobThreads :
    job[t].pc = "active" /\ job[t].s = MAX_SESSION_COUNT => watch[t].owed \subseteq watch[t].moved

\* A client that had no subscription to the key when it changed, and has not
\* asked for one since, is not told as long as it runs, whatever it does to its other
\* subscriptions: no old copy of a key is ever read as a subscription, not even one
\* that a sweep left counted (main.c:297, 486).  A client that has its CONNECT answer,
\* but whose manager had not come past main.c:275 at the change, is left out.
QuietClients ==
  \A t \in JobThreads : job[t].pc = "write" =>
    session[job[t].s].peer \notin
      {c \in watch[t].quiet \ watch[t].fresh : client[c] # "gone"}

\* A client in session has a manager that goes on serving it with its FIFOs, unless
\* a sweep, past an entry whose FIFOs were not open yet, has left it behind
\* (main.c:255-257, 481-486): no request, refused or at a limit, ends a session.
ClientsServed ==
  \A c \in Clients : client[c] \in InSession /\ c \notin missed =>
    \E s \in Slots : /\ manager[s].client = c /\ manager[s].pc # "end"
                     /\ session[s].peer = c

\* A request of a client whose session no sweep is ending gets its response, or
\* a sweep ends the session (main.c:302-337).
RequestAnswered ==
  \A c \in Clients :
    client[c] = "asking" /\ InPlace(c) /\ host.pc = "listen"
      ~> ~ Running \/ client[c] # "asking"

\* A manager whose FIFOs the sweep closed comes back for the next client
\* (enunciado.md:238-244), although it may sit in a read that the sweep does not
\* end: the client's exit does.
SweptManagerFreed ==
  \A s \in Slots :
    session[s].peer = None /\ manager[s].pc \notin {"free", "open"}
      ~> ~ Running \/ manager[s].pc = "free"

-----------------------------------------------------------------------------
(* What the documents say and the code does not do.                        *)

\* enunciado.md:42-44: whenever the value of a subscribed key changes the
\* client is notified.
EveryChangeNotified ==
  \A t \in JobThreads :
    job[t].pc = "active" /\ job[t].s = MAX_SESSION_COUNT => watch[t].owed = {}

\* enunciado.md:235 and main.c:486: the sweep removes all subscriptions.  Then a
\* client is never told of a key it has not asked for, from its CONNECT answer on.
UnaskedUntold ==
  \A t \in JobThreads : job[t].pc = "write" =>
    session[job[t].s].peer \notin {c \in watch[t].quiet : client[c] # "gone"}

\* enunciado.md:235-238: the sweep closes the FIFOs of all the clients, and so ends
\* them; no client is left in a session that has no manager.
NoneLeftBehind ==
  \A c \in Clients : client[c] \in InSession => \E s \in Slots : manager[s].client = c

\* README.md:102: client disconnects or crashes do not crash the server.
ServerSurvives == alive
=============================================================================
