----------------------------- MODULE SessionPool -----------------------------
(***************************************************************************)
(* How the server hands connection requests to its session managers        *)
(* (src/server/main.c).  The host thread reads CONNECT requests from the   *)
(* register FIFO and stores them in the buffer; MAX_SESSION_COUNT manager  *)
(* threads take them out, pick a free entry of sessions[] and serve it     *)
(* until it ends.  SIGUSR1 makes the host close every active session.      *)
(*                                                                         *)
(* A step is one access to state that other threads see.  A critical       *)
(* section of buffer_mutex that makes one such access is one step guarded  *)
(* by the mutex being free; the host's sweep, which makes one per session, *)
(* holds the mutex through several steps.  A session's SUBSCRIBE and       *)
(* UNSUBSCRIBE are abstracted: a manager at "serve" is anywhere between    *)
(* the read and the next test of the loop, as long as no request changes   *)
(* the entry.  A request is the client that sent it: its three paths are   *)
(* copied together, and the three FIFOs of a session are opened together.  *)
(* A local variable that is out of scope has its initial value.            *)
(*                                                                         *)
(* A write to a FIFO without a reader fails with EPIPE where the server    *)
(* inherits SIGPIPE ignored; with the default action the process, and so   *)
(* the behaviour, ends there instead.                                      *)
(***************************************************************************)
EXTENDS Integers, Sequences, FiniteSets

CONSTANTS
  MAX_SESSION_COUNT,  \* entries of sessions[] and of buffer[]
  Managers,           \* the manager threads
  Clients,            \* client processes; each connects at most once
  NoClient,           \* the zeroed paths of an unused buffer entry, no peer
  MaxSignals          \* bound on the SIGUSR1 signals sent

ASSUME SessionPoolAssumption ==
  /\ MAX_SESSION_COUNT \in Nat \ {0}
  /\ IsFiniteSet(Managers)
  /\ Cardinality(Managers) = MAX_SESSION_COUNT
  /\ NoClient \notin Clients
  /\ MaxSignals \in Nat

VARIABLES
  registerPipe,      \* CONNECT requests written to the register FIFO
  client,            \* what each client process is doing
  hostPc, hostReq,   \* host_task: next step, request in read_buffer
  sweepIdx,          \* host_task: i of the sweep
  semEmpty, semFull, \* values of the two semaphores
  buffer,            \* the producer-consumer buffer
  buffer_mutex,      \* "free" or "host": whether the host is sweeping
  sigusr1_received,
  managerPc, request,  \* manager_task: next step, request taken
  pos,               \* manager_task: i of the scan, then session_index
  masked,            \* managers whose signal mask blocks SIGUSR1
  active,            \* sessions[].active
  path,              \* sessions[].*_pipe_path
  peer,              \* client at the other end of sessions[].*_fd
  \* History variables, read only by the properties.
  surplus,           \* tokens put in the semaphores beyond the initial ones
  stored, taken,     \* requests stored, times each one was taken
  signals,           \* SIGUSR1 signals sent
  unswept            \* one came outside a sweep, and no sweep has begun since

hostVars    == <<hostPc, hostReq, sweepIdx>>
managerVars == <<managerPc, request, pos, masked>>
semVars     == <<semEmpty, semFull, surplus>>
sessionVars == <<active, path, peer>>
historyVars == <<stored, taken>>
signalVars  == <<sigusr1_received, signals, unswept>>
vars == <<registerPipe, client, hostVars, semVars, buffer, buffer_mutex,
          signalVars, managerVars, sessionVars, historyVars>>

Slots    == 0 .. MAX_SESSION_COUNT - 1
Requests == Clients \cup {NoClient}

HostSteps    == {"check", "lock", "sweep", "reset", "read", "wait", "store", "post"}
ManagerSteps == {"wait", "take", "post", "scan", "claim", "open", "connect",
                 "loop", "serve", "respond", "end", "postEnd"}
\* In handle_session, with the entry at pos.
InSession    == {"open", "connect", "loop", "serve", "respond", "end"}
\* A client waits for its FIFOs to be opened, then for the answer to its
\* CONNECT; a leaving one for the answer to its DISCONNECT.
ClientStates == {"new", "waiting", "opened", "connected", "leaving", "left",
                 "hungup", "gone"}

\* The type invariant.
TypeOK ==
  /\ registerPipe \in Seq(Clients)
  /\ client \in [Clients -> ClientStates]
  /\ hostPc \in HostSteps
  /\ hostReq \in Requests
  /\ sweepIdx \in 0 .. MAX_SESSION_COUNT
  /\ semEmpty \in Nat /\ semFull \in Nat /\ surplus \in Nat
  /\ buffer \in [Slots -> Requests]
  /\ buffer_mutex \in {"free", "host"}
  /\ sigusr1_received \in BOOLEAN
  /\ managerPc \in [Managers -> ManagerSteps]
  /\ request \in [Managers -> Requests]
  /\ pos \in [Managers -> -1 .. MAX_SESSION_COUNT]
  /\ masked \in SUBSET Managers
  /\ active \in [Slots -> BOOLEAN]
  /\ path \in [Slots -> Requests]
  /\ peer \in [Slots -> Requests]
  /\ stored \in SUBSET Requests
  /\ taken \in [Clients -> Nat]
  /\ signals \in 0 .. MaxSignals /\ unswept \in BOOLEAN

\* The server after main has created its threads (the semaphores at their
\* initial values, every session inactive), no client started.
Init ==
  /\ registerPipe = <<>>
  /\ client = [c \in Clients |-> "new"]
  /\ hostPc = "check" /\ hostReq = NoClient /\ sweepIdx = 0
  /\ semEmpty = MAX_SESSION_COUNT /\ semFull = 0 /\ surplus = 0
  /\ buffer = [i \in Slots |-> NoClient]
  /\ buffer_mutex = "free"
  /\ sigusr1_received = FALSE
  /\ managerPc = [m \in Managers |-> "wait"]
  /\ request = [m \in Managers |-> NoClient]
  /\ pos = [m \in Managers |-> -1]
  /\ masked = {}
  /\ active = [s \in Slots |-> FALSE]
  /\ path = [s \in Slots |-> NoClient]
  /\ peer = [s \in Slots |-> NoClient]
  /\ stored = {} /\ taken = [c \in Clients |-> 0]
  /\ signals = 0 /\ unswept = FALSE

-----------------------------------------------------------------------------
(* Clients and the sender of signals.                                      *)

\* kvs_connect: create the FIFOs, write the request, block in open().
ClientConnect(c) ==
  /\ client[c] = "new"
  /\ client' = [client EXCEPT ![c] = "waiting"]
  /\ registerPipe' = Append(registerPipe, c)
  /\ UNCHANGED <<hostVars, semVars, buffer, buffer_mutex, signalVars,
                 managerVars, sessionVars, historyVars>>

\* The client's notification thread sees end of file on its closed FIFO,
\* removes the client's FIFOs (kvs_end) and the client exits.
ClientHangup(c) ==
  /\ client[c] = "hungup"
  /\ client' = [client EXCEPT ![c] = "gone"]
  /\ UNCHANGED <<registerPipe, hostVars, semVars, buffer, buffer_mutex,
                 signalVars, managerVars, sessionVars, historyVars>>

Raise ==
  /\ signals < MaxSignals
  /\ signals' = signals + 1
  /\ sigusr1_received' = TRUE
  /\ unswept' = (unswept \/ hostPc \notin {"sweep", "reset"})

\* SIGUSR1 handled by a thread that is not blocked in a semaphore.
Signal ==
  /\ Raise
  /\ UNCHANGED <<registerPipe, client, hostVars, semVars, buffer,
                 buffer_mutex, managerVars, sessionVars, historyVars>>

\* SIGUSR1 handled by the host blocked in sem_wait(&semEmpty): sa_flags is 0,
\* sem_wait fails with EINTR, its result is not looked at.
SignalHost ==
  /\ Raise
  /\ hostPc = "wait" /\ semEmpty = 0
  /\ hostPc' = "store"
  /\ surplus' = surplus + 1
  /\ UNCHANGED <<registerPipe, client, hostReq, sweepIdx, semEmpty, semFull,
                 buffer, buffer_mutex, managerVars, sessionVars, historyVars>>

\* The same for a manager blocked in sem_wait(&semFull) that has served no
\* session yet, so that SIGUSR1 is not blocked in it.
SignalManager(m) ==
  /\ Raise
  /\ managerPc[m] = "wait" /\ semFull = 0 /\ m \notin masked
  /\ managerPc' = [managerPc EXCEPT ![m] = "take"]
  /\ surplus' = surplus + 1
  /\ UNCHANGED <<registerPipe, client, hostVars, semEmpty, semFull, buffer,
                 buffer_mutex, request, pos, masked, sessionVars, historyVars>>

-----------------------------------------------------------------------------
(* The host thread.                                                        *)

\* if (sigusr1_received)
HostCheck ==
  /\ hostPc = "check"
  /\ hostPc' = IF sigusr1_received THEN "lock" ELSE "read"
  /\ UNCHANGED <<registerPipe, client, hostReq, sweepIdx, semVars, buffer,
                 buffer_mutex, signalVars, managerVars, sessionVars, historyVars>>

HostLock ==
  /\ hostPc = "lock" /\ buffer_mutex = "free"
  /\ hostPc' = "sweep"
  /\ sweepIdx' = 0
  /\ buffer_mutex' = "host"
  /\ unswept' = FALSE
  /\ UNCHANGED <<registerPipe, client, hostReq, semVars, buffer, sigusr1_received,
                 signals, managerVars, sessionVars, historyVars>>

\* One turn of the loop over sessions[]: close the FIFOs of an active entry
\* and mark it inactive.
HostSweep ==
  /\ hostPc = "sweep" /\ sweepIdx < MAX_SESSION_COUNT
  /\ sweepIdx' = sweepIdx + 1
  /\ IF active[sweepIdx]
     THEN /\ active' = [active EXCEPT ![sweepIdx] = FALSE]
          /\ peer' = [peer EXCEPT ![sweepIdx] = NoClient]
          /\ client' = [c \in Clients |->
                          IF peer[sweepIdx] = c
                             /\ client[c] \in {"opened", "connected", "leaving"}
                          THEN "hungup" ELSE client[c]]
     ELSE UNCHANGED <<active, peer, client>>
  /\ UNCHANGED <<registerPipe, hostPc, hostReq, semVars, buffer, buffer_mutex,
                 signalVars, managerVars, path, historyVars>>

HostSweepEnd ==
  /\ hostPc = "sweep" /\ sweepIdx = MAX_SESSION_COUNT
  /\ hostPc' = "reset"
  /\ sweepIdx' = 0
  /\ buffer_mutex' = "free"
  /\ UNCHANGED <<registerPipe, client, hostReq, semVars, buffer,
                 signalVars, managerVars, sessionVars, historyVars>>

\* sigusr1_received = 0
HostReset ==
  /\ hostPc = "reset"
  /\ hostPc' = "read"
  /\ sigusr1_received' = FALSE
  /\ UNCHANGED <<registerPipe, client, hostReq, sweepIdx, semVars, buffer,
                 buffer_mutex, signals, unswept, managerVars, sessionVars, historyVars>>

\* Mutant: the read is restarted after a signal and waits for a request.
HostReadRestarts ==
  /\ hostPc = "read" /\ registerPipe # <<>>
  /\ hostReq' = Head(registerPipe)
  /\ registerPipe' = Tail(registerPipe)
  /\ hostPc' = "wait"
  /\ UNCHANGED <<client, sweepIdx, semVars, buffer, buffer_mutex, signalVars,
                 managerVars, sessionVars, historyVars>>

\* read() on the register FIFO: a request, or nothing (no writer has the FIFO
\* open, or a signal interrupted the read), and then the loop starts over.
HostRead ==
  /\ hostPc = "read"
  /\ IF registerPipe # <<>>
     THEN /\ hostReq' = Head(registerPipe)
          /\ registerPipe' = Tail(registerPipe)
          /\ hostPc' = "wait"
     ELSE /\ hostPc' = "check"
          /\ UNCHANGED <<hostReq, registerPipe>>
  /\ UNCHANGED <<client, sweepIdx, semVars, buffer, buffer_mutex, signalVars,
                 managerVars, sessionVars, historyVars>>

\* Mutant: the host does not wait for space.
HostWaitNot ==
  /\ hostPc = "wait"
  /\ semEmpty' = semEmpty - 1
  /\ hostPc' = "store"
  /\ UNCHANGED <<registerPipe, client, hostReq, sweepIdx, semFull, surplus,
                 buffer, buffer_mutex, signalVars, managerVars, sessionVars,
                 historyVars>>

\* sem_wait(&semEmpty)
HostWait ==
  /\ hostPc = "wait" /\ semEmpty > 0
  /\ semEmpty' = semEmpty - 1
  /\ hostPc' = "store"
  /\ UNCHANGED <<registerPipe, client, hostReq, sweepIdx, semFull, surplus,
                 buffer, buffer_mutex, signalVars, managerVars, sessionVars,
                 historyVars>>

\* The critical section: the index is the current value of semFull.  A write
\* beyond the buffer lands in memory the model does not have.
HostStore ==
  /\ hostPc = "store" /\ buffer_mutex = "free"
  /\ buffer' = IF semFull \in Slots THEN [buffer EXCEPT ![semFull] = hostReq]
               ELSE buffer
  /\ stored' = stored \cup {hostReq}
  /\ hostPc' = "post"
  /\ UNCHANGED <<registerPipe, client, hostReq, sweepIdx, semVars,
                 buffer_mutex, signalVars, managerVars, sessionVars, taken>>

\* sem_post(&semFull)
HostPost ==
  /\ hostPc = "post"
  /\ semFull' = semFull + 1
  /\ hostPc' = "check"
  /\ hostReq' = NoClient
  /\ UNCHANGED <<registerPipe, client, sweepIdx, semEmpty, surplus,
                 buffer, buffer_mutex, signalVars, managerVars, sessionVars,
                 historyVars>>

-----------------------------------------------------------------------------
(* The manager threads.                                                    *)

Go(m, step) == managerPc' = [managerPc EXCEPT ![m] = step]

\* sem_wait(&semFull)
ManagerWait(m) ==
  /\ managerPc[m] = "wait" /\ semFull > 0
  /\ semFull' = semFull - 1
  /\ Go(m, "take")
  /\ UNCHANGED <<registerPipe, client, hostVars, semEmpty, surplus, buffer,
                 buffer_mutex, signalVars, request, pos, masked, sessionVars,
                 historyVars>>

\* The critical section: the index is the current value of semFull.  A read
\* beyond the buffer finds any request.
ManagerTake(m) ==
  /\ managerPc[m] = "take" /\ buffer_mutex = "free"
  /\ \E r \in Requests :
       /\ semFull \in Slots => r = buffer[semFull]
       /\ request' = [request EXCEPT ![m] = r]
       /\ taken' = [c \in Clients |-> IF c = r THEN taken[c] + 1 ELSE taken[c]]
  /\ Go(m, "post")
  /\ UNCHANGED <<registerPipe, client, hostVars, semVars, buffer,
                 buffer_mutex, signalVars, pos, masked, sessionVars, stored>>

\* Mutant: the manager keeps the token.
ManagerPostNot(m) ==
  /\ managerPc[m] = "post"
  /\ pos' = [pos EXCEPT ![m] = 0]
  /\ Go(m, "scan")
  /\ UNCHANGED <<registerPipe, client, hostVars, semVars, buffer, buffer_mutex,
                 signalVars, request, masked, sessionVars, historyVars>>

\* Mutant: the scan starts at entry 1.
ManagerPostOne(m) ==
  /\ managerPc[m] = "post"
  /\ semEmpty' = semEmpty + 1
  /\ pos' = [pos EXCEPT ![m] = 1]
  /\ Go(m, "scan")
  /\ UNCHANGED <<registerPipe, client, hostVars, semFull, surplus, buffer,
                 buffer_mutex, signalVars, request, masked, sessionVars,
                 historyVars>>

\* sem_post(&semEmpty); the scan starts at entry 0.
ManagerPost(m) ==
  /\ managerPc[m] = "post"
  /\ semEmpty' = semEmpty + 1
  /\ pos' = [pos EXCEPT ![m] = 0]
  /\ Go(m, "scan")
  /\ UNCHANGED <<registerPipe, client, hostVars, semFull, surplus, buffer,
                 buffer_mutex, signalVars, request, masked, sessionVars,
                 historyVars>>

\* Pass over an active entry.
ManagerSkip(m) ==
  /\ managerPc[m] = "scan" /\ pos[m] < MAX_SESSION_COUNT /\ active[pos[m]]
  /\ pos' = [pos EXCEPT ![m] = @ + 1]
  /\ UNCHANGED <<registerPipe, client, hostVars, semVars, buffer,
                 buffer_mutex, signalVars, managerPc, request, masked,
                 sessionVars, historyVars>>

\* The entry looks free.  The other way out of the loop, with every entry
\* passed over and session_index = -1, has no action: ScanFindsEntry says
\* that it is never taken.
ManagerChoose(m) ==
  /\ managerPc[m] = "scan" /\ pos[m] < MAX_SESSION_COUNT /\ ~ active[pos[m]]
  /\ Go(m, "claim")
  /\ UNCHANGED <<registerPipe, client, hostVars, semVars, buffer,
                 buffer_mutex, signalVars, request, pos, masked, sessionVars,
                 historyVars>>

\* Copy the paths into the entry chosen and mark it active.
ManagerClaim(m) ==
  /\ managerPc[m] = "claim"
  /\ path' = [path EXCEPT ![pos[m]] = request[m]]
  /\ active' = [active EXCEPT ![pos[m]] = TRUE]
  /\ Go(m, "open")
  /\ UNCHANGED <<registerPipe, client, hostVars, semVars, buffer,
                 buffer_mutex, signalVars, request, pos, masked, peer,
                 historyVars>>

\* The client's FIFOs are at its paths; the client holds its ends of them.
CanOpen(c) == c \in Clients /\ client[c] \notin {"new", "left", "gone"}
Reads(c)   == CanOpen(c) /\ client[c] # "waiting"

\* handle_session: block SIGUSR1, open the FIFOs at the paths that are in the
\* entry now.
SessionOpen(m) ==
  LET c == path[pos[m]] IN
  /\ managerPc[m] = "open" /\ CanOpen(c)
  /\ peer' = [peer EXCEPT ![pos[m]] = c]
  /\ client' = [client EXCEPT ![c] = IF @ = "waiting" THEN "opened" ELSE @]
  /\ masked' = masked \cup {m}
  /\ Go(m, "connect")
  /\ UNCHANGED <<registerPipe, hostVars, semVars, buffer, buffer_mutex,
                 signalVars, request, pos, active, path, historyVars>>

\* An early return of handle_session, without a sem_post.
Return(m) ==
  /\ pos' = [pos EXCEPT ![m] = -1]
  /\ request' = [request EXCEPT ![m] = NoClient]
  /\ Go(m, "wait")

\* handle_session: the FIFOs are not there.
SessionOpenFails(m) ==
  /\ managerPc[m] = "open" /\ ~ CanOpen(path[pos[m]])
  /\ active' = [active EXCEPT ![pos[m]] = FALSE]
  /\ peer' = [peer EXCEPT ![pos[m]] = NoClient]
  /\ masked' = masked \cup {m}
  /\ Return(m)
  /\ UNCHANGED <<registerPipe, client, hostVars, semVars, buffer,
                 buffer_mutex, signalVars, path, historyVars>>

\* The next response a client reads is taken for the one it waits for.
Answer(c) ==
  client' = [client EXCEPT ![c] = CASE @ = "opened"  -> "connected"
                                    [] @ = "leaving" -> "left"
                                    [] OTHER -> @]

\* handle_session: answer the CONNECT, on the FIFO the entry has now.
SessionConnect(m) ==
  /\ managerPc[m] = "connect" /\ Reads(peer[pos[m]])
  /\ Answer(peer[pos[m]])
  /\ Go(m, "loop")
  /\ UNCHANGED <<registerPipe, hostVars, semVars, buffer, buffer_mutex,
                 signalVars, request, pos, masked, sessionVars, historyVars>>

\* Mutant: the early return leaves the entry active.
SessionConnectLeaks(m) ==
  /\ managerPc[m] = "connect" /\ ~ Reads(peer[pos[m]])
  /\ Return(m)
  /\ UNCHANGED <<registerPipe, client, hostVars, semVars, buffer,
                 buffer_mutex, signalVars, masked, sessionVars, historyVars>>

\* handle_session: the answer cannot be written, because the sweep closed the
\* FIFO or the client is gone.
SessionConnectFails(m) ==
  /\ managerPc[m] = "connect" /\ ~ Reads(peer[pos[m]])
  /\ active' = [active EXCEPT ![pos[m]] = FALSE]
  /\ Return(m)
  /\ UNCHANGED <<registerPipe, client, hostVars, semVars, buffer,
                 buffer_mutex, signalVars, masked, path, peer, historyVars>>

\* handle_session: while (session->active)
SessionLoop(m) ==
  /\ managerPc[m] = "loop"
  /\ Go(m, IF active[pos[m]] THEN "serve" ELSE "end")
  /\ UNCHANGED <<registerPipe, client, hostVars, semVars, buffer,
                 buffer_mutex, signalVars, request, pos, masked, sessionVars,
                 historyVars>>

\* handle_session: OP_CODE_DISCONNECT in local_buffer.
Disconnect(m) ==
  /\ active' = [active EXCEPT ![pos[m]] = FALSE]
  /\ Go(m, "respond")
  /\ UNCHANGED <<registerPipe, hostVars, semVars, buffer, buffer_mutex,
                 signalVars, request, pos, masked, path, peer, historyVars>>

\* It was read from the client at the other end or, by a read begun before the
\* entry was taken over, from m's own client.
SessionDisconnect(m) ==
  /\ managerPc[m] = "serve"
  /\ \E c \in {peer[pos[m]], request[m]} \ {NoClient} :
       /\ client[c] = "connected"
       /\ client' = [client EXCEPT ![c] = "leaving"]
  /\ Disconnect(m)

\* It is still there when the read finds the end of file of a client that has
\* left, in an entry that was taken over before the test of the loop.
SessionRepeat(m) ==
  /\ managerPc[m] = "serve"
  /\ \E c \in {peer[pos[m]], request[m]} \ {NoClient} : client[c] = "left"
  /\ Disconnect(m)
  /\ UNCHANGED client

\* handle_session: the answer to the DISCONNECT, on the FIFO the entry has
\* now; back to the loop.
SessionRespond(m) ==
  /\ managerPc[m] = "respond" /\ Reads(peer[pos[m]])
  /\ Answer(peer[pos[m]])
  /\ Go(m, "loop")
  /\ UNCHANGED <<registerPipe, hostVars, semVars, buffer, buffer_mutex,
                 signalVars, request, pos, masked, sessionVars, historyVars>>

\* handle_session: the loop finds the entry inactive after another request, or
\* a read or a write fails because the sweep closed the FIFOs or the client is
\* gone.
SessionExit(m) ==
  /\ \/ managerPc[m] = "serve" /\ ~ active[pos[m]]
     \/ managerPc[m] \in {"serve", "respond"} /\ ~ Reads(peer[pos[m]])
  /\ Go(m, "end")
  /\ UNCHANGED <<registerPipe, client, hostVars, semVars, buffer,
                 buffer_mutex, signalVars, request, pos, masked, sessionVars,
                 historyVars>>

\* handle_session: after the loop, the critical section that marks the entry
\* inactive.
SessionEnd(m) ==
  /\ managerPc[m] = "end" /\ buffer_mutex = "free"
  /\ active' = [active EXCEPT ![pos[m]] = FALSE]
  /\ pos' = [pos EXCEPT ![m] = -1]
  /\ Go(m, "postEnd")
  /\ UNCHANGED <<registerPipe, client, hostVars, semVars, buffer,
                 buffer_mutex, signalVars, request, masked, path, peer,
                 historyVars>>

\* handle_session: sem_post(&semEmpty), the second one for this request.
SessionPost(m) ==
  /\ managerPc[m] = "postEnd"
  /\ semEmpty' = semEmpty + 1
  /\ surplus' = surplus + 1
  /\ request' = [request EXCEPT ![m] = NoClient]
  /\ Go(m, "wait")
  /\ UNCHANGED <<registerPipe, client, hostVars, semFull, buffer,
                 buffer_mutex, signalVars, pos, masked, sessionVars,
                 historyVars>>

-----------------------------------------------------------------------------
Environment ==
  \/ \E c \in Clients : ClientConnect(c) \/ ClientHangup(c)
  \/ Signal \/ SignalHost \/ \E m \in Managers : SignalManager(m)

Host == \/ HostCheck \/ HostLock \/ HostSweep \/ HostSweepEnd \/ HostReset
        \/ HostRead \/ HostWait \/ HostStore \/ HostPost

\* What a manager does without its client's help.
ManagerAlone(m) ==
  \/ ManagerWait(m) \/ ManagerTake(m) \/ ManagerPost(m) \/ ManagerSkip(m)
  \/ ManagerChoose(m) \/ ManagerClaim(m)
  \/ SessionOpen(m) \/ SessionOpenFails(m)
  \/ SessionConnect(m) \/ SessionConnectFails(m)
  \/ SessionLoop(m) \/ SessionRepeat(m) \/ SessionRespond(m)
  \/ SessionExit(m) \/ SessionEnd(m) \/ SessionPost(m)

Next ==
  \/ Environment
  \/ Host
  \/ \E m \in Managers : ManagerAlone(m) \/ SessionDisconnect(m)

Spec == Init /\ [][Next]_vars

\* Every thread of the server keeps running; sem_wait and the mutex do not
\* block a thread that could continue for ever.
ServerFairness ==
  /\ WF_vars(Host)
  /\ \A m \in Managers : WF_vars(ManagerAlone(m))

\* Every client that is being served disconnects some day.
ClientsLeave ==
  /\ \A m \in Managers : WF_vars(SessionDisconnect(m))
  /\ \A c \in Clients : WF_vars(ClientHangup(c))

FairSpec == Spec /\ ServerFairness
LeavingSpec == Spec /\ ServerFairness /\ ClientsLeave

-----------------------------------------------------------------------------
(* What holds.                                                             *)

\* Threads between taking a token from one semaphore and putting one in the
\* other.
Carriers == {m \in Managers : managerPc[m] \in {"take", "post"}}
HostCarries == IF hostPc \in {"store", "post"} THEN 1 ELSE 0

\* No token is lost, and every token beyond the initial ones is put there by
\* the sem_post that ends a session or by an interrupted sem_wait (main.c:350,
\* 504, 520).
TokensAccounted ==
  semEmpty + semFull + HostCarries + Cardinality(Carriers)
    = MAX_SESSION_COUNT + surplus

\* As long as no session has ended and no sem_wait was interrupted, the host
\* never stores a request beyond the buffer (main.c:504-507).
BufferRespected == surplus = 0 /\ hostPc = "store" => semFull \in Slots

\* An active entry of sessions[] is in the hands of a manager that will mark
\* it inactive: none of the three exits of handle_session leaks an entry (the
\* FIFOs not opened, main.c:261; the CONNECT not answered, 271; the end of the
\* loop, 348), two managers in one entry included.
ActiveEntryHeld ==
  \A s \in Slots : active[s] =>
    \E m \in Managers : managerPc[m] \in InSession /\ pos[m] = s

\* The scan for a free entry finds one, although the entries change hands
\* while it goes on without the mutex: no request is dropped at main.c:536.
ScanFindsEntry ==
  \A m \in Managers : managerPc[m] = "scan" => pos[m] < MAX_SESSION_COUNT

\* Why the scan finds an entry.  A manager between wait and scan, or past its
\* session, has no position; the others are at an entry, and at most
\* MAX_SESSION_COUNT - i of them are at entry i or beyond it, because a manager
\* only passes over an entry that another one, at that entry, keeps active.
PositionOK ==
  \A m \in Managers :
    /\ managerPc[m] = "scan" => pos[m] \in 0 .. MAX_SESSION_COUNT
    /\ managerPc[m] \in InSession \cup {"claim"} => pos[m] \in Slots
    /\ managerPc[m] \in {"wait", "take", "post", "postEnd"} => pos[m] = -1

Beyond(i) == {m \in Managers : pos[m] >= i}
BeyondBounded ==
  \A i \in 0 .. MAX_SESSION_COUNT :
    Cardinality(Beyond(i)) <= MAX_SESSION_COUNT - i

ScanInv == PositionOK /\ ActiveEntryHeld /\ BeyondBounded

\* After a SIGUSR1 a sweep begins, provided that clients leave (main.c:477-491):
\* no other signal's sweep and no order of the flag's accesses loses it, unless
\* it comes between a sweep's lock and the reset of the flag.
SignalSwept == unswept ~> ~ unswept

-----------------------------------------------------------------------------
(* What the documents say and the code does not do.                        *)

\* main.c:504 waits "por espaço no buffer": there is space when the host
\* stores a request.
SpaceInBuffer == hostPc = "store" => semFull \in Slots

\* enunciado.md:206-208 and 214-216: the managers take the requests out of the
\* buffer, each for one of them: once no token is left and no manager is about
\* to take a request, every request was taken once.
RequestsTakenOnce ==
  semFull = 0 /\ hostPc # "post" /\ (\A m \in Managers : managerPc[m] # "take")
    => \A c \in stored : taken[c] = 1

\* enunciado.md:206-208: each manager thread is associated with one client and
\* dedicated to its session: even when every request was taken once, a connected
\* client has a manager.
ConnectedServed ==
  \A c \in Clients : client[c] = "connected" /\ (\A d \in stored : taken[d] = 1) =>
    \E m \in Managers : managerPc[m] \in InSession /\ c \in {peer[pos[m]], request[m]}
=============================================================================
