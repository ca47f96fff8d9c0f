------------------------------- MODULE Client -------------------------------
(***************************************************************************)
(* A client process: its command loop and its notification thread          *)
(* (src/client/main.c) use the three descriptors of the API                *)
(* (src/client/api.c) without any lock, and the server may close its ends  *)
(* or die at any moment.                                                   *)
(*                                                                         *)
(* The server is what one client sees of handle_session and of the host's  *)
(* sweep (src/server/main.c); Subscriptions has what it does with the      *)
(* requests.  A FIFO gives the end of file to its reader once no writer    *)
(* has it open, and SIGPIPE to a writer without a reader; a read that has  *)
(* begun keeps its FIFO open whoever closes the descriptor meanwhile.      *)
(***************************************************************************)
EXTENDS Integers, Sequences

CONSTANTS
  None,              \* no request
  MaxCommands,       \* bound on the SUBSCRIBEs and UNSUBSCRIBEs
  MaxNotifications,  \* bound on the notifications
  Capacity,          \* notifications that fit into their FIFO
  ResponseRoom       \* responses that fit into theirs

ASSUME ClientAssumption ==
  /\ None \notin {"CONNECT", "SUBSCRIBE", "UNSUBSCRIBE", "DISCONNECT"}
  /\ {MaxCommands, MaxNotifications} \subseteq Nat
  /\ {Capacity, ResponseRoom} \subseteq Nat \ {0}

VARIABLES
  main,          \* the command loop: step, command, and place in the list of FIFOs
  notif,         \* the notification thread: step and place in the list of FIFOs
  fd,            \* which descriptors of the client are open
  interrompido,
  exit,          \* how the client has ended
  names,         \* the FIFOs have names in the file system
  opened,        \* who has called open on each FIFO
  server,        \* the client's manager: step, place, command; active
  ends,          \* which descriptors of the session are open
  sweep,         \* the host's place in its sweep, 0 outside it
  request,       \* what is in the request FIFO
  response,      \* what is in the response FIFO: the commands responded to
  unread,        \* notifications in the FIFO
  written, printed,  \* notifications, counted
  commands       \* SUBSCRIBEs and UNSUBSCRIBEs, for the bound

mainVars   == <<main, exit>>
clientVars == <<mainVars, notif, fd, interrompido, names, printed, commands>>
serverVars == <<server, ends, sweep, written>>
fifoVars   == <<opened, request, response, unread>>
vars == <<clientVars, serverVars, fifoVars>>

Fifos    == {"req", "resp", "notif"}
Order    == <<"req", "resp", "notif">>  \* in which the client opens and closes
Asking   == {"SUBSCRIBE", "UNSUBSCRIBE"}
Commands == Asking \cup {"CONNECT", "DISCONNECT"}
Running  == exit = "running"

\* The type invariant; the response FIFO never holds more than its room.
TypeOK ==
  /\ main \in [pc : {"make", "register", "open", "opening", "create", "loop", "command", "send",
                     "receive", "reading", "close", "cancel", "join", "ended"},
               cmd : Commands \cup {None}, at : 1 .. 4]
  /\ notif \in [pc : {"none", "read", "reading", "print", "stop", "close", "done"}, at : 1 .. 4]
  /\ fd \in [Fifos -> BOOLEAN] /\ ends \in [Fifos -> BOOLEAN]
  /\ interrompido \in BOOLEAN /\ names \in BOOLEAN
  /\ exit \in {"running", "0", "1", "SIGPIPE"}
  /\ opened \in [Fifos -> SUBSET {"client", "server"}]
  /\ server \in [pc : {"away", "open", "opening", "loop", "reading", "respond", "over", "dead"},
                 at : 1 .. 4, cmd : Commands \cup {None}, active : BOOLEAN]
  /\ sweep \in 0 .. 5
  /\ request \in Commands \cup {None}
  /\ response \in Seq(Commands) /\ Len(response) <= ResponseRoom
  /\ unread \in 0 .. Capacity /\ commands \in 0 .. MaxCommands
  /\ written \in 0 .. MaxNotifications /\ printed \in 0 .. written

Init ==
  /\ main = [pc |-> "make", cmd |-> "CONNECT", at |-> 1]
  /\ notif = [pc |-> "none", at |-> 1]
  /\ fd = [f \in Fifos |-> FALSE] /\ ends = [f \in Fifos |-> FALSE]
  /\ interrompido = FALSE /\ names = FALSE /\ exit = "running"
  /\ opened = [f \in Fifos |-> {}]
  /\ server = [pc |-> "away", at |-> 1, cmd |-> None, active |-> FALSE]
  /\ sweep = 0
  /\ request = None /\ response = <<>> /\ unread = 0
  /\ written = 0 /\ printed = 0 /\ commands = 0

-----------------------------------------------------------------------------
(* The ends of a FIFO.                                                     *)

\* The server's end: a descriptor, an open or a read under way.
ServerHas(f) ==
  \/ ends[f]
  \/ server.pc = "opening" /\ server.at \in DOMAIN Order /\ Order[server.at] = f
  \/ server.pc = "reading" /\ f = "req"

ClientReads == fd["notif"] \/ notif.pc = "reading"

-----------------------------------------------------------------------------
(* The command loop.                                                       *)

MainStep(from, to) == main.pc = from /\ main' = [main EXCEPT !.pc = to]
BackToLoop == main' = [main EXCEPT !.pc = "loop", !.cmd = None] /\ UNCHANGED exit
Exit(code) == exit' = code /\ main' = [main EXCEPT !.pc = "ended"]
mainFrame == <<notif, interrompido, printed, serverVars>>

\* The FIFOs of a client before it are removed, new ones made.
MainMake ==
  /\ MainStep("make", "register")
  /\ names' = TRUE
  /\ UNCHANGED <<mainFrame, exit, fd, commands, fifoVars>>

\* The request; the server has read it when the manager takes it (ServerTake).
MainRegister ==
  /\ MainStep("register", "open")
  /\ UNCHANGED <<mainFrame, exit, fd, names, commands, fifoVars>>

\* A FIFO cannot be made, or the server's not be opened or written to.
MainConnectFails ==
  /\ main.pc \in {"make", "register"}
  /\ Exit("1")
  /\ UNCHANGED <<mainFrame, fd, names, commands, fifoVars>>

\* open of a FIFO waits until the other side has called it too.
MainOpen ==
  /\ MainStep("open", "opening")
  /\ opened' = [opened EXCEPT ![Order[main.at]] = @ \cup {"client"}]
  /\ UNCHANGED <<mainFrame, exit, fd, names, commands, request, response, unread>>

MainOpened ==
  /\ main.pc = "opening" /\ "server" \in opened[Order[main.at]]
  /\ fd' = [fd EXCEPT ![Order[main.at]] = TRUE]
  /\ main' = IF main.at < 3 THEN [main EXCEPT !.pc = "open", !.at = main.at + 1]
                            ELSE [main EXCEPT !.pc = "receive", !.at = 1]
  /\ UNCHANGED <<mainFrame, exit, names, commands, fifoVars>>

\* Mutant: no notification thread.
MainCreateNot ==
  /\ main.pc = "create" /\ BackToLoop
  /\ UNCHANGED <<notif, fd, interrompido, names, commands, printed, serverVars, fifoVars>>

MainCreate ==
  /\ main.pc = "create" /\ BackToLoop
  /\ notif' = [notif EXCEPT !.pc = "read"]
  /\ UNCHANGED <<fd, interrompido, names, commands, printed, serverVars, fifoVars>>

MainCreateFails ==
  /\ main.pc = "create"
  /\ Exit("1")
  /\ UNCHANGED <<mainFrame, fd, names, commands, fifoVars>>

\* Mutant: interrompido is not looked at.
MainTestNot ==
  /\ MainStep("loop", "command")
  /\ UNCHANGED <<mainFrame, exit, fd, names, commands, fifoVars>>

MainTest ==
  /\ main.pc = "loop"
  /\ IF interrompido THEN Exit("1") ELSE MainStep("loop", "command") /\ UNCHANGED exit
  /\ UNCHANGED <<mainFrame, fd, names, commands, fifoVars>>

\* The read of the input has returned: a DELAY, what is invalid or empty, and the end
\* of the input, at which the loop goes round for ever.
MainOther ==
  /\ MainStep("command", "loop")
  /\ UNCHANGED <<mainFrame, exit, fd, names, commands, fifoVars>>

MainCommand(c) ==
  /\ main.pc = "command"
  /\ c \in Asking => commands < MaxCommands
  /\ commands' = IF c \in Asking THEN commands + 1 ELSE commands
  /\ main' = [main EXCEPT !.pc = "send", !.cmd = c]
  /\ UNCHANGED <<mainFrame, exit, fd, names, fifoVars>>

\* A command of which the API says that it failed.
MainFails ==
  /\ IF main.cmd = "DISCONNECT" THEN Exit("1") ELSE BackToLoop
  /\ UNCHANGED <<mainFrame, fd, names, commands, fifoVars>>

Send(c, next) ==
  /\ main.pc = "send" /\ fd["req"] /\ ServerHas("req")
  /\ request' = c
  /\ main' = [main EXCEPT !.pc = next]
  /\ UNCHANGED <<mainFrame, exit, fd, names, commands, opened, response, unread>>

\* Mutant: the response of an UNSUBSCRIBE is not waited for.
MainSendOnly == Send(main.cmd, IF main.cmd = "UNSUBSCRIBE" THEN "loop" ELSE "receive")

MainSend == Send(main.cmd, "receive")

\* The notification thread has closed the descriptor: write fails.
MainSendFails == main.pc = "send" /\ ~ fd["req"] /\ MainFails

\* Nobody has the request FIFO open to read.
MainSendDies ==
  /\ main.pc = "send" /\ fd["req"] /\ ~ ServerHas("req")
  /\ Exit("SIGPIPE")
  /\ UNCHANGED <<mainFrame, fd, names, commands, fifoVars>>

\* The read of the response begins, or fails as the write does.
MainReceive ==
  /\ fd["resp"]
  /\ MainStep("receive", "reading")
  /\ UNCHANGED <<mainFrame, exit, fd, names, commands, fifoVars>>

MainReceiveFails == main.pc = "receive" /\ ~ fd["resp"] /\ MainFails

\* What follows a response, by whether its result is 0.
Received(ok) ==
  CASE main.cmd = "CONNECT" /\ ok    -> main' = [main EXCEPT !.pc = "create"] /\ UNCHANGED exit
    [] main.cmd = "DISCONNECT" /\ ok -> main' = [main EXCEPT !.pc = "close"] /\ UNCHANGED exit
    [] main.cmd \in Asking           -> BackToLoop
    [] OTHER -> Exit("1")

\* The server's result of CONNECT and of DISCONNECT is always 0.
MainResult ==
  /\ main.pc = "reading" /\ response # <<>>
  /\ response' = Tail(response)
  /\ Received(TRUE)
  /\ UNCHANGED <<mainFrame, fd, names, commands, opened, request, unread>>

\* Mutant: the end of the response FIFO interrupts the client, too.
MainResultEndInterrupts ==
  /\ main.pc = "reading" /\ response = <<>> /\ ~ ServerHas("resp")
  /\ interrompido' = TRUE
  /\ \E ok \in BOOLEAN : Received(ok)
  /\ UNCHANGED <<notif, printed, serverVars, fd, names, commands, fifoVars>>

\* The end of the file is not told from a response: the result is what was in
\* response[], which nothing has set.
MainResultEnd ==
  /\ main.pc = "reading" /\ response = <<>> /\ ~ ServerHas("resp")
  /\ \E ok \in BOOLEAN : Received(ok)
  /\ UNCHANGED <<mainFrame, fd, names, commands, fifoVars>>

\* kvs_disconnect closes the FIFOs, then removes their names.
MainClose ==
  /\ main.pc = "close"
  /\ IF main.at \in DOMAIN Order
     THEN /\ fd' = [fd EXCEPT ![Order[main.at]] = FALSE]
          /\ main' = [main EXCEPT !.at = @ + 1]
          /\ UNCHANGED names
     ELSE /\ names' = FALSE
          /\ main' = [main EXCEPT !.pc = "cancel"]
          /\ UNCHANGED fd
  /\ UNCHANGED <<mainFrame, exit, commands, fifoVars>>

MainCancel ==
  /\ MainStep("cancel", "join")
  /\ UNCHANGED <<mainFrame, exit, fd, names, commands, fifoVars>>

MainJoin ==
  /\ main.pc = "join" /\ notif.pc = "done"
  /\ Exit("0")
  /\ UNCHANGED <<mainFrame, fd, names, commands, fifoVars>>

\* The read of the input returns; nothing says that it ever does.
MainInput == MainOther \/ \E c \in Commands \ {"CONNECT"} : MainCommand(c)

MainGoes ==
  \/ MainMake \/ MainRegister \/ MainConnectFails \/ MainOpen \/ MainOpened
  \/ MainCreate \/ MainCreateFails \/ MainTest
  \/ MainSend \/ MainSendFails \/ MainSendDies
  \/ MainReceive \/ MainReceiveFails \/ MainResult \/ MainResultEnd
  \/ MainClose \/ MainCancel \/ MainJoin

Main == MainGoes \/ MainInput

-----------------------------------------------------------------------------
(* The notification thread.                                                *)

notifFrame == <<mainVars, commands, serverVars, opened, request, response>>
NotifStep(from, to) == notif.pc = from /\ notif' = [notif EXCEPT !.pc = to]

\* read_all of a notification begins; it fails when main has closed the descriptor.
NotifRead ==
  /\ main.pc # "join"
  /\ NotifStep("read", IF fd["notif"] THEN "reading" ELSE "stop")
  /\ UNCHANGED <<notifFrame, fd, interrompido, names, printed, unread>>

NotifGet ==
  /\ unread > 0
  /\ NotifStep("reading", "print")
  /\ unread' = unread - 1
  /\ UNCHANGED <<notifFrame, fd, interrompido, names, printed>>

\* Mutant: the end of the FIFO is taken for a notification.
NotifEndPrints ==
  /\ unread = 0 /\ ~ ServerHas("notif")
  /\ NotifStep("reading", "print")
  /\ UNCHANGED <<notifFrame, fd, interrompido, names, printed, unread>>

NotifEnd ==
  /\ unread = 0 /\ ~ ServerHas("notif")
  /\ NotifStep("reading", "stop")
  /\ UNCHANGED <<notifFrame, fd, interrompido, names, printed, unread>>

NotifPrint ==
  /\ NotifStep("print", "read")
  /\ printed' = printed + 1
  /\ UNCHANGED <<notifFrame, fd, interrompido, names, unread>>

\* Mutant: the FIFOs are closed and main is not told.
NotifStopSilent ==
  /\ NotifStep("stop", "close")
  /\ UNCHANGED <<notifFrame, fd, interrompido, names, printed, unread>>

NotifStop ==
  /\ NotifStep("stop", "close")
  /\ interrompido' = TRUE
  /\ UNCHANGED <<notifFrame, fd, names, printed, unread>>

\* kvs_end, which does as kvs_disconnect, whatever main is doing.
NotifClose ==
  /\ notif.pc = "close"
  /\ IF notif.at \in DOMAIN Order
     THEN /\ fd' = [fd EXCEPT ![Order[notif.at]] = FALSE]
          /\ notif' = [notif EXCEPT !.at = @ + 1]
          /\ UNCHANGED names
     ELSE /\ names' = FALSE
          /\ notif' = [notif EXCEPT !.pc = "done"]
          /\ UNCHANGED fd
  /\ UNCHANGED <<notifFrame, interrompido, printed, unread>>

\* read, printf and close are cancellation points.
NotifCancelled ==
  /\ main.pc = "join" /\ notif.pc \in {"read", "reading", "print", "close"}
  /\ notif' = [notif EXCEPT !.pc = "done"]
  /\ UNCHANGED <<notifFrame, fd, interrompido, names, printed, unread>>

Notif ==
  \/ NotifRead \/ NotifGet \/ NotifEnd \/ NotifPrint \/ NotifStop \/ NotifClose
  \/ NotifCancelled

-----------------------------------------------------------------------------
(* The server.                                                             *)

serverFrame == <<clientVars, written>>

\* Mutant: the response FIFO first.
ServerOrderOther == <<"resp", "req", "notif">>

ServerOrder == <<"req", "resp", "notif">>

\* A manager has the request and marks an entry active.
ServerTake ==
  /\ server.pc = "away" /\ main.pc \notin {"make", "register"}
  /\ server' = [server EXCEPT !.pc = "open", !.cmd = "CONNECT", !.active = TRUE]
  /\ UNCHANGED <<serverFrame, ends, sweep, fifoVars>>

ServerOpen ==
  /\ server.pc = "open" /\ names
  /\ server' = [server EXCEPT !.pc = "opening"]
  /\ opened' = [opened EXCEPT ![ServerOrder[server.at]] = @ \cup {"server"}]
  /\ UNCHANGED <<serverFrame, ends, sweep, request, response, unread>>

\* After the last open comes the response to CONNECT.
ServerOpened ==
  LET f == ServerOrder[server.at] IN
  /\ server.pc = "opening" /\ "client" \in opened[f]
  /\ ends' = [ends EXCEPT ![f] = TRUE]
  /\ server' = [server EXCEPT !.pc = IF server.at < 3 THEN "open" ELSE "respond",
                              !.at = server.at + 1]
  /\ UNCHANGED <<serverFrame, sweep, fifoVars>>

ResponseReader == fd["resp"] \/ main.pc = "reading"

\* A response, once there is room for it.
ServerRespond ==
  /\ server.pc = "respond" /\ ends["resp"] /\ ResponseReader
  /\ Len(response) < ResponseRoom
  /\ response' = Append(response, server.cmd)
  /\ server' = [server EXCEPT !.pc = "loop"]
  /\ UNCHANGED <<serverFrame, ends, sweep, opened, request, unread>>

\* The sweep has closed the descriptor: write fails.
ServerRespondFails ==
  /\ server.pc = "respond" /\ ~ ends["resp"]
  /\ server' = [server EXCEPT !.pc = "over", !.active = FALSE]
  /\ UNCHANGED <<serverFrame, ends, sweep, fifoVars>>

\* Nobody has the response FIFO open to read: SIGPIPE ends the server.
ServerRespondDies ==
  /\ server.pc = "respond" /\ ends["resp"] /\ ~ ResponseReader
  /\ server' = [server EXCEPT !.pc = "dead"]
  /\ UNCHANGED <<serverFrame, ends, sweep, fifoVars>>

\* The loop ends without the FIFOs being closed.
ServerLoop ==
  /\ server.pc = "loop"
  /\ server' = IF server.active /\ ends["req"] THEN [server EXCEPT !.pc = "reading"]
                                               ELSE [server EXCEPT !.pc = "over", !.active = FALSE]
  /\ UNCHANGED <<serverFrame, ends, sweep, fifoVars>>

\* local_buffer, server.cmd, has request c: as DISCONNECT it ends the session.
Handle(c) ==
  server' = [server EXCEPT !.pc = "respond", !.cmd = c,
                           !.active = server.active /\ c # "DISCONNECT"]

ServerRead ==
  /\ server.pc = "reading" /\ request # None
  /\ Handle(request)
  /\ request' = None
  /\ UNCHANGED <<serverFrame, ends, sweep, opened, response, unread>>

\* The client has closed the request FIFO: read returns 0, and the manager handles what
\* is in local_buffer once more, or, when it has read nothing yet, anything.
ServerReadEnd ==
  /\ server.pc = "reading" /\ request = None /\ ~ fd["req"]
  /\ \E c \in Commands : server.cmd \in {"CONNECT", c} /\ Handle(c)
  /\ UNCHANGED <<serverFrame, ends, sweep, fifoVars>>

\* A job thread writes a notification, if there is room for it and a reader.
ServerNotify ==
  /\ ends["notif"] /\ server.pc # "dead" /\ ClientReads
  /\ unread < Capacity /\ written < MaxNotifications
  /\ unread' = unread + 1
  /\ written' = written + 1
  /\ UNCHANGED <<clientVars, server, ends, sweep, opened, request, response>>

\* The host's sweep of the entry: the descriptors it has, one after the other.
SweepStart ==
  /\ sweep = 0 /\ server.active /\ server.pc # "dead"
  /\ sweep' = 1
  /\ UNCHANGED <<serverFrame, server, ends, fifoVars>>

SweepClose ==
  /\ sweep \in DOMAIN ServerOrder /\ server.pc # "dead"
  /\ ends' = [ends EXCEPT ![ServerOrder[sweep]] = FALSE]
  /\ sweep' = sweep + 1
  /\ UNCHANGED <<serverFrame, server, fifoVars>>

SweepReset ==
  /\ sweep = 4 /\ server.pc # "dead"
  /\ server' = [server EXCEPT !.active = FALSE]
  /\ sweep' = 5
  /\ UNCHANGED <<serverFrame, ends, fifoVars>>

\* The server process ends, which closes its descriptors.
ServerDies ==
  /\ server.pc \notin {"away", "dead"}
  /\ server' = [server EXCEPT !.pc = "dead"]
  /\ UNCHANGED <<serverFrame, ends, sweep, fifoVars>>

ServerExits(f) ==
  /\ server.pc = "dead" /\ ends[f]
  /\ ends' = [ends EXCEPT ![f] = FALSE]
  /\ UNCHANGED <<serverFrame, server, sweep, fifoVars>>

Server ==
  \/ ServerOpen \/ ServerOpened
  \/ ServerRespond \/ ServerRespondFails \/ ServerRespondDies
  \/ ServerLoop \/ ServerRead \/ ServerReadEnd
Closing == SweepClose \/ SweepReset \/ \E f \in Fifos : ServerExits(f)

-----------------------------------------------------------------------------
\* What happens after the client has ended does not concern it.
Next ==
  /\ Running
  /\ Main \/ Notif \/ Server \/ Closing
       \/ ServerTake \/ ServerNotify \/ SweepStart \/ ServerDies

\* Both threads run, and so do the manager once it has the request, a sweep once
\* begun and the end of a process.  Nothing need ever be signalled, die, or notify,
\* and nobody need ever type.
Fairness ==
  WF_vars(Running /\ MainGoes) /\ WF_vars(Running /\ Notif)
            /\ WF_vars(Running /\ Server) /\ WF_vars(Running /\ Closing)

Spec == Init /\ [][Next]_vars /\ Fairness

-----------------------------------------------------------------------------
(* What holds.                                                             *)

\* A result is reported for the command it answers: while main waits, the first of the
\* responses in the FIFO is its own, whatever the manager repeats at an end of file
\* (api.c:106, 149, 178).
AnswersItsCommand ==
  main.pc \in {"receive", "reading"} /\ response # <<>> => Head(response) = main.cmd

\* No call of the API meets a descriptor that was closed under it without the loop
\* being told: after such a failure it ends (client/main.c:22-26, 77).
ErrorsExplained == [][MainSendFails \/ MainReceiveFails => interrompido]_vars

\* A client that ends because its notification FIFO has ended has printed every
\* notification that was written to it, whatever its other thread was doing.
NothingUnprinted == exit = "1" /\ interrompido => printed = written

Connecting ==
  \/ main.pc \in {"open", "opening"}
  \/ main.pc \in {"receive", "reading"} /\ main.cmd = "CONNECT"

\* Client and server open the FIFOs in the same order: a client whose request a
\* manager has taken gets connected, whatever the sweep closes meanwhile, unless the
\* server dies (api.c:62-82, server/main.c:255-269).
ConnectCompletes ==
  server.pc = "open" ~> ~ Running \/ ~ Connecting \/ server.pc = "dead"

\* Every descriptor of the session is closed at the server, whose manager may still be
\* in a read of the request FIFO, as the manager of an idle client is.
Closed ==
  /\ server.pc \notin {"open", "opening"}
  /\ \A f \in Fifos : opened[f] = {"client", "server"} /\ ~ ends[f]

\* Once the server's descriptors are closed the client ends, whatever its threads are in
\* the middle of, unless its input stays silent for ever (client/main.c:77, 80).
ClientEnds == []<>(main.pc # "command") => (Closed ~> ~ Running)

\* What enunciado.md:245 says of a client whose FIFOs a sweep has closed, while the server
\* lives on: it ends, of itself.  The code looks at interrompido only when a line of
\* input has been read (client/main.c:77, 80).
EndsWithSession == [](server.pc # "dead") => (Closed ~> ~ Running)

\* A notification FIFO that is full gets read: the job thread that waits to write to
\* it is not kept waiting for ever, not even by a command under way.
NotificationsRead == unread = Capacity ~> ~ Running \/ unread < Capacity
=============================================================================
