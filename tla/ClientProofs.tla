---------------------------- MODULE ClientProofs ----------------------------
(***************************************************************************)
(* The safety properties of Client, for any bounds and any capacity of the *)
(* notification FIFO.  What a client waits for is followed on its way, as  *)
(* a request, as the command its manager handles, and as the response.     *)
(***************************************************************************)
EXTENDS Client, TLAPS

Starting == {"make", "register", "open", "opening"}
Expecting == {"open", "opening", "receive", "reading"}

\* The client reads no response any more.
Lost ==
  \/ main.pc = "ended"
  \/ interrompido /\ (main.pc = "loop" \/ (main.pc \in {"command", "send"} /\ ~ fd["req"]))

\* The client closes its FIFOs because it has disconnected.
Leaving == main.pc \in {"close", "cancel", "join"} \/ exit = "0"

\* Places and commands that go with a step.
StepsInv ==
  /\ Running => main.pc # "ended"
  /\ main.pc \in {"close", "cancel", "join"} => Running
  /\ main.pc \in {"make", "register"} => main.at = 1
  /\ main.pc \in {"open", "opening"} => main.at <= 3
  /\ server.pc \in {"open", "opening"} => server.at <= 3
  /\ main.pc \in {"send", "receive", "reading"} => main.cmd \in Commands
  /\ main.pc \in Starting \cup {"create"} => main.cmd = "CONNECT"
  /\ server.pc \in {"open", "opening"} => server.cmd = "CONNECT"
  /\ server.pc = "respond" => server.cmd \in Commands

\* How far the two sides are with their opens.
OpensInv ==
  /\ server.pc # "away" => main.pc \notin {"make", "register"}
  /\ server.pc = "away" => server.at = 1 /\ ~ ends["resp"] /\ ~ ends["notif"]
  /\ server.pc = "opening" => "server" \in opened[Order[server.at]]
  /\ server.pc \in {"loop", "reading", "respond"} => "server" \in opened["notif"]
  /\ "server" \in opened["notif"] =>
       /\ server.pc # "away" /\ server.at >= 3
       /\ server.pc = "open" => server.at # 3
  /\ "client" \in opened["notif"] =>
       main.pc \notin {"make", "register", "open"} /\ (main.pc = "opening" => main.at = 3)
  /\ server.pc \in {"loop", "reading", "respond"} => "client" \in opened["notif"]
  /\ "server" \notin opened["notif"] =>
       /\ main.pc \in Starting \cup {"ended"}
       /\ request = None /\ response = <<>> /\ unread = 0 /\ ~ ends["notif"]

\* The manager handles the command the client waits for ...
Handles ==
  /\ response = <<>> /\ request = None
  /\ Lost \/ (server.cmd = main.cmd /\ main.pc \in Expecting)

\* ... or, at an end of the file, once more what it has answered.
Repeats ==
  /\ server.pc = "respond" /\ request = None
  /\ interrompido /\ ~ fd["req"]
  /\ Lost \/ (response # <<>> /\ main.cmd \in Asking)

\* The manager reads no more requests.
Ends == server.pc \in {"over", "dead"} \/ (server.pc = "loop" /\ ~ server.active)

\* Where the answer to a command is, as long as the server can give one: what the
\* client waits for is on its way as a request, as the manager's command or as the
\* first response, and what follows that response is read by nobody.
AnswerInv ==
  /\ response # <<>> =>
       \/ Lost
       \/ /\ main.pc \in Expecting /\ Head(response) = main.cmd
          /\ Len(response) = 1 \/ (interrompido /\ ~ fd["req"] /\ main.cmd \in Asking)
  /\ ends["resp"] /\ server.pc \in {"open", "opening", "respond"} => Handles \/ Repeats
  /\ ends["resp"] /\ request # None =>
       /\ response = <<>>
       /\ Lost \/ (request = main.cmd /\ main.pc \in {"receive", "reading"})
  /\ ends["resp"] /\ server.pc \in {"loop", "reading"} /\ main.pc \in Expecting =>
       request # None \/ response # <<>>

\* A manager that has handled a DISCONNECT reads no more.
DisconnectInv ==
  /\ server.pc = "respond" /\ server.cmd = "DISCONNECT" => ~ server.active
  /\ ends["resp"] /\ main.cmd = "DISCONNECT" /\ main.pc \in {"receive", "reading"}
       /\ response # <<>> => Ends
  /\ ends["resp"] /\ main.pc \in {"close", "cancel", "join"} => Ends

\* Who has closed the descriptors of the client.
DescriptorInv ==
  /\ main.pc \in {"open", "opening"} =>
       (main.at > 1 => fd["req"]) /\ (main.at > 2 => fd["resp"])
  /\ main.pc \in {"receive", "reading", "create", "loop", "command", "send"} =>
       interrompido \/ (fd["req"] /\ fd["resp"] /\ fd["notif"])
  /\ notif.pc = "close" => interrompido
  /\ interrompido => notif.pc \in {"close", "done"}
  /\ notif.pc # "none" => main.cmd # "CONNECT"
  /\ notif.pc \in {"read", "reading", "print"} => fd["notif"] \/ Leaving \/ ~ Running

InHand == IF notif.pc = "print" THEN 1 ELSE 0

\* Where the notifications are: in the FIFO, in the thread's hand, or printed.
NotifiedInv ==
  /\ printed + unread + InHand <= written
  /\ printed + unread + InHand = written \/ (notif.pc = "done" /\ Leaving)
  /\ notif.pc \in {"stop", "close"} \/ interrompido =>
       Leaving \/ (unread = 0 /\ ~ ServerHas("notif"))

\* The inductive invariant.
ClientInv ==
  /\ TypeOK /\ StepsInv /\ OpensInv /\ AnswerInv /\ DisconnectInv
  /\ DescriptorInv /\ NotifiedInv

\* The records of the two threads and of the manager.
MainStates == [pc : {"make", "register", "open", "opening", "create", "loop", "command", "send",
                     "receive", "reading", "close", "cancel", "join", "ended"},
               cmd : Commands \cup {None}, at : 1 .. 4]
NotifStates == [pc : {"none", "read", "reading", "print", "stop", "close", "done"}, at : 1 .. 4]
ServerStates == [pc : {"away", "open", "opening", "loop", "reading", "respond", "over", "dead"},
                 at : 1 .. 4, cmd : Commands \cup {None}, active : BOOLEAN]

\* Every step of the command loop keeps the invariant.
LEMMA MainKeeps ==
  ASSUME ClientInv, Running, Main
  PROVE  ClientInv'
<1> USE ClientAssumption
    DEF MainStep, BackToLoop, Exit, mainFrame, mainVars, clientVars, serverVars, fifoVars,
        serverFrame, notifFrame, NotifStep, MainFails, Send, Running, Starting, Expecting,
        Lost, Leaving, InHand, ServerHas, ClientReads, Order, ServerOrder, Fifos,
        Commands, Asking
<1>n. None \notin Commands OBVIOUS
<1>t. /\ ClientInv /\ main \in MainStates /\ notif \in NotifStates /\ server \in ServerStates
  BY DEF ClientInv, TypeOK, MainStates, NotifStates, ServerStates
<1>0. CASE MainMake
  <2>t. main' \in MainStates BY <1>0, <1>n, <1>t DEF MainMake, MainStates, ClientInv, StepsInv
  <2>0. TypeOK' BY <1>0, <1>t, <2>t DEF MainMake, ClientInv, TypeOK, MainStates
  <2>1. StepsInv' BY <1>0, <1>n, <1>t DEF MainMake, ClientInv, TypeOK, StepsInv
  <2>2. OpensInv' BY <1>0, <1>n, <1>t DEF MainMake, ClientInv, TypeOK, StepsInv, OpensInv
  <2>3. AnswerInv'
    BY <1>0, <1>n, <1>t
       DEF MainMake, ClientInv, TypeOK, StepsInv, OpensInv, DescriptorInv, AnswerInv, Handles,
           Repeats
  <2>4. DisconnectInv'
    BY <1>0, <1>n, <1>t
       DEF MainMake, ClientInv, TypeOK, StepsInv, OpensInv, AnswerInv, DisconnectInv, Ends
  <2>5. DescriptorInv'
    BY <1>0, <1>n, <1>t DEF MainMake, ClientInv, TypeOK, StepsInv, OpensInv, DescriptorInv
  <2>6. NotifiedInv'
    BY <1>0, <1>n, <1>t
       DEF MainMake, ClientInv, TypeOK, StepsInv, OpensInv, DescriptorInv, NotifiedInv
  <2> QED BY <2>0, <2>1, <2>2, <2>3, <2>4, <2>5, <2>6 DEF ClientInv
<1>1. CASE MainRegister
  <2>t. main' \in MainStates
    BY <1>1, <1>n, <1>t DEF MainRegister, MainStates, ClientInv, StepsInv
  <2>0. TypeOK'
    BY <1>1, <1>n, <1>t, <2>t DEF MainRegister, ClientInv, StepsInv, TypeOK, MainStates
  <2>1. StepsInv' BY <1>1, <1>n, <1>t DEF MainRegister, ClientInv, TypeOK, StepsInv
  <2>2. OpensInv' BY <1>1, <1>n, <1>t DEF MainRegister, ClientInv, TypeOK, StepsInv, OpensInv
  <2>3. AnswerInv'
    BY <1>1, <1>n, <1>t
       DEF MainRegister, ClientInv, TypeOK, StepsInv, OpensInv, DescriptorInv, AnswerInv,
           Handles, Repeats
  <2>4. DisconnectInv'
    BY <1>1, <1>n, <1>t
       DEF MainRegister, ClientInv, TypeOK, StepsInv, OpensInv, AnswerInv, DisconnectInv, Ends
  <2>5. DescriptorInv'
    BY <1>1, <1>n, <1>t DEF MainRegister, ClientInv, TypeOK, StepsInv, OpensInv, DescriptorInv
  <2>6. NotifiedInv'
    BY <1>1, <1>n, <1>t
       DEF MainRegister, ClientInv, TypeOK, StepsInv, OpensInv, DescriptorInv, NotifiedInv
  <2> QED BY <2>0, <2>1, <2>2, <2>3, <2>4, <2>5, <2>6 DEF ClientInv
<1>2. CASE MainConnectFails
  <2>0. TypeOK'
    BY <1>2, <1>n, <1>t, SMTT(40)
       DEF MainConnectFails, ClientInv, StepsInv, TypeOK, MainStates, NotifStates, ServerStates
  <2>1. StepsInv' BY <1>2, <1>n, <1>t DEF MainConnectFails, ClientInv, TypeOK, StepsInv
  <2>2. OpensInv'
    BY <1>2, <1>n, <1>t DEF MainConnectFails, ClientInv, TypeOK, StepsInv, OpensInv
  <2>3. AnswerInv'
    BY <1>2, <1>n, <1>t
       DEF MainConnectFails, ClientInv, TypeOK, StepsInv, OpensInv, DescriptorInv, AnswerInv,
           Handles, Repeats
  <2>4. DisconnectInv'
    BY <1>2, <1>n, <1>t
       DEF MainConnectFails, ClientInv, TypeOK, StepsInv, OpensInv, AnswerInv, DisconnectInv,
           Ends
  <2>5. DescriptorInv'
    BY <1>2, <1>n, <1>t
       DEF MainConnectFails, ClientInv, TypeOK, StepsInv, OpensInv, DescriptorInv
  <2>6. NotifiedInv'
    BY <1>2, <1>n, <1>t
       DEF MainConnectFails, ClientInv, TypeOK, StepsInv, OpensInv, DescriptorInv, NotifiedInv
  <2> QED BY <2>0, <2>1, <2>2, <2>3, <2>4, <2>5, <2>6 DEF ClientInv
<1>3. CASE MainOpen
  <2>t. main' \in MainStates BY <1>3, <1>n, <1>t DEF MainOpen, MainStates, ClientInv, StepsInv
  <2>o. opened' \in [Fifos -> SUBSET {"client", "server"}]
    <3> DEFINE g == Order[main.at]
    <3>1. main.at \in 1 .. 3 BY <1>3, <1>t DEF MainOpen, ClientInv, StepsInv, MainStates
    <3>2. g \in Fifos BY <3>1
    <3>3. opened' = [opened EXCEPT ![g] = @ \cup {"client"}] BY <1>3 DEF MainOpen
    <3>4. opened \in [Fifos -> SUBSET {"client", "server"}] BY <1>t DEF ClientInv, TypeOK
    <3> HIDE DEF Fifos, g
    <3> QED BY <3>2, <3>3, <3>4
  <2>h. UNCHANGED <<mainFrame, exit, fd, names, commands, request, response, unread>>
    BY <1>3 DEF MainOpen
  <2>0. TypeOK' BY <1>t, <2>h, <2>o, <2>t DEF ClientInv, TypeOK, MainStates
  <2>1. StepsInv' BY <1>3, <1>n, <1>t DEF MainOpen, ClientInv, TypeOK, StepsInv
  <2>2. OpensInv' BY <1>3, <1>n, <1>t, SMTT(40) DEF MainOpen, ClientInv, TypeOK, StepsInv, OpensInv
  <2>3. AnswerInv'
    BY <1>3, <1>n, <1>t
       DEF MainOpen, ClientInv, TypeOK, StepsInv, OpensInv, DescriptorInv, AnswerInv, Handles,
           Repeats
  <2>4. DisconnectInv'
    BY <1>3, <1>n, <1>t
       DEF MainOpen, ClientInv, TypeOK, StepsInv, OpensInv, AnswerInv, DisconnectInv, Ends
  <2>5. DescriptorInv'
    BY <1>3, <1>n, <1>t DEF MainOpen, ClientInv, TypeOK, StepsInv, OpensInv, DescriptorInv
  <2>6. NotifiedInv'
    BY <1>3, <1>n, <1>t
       DEF MainOpen, ClientInv, TypeOK, StepsInv, OpensInv, DescriptorInv, NotifiedInv
  <2> QED BY <2>0, <2>1, <2>2, <2>3, <2>4, <2>5, <2>6 DEF ClientInv
<1>4. CASE MainOpened
  <2>s. main.at \in 1 .. 3 /\ (main.at < 3 => main.at + 1 \in 1 .. 4)
    BY <1>4, <1>t DEF MainOpened, ClientInv, StepsInv, MainStates
  <2>t. main' \in MainStates
    <3>1. CASE main.at < 3
      <4>1. main' = [main EXCEPT !.pc = "open", !.at = main.at + 1] BY <1>4, <3>1 DEF MainOpened
      <4> QED BY <1>t, <2>s, <3>1, <4>1 DEF MainStates
    <3>2. CASE ~ main.at < 3
      <4>1. main' = [main EXCEPT !.pc = "receive", !.at = 1] BY <1>4, <3>2 DEF MainOpened
      <4>2. 1 \in 1 .. 4 OBVIOUS
      <4> QED BY <1>t, <4>1, <4>2 DEF MainStates
    <3> QED BY <3>1, <3>2
  <2>0. TypeOK'
    BY <1>4, <1>n, <1>t, <2>t DEF MainOpened, ClientInv, StepsInv, TypeOK, MainStates
  <2>1. StepsInv' BY <1>4, <1>n, <1>t DEF MainOpened, ClientInv, TypeOK, StepsInv
  <2>2. OpensInv' BY <1>4, <1>n, <1>t DEF MainOpened, ClientInv, TypeOK, StepsInv, OpensInv
  <2>3. AnswerInv'
    BY <1>4, <1>n, <1>t
       DEF MainOpened, ClientInv, TypeOK, StepsInv, OpensInv, DescriptorInv, AnswerInv,
           Handles, Repeats
  <2>4. DisconnectInv'
    BY <1>4, <1>n, <1>t
       DEF MainOpened, ClientInv, TypeOK, StepsInv, OpensInv, AnswerInv, DisconnectInv, Ends
  <2>5. DescriptorInv'
    BY <1>4, <1>n, <1>t DEF MainOpened, ClientInv, TypeOK, StepsInv, OpensInv, DescriptorInv
  <2>6. NotifiedInv'
    BY <1>4, <1>n, <1>t
       DEF MainOpened, ClientInv, TypeOK, StepsInv, OpensInv, DescriptorInv, NotifiedInv
  <2> QED BY <2>0, <2>1, <2>2, <2>3, <2>4, <2>5, <2>6 DEF ClientInv
<1>5. CASE MainCreate
  <2>t. main' \in MainStates /\ notif' \in NotifStates
    BY <1>5, <1>n, <1>t DEF MainCreate, MainStates, NotifStates
  <2>0. TypeOK' BY <1>5, <1>t, <2>t DEF MainCreate, ClientInv, TypeOK, MainStates, NotifStates
  <2>1. StepsInv' BY <1>5, <1>n, <1>t DEF MainCreate, ClientInv, TypeOK, StepsInv
  <2>2. OpensInv' BY <1>5, <1>n, <1>t DEF MainCreate, ClientInv, TypeOK, StepsInv, OpensInv
  <2>3. AnswerInv'
    BY <1>5, <1>n, <1>t
       DEF MainCreate, ClientInv, TypeOK, StepsInv, OpensInv, DescriptorInv, AnswerInv,
           Handles, Repeats
  <2>4. DisconnectInv'
    BY <1>5, <1>n, <1>t
       DEF MainCreate, ClientInv, TypeOK, StepsInv, OpensInv, AnswerInv, DisconnectInv, Ends
  <2>5. DescriptorInv'
    BY <1>5, <1>n, <1>t DEF MainCreate, ClientInv, TypeOK, StepsInv, OpensInv, DescriptorInv
  <2>6. NotifiedInv'
    BY <1>5, <1>n, <1>t
       DEF MainCreate, ClientInv, TypeOK, StepsInv, OpensInv, DescriptorInv, NotifiedInv
  <2> QED BY <2>0, <2>1, <2>2, <2>3, <2>4, <2>5, <2>6 DEF ClientInv
<1>6. CASE MainCreateFails
  <2>t. main' \in MainStates
    BY <1>6, <1>n, <1>t DEF MainCreateFails, MainStates, ClientInv, StepsInv
  <2>0. TypeOK' BY <1>6, <1>t, <2>t DEF MainCreateFails, ClientInv, TypeOK, MainStates
  <2>1. StepsInv' BY <1>6, <1>n, <1>t DEF MainCreateFails, ClientInv, TypeOK, StepsInv
  <2>2. OpensInv' BY <1>6, <1>n, <1>t DEF MainCreateFails, ClientInv, TypeOK, StepsInv, OpensInv
  <2>3. AnswerInv'
    BY <1>6, <1>n, <1>t
       DEF MainCreateFails, ClientInv, TypeOK, StepsInv, OpensInv, DescriptorInv, AnswerInv,
           Handles, Repeats
  <2>4. DisconnectInv'
    BY <1>6, <1>n, <1>t
       DEF MainCreateFails, ClientInv, TypeOK, StepsInv, OpensInv, AnswerInv, DisconnectInv,
           Ends
  <2>5. DescriptorInv'
    BY <1>6, <1>n, <1>t
       DEF MainCreateFails, ClientInv, TypeOK, StepsInv, OpensInv, DescriptorInv
  <2>6. NotifiedInv'
    BY <1>6, <1>n, <1>t
       DEF MainCreateFails, ClientInv, TypeOK, StepsInv, OpensInv, DescriptorInv, NotifiedInv
  <2> QED BY <2>0, <2>1, <2>2, <2>3, <2>4, <2>5, <2>6 DEF ClientInv
<1>7. CASE MainTest
  <2>0. TypeOK'
    BY <1>7, <1>n, <1>t
       DEF MainTest, ClientInv, StepsInv, TypeOK, MainStates, NotifStates, ServerStates
  <2>1. StepsInv' BY <1>7, <1>n, <1>t DEF MainTest, ClientInv, TypeOK, StepsInv
  <2>2. OpensInv' BY <1>7, <1>n, <1>t DEF MainTest, ClientInv, TypeOK, StepsInv, OpensInv
  <2>3. AnswerInv'
    BY <1>7, <1>n, <1>t
       DEF MainTest, ClientInv, TypeOK, StepsInv, OpensInv, DescriptorInv, AnswerInv, Handles,
           Repeats
  <2>4. DisconnectInv'
    BY <1>7, <1>n, <1>t
       DEF MainTest, ClientInv, TypeOK, StepsInv, OpensInv, AnswerInv, DisconnectInv, Ends
  <2>5. DescriptorInv'
    BY <1>7, <1>n, <1>t DEF MainTest, ClientInv, TypeOK, StepsInv, OpensInv, DescriptorInv
  <2>6. NotifiedInv'
    BY <1>7, <1>n, <1>t
       DEF MainTest, ClientInv, TypeOK, StepsInv, OpensInv, DescriptorInv, NotifiedInv
  <2> QED BY <2>0, <2>1, <2>2, <2>3, <2>4, <2>5, <2>6 DEF ClientInv
<1>8. CASE MainOther
  <2>t. main' \in MainStates BY <1>8, <1>n, <1>t DEF MainOther, MainStates, ClientInv, StepsInv
  <2>0. TypeOK' BY <1>8, <1>n, <1>t, <2>t DEF MainOther, ClientInv, StepsInv, TypeOK, MainStates
  <2>1. StepsInv' BY <1>8, <1>n, <1>t DEF MainOther, ClientInv, TypeOK, StepsInv
  <2>2. OpensInv' BY <1>8, <1>n, <1>t DEF MainOther, ClientInv, TypeOK, StepsInv, OpensInv
  <2>3. AnswerInv'
    BY <1>8, <1>n, <1>t
       DEF MainOther, ClientInv, TypeOK, StepsInv, OpensInv, DescriptorInv, AnswerInv,
           Handles, Repeats
  <2>4. DisconnectInv'
    BY <1>8, <1>n, <1>t
       DEF MainOther, ClientInv, TypeOK, StepsInv, OpensInv, AnswerInv, DisconnectInv, Ends
  <2>5. DescriptorInv'
    BY <1>8, <1>n, <1>t DEF MainOther, ClientInv, TypeOK, StepsInv, OpensInv, DescriptorInv
  <2>6. NotifiedInv'
    BY <1>8, <1>n, <1>t
       DEF MainOther, ClientInv, TypeOK, StepsInv, OpensInv, DescriptorInv, NotifiedInv
  <2> QED BY <2>0, <2>1, <2>2, <2>3, <2>4, <2>5, <2>6 DEF ClientInv
<1>9. ASSUME NEW c \in Commands \ {"CONNECT"}, MainCommand(c) PROVE ClientInv'
  <2>t. main' \in MainStates
    BY <1>9, <1>n, <1>t DEF MainCommand, MainStates, ClientInv, StepsInv
  <2>0. TypeOK'
    BY <1>9, <1>n, <1>t, <2>t DEF MainCommand, ClientInv, StepsInv, TypeOK, MainStates
  <2>1. StepsInv' BY <1>9, <1>n, <1>t DEF MainCommand, ClientInv, TypeOK, StepsInv
  <2>2. OpensInv' BY <1>9, <1>n, <1>t DEF MainCommand, ClientInv, TypeOK, StepsInv, OpensInv
  <2>3. AnswerInv'
    BY <1>9, <1>n, <1>t
       DEF MainCommand, ClientInv, TypeOK, StepsInv, OpensInv, DescriptorInv, AnswerInv,
           Handles, Repeats
  <2>4. DisconnectInv'
    BY <1>9, <1>n, <1>t
       DEF MainCommand, ClientInv, TypeOK, StepsInv, OpensInv, AnswerInv, DisconnectInv, Ends
  <2>5. DescriptorInv'
    BY <1>9, <1>n, <1>t DEF MainCommand, ClientInv, TypeOK, StepsInv, OpensInv, DescriptorInv
  <2>6. NotifiedInv'
    BY <1>9, <1>n, <1>t
       DEF MainCommand, ClientInv, TypeOK, StepsInv, OpensInv, DescriptorInv, NotifiedInv
  <2> QED BY <2>0, <2>1, <2>2, <2>3, <2>4, <2>5, <2>6 DEF ClientInv
<1>10. CASE MainSend
  <2>t. main' \in MainStates BY <1>10, <1>n, <1>t DEF MainSend, MainStates, ClientInv, StepsInv
  <2>0. TypeOK' BY <1>10, <1>n, <1>t, <2>t DEF MainSend, ClientInv, StepsInv, TypeOK, MainStates
  <2>1. StepsInv' BY <1>10, <1>n, <1>t DEF MainSend, ClientInv, TypeOK, StepsInv
  <2>2. OpensInv' BY <1>10, <1>n, <1>t DEF MainSend, ClientInv, TypeOK, StepsInv, OpensInv
  <2>3. AnswerInv'
    BY <1>10, <1>n, <1>t
       DEF MainSend, ClientInv, TypeOK, StepsInv, OpensInv, DescriptorInv, AnswerInv, Handles,
           Repeats
  <2>4. DisconnectInv'
    BY <1>10, <1>n, <1>t
       DEF MainSend, ClientInv, TypeOK, StepsInv, OpensInv, AnswerInv, DisconnectInv, Ends
  <2>5. DescriptorInv'
    BY <1>10, <1>n, <1>t DEF MainSend, ClientInv, TypeOK, StepsInv, OpensInv, DescriptorInv
  <2>6. NotifiedInv'
    BY <1>10, <1>n, <1>t
       DEF MainSend, ClientInv, TypeOK, StepsInv, OpensInv, DescriptorInv, NotifiedInv
  <2> QED BY <2>0, <2>1, <2>2, <2>3, <2>4, <2>5, <2>6 DEF ClientInv
<1>11. CASE MainSendFails
  <2>c. /\ main'.at = main.at
        /\ \/ main'.pc = "ended" /\ main'.cmd = main.cmd /\ exit' = "1"
           \/ main'.pc = "loop" /\ main'.cmd = None /\ exit' = exit
    BY <1>11, <1>t DEF MainSendFails, MainStates
  <2>t. main' \in MainStates
    BY <1>11, <1>n, <1>t, ZenonT(60) DEF MainSendFails, Received, MainStates, ClientInv, StepsInv
  <2>0. TypeOK'
    BY <1>11, <1>n, <1>t, <2>c, <2>t DEF MainSendFails, ClientInv, StepsInv, TypeOK, MainStates
  <2>1. StepsInv' BY <1>11, <1>n, <1>t, <2>c DEF MainSendFails, ClientInv, TypeOK, StepsInv
  <2>2. OpensInv'
    BY <1>11, <1>n, <1>t, <2>c DEF MainSendFails, ClientInv, TypeOK, StepsInv, OpensInv
  <2>3. AnswerInv'
    BY <1>11, <1>n, <1>t, <2>c
       DEF MainSendFails, ClientInv, TypeOK, StepsInv, OpensInv, DescriptorInv, AnswerInv,
           Handles, Repeats
  <2>4. DisconnectInv'
    BY <1>11, <1>n, <1>t, <2>c
       DEF MainSendFails, ClientInv, TypeOK, StepsInv, OpensInv, AnswerInv, DisconnectInv, Ends
  <2>5. DescriptorInv'
    BY <1>11, <1>n, <1>t, <2>c
       DEF MainSendFails, ClientInv, TypeOK, StepsInv, OpensInv, DescriptorInv
  <2>6. NotifiedInv'
    BY <1>11, <1>n, <1>t, <2>c
       DEF MainSendFails, ClientInv, TypeOK, StepsInv, OpensInv, DescriptorInv, NotifiedInv
  <2> QED BY <2>0, <2>1, <2>2, <2>3, <2>4, <2>5, <2>6 DEF ClientInv
<1>12. CASE MainSendDies
  <2>t. main' \in MainStates
    BY <1>12, <1>n, <1>t DEF MainSendDies, MainStates, ClientInv, StepsInv
  <2>0. TypeOK'
    BY <1>12, <1>n, <1>t, <2>t DEF MainSendDies, ClientInv, StepsInv, TypeOK, MainStates
  <2>1. StepsInv' BY <1>12, <1>n, <1>t DEF MainSendDies, ClientInv, TypeOK, StepsInv
  <2>2. OpensInv' BY <1>12, <1>n, <1>t DEF MainSendDies, ClientInv, TypeOK, StepsInv, OpensInv
  <2>3. AnswerInv'
    BY <1>12, <1>n, <1>t
       DEF MainSendDies, ClientInv, TypeOK, StepsInv, OpensInv, DescriptorInv, AnswerInv,
           Handles, Repeats
  <2>4. DisconnectInv'
    BY <1>12, <1>n, <1>t
       DEF MainSendDies, ClientInv, TypeOK, StepsInv, OpensInv, AnswerInv, DisconnectInv, Ends
  <2>5. DescriptorInv'
    BY <1>12, <1>n, <1>t DEF MainSendDies, ClientInv, TypeOK, StepsInv, OpensInv, DescriptorInv
  <2>6. NotifiedInv'
    BY <1>12, <1>n, <1>t
       DEF MainSendDies, ClientInv, TypeOK, StepsInv, OpensInv, DescriptorInv, NotifiedInv
  <2> QED BY <2>0, <2>1, <2>2, <2>3, <2>4, <2>5, <2>6 DEF ClientInv
<1>13. CASE MainReceive
  <2>0. TypeOK'
    BY <1>13, <1>n, <1>t, SMTT(40)
       DEF MainReceive, ClientInv, StepsInv, TypeOK, MainStates, NotifStates, ServerStates
  <2>1. StepsInv' BY <1>13, <1>n, <1>t DEF MainReceive, ClientInv, TypeOK, StepsInv
  <2>2. OpensInv' BY <1>13, <1>n, <1>t DEF MainReceive, ClientInv, TypeOK, StepsInv, OpensInv
  <2>3. AnswerInv'
    BY <1>13, <1>n, <1>t
       DEF MainReceive, ClientInv, TypeOK, StepsInv, OpensInv, DescriptorInv, AnswerInv,
           Handles, Repeats
  <2>4. DisconnectInv'
    BY <1>13, <1>n, <1>t
       DEF MainReceive, ClientInv, TypeOK, StepsInv, OpensInv, AnswerInv, DisconnectInv, Ends
  <2>5. DescriptorInv'
    BY <1>13, <1>n, <1>t DEF MainReceive, ClientInv, TypeOK, StepsInv, OpensInv, DescriptorInv
  <2>6. NotifiedInv'
    BY <1>13, <1>n, <1>t
       DEF MainReceive, ClientInv, TypeOK, StepsInv, OpensInv, DescriptorInv, NotifiedInv
  <2> QED BY <2>0, <2>1, <2>2, <2>3, <2>4, <2>5, <2>6 DEF ClientInv
<1>14. CASE MainReceiveFails
  <2>c. /\ main'.at = main.at
        /\ \/ main'.pc = "ended" /\ main'.cmd = main.cmd /\ exit' = "1"
           \/ main'.pc = "loop" /\ main'.cmd = None /\ exit' = exit
    BY <1>14, <1>t DEF MainReceiveFails, MainStates
  <2>t. main' \in MainStates
    BY <1>14, <1>n, <1>t, ZenonT(60)
       DEF MainReceiveFails, Received, MainStates, ClientInv, StepsInv
  <2>0. TypeOK'
    BY <1>14, <1>n, <1>t, <2>c, <2>t
       DEF MainReceiveFails, ClientInv, StepsInv, TypeOK, MainStates
  <2>1. StepsInv' BY <1>14, <1>n, <1>t, <2>c DEF MainReceiveFails, ClientInv, TypeOK, StepsInv
  <2>2. OpensInv'
    BY <1>14, <1>n, <1>t, <2>c DEF MainReceiveFails, ClientInv, TypeOK, StepsInv, OpensInv
  <2>3. AnswerInv'
    BY <1>14, <1>n, <1>t, <2>c
       DEF MainReceiveFails, ClientInv, TypeOK, StepsInv, OpensInv, DescriptorInv, AnswerInv,
           Handles, Repeats
  <2>4. DisconnectInv'
    BY <1>14, <1>n, <1>t, <2>c
       DEF MainReceiveFails, ClientInv, TypeOK, StepsInv, OpensInv, AnswerInv, DisconnectInv,
           Ends
  <2>5. DescriptorInv'
    BY <1>14, <1>n, <1>t, <2>c
       DEF MainReceiveFails, ClientInv, TypeOK, StepsInv, OpensInv, DescriptorInv
  <2>6. NotifiedInv'
    BY <1>14, <1>n, <1>t, <2>c
       DEF MainReceiveFails, ClientInv, TypeOK, StepsInv, OpensInv, DescriptorInv, NotifiedInv
  <2> QED BY <2>0, <2>1, <2>2, <2>3, <2>4, <2>5, <2>6 DEF ClientInv
<1>15. CASE MainResult
  <2>c. /\ main.pc = "reading" /\ main'.at = main.at
        /\ \/ main'.pc = "create" /\ main'.cmd = "CONNECT" /\ main.cmd = "CONNECT" /\ exit' = exit
           \/ main'.pc = "close" /\ main'.cmd = main.cmd /\ main.cmd = "DISCONNECT" /\ exit' = exit
           \/ main'.pc = "loop" /\ main'.cmd = None /\ main.cmd \in Asking /\ exit' = exit
           \/ main'.pc = "ended" /\ main'.cmd = main.cmd /\ exit' = "1"
    BY <1>15, <1>t DEF MainResult, Received, MainStates
  <2>f. UNCHANGED <<mainFrame, fd, names, commands, opened, request, unread>>
    BY <1>15 DEF MainResult
  <2>e. /\ response # <<>> /\ response' \in Seq(Commands)
        /\ Len(response') = Len(response) - 1 /\ (Len(response) = 1 => response' = <<>>)
    <3> HIDE DEF Commands
    <3>1. response \in Seq(Commands) /\ response # <<>> /\ response' = Tail(response)
      BY <1>15, <1>t DEF MainResult, ClientInv, TypeOK
    <3> QED BY <3>1
  <2>g. \/ Len(response) = 1 /\ response' = <<>>
        \/ interrompido /\ ~ fd["req"] /\ main.cmd \in Asking
    BY <1>t, <2>c, <2>e DEF ClientInv, AnswerInv
  <2>t. main' \in MainStates
    BY <1>15, <1>n, <1>t DEF MainResult, Received, MainStates, ClientInv, StepsInv
  <2>0. TypeOK'
    BY <1>15, <1>n, <1>t, <2>c, <2>e, <2>t
       DEF MainResult, ClientInv, StepsInv, TypeOK, MainStates
  <2>1. StepsInv' BY <1>15, <1>n, <1>t, <2>c, <2>e DEF MainResult, ClientInv, TypeOK, StepsInv
  <2>2. OpensInv'
    BY <1>15, <1>n, <1>t, <2>c, <2>e DEF MainResult, ClientInv, TypeOK, StepsInv, OpensInv
  <2>3. AnswerInv'
    <3>1. \/ response' = <<>> /\ main'.pc \notin Expecting
          \/ interrompido /\ ~ fd["req"] /\ main'.pc \in {"loop", "ended"}
      BY <2>c, <2>g
    <3>2. response # <<>> BY <2>e
    <3> QED
      BY <1>t, <2>c, <2>f, <3>1, <3>2 DEF ClientInv, AnswerInv, Handles, Repeats
  <2>4. DisconnectInv'
    BY <1>t, <2>c, <2>e, <2>f DEF ClientInv, DisconnectInv, Ends
  <2>5. DescriptorInv'
    BY <1>15, <1>n, <1>t, <2>c, <2>e
       DEF MainResult, ClientInv, TypeOK, StepsInv, OpensInv, DescriptorInv
  <2>6. NotifiedInv'
    BY <1>15, <1>n, <1>t, <2>c, <2>e
       DEF MainResult, ClientInv, TypeOK, StepsInv, OpensInv, DescriptorInv, NotifiedInv
  <2> QED BY <2>0, <2>1, <2>2, <2>3, <2>4, <2>5, <2>6 DEF ClientInv
<1>16. CASE MainResultEnd
  <2>c. /\ main.pc = "reading" /\ main'.at = main.at
        /\ \/ main'.pc = "create" /\ main'.cmd = "CONNECT" /\ main.cmd = "CONNECT" /\ exit' = exit
           \/ main'.pc = "close" /\ main'.cmd = main.cmd /\ exit' = exit
           \/ main'.pc = "loop" /\ main'.cmd = None /\ exit' = exit
           \/ main'.pc = "ended" /\ main'.cmd = main.cmd /\ exit' = "1"
    BY <1>16, <1>t DEF MainResultEnd, Received, MainStates
  <2>t. main' \in MainStates
    <3>1. main \in MainStates BY <1>t DEF ClientInv, TypeOK
    <3>2. \/ \E p \in {"create", "close", "ended"} : main' = [main EXCEPT !.pc = p]
          \/ main' = [main EXCEPT !.pc = "loop", !.cmd = None]
      BY <1>16 DEF MainResultEnd, Received
    <3> QED BY <3>1, <3>2 DEF MainStates
  <2>0. TypeOK'
    BY <1>16, <1>n, <1>t, <2>c, <2>t DEF MainResultEnd, ClientInv, StepsInv, TypeOK, MainStates
  <2>1. StepsInv' BY <1>16, <1>n, <1>t, <2>c DEF MainResultEnd, ClientInv, TypeOK, StepsInv
  <2>2. OpensInv'
    BY <1>16, <1>n, <1>t, <2>c DEF MainResultEnd, ClientInv, TypeOK, StepsInv, OpensInv
  <2>3. AnswerInv'
    BY <1>16, <1>n, <1>t, <2>c
       DEF MainResultEnd, ClientInv, TypeOK, StepsInv, OpensInv, DescriptorInv, AnswerInv,
           Handles, Repeats
  <2>4. DisconnectInv'
    BY <1>16, <1>n, <1>t, <2>c
       DEF MainResultEnd, ClientInv, TypeOK, StepsInv, OpensInv, AnswerInv, DisconnectInv, Ends
  <2>5. DescriptorInv'
    BY <1>16, <1>n, <1>t, <2>c
       DEF MainResultEnd, ClientInv, TypeOK, StepsInv, OpensInv, DescriptorInv
  <2>6. NotifiedInv'
    BY <1>16, <1>n, <1>t, <2>c
       DEF MainResultEnd, ClientInv, TypeOK, StepsInv, OpensInv, DescriptorInv, NotifiedInv
  <2> QED BY <2>0, <2>1, <2>2, <2>3, <2>4, <2>5, <2>6 DEF ClientInv
<1>17. CASE MainClose
  <2>t. main' \in MainStates BY <1>17, <1>n, <1>t DEF MainClose, MainStates, ClientInv, StepsInv
  <2>f. fd' \in [Fifos -> BOOLEAN]
    <3>1. PICK g \in Fifos : fd' = [fd EXCEPT ![g] = FALSE] \/ fd' = fd BY <1>17 DEF MainClose
    <3>2. fd \in [Fifos -> BOOLEAN] BY <1>t DEF ClientInv, TypeOK
    <3> HIDE DEF Fifos
    <3> QED BY <3>1, <3>2
  <2>g. names' \in BOOLEAN BY <1>17, <1>t DEF MainClose, ClientInv, TypeOK
  <2>h. UNCHANGED <<mainFrame, exit, commands, fifoVars>> BY <1>17 DEF MainClose
  <2>0. TypeOK' BY <1>t, <2>t, <2>f, <2>g, <2>h DEF ClientInv, TypeOK, MainStates
  <2>1. StepsInv' BY <1>17, <1>n, <1>t, SMTT(40) DEF MainClose, ClientInv, TypeOK, StepsInv
  <2>2. OpensInv' BY <1>17, <1>n, <1>t, SMTT(40)
       DEF MainClose, ClientInv, TypeOK, StepsInv, OpensInv
  <2>3. AnswerInv'
    BY <1>17, <1>n, <1>t, SMTT(40)
       DEF MainClose, ClientInv, TypeOK, StepsInv, OpensInv, DescriptorInv, AnswerInv,
           Handles, Repeats
  <2>4. DisconnectInv'
    BY <1>17, <1>n, <1>t
       DEF MainClose, ClientInv, TypeOK, StepsInv, OpensInv, AnswerInv, DisconnectInv, Ends
  <2>5. DescriptorInv'
    BY <1>17, <1>n, <1>t, SMTT(30)
       DEF MainClose, ClientInv, TypeOK, StepsInv, OpensInv, DescriptorInv
  <2>6. NotifiedInv'
    BY <1>17, <1>n, <1>t, SMTT(40)
       DEF MainClose, ClientInv, TypeOK, StepsInv, OpensInv, DescriptorInv, NotifiedInv
  <2> QED BY <2>0, <2>1, <2>2, <2>3, <2>4, <2>5, <2>6 DEF ClientInv
<1>18. CASE MainCancel
  <2>t. main' \in MainStates
    BY <1>18, <1>n, <1>t DEF MainCancel, MainStates, ClientInv, StepsInv
  <2>0. TypeOK' BY <1>18, <1>t, <2>t DEF MainCancel, ClientInv, TypeOK, MainStates
  <2>1. StepsInv' BY <1>18, <1>n, <1>t DEF MainCancel, ClientInv, TypeOK, StepsInv
  <2>2. OpensInv' BY <1>18, <1>n, <1>t DEF MainCancel, ClientInv, TypeOK, StepsInv, OpensInv
  <2>3. AnswerInv'
    BY <1>18, <1>n, <1>t
       DEF MainCancel, ClientInv, TypeOK, StepsInv, OpensInv, DescriptorInv, AnswerInv,
           Handles, Repeats
  <2>4. DisconnectInv'
    BY <1>18, <1>n, <1>t
       DEF MainCancel, ClientInv, TypeOK, StepsInv, OpensInv, AnswerInv, DisconnectInv, Ends
  <2>5. DescriptorInv'
    BY <1>18, <1>n, <1>t DEF MainCancel, ClientInv, TypeOK, StepsInv, OpensInv, DescriptorInv
  <2>6. NotifiedInv'
    BY <1>18, <1>n, <1>t
       DEF MainCancel, ClientInv, TypeOK, StepsInv, OpensInv, DescriptorInv, NotifiedInv
  <2> QED BY <2>0, <2>1, <2>2, <2>3, <2>4, <2>5, <2>6 DEF ClientInv
<1>19. CASE MainJoin
  <2>t. main' \in MainStates BY <1>19, <1>n, <1>t DEF MainJoin, MainStates, ClientInv, StepsInv
  <2>0. TypeOK' BY <1>19, <1>n, <1>t, <2>t DEF MainJoin, ClientInv, StepsInv, TypeOK, MainStates
  <2>1. StepsInv' BY <1>19, <1>n, <1>t DEF MainJoin, ClientInv, TypeOK, StepsInv
  <2>2. OpensInv' BY <1>19, <1>n, <1>t DEF MainJoin, ClientInv, TypeOK, StepsInv, OpensInv
  <2>3. AnswerInv'
    BY <1>19, <1>n, <1>t
       DEF MainJoin, ClientInv, TypeOK, StepsInv, OpensInv, DescriptorInv, AnswerInv, Handles,
           Repeats
  <2>4. DisconnectInv'
    BY <1>19, <1>n, <1>t
       DEF MainJoin, ClientInv, TypeOK, StepsInv, OpensInv, AnswerInv, DisconnectInv, Ends
  <2>5. DescriptorInv'
    BY <1>19, <1>n, <1>t DEF MainJoin, ClientInv, TypeOK, StepsInv, OpensInv, DescriptorInv
  <2>6. NotifiedInv'
    BY <1>19, <1>n, <1>t
       DEF MainJoin, ClientInv, TypeOK, StepsInv, OpensInv, DescriptorInv, NotifiedInv
  <2> QED BY <2>0, <2>1, <2>2, <2>3, <2>4, <2>5, <2>6 DEF ClientInv
<1> QED BY <1>0, <1>1, <1>2, <1>3, <1>4, <1>5, <1>6, <1>7, <1>8, <1>9, <1>10, <1>11, <1>12,
        <1>13, <1>14, <1>15, <1>16, <1>17, <1>18, <1>19
   DEF Main, MainGoes, MainInput

\* Every step of the notification thread keeps it.
LEMMA NotifKeeps ==
  ASSUME ClientInv, Running, Notif
  PROVE  ClientInv'
<1> USE ClientAssumption
    DEF MainStep, BackToLoop, Exit, mainFrame, mainVars, clientVars, serverVars, fifoVars,
        serverFrame, notifFrame, NotifStep, MainFails, Send, Running, Starting, Expecting,
        Lost, Leaving, InHand, ServerHas, ClientReads, Order, ServerOrder, Fifos,
        Commands, Asking
<1>n. None \notin Commands OBVIOUS
<1>t. /\ ClientInv /\ main \in MainStates /\ notif \in NotifStates /\ server \in ServerStates
  BY DEF ClientInv, TypeOK, MainStates, NotifStates, ServerStates
<1>0. CASE NotifRead
  <2>t. notif' \in NotifStates
    BY <1>0, <1>n, <1>t DEF NotifRead, NotifStates, ClientInv, StepsInv
  <2>0. TypeOK' BY <1>0, <1>t, <2>t DEF NotifRead, ClientInv, TypeOK, NotifStates
  <2>1. StepsInv' BY <1>0, <1>n, <1>t DEF NotifRead, ClientInv, TypeOK, StepsInv
  <2>2. OpensInv' BY <1>0, <1>n, <1>t DEF NotifRead, ClientInv, TypeOK, StepsInv, OpensInv
  <2>3. AnswerInv'
    BY <1>0, <1>n, <1>t
       DEF NotifRead, ClientInv, TypeOK, StepsInv, OpensInv, DescriptorInv, AnswerInv,
           Handles, Repeats
  <2>4. DisconnectInv'
    BY <1>0, <1>n, <1>t
       DEF NotifRead, ClientInv, TypeOK, StepsInv, OpensInv, AnswerInv, DisconnectInv, Ends
  <2>5. DescriptorInv'
    BY <1>0, <1>n, <1>t DEF NotifRead, ClientInv, TypeOK, StepsInv, OpensInv, DescriptorInv
  <2>6. NotifiedInv'
    BY <1>0, <1>n, <1>t
       DEF NotifRead, ClientInv, TypeOK, StepsInv, OpensInv, DescriptorInv, NotifiedInv
  <2> QED BY <2>0, <2>1, <2>2, <2>3, <2>4, <2>5, <2>6 DEF ClientInv
<1>1. CASE NotifGet
  <2>t. notif' \in NotifStates
    BY <1>1, <1>n, <1>t DEF NotifGet, NotifStates, ClientInv, StepsInv
  <2>0. TypeOK' BY <1>1, <1>n, <1>t, <2>t DEF NotifGet, ClientInv, StepsInv, TypeOK, NotifStates
  <2>1. StepsInv' BY <1>1, <1>n, <1>t DEF NotifGet, ClientInv, TypeOK, StepsInv
  <2>2. OpensInv' BY <1>1, <1>n, <1>t DEF NotifGet, ClientInv, TypeOK, StepsInv, OpensInv
  <2>3. AnswerInv'
    BY <1>1, <1>n, <1>t
       DEF NotifGet, ClientInv, TypeOK, StepsInv, OpensInv, DescriptorInv, AnswerInv, Handles,
           Repeats
  <2>4. DisconnectInv'
    BY <1>1, <1>n, <1>t
       DEF NotifGet, ClientInv, TypeOK, StepsInv, OpensInv, AnswerInv, DisconnectInv, Ends
  <2>5. DescriptorInv'
    BY <1>1, <1>n, <1>t DEF NotifGet, ClientInv, TypeOK, StepsInv, OpensInv, DescriptorInv
  <2>6. NotifiedInv'
    BY <1>1, <1>n, <1>t
       DEF NotifGet, ClientInv, TypeOK, StepsInv, OpensInv, DescriptorInv, NotifiedInv
  <2> QED BY <2>0, <2>1, <2>2, <2>3, <2>4, <2>5, <2>6 DEF ClientInv
<1>2. CASE NotifEnd
  <2>t. notif' \in NotifStates
    BY <1>2, <1>n, <1>t DEF NotifEnd, NotifStates, ClientInv, StepsInv
  <2>0. TypeOK' BY <1>2, <1>t, <2>t DEF NotifEnd, ClientInv, TypeOK, NotifStates
  <2>1. StepsInv' BY <1>2, <1>n, <1>t DEF NotifEnd, ClientInv, TypeOK, StepsInv
  <2>2. OpensInv' BY <1>2, <1>n, <1>t DEF NotifEnd, ClientInv, TypeOK, StepsInv, OpensInv
  <2>3. AnswerInv'
    BY <1>2, <1>n, <1>t
       DEF NotifEnd, ClientInv, TypeOK, StepsInv, OpensInv, DescriptorInv, AnswerInv, Handles,
           Repeats
  <2>4. DisconnectInv'
    BY <1>2, <1>n, <1>t
       DEF NotifEnd, ClientInv, TypeOK, StepsInv, OpensInv, AnswerInv, DisconnectInv, Ends
  <2>5. DescriptorInv'
    BY <1>2, <1>n, <1>t DEF NotifEnd, ClientInv, TypeOK, StepsInv, OpensInv, DescriptorInv
  <2>6. NotifiedInv'
    BY <1>2, <1>n, <1>t
       DEF NotifEnd, ClientInv, TypeOK, StepsInv, OpensInv, DescriptorInv, NotifiedInv
  <2> QED BY <2>0, <2>1, <2>2, <2>3, <2>4, <2>5, <2>6 DEF ClientInv
<1>3. CASE NotifPrint
  <2>t. notif' \in NotifStates
    BY <1>3, <1>n, <1>t DEF NotifPrint, NotifStates, ClientInv, StepsInv
  <2>0. TypeOK' BY <1>3, <1>t, <2>t DEF NotifPrint, ClientInv, NotifiedInv, TypeOK, NotifStates
  <2>1. StepsInv' BY <1>3, <1>n, <1>t DEF NotifPrint, ClientInv, TypeOK, StepsInv
  <2>2. OpensInv' BY <1>3, <1>n, <1>t DEF NotifPrint, ClientInv, TypeOK, StepsInv, OpensInv
  <2>3. AnswerInv'
    BY <1>3, <1>n, <1>t
       DEF NotifPrint, ClientInv, TypeOK, StepsInv, OpensInv, DescriptorInv, AnswerInv,
           Handles, Repeats
  <2>4. DisconnectInv'
    BY <1>3, <1>n, <1>t
       DEF NotifPrint, ClientInv, TypeOK, StepsInv, OpensInv, AnswerInv, DisconnectInv, Ends
  <2>5. DescriptorInv'
    BY <1>3, <1>n, <1>t DEF NotifPrint, ClientInv, TypeOK, StepsInv, OpensInv, DescriptorInv
  <2>6. NotifiedInv'
    BY <1>3, <1>n, <1>t, SMTT(40)
       DEF NotifPrint, ClientInv, TypeOK, StepsInv, OpensInv, DescriptorInv, NotifiedInv
  <2> QED BY <2>0, <2>1, <2>2, <2>3, <2>4, <2>5, <2>6 DEF ClientInv
<1>4. CASE NotifStop
  <2>t. notif' \in NotifStates
    BY <1>4, <1>n, <1>t DEF NotifStop, NotifStates, ClientInv, StepsInv
  <2>0. TypeOK' BY <1>4, <1>t, <2>t DEF NotifStop, ClientInv, TypeOK, NotifStates
  <2>1. StepsInv' BY <1>4, <1>n, <1>t DEF NotifStop, ClientInv, TypeOK, StepsInv
  <2>2. OpensInv' BY <1>4, <1>n, <1>t DEF NotifStop, ClientInv, TypeOK, StepsInv, OpensInv
  <2>3. AnswerInv'
    BY <1>4, <1>n, <1>t
       DEF NotifStop, ClientInv, TypeOK, StepsInv, OpensInv, DescriptorInv, AnswerInv,
           Handles, Repeats
  <2>4. DisconnectInv'
    BY <1>4, <1>n, <1>t
       DEF NotifStop, ClientInv, TypeOK, StepsInv, OpensInv, AnswerInv, DisconnectInv, Ends
  <2>5. DescriptorInv'
    BY <1>4, <1>n, <1>t DEF NotifStop, ClientInv, TypeOK, StepsInv, OpensInv, DescriptorInv
  <2>6. NotifiedInv'
    BY <1>4, <1>n, <1>t
       DEF NotifStop, ClientInv, TypeOK, StepsInv, OpensInv, DescriptorInv, NotifiedInv
  <2> QED BY <2>0, <2>1, <2>2, <2>3, <2>4, <2>5, <2>6 DEF ClientInv
<1>5. CASE NotifClose
  <2>t. notif' \in NotifStates
    BY <1>5, <1>n, <1>t DEF NotifClose, NotifStates, ClientInv, StepsInv
  <2>f. fd' \in [Fifos -> BOOLEAN]
    <3>1. PICK g \in Fifos : fd' = [fd EXCEPT ![g] = FALSE] \/ fd' = fd BY <1>5 DEF NotifClose
    <3>2. fd \in [Fifos -> BOOLEAN] BY <1>t DEF ClientInv, TypeOK
    <3> HIDE DEF Fifos
    <3> QED BY <3>1, <3>2
  <2>g. names' \in BOOLEAN BY <1>5, <1>t DEF NotifClose, ClientInv, TypeOK
  <2>h. UNCHANGED <<notifFrame, interrompido, printed, unread>> BY <1>5 DEF NotifClose
  <2>0. TypeOK' BY <1>t, <2>t, <2>f, <2>g, <2>h DEF ClientInv, TypeOK, NotifStates
  <2>1. StepsInv' BY <1>5, <1>n, <1>t DEF NotifClose, ClientInv, TypeOK, StepsInv
  <2>2. OpensInv' BY <1>5, <1>n, <1>t DEF NotifClose, ClientInv, TypeOK, StepsInv, OpensInv
  <2>3. AnswerInv'
    BY <1>5, <1>n, <1>t, ZenonT(60)
       DEF NotifClose, ClientInv, TypeOK, StepsInv, OpensInv, DescriptorInv, AnswerInv,
           Handles, Repeats
  <2>4. DisconnectInv'
    BY <1>5, <1>n, <1>t
       DEF NotifClose, ClientInv, TypeOK, StepsInv, OpensInv, AnswerInv, DisconnectInv, Ends
  <2>5. DescriptorInv'
    BY <1>5, <1>n, <1>t DEF NotifClose, ClientInv, TypeOK, StepsInv, OpensInv, DescriptorInv
  <2>6. NotifiedInv'
    BY <1>5, <1>n, <1>t, ZenonT(60)
       DEF NotifClose, ClientInv, TypeOK, StepsInv, OpensInv, DescriptorInv, NotifiedInv
  <2> QED BY <2>0, <2>1, <2>2, <2>3, <2>4, <2>5, <2>6 DEF ClientInv
<1>6. CASE NotifCancelled
  <2>t. notif' \in NotifStates
    BY <1>6, <1>n, <1>t DEF NotifCancelled, NotifStates, ClientInv, StepsInv
  <2>0. TypeOK' BY <1>6, <1>t, <2>t DEF NotifCancelled, ClientInv, TypeOK, NotifStates
  <2>1. StepsInv' BY <1>6, <1>n, <1>t DEF NotifCancelled, ClientInv, TypeOK, StepsInv
  <2>2. OpensInv' BY <1>6, <1>n, <1>t DEF NotifCancelled, ClientInv, TypeOK, StepsInv, OpensInv
  <2>3. AnswerInv'
    BY <1>6, <1>n, <1>t
       DEF NotifCancelled, ClientInv, TypeOK, StepsInv, OpensInv, DescriptorInv, AnswerInv,
           Handles, Repeats
  <2>4. DisconnectInv'
    BY <1>6, <1>n, <1>t
       DEF NotifCancelled, ClientInv, TypeOK, StepsInv, OpensInv, AnswerInv, DisconnectInv, Ends
  <2>5. DescriptorInv'
    BY <1>6, <1>n, <1>t DEF NotifCancelled, ClientInv, TypeOK, StepsInv, OpensInv, DescriptorInv
  <2>6. NotifiedInv'
    BY <1>6, <1>n, <1>t
       DEF NotifCancelled, ClientInv, TypeOK, StepsInv, OpensInv, DescriptorInv, NotifiedInv
  <2> QED BY <2>0, <2>1, <2>2, <2>3, <2>4, <2>5, <2>6 DEF ClientInv
<1> QED BY <1>0, <1>1, <1>2, <1>3, <1>4, <1>5, <1>6 DEF Notif

\* Every step of the server keeps it.
LEMMA ServerKeeps ==
  ASSUME ClientInv, Running,
         Server \/ Closing \/ ServerTake \/ ServerNotify \/ SweepStart \/ ServerDies
  PROVE  ClientInv'
<1> USE ClientAssumption
    DEF MainStep, BackToLoop, Exit, mainFrame, mainVars, clientVars, serverVars, fifoVars,
        serverFrame, notifFrame, NotifStep, MainFails, Send, Running, Starting, Expecting,
        Lost, Leaving, InHand, ServerHas, ClientReads, Order, ServerOrder, Fifos,
        Commands, Asking
<1>n. None \notin Commands OBVIOUS
<1>t. /\ ClientInv /\ main \in MainStates /\ notif \in NotifStates /\ server \in ServerStates
  BY DEF ClientInv, TypeOK, MainStates, NotifStates, ServerStates
<1>0. CASE ServerOpen
  <2>t. server' \in ServerStates
    BY <1>0, <1>n, <1>t DEF ServerOpen, ServerStates, ClientInv, StepsInv
  <2>0. TypeOK'
    BY <1>0, <1>n, <1>t, <2>t DEF ServerOpen, ClientInv, StepsInv, TypeOK, ServerStates
  <2>1. StepsInv' BY <1>0, <1>n, <1>t DEF ServerOpen, ClientInv, TypeOK, StepsInv
  <2>2. OpensInv' BY <1>0, <1>n, <1>t DEF ServerOpen, ClientInv, TypeOK, StepsInv, OpensInv
  <2>3. AnswerInv'
    BY <1>0, <1>n, <1>t
       DEF ServerOpen, ClientInv, TypeOK, StepsInv, OpensInv, DescriptorInv, AnswerInv,
           Handles, Repeats
  <2>4. DisconnectInv'
    BY <1>0, <1>n, <1>t
       DEF ServerOpen, ClientInv, TypeOK, StepsInv, OpensInv, AnswerInv, DisconnectInv, Ends
  <2>5. DescriptorInv'
    BY <1>0, <1>n, <1>t DEF ServerOpen, ClientInv, TypeOK, StepsInv, OpensInv, DescriptorInv
  <2>6. NotifiedInv'
    BY <1>0, <1>n, <1>t
       DEF ServerOpen, ClientInv, TypeOK, StepsInv, OpensInv, DescriptorInv, NotifiedInv
  <2> QED BY <2>0, <2>1, <2>2, <2>3, <2>4, <2>5, <2>6 DEF ClientInv
<1>1. CASE ServerOpened
  <2>s. server.at \in 1 .. 3 /\ server.at + 1 \in 1 .. 4
    BY <1>1, <1>t DEF ServerOpened, ClientInv, StepsInv, ServerStates
  <2>t. server' \in ServerStates
    BY <1>1, <1>n, <1>t, <2>s DEF ServerOpened, ServerStates, ClientInv, StepsInv
  <2>0. TypeOK'
    BY <1>1, <1>n, <1>t, <2>t DEF ServerOpened, ClientInv, StepsInv, TypeOK, ServerStates
  <2>1. StepsInv' BY <1>1, <1>n, <1>t DEF ServerOpened, ClientInv, TypeOK, StepsInv
  <2>2. OpensInv' BY <1>1, <1>n, <1>t DEF ServerOpened, ClientInv, TypeOK, StepsInv, OpensInv
  <2>3. AnswerInv'
    BY <1>1, <1>n, <1>t, SMTT(40)
       DEF ServerOpened, ClientInv, TypeOK, StepsInv, OpensInv, DescriptorInv, AnswerInv,
           Handles, Repeats
  <2>4. DisconnectInv'
    BY <1>1, <1>n, <1>t
       DEF ServerOpened, ClientInv, TypeOK, StepsInv, OpensInv, AnswerInv, DisconnectInv, Ends
  <2>5. DescriptorInv'
    BY <1>1, <1>n, <1>t DEF ServerOpened, ClientInv, TypeOK, StepsInv, OpensInv, DescriptorInv
  <2>6. NotifiedInv'
    BY <1>1, <1>n, <1>t
       DEF ServerOpened, ClientInv, TypeOK, StepsInv, OpensInv, DescriptorInv, NotifiedInv
  <2> QED BY <2>0, <2>1, <2>2, <2>3, <2>4, <2>5, <2>6 DEF ClientInv
<1>2. CASE ServerRespond
  <2> HIDE DEF Commands
  <2>a. /\ server.pc = "respond" /\ ends["resp"] /\ response \in Seq(Commands)
        /\ server.cmd \in Commands /\ Len(response) < ResponseRoom
        /\ response' = Append(response, server.cmd)
        /\ server' = [server EXCEPT !.pc = "loop"]
        /\ UNCHANGED <<serverFrame, ends, sweep, opened, request, unread>>
    BY <1>2, <1>t DEF ServerRespond, ClientInv, TypeOK, StepsInv
  <2>e. /\ response' \in Seq(Commands) /\ response' # <<>> /\ Len(response') = Len(response) + 1
        /\ Head(response') = IF response = <<>> THEN server.cmd ELSE Head(response)
    BY <2>a
  <2>t. /\ server' \in ServerStates /\ server'.pc = "loop" /\ server'.at = server.at
        /\ server'.cmd = server.cmd /\ server'.active = server.active
    BY <1>t, <2>a DEF ServerStates
  <2>h. Handles \/ Repeats BY <1>t, <2>a DEF ClientInv, AnswerInv
  <2>r. Len(response') <= ResponseRoom BY <2>a, <2>e
  <2>0. TypeOK' BY <1>t, <2>a, <2>e, <2>r, <2>t DEF ClientInv, TypeOK, ServerStates
  <2>1. StepsInv' BY <1>t, <2>a, <2>t DEF ClientInv, StepsInv
  <2>2. OpensInv' BY <1>t, <2>a, <2>h, <2>t DEF ClientInv, OpensInv
  <2>3. AnswerInv'
    <3>1. CASE Handles
      <4>1. Len(response') = 1 BY <2>e, <3>1 DEF Handles
      <4> QED BY <1>t, <2>a, <2>e, <2>t, <3>1, <4>1 DEF ClientInv, AnswerInv, Handles
    <3>2. CASE Repeats
      BY <1>t, <2>a, <2>e, <2>t, <3>2 DEF ClientInv, AnswerInv, Repeats
    <3> QED BY <2>h, <3>1, <3>2
  <2>4. DisconnectInv'
    BY <1>t, <2>a, <2>h, <2>t DEF ClientInv, DisconnectInv, AnswerInv, Handles, Repeats, Ends
  <2>5. DescriptorInv' BY <1>t, <2>a DEF ClientInv, DescriptorInv
  <2>6. NotifiedInv' BY <1>t, <2>a, <2>t DEF ClientInv, NotifiedInv
  <2> QED BY <2>0, <2>1, <2>2, <2>3, <2>4, <2>5, <2>6 DEF ClientInv
<1>3. CASE ServerLoop
  <2>t. server' \in ServerStates
    BY <1>3, <1>n, <1>t DEF ServerLoop, ServerStates, ClientInv, StepsInv
  <2>0. TypeOK'
    BY <1>3, <1>n, <1>t, <2>t DEF ServerLoop, ClientInv, StepsInv, TypeOK, ServerStates
  <2>1. StepsInv' BY <1>3, <1>n, <1>t DEF ServerLoop, ClientInv, TypeOK, StepsInv
  <2>2. OpensInv' BY <1>3, <1>n, <1>t DEF ServerLoop, ClientInv, TypeOK, StepsInv, OpensInv
  <2>3. AnswerInv'
    BY <1>3, <1>n, <1>t
       DEF ServerLoop, ClientInv, TypeOK, StepsInv, OpensInv, DescriptorInv, AnswerInv,
           Handles, Repeats
  <2>4. DisconnectInv'
    BY <1>3, <1>n, <1>t
       DEF ServerLoop, ClientInv, TypeOK, StepsInv, OpensInv, AnswerInv, DisconnectInv, Ends
  <2>5. DescriptorInv'
    BY <1>3, <1>n, <1>t DEF ServerLoop, ClientInv, TypeOK, StepsInv, OpensInv, DescriptorInv
  <2>6. NotifiedInv'
    BY <1>3, <1>n, <1>t
       DEF ServerLoop, ClientInv, TypeOK, StepsInv, OpensInv, DescriptorInv, NotifiedInv
  <2> QED BY <2>0, <2>1, <2>2, <2>3, <2>4, <2>5, <2>6 DEF ClientInv
<1>4. CASE ServerRead
  <2>t. server' \in ServerStates
    BY <1>4, <1>n, <1>t DEF ServerRead, Handle, ServerStates, ClientInv, TypeOK
  <2>0. TypeOK' BY <1>4, <1>n, <1>t, <2>t DEF ServerRead, ClientInv, TypeOK, ServerStates
  <2>c. request \in Commands BY <1>4, <1>t DEF ServerRead, ClientInv, TypeOK
  <2>1. StepsInv' BY <1>4, <1>t, <2>c DEF ServerRead, Handle, ServerStates, ClientInv, StepsInv
  <2>2. OpensInv' BY <1>4, <1>t DEF ServerRead, Handle, ServerStates, ClientInv, OpensInv
  <2>3. AnswerInv'
    BY <1>4, <1>t
       DEF ServerRead, Handle, ServerStates, ClientInv, StepsInv, OpensInv, DescriptorInv,
           DisconnectInv, AnswerInv, Handles, Repeats, Ends
  <2>4. DisconnectInv'
    BY <1>4, <1>t
       DEF ServerRead, Handle, ServerStates, ClientInv, AnswerInv, DisconnectInv, Ends
  <2>5. DescriptorInv' BY <1>4, <1>t DEF ServerRead, ClientInv, DescriptorInv
  <2>6. NotifiedInv' BY <1>4, <1>t DEF ServerRead, Handle, ServerStates, ClientInv, NotifiedInv
  <2> QED BY <2>0, <2>1, <2>2, <2>3, <2>4, <2>5, <2>6 DEF ClientInv
<1>5. CASE SweepClose
  <2>0. TypeOK'
    BY <1>5, <1>n, <1>t
       DEF SweepClose, ClientInv, StepsInv, TypeOK, MainStates, NotifStates, ServerStates
  <2>1. StepsInv' BY <1>5, <1>n, <1>t DEF SweepClose, ClientInv, TypeOK, StepsInv
  <2>2. OpensInv' BY <1>5, <1>n, <1>t DEF SweepClose, ClientInv, TypeOK, StepsInv, OpensInv
  <2>3. AnswerInv'
    BY <1>5, <1>n, <1>t
       DEF SweepClose, ClientInv, TypeOK, StepsInv, OpensInv, DescriptorInv, AnswerInv,
           Handles, Repeats
  <2>4. DisconnectInv'
    BY <1>5, <1>n, <1>t
       DEF SweepClose, ClientInv, TypeOK, StepsInv, OpensInv, AnswerInv, DisconnectInv, Ends
  <2>5. DescriptorInv'
    BY <1>5, <1>n, <1>t DEF SweepClose, ClientInv, TypeOK, StepsInv, OpensInv, DescriptorInv
  <2>6. NotifiedInv'
    BY <1>5, <1>n, <1>t
       DEF SweepClose, ClientInv, TypeOK, StepsInv, OpensInv, DescriptorInv, NotifiedInv
  <2> QED BY <2>0, <2>1, <2>2, <2>3, <2>4, <2>5, <2>6 DEF ClientInv
<1>6. CASE SweepReset
  <2>t. server' \in ServerStates
    BY <1>6, <1>n, <1>t DEF SweepReset, ServerStates, ClientInv, StepsInv
  <2>0. TypeOK'
    BY <1>6, <1>n, <1>t, <2>t DEF SweepReset, ClientInv, StepsInv, TypeOK, ServerStates
  <2>1. StepsInv' BY <1>6, <1>n, <1>t DEF SweepReset, ClientInv, TypeOK, StepsInv
  <2>2. OpensInv' BY <1>6, <1>n, <1>t DEF SweepReset, ClientInv, TypeOK, StepsInv, OpensInv
  <2>3. AnswerInv'
    BY <1>6, <1>n, <1>t
       DEF SweepReset, ClientInv, TypeOK, StepsInv, OpensInv, DescriptorInv, AnswerInv,
           Handles, Repeats
  <2>4. DisconnectInv'
    BY <1>6, <1>n, <1>t
       DEF SweepReset, ClientInv, TypeOK, StepsInv, OpensInv, AnswerInv, DisconnectInv, Ends
  <2>5. DescriptorInv'
    BY <1>6, <1>n, <1>t DEF SweepReset, ClientInv, TypeOK, StepsInv, OpensInv, DescriptorInv
  <2>6. NotifiedInv'
    BY <1>6, <1>n, <1>t
       DEF SweepReset, ClientInv, TypeOK, StepsInv, OpensInv, DescriptorInv, NotifiedInv
  <2> QED BY <2>0, <2>1, <2>2, <2>3, <2>4, <2>5, <2>6 DEF ClientInv
<1>7. ASSUME NEW f \in Fifos, ServerExits(f) PROVE ClientInv'
  <2>0. TypeOK'
    BY <1>7, <1>n, <1>t
       DEF ServerExits, ClientInv, StepsInv, TypeOK, MainStates, NotifStates, ServerStates
  <2>1. StepsInv' BY <1>7, <1>n, <1>t DEF ServerExits, ClientInv, TypeOK, StepsInv
  <2>2. OpensInv' BY <1>7, <1>n, <1>t DEF ServerExits, ClientInv, TypeOK, StepsInv, OpensInv
  <2>3. AnswerInv'
    BY <1>7, <1>n, <1>t
       DEF ServerExits, ClientInv, TypeOK, StepsInv, OpensInv, DescriptorInv, AnswerInv,
           Handles, Repeats
  <2>4. DisconnectInv'
    BY <1>7, <1>n, <1>t
       DEF ServerExits, ClientInv, TypeOK, StepsInv, OpensInv, AnswerInv, DisconnectInv, Ends
  <2>5. DescriptorInv'
    BY <1>7, <1>n, <1>t DEF ServerExits, ClientInv, TypeOK, StepsInv, OpensInv, DescriptorInv
  <2>6. NotifiedInv'
    BY <1>7, <1>n, <1>t
       DEF ServerExits, ClientInv, TypeOK, StepsInv, OpensInv, DescriptorInv, NotifiedInv
  <2> QED BY <2>0, <2>1, <2>2, <2>3, <2>4, <2>5, <2>6 DEF ClientInv
<1>8. CASE ServerTake
  <2>t. server' \in ServerStates
    BY <1>8, <1>n, <1>t DEF ServerTake, ServerStates, ClientInv, StepsInv
  <2>0. TypeOK'
    BY <1>8, <1>n, <1>t, <2>t DEF ServerTake, ClientInv, StepsInv, TypeOK, ServerStates
  <2>1. StepsInv' BY <1>8, <1>n, <1>t DEF ServerTake, ClientInv, TypeOK, StepsInv, OpensInv
  <2>2. OpensInv' BY <1>8, <1>n, <1>t DEF ServerTake, ClientInv, TypeOK, StepsInv, OpensInv
  <2>3. AnswerInv'
    BY <1>8, <1>n, <1>t
       DEF ServerTake, ClientInv, TypeOK, StepsInv, OpensInv, DescriptorInv, AnswerInv,
           Handles, Repeats
  <2>4. DisconnectInv'
    BY <1>8, <1>n, <1>t
       DEF ServerTake, ClientInv, TypeOK, StepsInv, OpensInv, AnswerInv, DisconnectInv, Ends
  <2>5. DescriptorInv'
    BY <1>8, <1>n, <1>t DEF ServerTake, ClientInv, TypeOK, StepsInv, OpensInv, DescriptorInv
  <2>6. NotifiedInv'
    BY <1>8, <1>n, <1>t
       DEF ServerTake, ClientInv, TypeOK, StepsInv, OpensInv, DescriptorInv, NotifiedInv
  <2> QED BY <2>0, <2>1, <2>2, <2>3, <2>4, <2>5, <2>6 DEF ClientInv
<1>9. CASE ServerNotify
  <2>0. TypeOK'
    BY <1>9, <1>n, <1>t
       DEF ServerNotify, ClientInv, StepsInv, TypeOK, MainStates, NotifStates, ServerStates
  <2>1. StepsInv' BY <1>9, <1>n, <1>t DEF ServerNotify, ClientInv, TypeOK, StepsInv
  <2>2. OpensInv' BY <1>9, <1>n, <1>t DEF ServerNotify, ClientInv, TypeOK, StepsInv, OpensInv
  <2>3. AnswerInv'
    BY <1>9, <1>n, <1>t
       DEF ServerNotify, ClientInv, TypeOK, StepsInv, OpensInv, DescriptorInv, AnswerInv,
           Handles, Repeats
  <2>4. DisconnectInv'
    BY <1>9, <1>n, <1>t
       DEF ServerNotify, ClientInv, TypeOK, StepsInv, OpensInv, AnswerInv, DisconnectInv, Ends
  <2>5. DescriptorInv'
    BY <1>9, <1>n, <1>t DEF ServerNotify, ClientInv, TypeOK, StepsInv, OpensInv, DescriptorInv
  <2>6. NotifiedInv'
    BY <1>9, <1>n, <1>t
       DEF ServerNotify, ClientInv, TypeOK, StepsInv, OpensInv, DescriptorInv, NotifiedInv
  <2> QED BY <2>0, <2>1, <2>2, <2>3, <2>4, <2>5, <2>6 DEF ClientInv
<1>10. CASE SweepStart
  <2>0. TypeOK'
    BY <1>10, <1>n, <1>t
       DEF SweepStart, ClientInv, StepsInv, TypeOK, MainStates, NotifStates, ServerStates
  <2>1. StepsInv' BY <1>10, <1>n, <1>t DEF SweepStart, ClientInv, TypeOK, StepsInv
  <2>2. OpensInv' BY <1>10, <1>n, <1>t DEF SweepStart, ClientInv, TypeOK, StepsInv, OpensInv
  <2>3. AnswerInv'
    BY <1>10, <1>n, <1>t
       DEF SweepStart, ClientInv, TypeOK, StepsInv, OpensInv, DescriptorInv, AnswerInv,
           Handles, Repeats
  <2>4. DisconnectInv'
    BY <1>10, <1>n, <1>t
       DEF SweepStart, ClientInv, TypeOK, StepsInv, OpensInv, AnswerInv, DisconnectInv, Ends
  <2>5. DescriptorInv'
    BY <1>10, <1>n, <1>t DEF SweepStart, ClientInv, TypeOK, StepsInv, OpensInv, DescriptorInv
  <2>6. NotifiedInv'
    BY <1>10, <1>n, <1>t
       DEF SweepStart, ClientInv, TypeOK, StepsInv, OpensInv, DescriptorInv, NotifiedInv
  <2> QED BY <2>0, <2>1, <2>2, <2>3, <2>4, <2>5, <2>6 DEF ClientInv
<1>11. CASE ServerDies
  <2>t. server' \in ServerStates
    BY <1>11, <1>n, <1>t DEF ServerDies, ServerStates, ClientInv, StepsInv
  <2>0. TypeOK'
    BY <1>11, <1>n, <1>t, <2>t DEF ServerDies, ClientInv, StepsInv, TypeOK, ServerStates
  <2>1. StepsInv' BY <1>11, <1>n, <1>t DEF ServerDies, ClientInv, TypeOK, StepsInv
  <2>2. OpensInv' BY <1>11, <1>n, <1>t DEF ServerDies, ClientInv, TypeOK, StepsInv, OpensInv
  <2>3. AnswerInv'
    BY <1>11, <1>n, <1>t
       DEF ServerDies, ClientInv, TypeOK, StepsInv, OpensInv, DescriptorInv, AnswerInv,
           Handles, Repeats
  <2>4. DisconnectInv'
    BY <1>11, <1>n, <1>t
       DEF ServerDies, ClientInv, TypeOK, StepsInv, OpensInv, AnswerInv, DisconnectInv, Ends
  <2>5. DescriptorInv'
    BY <1>11, <1>n, <1>t DEF ServerDies, ClientInv, TypeOK, StepsInv, OpensInv, DescriptorInv
  <2>6. NotifiedInv'
    BY <1>11, <1>n, <1>t
       DEF ServerDies, ClientInv, TypeOK, StepsInv, OpensInv, DescriptorInv, NotifiedInv
  <2> QED BY <2>0, <2>1, <2>2, <2>3, <2>4, <2>5, <2>6 DEF ClientInv
<1>12. CASE ServerReadEnd
  <2>t. server' \in ServerStates
    BY <1>12, <1>n, <1>t, ZenonT(60) DEF ServerReadEnd, Handle, ServerStates, ClientInv, TypeOK
  <2>0. TypeOK' BY <1>12, <1>n, <1>t, <2>t DEF ServerReadEnd, ClientInv, TypeOK, ServerStates
  <2>1. StepsInv'
    BY <1>12, <1>n, <1>t DEF ServerReadEnd, Handle, ServerStates, ClientInv, StepsInv
  <2>2. OpensInv' BY <1>12, <1>t DEF ServerReadEnd, Handle, ServerStates, ClientInv, OpensInv
  <2>c. /\ server.pc = "reading" /\ request = None /\ ~ fd["req"]
        /\ server'.pc = "respond" /\ UNCHANGED <<serverFrame, ends, sweep, fifoVars>>
    BY <1>12, <1>t DEF ServerReadEnd, Handle, ServerStates
  <2>o. "client" \in opened["notif"] /\ main.pc \notin {"make", "register", "open"}
        /\ (main.pc = "opening" => main.at = 3)
    BY <1>t, <2>c DEF ClientInv, OpensInv
  <2>d. ends["resp"] => main.pc \notin {"close", "cancel", "join"}
    BY <1>t, <2>c DEF ClientInv, DisconnectInv, Ends
  <2>p. main.pc # "opening" BY <1>t, <2>c, <2>o DEF ClientInv, DescriptorInv
  <2>i. ends["resp"] => interrompido
    BY <1>t, <2>c, <2>d, <2>o, <2>p DEF ClientInv, DescriptorInv, StepsInv, MainStates
  <2>q. interrompido => main.cmd # "CONNECT" BY <1>t DEF ClientInv, DescriptorInv
  <2>l. ends["resp"] => Lost \/ (response # <<>> /\ main.cmd \in Asking)
    <3> SUFFICES ASSUME ends["resp"], ~ Lost PROVE response # <<>> /\ main.cmd \in Asking
      OBVIOUS
    <3>1. main.pc \in {"receive", "reading"}
      BY <1>t, <2>c, <2>d, <2>i, <2>o, <2>p, <2>q DEF ClientInv, StepsInv, MainStates
    <3>2. response # <<>> BY <1>t, <2>c, <3>1 DEF ClientInv, AnswerInv
    <3>3. main.cmd # "DISCONNECT" BY <1>t, <2>c, <3>1, <3>2 DEF ClientInv, DisconnectInv, Ends
    <3>4. main.cmd \in Commands BY <1>t, <3>1 DEF ClientInv, StepsInv
    <3> QED BY <2>i, <2>q, <3>2, <3>3, <3>4
  <2>3. AnswerInv'
    BY <1>t, <2>c, <2>i, <2>l DEF ClientInv, AnswerInv, Handles, Repeats
  <2>4. DisconnectInv'
    BY <1>12, <1>t
       DEF ServerReadEnd, Handle, ServerStates, ClientInv, AnswerInv, DisconnectInv, Ends
  <2>5. DescriptorInv' BY <1>12, <1>t DEF ServerReadEnd, ClientInv, DescriptorInv
  <2>6. NotifiedInv'
    BY <1>12, <1>t DEF ServerReadEnd, Handle, ServerStates, ClientInv, NotifiedInv
  <2> QED BY <2>0, <2>1, <2>2, <2>3, <2>4, <2>5, <2>6 DEF ClientInv
<1>13. CASE ServerRespondFails
  <2>t. server' \in ServerStates
    BY <1>13, <1>n, <1>t DEF ServerRespondFails, Handle, ServerStates, ClientInv, TypeOK
  <2>0. TypeOK'
    BY <1>13, <1>n, <1>t, <2>t DEF ServerRespondFails, ClientInv, TypeOK, ServerStates
  <2>1. StepsInv'
    BY <1>13, <1>n, <1>t DEF ServerRespondFails, Handle, ServerStates, ClientInv, StepsInv
  <2>2. OpensInv'
    BY <1>13, <1>t DEF ServerRespondFails, Handle, ServerStates, ClientInv, OpensInv
  <2>3. AnswerInv'
    BY <1>13, <1>t
      
          DEF ServerRespondFails, Handle, ServerStates, ClientInv, StepsInv, OpensInv,
              DescriptorInv,
           DisconnectInv, AnswerInv, Handles, Repeats, Ends
  <2>4. DisconnectInv'
    BY <1>13, <1>t
       DEF ServerRespondFails, Handle, ServerStates, ClientInv, AnswerInv, DisconnectInv, Ends
  <2>5. DescriptorInv' BY <1>13, <1>t DEF ServerRespondFails, ClientInv, DescriptorInv
  <2>6. NotifiedInv'
    BY <1>13, <1>t DEF ServerRespondFails, Handle, ServerStates, ClientInv, NotifiedInv
  <2> QED BY <2>0, <2>1, <2>2, <2>3, <2>4, <2>5, <2>6 DEF ClientInv
<1>14. CASE ServerRespondDies
  <2>t. server' \in ServerStates
    BY <1>14, <1>n, <1>t DEF ServerRespondDies, Handle, ServerStates, ClientInv, TypeOK
  <2>0. TypeOK'
    BY <1>14, <1>n, <1>t, <2>t DEF ServerRespondDies, ClientInv, TypeOK, ServerStates
  <2>1. StepsInv'
    BY <1>14, <1>n, <1>t DEF ServerRespondDies, Handle, ServerStates, ClientInv, StepsInv
  <2>2. OpensInv'
    BY <1>14, <1>t DEF ServerRespondDies, Handle, ServerStates, ClientInv, OpensInv
  <2>3. AnswerInv'
    BY <1>14, <1>t
      
          DEF ServerRespondDies, Handle, ServerStates, ClientInv, StepsInv, OpensInv,
              DescriptorInv,
           DisconnectInv, AnswerInv, Handles, Repeats, Ends
  <2>4. DisconnectInv'
    BY <1>14, <1>t
       DEF ServerRespondDies, Handle, ServerStates, ClientInv, AnswerInv, DisconnectInv, Ends
  <2>5. DescriptorInv' BY <1>14, <1>t DEF ServerRespondDies, ClientInv, DescriptorInv
  <2>6. NotifiedInv'
    BY <1>14, <1>t DEF ServerRespondDies, Handle, ServerStates, ClientInv, NotifiedInv
  <2> QED BY <2>0, <2>1, <2>2, <2>3, <2>4, <2>5, <2>6 DEF ClientInv
<1> QED BY <1>0, <1>1, <1>2, <1>3, <1>4, <1>5, <1>6, <1>7, <1>8, <1>9, <1>10, <1>11,
        <1>12, <1>13, <1>14
   DEF Server, Closing

-----------------------------------------------------------------------------
\* The client before its request.
LEMMA ClientInit == Init => ClientInv
<1> SUFFICES ASSUME Init PROVE ClientInv OBVIOUS
<1>1. TypeOK
  <2>1. fd \in [Fifos -> BOOLEAN] /\ ends \in [Fifos -> BOOLEAN] BY DEF Init
  <2>2. opened \in [Fifos -> SUBSET {"client", "server"}] BY DEF Init
  <2>3. main \in MainStates BY DEF Init, MainStates, Commands
  <2>4. notif \in NotifStates BY DEF Init, NotifStates
  <2>5. server \in ServerStates BY DEF Init, ServerStates
  <2>6. /\ unread \in 0 .. Capacity /\ commands \in 0 .. MaxCommands
        /\ written \in 0 .. MaxNotifications /\ printed \in 0 .. written
    BY ClientAssumption DEF Init
  <2>7. interrompido \in BOOLEAN /\ names \in BOOLEAN BY Zenon DEF Init
  <2>8. exit \in {"running", "0", "1", "SIGPIPE"} /\ sweep \in 0 .. 5 BY DEF Init
  <2>9. /\ request \in Commands \cup {None}
        /\ response \in Seq(Commands) /\ Len(response) <= ResponseRoom
    BY ClientAssumption DEF Init
  <2> QED
    BY <2>1, <2>2, <2>3, <2>4, <2>5, <2>6, <2>7, <2>8, <2>9
       DEF TypeOK, MainStates, NotifStates, ServerStates
<1>2. StepsInv BY DEF Init, StepsInv, Starting, Running
<1>3. OpensInv BY DEF Init, OpensInv, Starting, Fifos
<1>4. AnswerInv BY DEF Init, AnswerInv, Fifos
<1>7. DisconnectInv BY DEF Init, DisconnectInv
<1>5. DescriptorInv BY DEF Init, DescriptorInv
<1>6. NotifiedInv BY DEF Init, NotifiedInv, InHand
<1> QED BY <1>1, <1>2, <1>3, <1>4, <1>5, <1>6, <1>7 DEF ClientInv

\* No step leaves the invariant.
LEMMA ClientKeeps == ClientInv /\ [Next]_vars => ClientInv'
<1> SUFFICES ASSUME ClientInv, [Next]_vars PROVE ClientInv' OBVIOUS
<1>1. CASE UNCHANGED vars
  BY <1>1
    
        DEF vars, clientVars, mainVars, serverVars, fifoVars, ClientInv, TypeOK, StepsInv,
            OpensInv,
              AnswerInv, DisconnectInv, DescriptorInv, NotifiedInv, Lost, Leaving, InHand,
              Handles, Repeats, Ends, Running, ServerHas
<1>2. CASE Next BY <1>2, MainKeeps, NotifKeeps, ServerKeeps DEF Next
<1> QED BY <1>1, <1>2

\* Type correctness; among others, no response goes beyond the room of its FIFO.
THEOREM ClientTypeCorrect == Spec => []TypeOK
<1>1. ClientInv => TypeOK BY DEF ClientInv
<1> QED BY <1>1, ClientInit, ClientKeeps, PTL DEF Spec

\* A result is reported for the command it answers (api.c:106, 149, 178).
THEOREM AnswersBelong == Spec => []AnswersItsCommand
<1>1. ClientInv => AnswersItsCommand
  BY DEF ClientInv, AnswerInv, AnswersItsCommand, Lost, Expecting
<1> QED BY <1>1, ClientInit, ClientKeeps, PTL DEF Spec

\* A client that the end of its notification FIFO ends has printed all that was
\* written to it (client/main.c:19-33, 77).
THEOREM AllPrinted == Spec => []NothingUnprinted
<1>1. ClientInv => NothingUnprinted
  <2> SUFFICES ASSUME ClientInv, exit = "1", interrompido PROVE printed = written
    BY DEF NothingUnprinted
  <2>1. ~ Leaving BY DEF ClientInv, StepsInv, Leaving, Running
  <2>2. notif.pc \in {"close", "done"} BY DEF ClientInv, DescriptorInv
  <2>3. InHand = 0 /\ unread = 0 BY <2>1, <2>2 DEF ClientInv, NotifiedInv, InHand
  <2>4. printed + unread + InHand = written BY <2>1 DEF ClientInv, NotifiedInv
  <2> QED BY <2>3, <2>4 DEF ClientInv, TypeOK
<1> QED BY <1>1, ClientInit, ClientKeeps, PTL DEF Spec

\* An API call meets a closed descriptor only when the command loop has been told
\* to end (client/main.c:22-26).
THEOREM ErrorsAreExplained == Spec => ErrorsExplained
<1>1. ClientInv /\ [Next]_vars => [MainSendFails \/ MainReceiveFails => interrompido]_vars
  BY DEF ClientInv, DescriptorInv, MainSendFails, MainReceiveFails
<1> QED BY <1>1, ClientInit, ClientKeeps, PTL DEF Spec, ErrorsExplained
=============================================================================
