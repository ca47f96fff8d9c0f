---------------------------- MODULE CommandLoops ----------------------------
(***************************************************************************)
(* The two command loops as far as they read: run_job on a job file and    *)
(* the client's main on its standard input.  Each step is one command,     *)
(* taken or refused.  What a command does is in the other modules.         *)
(*                                                                         *)
(* The properties compare what the parsers make of a text with the         *)
(* language its lines are written in: a command with its arguments has one *)
(* way to be written, and reading is to undo writing.                      *)
(***************************************************************************)
EXTENDS JobParser, ClientParser, FiniteSets

CONSTANTS
  JobTexts, ClientTexts,  \* the files
  Strings                 \* keys and values the commands of the language have

ASSUME CommandLoopsAssumption ==
  /\ \A t \in JobTexts \cup ClientTexts : t \in Seq(Characters)
  /\ \A s \in Strings : /\ s \in Seq(Characters \ {" ", ",", ")", "]"})
                        /\ s # <<>> /\ Len(s) < MAX_STRING_SIZE

VARIABLES
  loop,   \* whose loop: "job" or "client"
  text,   \* what is in the file
  place,  \* of the next character
  last    \* history: the last command, and the place where it started

vars == <<loop, text, place, last>>

\* The type invariant; no place is behind the end of the text.
TypeOK ==
  /\ loop \in {"job", "client"}
  /\ place \in 1 .. Len(text) + 1
  /\ last.cmd \in {"none", "INVALID", "EMPTY", "EOC"} \cup
       (IF loop = "job" THEN {"WRITE", "READ", "DELETE", "SHOW", "WAIT", "BACKUP", "HELP"}
                        ELSE {"SUBSCRIBE", "UNSUBSCRIBE", "DELAY", "DISCONNECT"})
  /\ last.from \in 1 .. place

Init ==
  /\ loop \in {"job", "client"}
  /\ text \in IF loop = "job" THEN JobTexts ELSE ClientTexts
  /\ place = 1
  /\ last = [cmd |-> "none", args |-> <<>>, from |-> 1]

Turn(c) ==
  /\ place' = c.next
  /\ last' = [cmd |-> c.cmd, args |-> c.args, from |-> place]
  /\ UNCHANGED <<loop, text>>

\* run_job, until its file ends.
JobTurn ==
  /\ loop = "job" /\ last.cmd # "EOC"
  /\ \E garbageFits \in BOOLEAN : Turn(JobCommand(text, place, garbageFits))

\* main, until the user disconnects; at the end of its input it goes round for ever.
ClientTurn ==
  /\ loop = "client" /\ last.cmd # "DISCONNECT"
  /\ \E garbageFits \in BOOLEAN : Turn(ClientCommand(text, place, garbageFits))

Next == JobTurn \/ ClientTurn

Spec == Init /\ [][Next]_vars

-----------------------------------------------------------------------------
(* The language.                                                           *)

\* Strings with a comma between them.
CommaList(strings) ==
  LET upTo[n \in 1 .. Len(strings)] ==
        IF n = 1 THEN strings[1] ELSE upTo[n - 1] \o <<",">> \o strings[n]
  IN upTo[Len(strings)]

Pairs(pairs) ==
  LET upTo[n \in 0 .. Len(pairs)] ==
        IF n = 0 THEN <<>> ELSE upTo[n - 1] \o <<"(">> \o CommaList(pairs[n]) \o <<")">>
  IN upTo[Len(pairs)]

List(word, keys) == word \o <<"[">> \o CommaList(keys) \o <<"]">>

\* How a command with arguments is written, without the line feed.
Written(cmd, args) ==
  CASE cmd = "WRITE"       -> WRITE \o <<"[">> \o Pairs(args) \o <<"]">>
    [] cmd = "READ"        -> List(READ, args)
    [] cmd = "DELETE"      -> List(DELETE, args)
    [] cmd = "SUBSCRIBE"   -> List(SUBSCRIBE, args)
    [] cmd = "UNSUBSCRIBE" -> List(UNSUBSCRIBE, args)

WithArguments == {"WRITE", "READ", "DELETE", "SUBSCRIBE", "UNSUBSCRIBE"}
SeqsUpTo(S, n) == UNION {[1 .. k -> S] : k \in 1 .. n}

\* The lines of the language and what they mean, up to the limits of the arrays.
Meanings(who) ==
  LET commands ==
        IF who = "job"
        THEN [cmd : {"WRITE"}, args : SeqsUpTo([1 .. 2 -> Strings], MAX_WRITE_SIZE - 1)]
               \cup [cmd : {"READ", "DELETE"}, args : SeqsUpTo(Strings, MAX_WRITE_SIZE - 1)]
        ELSE [cmd : {"SUBSCRIBE", "UNSUBSCRIBE"}, args : SeqsUpTo(Strings, 1)]
      alone == IF who = "job" THEN {<<SHOW, "SHOW">>, <<BACKUP, "BACKUP">>, <<HELP, "HELP">>}
                              ELSE {<<DISCONNECT, "DISCONNECT">>}
      delay == IF who = "job" THEN <<WAIT, "WAIT">> ELSE <<DELAY, "DELAY">>
  IN {<<Written(c.cmd, c.args), c>> : c \in commands}
       \cup {<<a[1], [cmd |-> a[2], args |-> <<>>]>> : a \in alone}
       \cup {<<delay[1] \o <<d>>, [cmd |-> delay[2], args |-> <<>>]>> :
               d \in Digits \ {HugeNumber}}
       \cup {<<<<>>, [cmd |-> "EMPTY", args |-> <<>>]>>}

JobMeanings    == Meanings("job")
ClientMeanings == Meanings("client")

-----------------------------------------------------------------------------
(* What holds.                                                             *)

\* A line of the language is understood, whatever came before it: where a parser
\* resumes at one it takes that command with those arguments and nothing else, up
\* to the limits of its arrays (parser.c:96-315, client/parser.c:95-194).
LinesUnderstood ==
  LET end  == Find(text, last.from, {NL})
      line == SubSeq(text, last.from, end - 1)
      meanings == IF loop = "job" THEN JobMeanings ELSE ClientMeanings
  IN \A m \in {n \in meanings : n[1] = line /\ end <= Len(text) /\ last.cmd # "none"} :
       last.cmd = m[2].cmd /\ last.args = m[2].args /\ place = end + 1

\* What is taken was written: the characters a command with arguments was read
\* from are those that write it, line feeds in its keys and values included.
TakenAsWritten ==
  last.cmd \in WithArguments =>
    SubSeq(text, last.from, place - 1) = Written(last.cmd, last.args) \o <<NL>>

\* However a line is wrong, the parser goes on at the beginning of a line: no
\* command is made of the rest of one that was refused.  Only the client's DELAY
\* leaves what follows its number (parser.c:88-94, client/parser.c:185-194).
ResumesAtLine ==
  \/ place = 1 \/ place > Len(text) \/ text[place - 1] = NL
  \/ last.cmd = "DELAY"

\* What is taken fits: strings with the zero behind them, pairs and keys into their
\* arrays.  The zero of a string that is too long is stored behind its array before
\* the command is refused (parser.c:22-47, 219, 262).
TakenFits ==
  last.cmd \in WithArguments =>
    /\ Len(last.args) <= IF loop = "job" THEN MAX_WRITE_SIZE ELSE 1
    /\ \A i \in DOMAIN last.args :
         IF last.cmd = "WRITE" THEN \A j \in 1 .. 2 : Len(last.args[i][j]) < MAX_STRING_SIZE
                               ELSE Len(last.args[i]) < MAX_STRING_SIZE
=============================================================================
