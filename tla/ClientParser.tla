---------------------------- MODULE ClientParser ----------------------------
(***************************************************************************)
(* The parser of the client's commands (src/client/parser.c), which come   *)
(* from a file its standard input is redirected to.                        *)
(***************************************************************************)
EXTENDS CommandText

SUBSCRIBE   == <<"S", "U", "B", "S", "C", "R", "I", "B", "E", " ">>
UNSUBSCRIBE == <<"U", "N", "S", "U", "B", "S", "C", "R", "I", "B", "E", " ">>
DELAY       == <<"D", "E", "L", "A", "Y", " ">>
DISCONNECT  == <<"D", "I", "S", "C", "O", "N", "N", "E", "C", "T">>

ASSUME ClientParserAssumption ==
  {SUBSCRIBE, UNSUBSCRIBE, DELAY, DISCONNECT} \subseteq Seq(Characters)

client_get_next(text, p) ==
  LET first == Chars(text, p, 1) IN
  CASE first = <<>>    -> Command("EOC", <<>>, p)
    [] first = <<"S">> -> Word(text, p, SUBSCRIBE, "SUBSCRIBE")
    [] first = <<"U">> -> Word(text, p, UNSUBSCRIBE, "UNSUBSCRIBE")
    [] first = <<"D">> -> IF Chars(text, p, Len(DELAY)) = DELAY
                          THEN Command("DELAY", <<>>, p + Len(DELAY))
                          ELSE WordAlone(text, p, DISCONNECT, "DISCONNECT")
    [] first = <<"#">> -> Command("EMPTY", <<>>, cleanup(text, p + 1))
    [] first = <<NL>>  -> Command("EMPTY", <<>>, p + 1)
    [] OTHER           -> Refused(text, p + 1)

\* A list of one key, which is what main asks for.  Unlike the server's parser
\* this one takes a list that fills its array.
parse_list(text, p, cmd) ==
  LET list == KeyList(text, p + 1, 1) IN
  IF Chars(text, p, 1) # <<"[">> THEN Refused(text, After(text, p, 1))
  ELSE IF list.end = "closed" THEN EndOfLine(text, list.next, cmd, list.keys)
  ELSE Refused(text, list.next)

\* The character after the number is read and not looked at.
parse_delay(text, p, garbageFits) ==
  LET number == read_uint(text, p, garbageFits) IN
  IF number.fits THEN Command("DELAY", <<>>, number.next) ELSE Refused(text, number.next)

\* One turn of the loop of main, as far as it reads.
ClientCommand(text, p, garbageFits) ==
  LET word == client_get_next(text, p) IN
  CASE word.cmd \in {"SUBSCRIBE", "UNSUBSCRIBE"} -> parse_list(text, word.next, word.cmd)
    [] word.cmd = "DELAY" -> parse_delay(text, word.next, garbageFits)
    [] OTHER -> word
=============================================================================
