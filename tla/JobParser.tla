------------------------------ MODULE JobParser ------------------------------
(***************************************************************************)
(* The parser of job files (src/server/parser.c).                          *)
(***************************************************************************)
EXTENDS CommandText

CONSTANT MAX_WRITE_SIZE

WRITE  == <<"W", "R", "I", "T", "E", " ">>
WAIT   == <<"W", "A", "I", "T", " ">>
READ   == <<"R", "E", "A", "D", " ">>
DELETE == <<"D", "E", "L", "E", "T", "E", " ">>
SHOW   == <<"S", "H", "O", "W">>
BACKUP == <<"B", "A", "C", "K", "U", "P">>
HELP   == <<"H", "E", "L", "P">>

ASSUME JobParserAssumption ==
  /\ MAX_WRITE_SIZE \in Nat \ {0}
  /\ {WRITE, WAIT, READ, DELETE, SHOW, BACKUP, HELP} \subseteq Seq(Characters)

\* The word of the next command.  WAIT is tried first; WRITE is one longer.
job_get_next(text, p) ==
  LET first == Chars(text, p, 1) IN
  CASE first = <<>>    -> Command("EOC", <<>>, p)
    [] first = <<"W">> -> IF Chars(text, p, Len(WAIT)) = WAIT
                          THEN Command("WAIT", <<>>, p + Len(WAIT))
                          ELSE Word(text, p, WRITE, "WRITE")
    [] first = <<"R">> -> Word(text, p, READ, "READ")
    [] first = <<"D">> -> Word(text, p, DELETE, "DELETE")
    [] first = <<"S">> -> WordAlone(text, p, SHOW, "SHOW")
    [] first = <<"B">> -> WordAlone(text, p, BACKUP, "BACKUP")
    [] first = <<"H">> -> WordAlone(text, p, HELP, "HELP")
    [] first = <<"#">> -> Command("EMPTY", <<>>, cleanup(text, p + 1))
    [] first = <<NL>>  -> Command("EMPTY", <<>>, p + 1)
    [] OTHER           -> Refused(text, p + 1)

\* A pair that is wrong has been cleaned up after by the time its caller does
\* so once more.
parse_pair(text, p) ==
  LET key   == read_string(text, p, MAX_STRING_SIZE)
      value == read_string(text, key.next, MAX_STRING_SIZE)
      wrong(q) == [ok |-> FALSE, pair |-> <<>>, next |-> cleanup(text, q)]
  IN CASE key.value # 0                    -> wrong(key.next)
       [] key.value = 0 /\ value.value # 1 -> wrong(value.next)
       [] OTHER -> [ok |-> TRUE, pair |-> <<key.string, value.string>>, next |-> value.next]

\* The pairs of a WRITE up to its bracket, as KeyList does for keys.
PairFrom(text, q, more) ==
  LET pair == parse_pair(text, q)
      ch   == Chars(text, pair.next, 1)
      past == After(text, pair.next, 1)
  IN CASE ~ pair.ok -> [end |-> "wrong", pairs |-> <<>>, next |-> pair.next]
       [] pair.ok /\ ch = <<"]">> ->
            [end |-> "closed", pairs |-> <<pair.pair>>, next |-> past]
       [] pair.ok /\ ch = <<"(">> ->
            [more[past] EXCEPT !.pairs = <<pair.pair>> \o more[past].pairs]
       [] OTHER -> [end |-> "wrong", pairs |-> <<>>, next |-> past]

PairList(text, p, max) ==
  LET from[n \in 0 .. max] ==
        [q \in 1 .. Len(text) + 1 |->
           IF n = 0 THEN [end |-> "full", pairs |-> <<>>, next |-> q]
                    ELSE PairFrom(text, q, from[n - 1])]
  IN from[max][p]

\* Mutant: whatever follows the bracket is taken for the end of the line.
parse_write_open(text, p) ==
  LET list == PairList(text, p + 2, MAX_WRITE_SIZE) IN
  IF Chars(text, p, 2) # <<"[", "(">> THEN Refused(text, After(text, p, 1))
  ELSE IF list.end = "closed" /\ Len(list.pairs) < MAX_WRITE_SIZE
  THEN Command("WRITE", list.pairs, After(text, list.next, 1))
  ELSE Refused(text, list.next)

\* As many pairs as there is room for are refused even when the bracket follows.
parse_write(text, p) ==
  LET list == PairList(text, p + 2, MAX_WRITE_SIZE) IN
  IF Chars(text, p, 1) # <<"[">> THEN Refused(text, After(text, p, 1))
  ELSE IF Chars(text, p, 2) # <<"[", "(">> THEN Refused(text, After(text, p, 2))
  ELSE IF list.end = "closed" /\ Len(list.pairs) < MAX_WRITE_SIZE
  THEN EndOfLine(text, list.next, "WRITE", list.pairs)
  ELSE Refused(text, list.next)

KeysBelow(text, p, cmd, limit) ==
  LET list == KeyList(text, p + 1, MAX_WRITE_SIZE) IN
  IF Chars(text, p, 1) # <<"[">> THEN Refused(text, After(text, p, 1))
  ELSE IF list.end = "closed" /\ Len(list.keys) < limit
  THEN EndOfLine(text, list.next, cmd, list.keys)
  ELSE Refused(text, list.next)

\* Mutant: one key less.
parse_read_delete_fewer(text, p, cmd) == KeysBelow(text, p, cmd, MAX_WRITE_SIZE - 1)

parse_read_delete(text, p, cmd) == KeysBelow(text, p, cmd, MAX_WRITE_SIZE)

\* A blank after the number ends it: the rest of the line may hold anything, as
\* run_job passes no place for a thread's number.
parse_wait(text, p, garbageFits) ==
  LET number == read_uint(text, p, garbageFits) IN
  CASE number.fits /\ number.ch = " " -> Command("WAIT", <<>>, cleanup(text, number.next))
    [] number.fits /\ number.ch \in {NL, EOT} -> Command("WAIT", <<>>, number.next)
    [] OTHER -> Refused(text, number.next)

\* One turn of the loop of run_job, as far as it reads.
JobCommand(text, p, garbageFits) ==
  LET word == job_get_next(text, p) IN
  CASE word.cmd = "WRITE" -> parse_write(text, word.next)
    [] word.cmd \in {"READ", "DELETE"} -> parse_read_delete(text, word.next, word.cmd)
    [] word.cmd = "WAIT"  -> parse_wait(text, word.next, garbageFits)
    [] OTHER -> word
=============================================================================
