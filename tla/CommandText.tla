----------------------------- MODULE CommandText -----------------------------
(***************************************************************************)
(* How both parsers read: characters of a file, one after the other, with  *)
(* nothing ever put back (read_string, read_uint and cleanup, which        *)
(* src/server/parser.c and src/client/parser.c share word for word).       *)
(*                                                                         *)
(* A text is a sequence of characters, a place in it the index of the next *)
(* one to read.  Every result has the place where the reading stopped.     *)
(***************************************************************************)
EXTENDS Integers, Sequences

CONSTANTS
  MAX_STRING_SIZE,
  Characters,   \* of the files
  Digits,       \* those that are digits
  HugeNumber    \* one of them stands for digits that make more than UINT_MAX

NL  == "\n"
EOT == "end"  \* what read_uint puts in *next at the end of the file

Marks == {" ", ",", "(", ")", "[", "]", NL}

\* There is no zero in a text, which the parsers would take for its end.
ASSUME CommandTextAssumption ==
  /\ MAX_STRING_SIZE \in Nat \ {0}
  /\ Marks \subseteq Characters /\ Digits \subseteq Characters \ Marks
  /\ HugeNumber \in Digits
  /\ EOT \notin Characters

Least(S) == CHOOSE i \in S : \A j \in S : i <= j

\* read(fd, buf, n) of a file: what it gets, and the place behind it.
Chars(text, p, n) == SubSeq(text, p, Least({p + n - 1, Len(text)}))
After(text, p, n) == Least({p + n, Len(text) + 1})

\* The first place from p on with one of the characters, or the end.
Find(text, p, chars) ==
  Least({i \in p .. Len(text) : text[i] \in chars} \cup {Len(text) + 1})

\* Mutant: the line feed is left.
cleanup_before(text, p) == Find(text, p, {NL})

\* Mutant: the end of the file is passed as well.
cleanup_past(text, p) == Find(text, p, {NL}) + 1

cleanup(text, p) == After(text, Find(text, p, {NL}), 1)

\* A string ends at one of three characters, which give the value; a blank, the end of
\* the file or max characters make it -1.  A line feed is a character like others.
StringUpTo(text, p, max) ==
  LET stop == Find(text, p, {" ", ",", ")", "]"})
      ch   == IF stop <= Len(text) /\ stop < p + max THEN text[stop] ELSE " "
  IN [value  |-> CASE ch = "," -> 0 [] ch = ")" -> 1 [] ch = "]" -> 2 [] OTHER -> -1,
      string |-> SubSeq(text, p, stop - 1),
      next   |-> Least({After(text, stop, 1), After(text, p, max)})]

\* Mutant: one character too many for the buffer.
read_string_longer(text, p, max) == StringUpTo(text, p, max + 1)

read_string(text, p, max) == StringUpTo(text, p, max)

\* A number, which may have no digits, and the character behind it.  At the end
\* of the file nothing ends the digits in buf: the number is what strtoul makes of
\* them and of what is in buf behind them, which may fit or not.
read_uint(text, p, garbageFits) ==
  LET stop == Find(text, p, {text[i] : i \in DOMAIN text} \ Digits)
  IN [fits |-> /\ stop > Len(text) => garbageFits
               /\ \A i \in p .. stop - 1 : text[i] # HugeNumber,
      ch   |-> IF stop <= Len(text) THEN text[stop] ELSE EOT,
      next |-> After(text, stop, 1)]

-----------------------------------------------------------------------------
(* Results of get_next and of the functions that read arguments.           *)

Command(cmd, args, place) == [cmd |-> cmd, args |-> args, next |-> place]
Refused(text, p) == Command("INVALID", <<>>, cleanup(text, p))

\* A word of fixed length, read in one go.
Word(text, p, word, cmd) ==
  IF Chars(text, p, Len(word)) = word
  THEN Command(cmd, <<>>, p + Len(word))
  ELSE Refused(text, After(text, p, Len(word)))

\* A word with nothing after it on its line; the end of the file will do.
WordAlone(text, p, word, cmd) ==
  LET q == After(text, p, Len(word)) IN
  IF Chars(text, p, Len(word)) = word /\ Chars(text, q, 1) \in {<<>>, <<NL>>}
  THEN Command(cmd, <<>>, After(text, q, 1))
  ELSE Refused(text, IF Chars(text, p, Len(word)) = word THEN q + 1 ELSE q)

\* The keys of a list up to its bracket, at most max of them: they are closed, there
\* are too many, or something else is wrong.  One turn of the loop, and the keys that
\* are found with room for max of them.
KeyFrom(text, q, more) ==
  LET key == read_string(text, q, MAX_STRING_SIZE)
  IN CASE key.value = 2 -> [end |-> "closed", keys |-> <<key.string>>, next |-> key.next]
       [] key.value = 0 ->
            [more[key.next] EXCEPT !.keys = <<key.string>> \o more[key.next].keys]
       [] OTHER -> [end |-> "wrong", keys |-> <<>>, next |-> key.next]

KeyList(text, p, max) ==
  LET from[n \in 0 .. max] ==
        [q \in 1 .. Len(text) + 1 |->
           IF n = 0 THEN [end |-> "full", keys |-> <<>>, next |-> q]
                    ELSE KeyFrom(text, q, from[n - 1])]
  IN from[max][p]

\* What has to come after the closing bracket.
EndOfLine(text, p, cmd, args) ==
  IF Chars(text, p, 1) = <<NL>> THEN Command(cmd, args, p + 1)
  ELSE Refused(text, After(text, p, 1))
=============================================================================
