--------------------------- MODULE MCCommandLoops ---------------------------
\* Texts: a line of the language, or one that differs from it in one character, or two
\* such, then lines that are to be understood, with and without the last line feed.
EXTENDS CommandLoops, SequencesExt

MCStrings == {<<"k">>, <<"k", "1">>}

Edited(line, chars) ==
  {line} \cup {RemoveAt(line, i) : i \in DOMAIN line}
    \cup {InsertAt(line, i, c) : i \in DOMAIN line, c \in chars}
    \cup {ReplaceAt(line, i, c) : i \in DOMAIN line, c \in chars}
    \cup {SubSeq(line, 1, i) : i \in DOMAIN line}

Chunks(lines, chars) == UNION {Edited(l \o <<NL>>, chars) : l \in lines}
Follow(texts, lines) == texts \cup {t \o l : t \in texts, l \in lines}

Signs == {" ", ",", ")", "]", "[", "(", "1", "k", "#", NL}

JobLines ==
  {Written("WRITE", <<<<<<"k">>, <<"1">>>>>>),
   Written("WRITE", <<<<<<"k">>, <<"1">>>>, <<<<"k">>, <<"k", "1">>>>>>),
   Written("READ", <<<<"k">>, <<"k", "1">>>>), Written("DELETE", <<<<"k">>>>),
   Written("READ", <<<<"k">>, <<"1">>, <<"k">>>>),
   Written("WRITE", <<<<<<"k">>, <<"1">>>>, <<<<"k">>, <<"1">>>>, <<<<"k">>, <<"1">>>>>>),
   SHOW, BACKUP, HELP, WAIT \o <<"1">>, WAIT \o <<"9">>, <<"#", "k">>}

ClientLines ==
  {Written("SUBSCRIBE", <<<<"k">>>>), Written("UNSUBSCRIBE", <<<<"k", "1">>>>),
   DELAY \o <<"1">>, DELAY \o <<"9">>, DISCONNECT, <<"#", "k">>}

JobEnds == {SHOW \o <<NL>>, HELP \o <<NL>> \o Written("READ", <<<<"k">>>>) \o <<NL>>}
ClientEnds == {DISCONNECT, Written("SUBSCRIBE", <<<<"k">>>>) \o <<NL>> \o DISCONNECT}

MCCharacters ==
  Signs \cup {"9"} \cup
    UNION {Range(w) : w \in {WRITE, WAIT, READ, DELETE, SHOW, BACKUP, HELP,
                             SUBSCRIBE, UNSUBSCRIBE, DELAY, DISCONNECT}}

MCJobTexts    == Follow(Chunks(JobLines, Signs), JobEnds)
MCClientTexts == Follow(Chunks(ClientLines, Signs), ClientEnds)
=============================================================================
