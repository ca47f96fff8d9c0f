------------------------------ MODULE MCKVStore ------------------------------
EXTENDS KVStore, TLC
CONSTANTS ant, Apple, zero, t1, t2, x, y

\* "ant", "Apple" and a key that starts with 0: three keys in one chain.
MCInitial == (ant :> 97) @@ (Apple :> 65) @@ (zero :> 48)

MCCommand(op, keys, values) == [op |-> op, keys |-> keys, values |-> values]
MCCommands ==
  { MCCommand("WRITE", <<ant, zero>>, <<y, x>>),
    MCCommand("WRITE", <<Apple, Apple>>, <<x, y>>),
    MCCommand("DELETE", <<zero, zero>>, <<>>),
    MCCommand("DELETE", <<ant, Apple>>, <<>>),
    MCCommand("READ", <<zero, ant>>, <<>>),
    MCCommand("EXISTS", <<Apple>>, <<>>),
    MCCommand("SHOW", <<>>, <<>>),
    MCCommand("BACKUP", <<>>, <<>>) }
=============================================================================
