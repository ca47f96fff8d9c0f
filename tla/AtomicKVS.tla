------------------------------ MODULE AtomicKVS ------------------------------
(***************************************************************************)
(* What the key-value store promises its threads: a command, with all its  *)
(* pairs, takes effect in one instant between its call and its return.     *)
(* The result of a SHOW or of a BACKUP is the whole store at that instant. *)
(***************************************************************************)
EXTENDS Integers, Sequences, FiniteSets

CONSTANTS Threads, Commands, Keys, Absent, Removed

VARIABLES store, command, pending, answer
vars == <<store, command, pending, answer>>

Positions(c, k) == {j \in DOMAIN c.keys : c.keys[j] = k}

\* The last pair of a WRITE that names a key wins.
LastAt(c, k) == CHOOSE j \in Positions(c, k) : \A i \in Positions(c, k) : i <= j

After(c, s) ==
  [k \in Keys |->
     IF c.op \notin {"WRITE", "DELETE"} \/ Positions(c, k) = {} THEN s[k]
     ELSE IF c.op = "DELETE" THEN Absent ELSE c.values[LastAt(c, k)]]

\* A DELETE finds a key missing when it is not stored or an earlier position
\* of the same DELETE removed it.
DeleteAnswer(c, s) ==
  [j \in DOMAIN c.keys |->
     IF s[c.keys[j]] = Absent \/ \E i \in 1 .. j - 1 : c.keys[i] = c.keys[j]
     THEN Absent ELSE Removed]

Answer(c, s) ==
  CASE c.op = "WRITE"              -> <<>>
    [] c.op = "READ"               -> [j \in DOMAIN c.keys |-> s[c.keys[j]]]
    [] c.op = "DELETE"             -> DeleteAnswer(c, s)
    [] c.op = "EXISTS"             -> <<s[c.keys[1]] # Absent>>
    [] c.op \in {"SHOW", "BACKUP"} -> s

NoCommand == [op |-> "NONE", keys |-> <<>>, values |-> <<>>]

Init ==
  /\ store = [k \in Keys |-> Absent]
  /\ command = [t \in Threads |-> NoCommand]
  /\ pending = [t \in Threads |-> FALSE]
  /\ answer = [t \in Threads |-> <<>>]

Call(t) ==
  /\ ~ pending[t]
  /\ \E c \in Commands : command' = [command EXCEPT ![t] = c]
  /\ pending' = [pending EXCEPT ![t] = TRUE]
  /\ answer' = [answer EXCEPT ![t] = <<>>]
  /\ UNCHANGED store

Perform(t) ==
  /\ pending[t]
  /\ pending' = [pending EXCEPT ![t] = FALSE]
  /\ store' = After(command[t], store)
  /\ answer' = [answer EXCEPT ![t] = Answer(command[t], store)]
  /\ UNCHANGED command

Next == \E t \in Threads : Call(t) \/ Perform(t)

Spec == Init /\ [][Next]_vars
=============================================================================
