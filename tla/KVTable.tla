------------------------------- MODULE KVTable -------------------------------
(***************************************************************************)
(* The hash table of src/server/kvs.c as operators on its value: an array  *)
(* of TABLE_SIZE chains of key nodes, a chain being the sequence of its    *)
(* nodes from the head on.  Of a key only its identity and the character   *)
(* code of its first letter matter to this code.                           *)
(***************************************************************************)
EXTENDS Integers, Sequences

CONSTANTS
  TABLE_SIZE,
  Keys, Values,
  Initial,     \* the character code of key[0], of each key
  Absent       \* read_pair's NULL

Node == [key : Keys, value : Values]
Buckets == 0 .. TABLE_SIZE - 1

\* tolower, then letters and digits each counted from 0.
hash(key) ==
  LET firstLetter == IF Initial[key] \in 65 .. 90 THEN Initial[key] + 32
                                                  ELSE Initial[key]
  IN  CASE firstLetter \in 97 .. 122 -> firstLetter - 97
        [] firstLetter \in 48 .. 57  -> firstLetter - 48
        [] OTHER -> -1

\* Keys of the kind the code is written for (kvs.c:9): for any other one hash
\* is -1 and the functions below read and write table[-1].
ASSUME KVTableAssumption ==
  /\ TABLE_SIZE \in Nat
  /\ Initial \in [Keys -> Nat]
  /\ \A k \in Keys : hash(k) \in Buckets
  /\ Absent \notin Values

\* The first node of a chain with the key, where the while loops stop.
Has(chain, key) == \E i \in DOMAIN chain : chain[i].key = key
FirstAt(chain, key) ==
  CHOOSE i \in DOMAIN chain :
    chain[i].key = key /\ \A j \in DOMAIN chain : chain[j].key = key => i <= j

EmptyTable == [i \in Buckets |-> <<>>]

\* Mutant: the chain is not searched for the key.
write_pair_blind(table, key, value) ==
  [table EXCEPT ![hash(key)] = <<[key |-> key, value |-> value]>> \o @]

write_pair(table, key, value) ==
  LET chain == table[hash(key)]
      node  == [key |-> key, value |-> value]
  IN  [table EXCEPT ![hash(key)] =
         IF Has(chain, key) THEN [chain EXCEPT ![FirstAt(chain, key)] = node]
                            ELSE <<node>> \o chain]

read_pair(table, key) ==
  LET chain == table[hash(key)]
  IN  IF Has(chain, key) THEN chain[FirstAt(chain, key)].value ELSE Absent

\* Mutant: the node stays, without its value.
delete_pair_lazy(table, key) ==
  LET chain == table[hash(key)]
  IN  IF Has(chain, key)
      THEN [table EXCEPT ![hash(key)][FirstAt(chain, key)].value = Absent]
      ELSE table

delete_pair(table, key) ==
  LET chain == table[hash(key)]
      at == FirstAt(chain, key)
  IN  IF Has(chain, key)
      THEN [table EXCEPT ![hash(key)] = SubSeq(chain, 1, at - 1)
                                        \o SubSeq(chain, at + 1, Len(chain))]
      ELSE table

\* Every node is in the chain of its key's hash, and no key has two nodes.
ChainsOK(table) ==
  \A i \in Buckets : \A a \in DOMAIN table[i] :
    /\ hash(table[i][a].key) = i
    /\ \A b \in DOMAIN table[i] : table[i][a].key = table[i][b].key => a = b

\* What the table stores: the value of each key.
Contents(table) == [k \in Keys |-> read_pair(table, k)]
=============================================================================
