---------------------------- MODULE KVStoreProofs ----------------------------
(***************************************************************************)
(* Proofs about KVStore: the chains stay in order, the lock excludes, and  *)
(* KVStore implements AtomicKVS, for every set of threads, keys, values    *)
(* and commands, batches of any length included.  First what the operators *)
(* of KVTable do: they keep the chains in order and change the contents at *)
(* one key only.                                                           *)
(***************************************************************************)
EXTENDS KVStore, SequenceTheorems, TLAPS

-----------------------------------------------------------------------------
(* What the operators of the hash table do, for every table, key and value. *)

Tables == {T \in [Buckets -> Seq(Node)] : ChainsOK(T)}

\* The hash of a key is an index of the table (kvs.c:13-21).
LEMMA HashInRange == \A k \in Keys : hash(k) \in Buckets
  BY KVTableAssumption

\* In a chain without duplicates the first node with a key is the only one.
LEMMA FirstIsOnly ==
  ASSUME NEW T \in Tables, NEW b \in Buckets,
         NEW i \in DOMAIN T[b]
  PROVE  Has(T[b], T[b][i].key) /\ FirstAt(T[b], T[b][i].key) = i
<1> DEFINE C == T[b]
<1>1. C \in Seq(Node) /\ DOMAIN C = 1 .. Len(C) /\ Len(C) \in Nat
  BY LenProperties DEF Tables
<1>2. \A j \in DOMAIN C : C[j].key = C[i].key => j = i
  BY DEF Tables, ChainsOK
<1> QED BY <1>1, <1>2 DEF Has, FirstAt

\* Reading a key gives the value of its node, or Absent when it has none.
LEMMA ReadFinds ==
  ASSUME NEW T \in Tables, NEW k \in Keys
  PROVE  /\ \A i \in DOMAIN T[hash(k)] :
              T[hash(k)][i].key = k => read_pair(T, k) = T[hash(k)][i].value
         /\ ~ Has(T[hash(k)], k) => read_pair(T, k) = Absent
         /\ Has(T[hash(k)], k) => read_pair(T, k) \in Values
         /\ Has(T[hash(k)], k) <=> read_pair(T, k) # Absent
<1> DEFINE C == T[hash(k)]
<1>1. hash(k) \in Buckets BY HashInRange
<1>2. C \in Seq(Node) BY <1>1 DEF Tables
<1>3. \A i \in DOMAIN C : C[i].value \in Values
  <2>1. \A i \in DOMAIN C : C[i] \in Node BY <1>2, LenProperties
  <2> QED BY <2>1 DEF Node
<1>4. ASSUME NEW i \in DOMAIN C, C[i].key = k
      PROVE  read_pair(T, k) = C[i].value
  BY <1>1, <1>4, FirstIsOnly DEF read_pair
<1>5. ~ Has(C, k) => read_pair(T, k) = Absent BY DEF read_pair
<1>6. Has(C, k) => read_pair(T, k) \in Values
  BY <1>3, <1>4 DEF Has
<1> QED BY <1>4, <1>5, <1>6, KVTableAssumption

\* A chain fit for the bucket of k.
ChainFor(k, D) ==
  /\ D \in Seq(Node)
  /\ \A a \in DOMAIN D : /\ hash(D[a].key) = hash(k)
                         /\ \A b \in DOMAIN D : D[a].key = D[b].key => a = b

\* Two chains with the same nodes, but for those of k.
SameButFor(k, C, D) ==
  /\ \A i \in DOMAIN C : C[i].key # k => \E j \in DOMAIN D : D[j] = C[i]
  /\ \A j \in DOMAIN D : D[j].key # k => \E i \in DOMAIN C : D[j] = C[i]

\* Replacing the chain of k by one with the same nodes of other keys gives a
\* table that reads like T at the other keys.
LEMMA NewChain ==
  ASSUME NEW T \in Tables, NEW k \in Keys, NEW D,
         ChainFor(k, D), SameButFor(k, T[hash(k)], D),
         NEW U \in [Buckets -> Seq(Node)],
         U[hash(k)] = D, \A b \in Buckets : b # hash(k) => U[b] = T[b]
  PROVE  /\ U \in Tables
         /\ \A q \in Keys : q # k => read_pair(U, q) = read_pair(T, q)
<1>1. U \in Tables
  <2> SUFFICES ASSUME NEW b \in Buckets, NEW a \in DOMAIN U[b]
               PROVE  /\ hash(U[b][a].key) = b
                      /\ \A c \in DOMAIN U[b] : U[b][a].key = U[b][c].key => a = c
    BY DEF Tables, ChainsOK
  <2>1. CASE b = hash(k) BY <2>1 DEF ChainFor
  <2>2. CASE b # hash(k) BY <2>2 DEF Tables, ChainsOK
  <2> QED BY <2>1, <2>2
<1>2. ASSUME NEW q \in Keys, q # k PROVE read_pair(U, q) = read_pair(T, q)
  <2>1. hash(q) \in Buckets BY HashInRange
  <2>2. CASE hash(q) # hash(k) BY <1>1, <2>1, <2>2 DEF read_pair
  <2>3. CASE hash(q) = hash(k)
    <3>1. CASE Has(T[hash(q)], q)
      <4> PICK i \in DOMAIN T[hash(q)] : T[hash(q)][i].key = q BY <3>1 DEF Has
      <4> PICK j \in DOMAIN U[hash(q)] : U[hash(q)][j] = T[hash(q)][i]
        BY <1>1, <1>2, <2>3 DEF SameButFor
      <4>1. read_pair(T, q) = T[hash(q)][i].value BY ReadFinds
      <4>2. U[hash(q)][j].key = q OBVIOUS
      <4>3. read_pair(U, q) = U[hash(q)][j].value BY <1>1, <4>2, ReadFinds
      <4> QED BY <4>1, <4>3
    <3>2. CASE ~ Has(T[hash(q)], q)
      <4>1. ~ Has(U[hash(q)], q) BY <1>1, <1>2, <2>3, <3>2 DEF Has, SameButFor
      <4> QED BY <1>1, <3>2, <4>1, ReadFinds
    <3> QED BY <3>1, <3>2
  <2> QED BY <2>2, <2>3
<1> QED BY <1>1, <1>2

\* write_pair sets the value of its key and nothing else.
LEMMA WritePairSets ==
  ASSUME NEW T \in Tables, NEW k \in Keys, NEW v \in Values
  PROVE  /\ write_pair(T, k, v) \in Tables
         /\ \A q \in Keys : read_pair(write_pair(T, k, v), q) =
                              IF q = k THEN v ELSE read_pair(T, q)
<1> DEFINE h == hash(k)
           C == T[h]
           n == [key |-> k, value |-> v]
           U == write_pair(T, k, v)
<1>1. h \in Buckets /\ C \in Seq(Node) /\ n \in Node
  BY HashInRange DEF Tables, Node
<1>2. /\ Len(C) \in Nat /\ DOMAIN C = 1 .. Len(C)
      /\ \A a \in DOMAIN C : C[a] \in Node /\ hash(C[a].key) = h
      /\ \A a, b \in DOMAIN C : C[a].key = C[b].key => a = b
  BY <1>1, LenProperties DEF Tables, ChainsOK
<1>3. CASE Has(C, k)
  <2>1. PICK i \in DOMAIN C : C[i].key = k BY <1>3 DEF Has
  <2>2. FirstAt(C, k) = i BY <1>1, <2>1, FirstIsOnly
  <2> DEFINE D == [C EXCEPT ![i] = n]
  <2>3. /\ D \in Seq(Node) /\ DOMAIN D = DOMAIN C
        /\ \A j \in DOMAIN C : D[j] = IF j = i THEN n ELSE C[j]
    BY <1>1, <1>2, <2>1, ExceptSeq
  <2>4. /\ U \in [Buckets -> Seq(Node)] /\ U[h] = D
        /\ \A b \in Buckets : b # h => U[b] = T[b]
    <3>1. U = [T EXCEPT ![h] = D] BY <1>3, <2>2 DEF write_pair
    <3> HIDE DEF D
    <3> QED BY <1>1, <2>3, <3>1 DEF Tables
  <2> HIDE DEF D, U
  <2>5. ChainFor(k, D) BY <1>2, <2>1, <2>3 DEF ChainFor
  <2>6. SameButFor(k, C, D) BY <2>1, <2>3 DEF SameButFor
  <2>7. /\ U \in Tables
        /\ \A q \in Keys : q # k => read_pair(U, q) = read_pair(T, q)
    BY <2>4, <2>5, <2>6, NewChain
  <2>8. read_pair(U, k) = v BY <2>1, <2>3, <2>4, <2>7, ReadFinds
  <2> QED BY <2>7, <2>8 DEF U
<1>4. CASE ~ Has(C, k)
  <2> DEFINE D == <<n>> \o C
  <2>1. <<n>> \in Seq(Node) /\ Len(<<n>>) = 1 /\ <<n>>[1] = n BY <1>1
  <2>2. /\ D \in Seq(Node) /\ Len(D) = 1 + Len(C)
        /\ \A j \in 1 .. 1 + Len(C) : D[j] = IF j <= 1 THEN <<n>>[j] ELSE C[j - 1]
    BY <1>1, <2>1, ConcatProperties
  <2>3. /\ DOMAIN D = 1 .. 1 + Len(C)
        /\ D[1] = n
        /\ \A j \in DOMAIN D : j # 1 => j - 1 \in DOMAIN C /\ D[j] = C[j - 1]
        /\ \A j \in DOMAIN C : j + 1 \in DOMAIN D /\ D[j + 1] = C[j]
    BY <1>2, <2>1, <2>2, LenProperties
  <2>4. /\ U \in [Buckets -> Seq(Node)] /\ U[h] = D
        /\ \A b \in Buckets : b # h => U[b] = T[b]
    <3>1. U = [T EXCEPT ![h] = D] BY <1>4 DEF write_pair
    <3> HIDE DEF D
    <3> QED BY <1>1, <2>2, <3>1 DEF Tables
  <2> HIDE DEF D, U
  <2>5. ChainFor(k, D)
    <3>1. \A a \in DOMAIN C : C[a].key # k BY <1>4 DEF Has
    <3>2. ASSUME NEW a \in DOMAIN D, NEW b \in DOMAIN D
          PROVE  hash(D[a].key) = h /\ (D[a].key = D[b].key => a = b)
      <4>1. a \in Nat /\ b \in Nat /\ D[1].key = k BY <1>2, <2>3
      <4>2. \A i \in DOMAIN D : i # 1 =>
              i - 1 \in DOMAIN C /\ D[i] = C[i - 1] /\ D[i].key # k
        BY <2>3, <3>1
      <4>3. hash(D[a].key) = h BY <1>2, <4>1, <4>2
      <4>4. CASE a = 1 \/ b = 1 BY <4>1, <4>2, <4>3, <4>4
      <4>5. CASE a # 1 /\ b # 1
        <5>1. a - 1 \in DOMAIN C /\ b - 1 \in DOMAIN C BY <4>2, <4>5
        <5>2. D[a].key = D[b].key => a - 1 = b - 1
          BY <1>2, <4>2, <4>5, <5>1
        <5> QED BY <4>1, <4>3, <5>2
      <4> QED BY <4>3, <4>4, <4>5
    <3> QED BY <2>2, <3>2 DEF ChainFor
  <2>6. SameButFor(k, C, D) BY <2>3 DEF SameButFor
  <2>7. /\ U \in Tables
        /\ \A q \in Keys : q # k => read_pair(U, q) = read_pair(T, q)
    BY <2>4, <2>5, <2>6, NewChain
  <2>8. read_pair(U, k) = v
    <3>1. 1 \in DOMAIN D BY <1>2, <2>3
    <3> QED BY <2>3, <2>4, <2>7, <3>1, ReadFinds
  <2> QED BY <2>7, <2>8 DEF U
<1> QED BY <1>3, <1>4

\* A sequence without its i-th element, as delete_pair relinks the chain.
LEMMA WithoutOne ==
  ASSUME NEW S, NEW C \in Seq(S), NEW i \in 1 .. Len(C)
  PROVE  /\ SubSeq(C, 1, i - 1) \o SubSeq(C, i + 1, Len(C)) \in Seq(S)
         /\ Len(SubSeq(C, 1, i - 1) \o SubSeq(C, i + 1, Len(C))) = Len(C) - 1
         /\ \A j \in 1 .. Len(C) - 1 :
              (SubSeq(C, 1, i - 1) \o SubSeq(C, i + 1, Len(C)))[j] =
                IF j < i THEN C[j] ELSE C[j + 1]
<1> DEFINE L == SubSeq(C, 1, i - 1)
           R == SubSeq(C, i + 1, Len(C))
<1>1. Len(C) \in Nat /\ i \in Nat /\ i <= Len(C) /\ i >= 1
  BY LenProperties
<1>2. /\ L \in Seq(S) /\ Len(L) = i - 1
      /\ \A j \in 1 .. i - 1 : L[j] = C[j]
  <2>1. \A j \in 1 .. i - 1 : C[j] \in S BY <1>1, ElementOfSeq
  <2>2. /\ L \in Seq(S)
        /\ Len(L) = IF 1 <= i - 1 THEN (i - 1) - 1 + 1 ELSE 0
        /\ \A j \in 1 .. (i - 1) - 1 + 1 : L[j] = C[1 + j - 1]
    BY <1>1, <2>1, SubSeqProperties
  <2> HIDE DEF L
  <2> QED BY <1>1, <2>2
<1>3. /\ R \in Seq(S) /\ Len(R) = Len(C) - i
      /\ \A j \in 1 .. Len(C) - i : R[j] = C[i + j]
  <2>1. \A j \in i + 1 .. Len(C) : C[j] \in S BY <1>1, ElementOfSeq
  <2>2. i + 1 \in Int /\ Len(C) \in Int BY <1>1
  <2>3. /\ R \in Seq(S)
        /\ Len(R) = IF i + 1 <= Len(C) THEN Len(C) - (i + 1) + 1 ELSE 0
        /\ \A j \in 1 .. Len(C) - (i + 1) + 1 : R[j] = C[(i + 1) + j - 1]
    BY <2>1, <2>2, SubSeqProperties
  <2> HIDE DEF R
  <2> QED BY <1>1, <2>3
<1> HIDE DEF L, R
<1>4. /\ L \o R \in Seq(S)
      /\ Len(L \o R) = Len(L) + Len(R)
      /\ \A j \in 1 .. Len(L) + Len(R) :
           (L \o R)[j] = IF j <= Len(L) THEN L[j] ELSE R[j - Len(L)]
  BY <1>2, <1>3, ConcatProperties
<1>5. ASSUME NEW j \in 1 .. Len(C) - 1
      PROVE  (L \o R)[j] = IF j < i THEN C[j] ELSE C[j + 1]
  <2>1. CASE j < i BY <1>1, <1>2, <1>3, <1>4, <2>1
  <2>2. CASE j >= i
    <3>1. (L \o R)[j] = R[j - (i - 1)] BY <1>1, <1>2, <1>3, <1>4, <2>2
    <3>2. j - (i - 1) \in 1 .. Len(C) - i BY <1>1, <2>2
    <3>3. R[j - (i - 1)] = C[i + (j - (i - 1))] BY <1>3, <3>2
    <3>4. i + (j - (i - 1)) = j + 1 BY <1>1
    <3> QED BY <1>1, <2>2, <3>1, <3>3, <3>4
  <2>3. j < i \/ j >= i BY <1>1
  <2> QED BY <2>1, <2>2, <2>3
<1>6. Len(L) + Len(R) = Len(C) - 1 BY <1>1, <1>2, <1>3
<1>7. Len(L \o R) = Len(C) - 1 BY <1>4, <1>6
<1> QED BY <1>4, <1>5, <1>7 DEF L, R

\* delete_pair removes its key and nothing else.
LEMMA DeletePairRemoves ==
  ASSUME NEW T \in Tables, NEW k \in Keys
  PROVE  /\ delete_pair(T, k) \in Tables
         /\ \A q \in Keys : read_pair(delete_pair(T, k), q) =
                              IF q = k THEN Absent ELSE read_pair(T, q)
<1> DEFINE h == hash(k)
           C == T[h]
           U == delete_pair(T, k)
<1>1. h \in Buckets /\ C \in Seq(Node)
  BY HashInRange DEF Tables
<1>2. /\ Len(C) \in Nat /\ DOMAIN C = 1 .. Len(C)
      /\ \A a \in DOMAIN C : C[a] \in Node /\ hash(C[a].key) = h
      /\ \A a, b \in DOMAIN C : C[a].key = C[b].key => a = b
  BY <1>1, LenProperties DEF Tables, ChainsOK
<1>3. CASE Has(C, k)
  <2>1. PICK i \in DOMAIN C : C[i].key = k BY <1>3 DEF Has
  <2>2. FirstAt(C, k) = i BY <1>1, <2>1, FirstIsOnly
  <2> DEFINE D == SubSeq(C, 1, i - 1) \o SubSeq(C, i + 1, Len(C))
  <2>5. /\ D \in Seq(Node) /\ Len(D) = Len(C) - 1
        /\ \A j \in 1 .. Len(C) - 1 : D[j] = IF j < i THEN C[j] ELSE C[j + 1]
    BY <1>1, <1>2, <2>1, WithoutOne
  <2>6. /\ DOMAIN D = 1 .. Len(C) - 1
        /\ \A j \in DOMAIN D : \E a \in DOMAIN C :
             a # i /\ D[j] = C[a] /\ a = IF j < i THEN j ELSE j + 1
        /\ \A a \in DOMAIN C : a # i => \E j \in DOMAIN D : D[j] = C[a]
    <3> HIDE DEF D
    <3>1. DOMAIN D = 1 .. Len(C) - 1 BY <2>5, LenProperties
    <3>2. ASSUME NEW j \in DOMAIN D
          PROVE  \E a \in DOMAIN C : a # i /\ D[j] = C[a] /\ a = IF j < i THEN j ELSE j + 1
      BY <1>2, <2>1, <2>5, <3>1
    <3>3. ASSUME NEW a \in DOMAIN C, a # i PROVE \E j \in DOMAIN D : D[j] = C[a]
      <4>1. CASE a < i
        <5>1. a \in DOMAIN D /\ D[a] = C[a] BY <1>2, <2>1, <2>5, <3>1, <4>1
        <5> QED BY <5>1
      <4>2. CASE a > i
        <5>1. a - 1 \in DOMAIN D /\ D[a - 1] = C[a] BY <1>2, <2>1, <2>5, <3>1, <4>2
        <5> QED BY <5>1
      <4> QED BY <1>2, <2>1, <3>3, <4>1, <4>2
    <3> QED BY <3>1, <3>2, <3>3
  <2>7. /\ U \in [Buckets -> Seq(Node)] /\ U[h] = D
        /\ \A b \in Buckets : b # h => U[b] = T[b]
    <3>1. U = [T EXCEPT ![h] = D] BY <1>3, <2>2 DEF delete_pair
    <3> HIDE DEF D
    <3> QED BY <1>1, <2>5, <3>1 DEF Tables
  <2> HIDE DEF D, U
  <2>8. ASSUME NEW a \in DOMAIN D
        PROVE  /\ hash(D[a].key) = h
               /\ \A b \in DOMAIN D : D[a].key = D[b].key => a = b
    <3>1. PICK c \in DOMAIN C : D[a] = C[c] /\ c = IF a < i THEN a ELSE a + 1
      BY <2>6
    <3>2. hash(D[a].key) = h BY <1>2, <3>1
    <3>3. ASSUME NEW b \in DOMAIN D, D[a].key = D[b].key PROVE a = b
      <4>1. PICK d \in DOMAIN C : D[b] = C[d] /\ d = IF b < i THEN b ELSE b + 1
        BY <2>6
      <4>2. c = d BY <1>2, <3>1, <3>3, <4>1
      <4> QED BY <1>2, <2>1, <2>6, <3>1, <4>1, <4>2
    <3> QED BY <3>2, <3>3
  <2>9. \A j \in DOMAIN D : D[j].key # k BY <1>2, <2>1, <2>6
  <2>10. ChainFor(k, D) /\ SameButFor(k, C, D)
    <3>1. ChainFor(k, D) BY <2>5, <2>8 DEF ChainFor
    <3>2. SameButFor(k, C, D) BY <1>2, <2>1, <2>5, <2>6 DEF SameButFor
    <3> QED BY <3>1, <3>2
  <2>11. /\ U \in Tables
         /\ \A q \in Keys : q # k => read_pair(U, q) = read_pair(T, q)
    BY <2>7, <2>10, NewChain
  <2>12. read_pair(U, k) = Absent
    <3>1. ~ Has(U[h], k) BY <2>7, <2>9 DEF Has
    <3> QED BY <2>11, <3>1, ReadFinds
  <2> QED BY <2>11, <2>12 DEF U
<1>4. CASE ~ Has(C, k)
  <2>1. U = T BY <1>4 DEF delete_pair
  <2> QED BY <1>4, <2>1, ReadFinds
<1> QED BY <1>3, <1>4

-----------------------------------------------------------------------------
(* Facts about commands and about the steps of one thread.                 *)

\* The fields of a command, as KVStoreAssumption gives them.
LEMMA CommandType ==
  ASSUME NEW c \in Commands
  PROVE  /\ c.op \in {"WRITE", "DELETE", "READ", "SHOW", "BACKUP", "EXISTS"}
         /\ c.keys \in Seq(Keys) /\ Len(c.keys) \in Nat
         /\ DOMAIN c.keys = 1 .. Len(c.keys)
         /\ \A j \in 1 .. Len(c.keys) : c.keys[j] \in Keys
         /\ c.op = "WRITE" => \A j \in 1 .. Len(c.keys) : c.values[j] \in Values
         /\ c.op \in {"WRITE", "READ", "DELETE"} => Len(c.keys) > 0
         /\ c.op = "EXISTS" => Len(c.keys) = 1
<1>1. /\ c.op \in WriteOps \cup ReadOps
      /\ c.keys \in Seq(Keys) /\ c.values \in Seq(Values)
      /\ c.op = "WRITE" => Len(c.values) = Len(c.keys)
      /\ c.op \in {"WRITE", "READ", "DELETE"} => Len(c.keys) > 0
      /\ c.op = "EXISTS" => Len(c.keys) = 1
  BY KVStoreAssumption
<1>2. /\ Len(c.keys) \in Nat /\ DOMAIN c.keys = 1 .. Len(c.keys)
      /\ \A j \in 1 .. Len(c.keys) : c.keys[j] \in Keys
      /\ \A j \in 1 .. Len(c.values) : c.values[j] \in Values
  BY <1>1, LenProperties, ElementOfSeq
<1> QED BY <1>1, <1>2 DEF WriteOps, ReadOps

\* A command that takes pairs has at least one (main.c:137, 156, 170).
LEMMA HasPairs ==
  ASSUME NEW c \in Commands, c.op \notin {"SHOW", "BACKUP"}
  PROVE  Len(c.keys) \in Nat /\ Len(c.keys) > 0
<1>1. CASE c.op = "EXISTS"
  <2>1. Len(c.keys) = 1 BY <1>1, CommandType
  <2> QED BY <2>1
<1>2. CASE c.op \in {"WRITE", "READ", "DELETE"} BY <1>2, CommandType
<1> QED BY <1>1, <1>2, CommandType

\* What a thread's own step leaves as it was: every other thread's variables.
Frame(t) ==
  \A u \in Threads \ {t} :
    pc'[u] = pc[u] /\ command'[u] = command[u] /\ next'[u] = next[u] /\ out'[u] = out[u]

\* The thread that takes a turn has a pair to handle.
LEMMA Running ==
  ASSUME CommandInv, NEW t \in Threads, pc[t] = "run",
         Op(t) \in {"WRITE", "DELETE", "READ", "EXISTS"}
  PROVE  /\ command[t] \in Commands
         /\ Len(command[t].keys) \in Nat
         /\ next[t] \in 1 .. Len(command[t].keys)
         /\ Key(t) \in Keys
         /\ Op(t) = "WRITE" => command[t].values[next[t]] \in Values
<1>1. command[t] \in Commands /\ next[t] \in 1 .. Len(command[t].keys)
  BY DEF CommandInv, Holding
<1> QED BY <1>1, CommandType DEF Key, Op

\* A turn of a loop, for the thread that takes it.
LEMMA TurnStep ==
  ASSUME TypeOK, NEW t \in Threads, NEW op, NEW o, Turn(t, op, o)
  PROVE  /\ Frame(t)
         /\ pc[t] = "run" /\ Op(t) = op
         /\ command' = command
         /\ UNCHANGED <<writer, readers, committed>>
         /\ next'[t] = next[t] + 1
         /\ out'[t] = out[t] \o o
         /\ pc'[t] = IF next[t] = Len(command[t].keys) THEN "unlock" ELSE "run"
BY DEF TypeOK, Turn, Frame, lockVars

-----------------------------------------------------------------------------
(* Types.                                                                  *)

\* The type invariant and TableOK say that the table is well-formed.
LEMMA TableStep ==
  ASSUME TypeOK, TableOK
  PROVE  table \in Tables
BY DEF TypeOK, TableOK, Tables

\* What a well-formed table stores is a value or Absent for each key.
LEMMA ContentsType ==
  ASSUME NEW T \in Tables
  PROVE  Contents(T) \in [Keys -> Values \cup {Absent}]
BY ReadFinds DEF Contents

\* Every step of an operation keeps the types.
LEMMA TypeStep ==
  ASSUME TypeOK, TableOK, CommandInv, [Next]_vars
  PROVE  TypeOK' /\ TableOK'
<1> USE DEF TypeOK
<1>0. table \in Tables BY TableStep
<1>1. ASSUME NEW t \in Threads, NEW c \in Commands, Call(t, c)
      PROVE  TypeOK' /\ TableOK'
  BY <1>1 DEF Call, lockVars, TableOK
<1>2. ASSUME NEW t \in Threads, ReadLock(t) PROVE TypeOK' /\ TableOK'
  BY <1>2 DEF ReadLock, TableOK
<1>3. ASSUME NEW t \in Threads, WriteLock(t) PROVE TypeOK' /\ TableOK'
  BY <1>3 DEF WriteLock, TableOK
<1>t. ASSUME NEW t \in Threads, NEW op, NEW o, Turn(t, op, o), table' \in Tables
      PROVE  TypeOK' /\ TableOK'
  <2>1. table' \in [Buckets -> Seq(Node)] /\ TableOK'
    BY <1>t DEF Tables, TableOK
  <2> QED BY <1>t, <2>1 DEF Turn, lockVars
<1>4. ASSUME NEW t \in Threads, WritePair(t) PROVE TypeOK' /\ TableOK'
  <2>1. /\ Turn(t, "WRITE", <<>>)
        /\ table' = write_pair(table, Key(t), command[t].values[next[t]])
    BY <1>4 DEF WritePair
  <2>2. Key(t) \in Keys /\ command[t].values[next[t]] \in Values
    BY <2>1, Running DEF Turn
  <2>3. table' \in Tables BY <1>0, <2>1, <2>2, WritePairSets
  <2> QED BY <1>t, <2>1, <2>3
<1>5. ASSUME NEW t \in Threads, ReadPair(t) PROVE TypeOK' /\ TableOK'
  BY <1>0, <1>5, <1>t DEF ReadPair
<1>6. ASSUME NEW t \in Threads, DeletePair(t) PROVE TypeOK' /\ TableOK'
  <2>1. /\ pc[t] = "run" /\ Op(t) = "DELETE"
        /\ table' = delete_pair(table, Key(t))
    BY <1>6 DEF DeletePair, Turn
  <2>2. Key(t) \in Keys BY <2>1, Running
  <2>3. table' \in Tables BY <1>0, <2>1, <2>2, DeletePairRemoves
  <2> QED BY <1>6, <1>t, <2>3 DEF DeletePair
<1>7. ASSUME NEW t \in Threads, KeyExists(t) PROVE TypeOK' /\ TableOK'
  BY <1>0, <1>7, <1>t DEF KeyExists
<1>8. ASSUME NEW t \in Threads, Snapshot(t) PROVE TypeOK' /\ TableOK'
  BY <1>8 DEF Snapshot, lockVars, TableOK
<1>9. ASSUME NEW t \in Threads, ReadUnlock(t) PROVE TypeOK' /\ TableOK'
  BY <1>9 DEF ReadUnlock, TableOK
<1>10. ASSUME NEW t \in Threads, WriteUnlock(t) PROVE TypeOK' /\ TableOK'
  BY <1>0, <1>10, ContentsType DEF WriteUnlock, TableOK
<1>11. CASE UNCHANGED vars BY <1>11 DEF vars, lockVars, threadVars, TableOK
<1> QED BY <1>1, <1>2, <1>3, <1>4, <1>5, <1>6, <1>7, <1>8, <1>9, <1>10, <1>11
        DEF Next, Work

-----------------------------------------------------------------------------
(* The lock and the control of each thread.                                *)

\* Every step keeps the lock with the threads that work, one if it writes.
LEMMA LockStep ==
  ASSUME TypeOK, LockInv, CommandInv, [Next]_vars
  PROVE  LockInv'
<1> USE KVStoreAssumption DEF TypeOK, LockInv, Holding, Op, WriteOps, ReadOps
<1>1. ASSUME NEW t \in Threads, NEW c \in Commands, Call(t, c) PROVE LockInv'
  BY <1>1 DEF Call, lockVars
<1>2. ASSUME NEW t \in Threads, ReadLock(t) PROVE LockInv' BY <1>2 DEF ReadLock
<1>3. ASSUME NEW t \in Threads, WriteLock(t) PROVE LockInv' BY <1>3 DEF WriteLock
<1>t. ASSUME NEW t \in Threads, NEW op, NEW o, Turn(t, op, o) PROVE LockInv'
  BY <1>t, TurnStep DEF Frame
<1>4. ASSUME NEW t \in Threads, WritePair(t) PROVE LockInv' BY <1>4, <1>t DEF WritePair
<1>5. ASSUME NEW t \in Threads, ReadPair(t) PROVE LockInv' BY <1>5, <1>t DEF ReadPair
<1>6. ASSUME NEW t \in Threads, DeletePair(t) PROVE LockInv' BY <1>6, <1>t DEF DeletePair
<1>7. ASSUME NEW t \in Threads, KeyExists(t) PROVE LockInv' BY <1>7, <1>t DEF KeyExists
<1>8. ASSUME NEW t \in Threads, Snapshot(t) PROVE LockInv'
  BY <1>8 DEF Snapshot, lockVars
<1>9. ASSUME NEW t \in Threads, ReadUnlock(t) PROVE LockInv' BY <1>9 DEF ReadUnlock
<1>10. ASSUME NEW t \in Threads, WriteUnlock(t) PROVE LockInv' BY <1>10 DEF WriteUnlock
<1>11. CASE UNCHANGED vars BY <1>11 DEF vars, lockVars, threadVars
<1> QED BY <1>1, <1>2, <1>3, <1>4, <1>5, <1>6, <1>7, <1>8, <1>9, <1>10, <1>11
        DEF Next, Work

\* Every step keeps the place in the command where the operation is.
LEMMA CommandStep ==
  ASSUME TypeOK, CommandInv, [Next]_vars
  PROVE  CommandInv'
<1> USE KVStoreAssumption DEF TypeOK, CommandInv, Holding, Op, WriteOps, ReadOps
<1>1. ASSUME NEW t \in Threads, NEW c \in Commands, Call(t, c) PROVE CommandInv'
  BY <1>1 DEF Call, lockVars
<1>2. ASSUME NEW t \in Threads, ReadLock(t) PROVE CommandInv'
  <2>1. /\ command[t] \in Commands /\ next[t] = 1
        /\ Op(t) \in {"READ", "EXISTS", "SHOW", "BACKUP"}
        /\ UNCHANGED <<command, next, out>> /\ pc' = [pc EXCEPT ![t] = "run"]
    BY <1>2 DEF ReadLock
  <2>2. CASE Op(t) \in {"SHOW", "BACKUP"} BY <2>1, <2>2
  <2>3. CASE Op(t) \in {"READ", "EXISTS"}
    <3>1. Len(command[t].keys) \in Nat /\ Len(command[t].keys) > 0
      BY <2>1, <2>3, HasPairs DEF Op
    <3>2. next[t] \in 1 .. Len(command[t].keys) BY <2>1, <3>1
    <3> QED BY <2>1, <3>2
  <2> QED BY <2>1, <2>2, <2>3
<1>3. ASSUME NEW t \in Threads, WriteLock(t) PROVE CommandInv'
  BY <1>3, CommandType DEF WriteLock
<1>t. ASSUME NEW t \in Threads, NEW op \in {"WRITE", "READ", "DELETE", "EXISTS"},
             NEW o, Turn(t, op, o)
      PROVE  CommandInv'
  <2>1. /\ Frame(t) /\ pc[t] = "run" /\ command' = command /\ Op(t) = op
        /\ next'[t] = next[t] + 1
        /\ pc'[t] = IF next[t] = Len(command[t].keys) THEN "unlock" ELSE "run"
    BY <1>t, TurnStep
  <2>2. /\ command[t] \in Commands /\ Len(command[t].keys) \in Nat
        /\ next[t] \in 1 .. Len(command[t].keys)
    BY <2>1, Running
  <2>3. next'[t] \in IF pc'[t] = "unlock" THEN {Len(command[t].keys) + 1}
                                          ELSE 1 .. Len(command[t].keys)
    BY <2>1, <2>2
  <2> QED BY <2>1, <2>3 DEF Frame
<1>4. ASSUME NEW t \in Threads, WritePair(t) PROVE CommandInv' BY <1>4, <1>t DEF WritePair
<1>5. ASSUME NEW t \in Threads, ReadPair(t) PROVE CommandInv' BY <1>5, <1>t DEF ReadPair
<1>6. ASSUME NEW t \in Threads, DeletePair(t) PROVE CommandInv' BY <1>6, <1>t DEF DeletePair
<1>7. ASSUME NEW t \in Threads, KeyExists(t) PROVE CommandInv' BY <1>7, <1>t DEF KeyExists
<1>8. ASSUME NEW t \in Threads, Snapshot(t) PROVE CommandInv'
  BY <1>8 DEF Snapshot, lockVars
<1>9. ASSUME NEW t \in Threads, ReadUnlock(t) PROVE CommandInv' BY <1>9 DEF ReadUnlock
<1>10. ASSUME NEW t \in Threads, WriteUnlock(t) PROVE CommandInv' BY <1>10 DEF WriteUnlock
<1>11. CASE UNCHANGED vars BY <1>11 DEF vars, lockVars, threadVars
<1> QED BY <1>1, <1>2, <1>3, <1>4, <1>5, <1>6, <1>7, <1>8, <1>9, <1>10, <1>11
        DEF Next, Work

-----------------------------------------------------------------------------
(* What a batch has done so far.                                           *)

\* While a writer holds the lock no other thread holds it.
LEMMA Excludes ==
  ASSUME LockInv, NEW t \in Threads, Holding(t), Op(t) \in WriteOps,
         NEW u \in Threads \ {t}, Op(u) \in WriteOps \cup ReadOps
  PROVE  ~ Holding(u)
BY KVStoreAssumption DEF LockInv

\* While a reader holds it there is no writer.
LEMMA ReadersOnly ==
  ASSUME LockInv, Progress, NEW t \in Threads, Holding(t), Op(t) \in ReadOps
  PROVE  writer = None /\ committed = Contents(table)
BY DEF LockInv, Progress

\* A thread whose variables a step leaves alone keeps its progress.
LEMMA Stays ==
  ASSUME NEW u \in Threads, ThreadProgress(u), UNCHANGED <<table, committed>>,
         pc'[u] = pc[u], command'[u] = command[u], next'[u] = next[u], out'[u] = out[u]
  PROVE  ThreadProgress(u)'
BY DEF ThreadProgress, WriteProgress, DeleteProgress, ReadProgress, Op, Handled

\* One more pair of a WRITE: the table holds what the pairs so far make of committed.
LEMMA WriteTurn ==
  ASSUME TypeOK, TableOK, CommandInv, NEW t \in Threads, WriteProgress(t), WritePair(t)
  PROVE  WriteProgress(t)'
<1> DEFINE c == command[t]
           n == next[t]
<1>1. /\ Turn(t, "WRITE", <<>>) /\ pc[t] = "run" /\ Op(t) = "WRITE"
      /\ table' = write_pair(table, c.keys[n], c.values[n])
  BY DEF WritePair, Turn, Key
<1>2. /\ n \in 1 .. Len(c.keys) /\ Len(c.keys) \in Nat
      /\ c.keys[n] \in Keys /\ c.values[n] \in Values
  BY <1>1, Running DEF Key
<1>3. \A k \in Keys : read_pair(table', k) =
                       IF k = c.keys[n] THEN c.values[n] ELSE read_pair(table, k)
  BY <1>1, <1>2, TableStep, WritePairSets
<1>4. /\ command'[t] = c /\ next'[t] = n + 1 /\ committed' = committed
      /\ out'[t] = out[t] \o <<>>
  BY <1>1, TurnStep
<1>5. out'[t] = <<>> BY <1>4 DEF WriteProgress
<1>6. Handled(t) = 1 .. n - 1 /\ Handled(t)' = 1 .. n BY <1>2, <1>4 DEF Handled
<1> HIDE DEF c, n
<1>7. ASSUME NEW k \in Keys
      PROVE  \/ /\ \A j \in 1 .. n : c.keys[j] # k
                /\ read_pair(table', k) = committed[k]
             \/ \E j \in 1 .. n :
                  /\ c.keys[j] = k
                  /\ read_pair(table', k) = c.values[j]
                  /\ \A i \in 1 .. n : c.keys[i] = k => i <= j
  <2>1. CASE k = c.keys[n] BY <1>2, <1>3, <2>1
  <2>2. CASE k # c.keys[n]
    <3>1. \/ /\ \A j \in 1 .. n - 1 : c.keys[j] # k
             /\ read_pair(table, k) = committed[k]
          \/ \E j \in 1 .. n - 1 :
               /\ c.keys[j] = k
               /\ read_pair(table, k) = c.values[j]
               /\ \A i \in 1 .. n - 1 : c.keys[i] = k => i <= j
      BY <1>6 DEF WriteProgress, c
    <3>2. \A i \in 1 .. n : i \in 1 .. n - 1 \/ i = n BY <1>2
    <3>3. \A i \in 1 .. n - 1 : i \in 1 .. n BY <1>2
    <3> QED BY <1>3, <2>2, <3>1, <3>2, <3>3
  <2> QED BY <2>1, <2>2
<1> QED BY <1>4, <1>5, <1>6, <1>7 DEF WriteProgress, c

\* Appending the outcome of pair n to those of the pairs before it.
LEMMA Append1 ==
  ASSUME NEW S, NEW s \in Seq(S), NEW o \in S, NEW n \in Nat, Len(s) = n - 1
  PROVE  /\ s \o <<o>> \in Seq(S) /\ Len(s \o <<o>>) = n
         /\ \A j \in 1 .. n - 1 : (s \o <<o>>)[j] = s[j]
         /\ (s \o <<o>>)[n] = o
<1>1. <<o>> \in Seq(S) /\ Len(<<o>>) = 1 /\ <<o>>[1] = o OBVIOUS
<1> QED BY <1>1, ConcatProperties

\* One more pair of a DELETE: the same, and the outcomes so far are right.
LEMMA DeleteTurn ==
  ASSUME TypeOK, TableOK, CommandInv, NEW t \in Threads, DeleteProgress(t), DeletePair(t)
  PROVE  DeleteProgress(t)'
<1> DEFINE c == command[t]
           n == next[t]
           o == IF Has(table[hash(Key(t))], Key(t)) THEN Removed ELSE Absent
<1>1. /\ Turn(t, "DELETE", <<o>>) /\ pc[t] = "run" /\ Op(t) = "DELETE"
      /\ table' = delete_pair(table, c.keys[n])
  BY DEF DeletePair, Turn, Key
<1>2. /\ n \in 1 .. Len(c.keys) /\ Len(c.keys) \in Nat /\ c.keys[n] \in Keys
  BY <1>1, Running DEF Key
<1>3. \A k \in Keys : read_pair(table', k) =
                       IF k = c.keys[n] THEN Absent ELSE read_pair(table, k)
  BY <1>1, <1>2, TableStep, DeletePairRemoves
<1>4. /\ command'[t] = c /\ next'[t] = n + 1 /\ committed' = committed
      /\ out'[t] = out[t] \o <<o>>
  BY <1>1 DEF Turn, TypeOK
<1>5. o = IF read_pair(table, c.keys[n]) = Absent THEN Absent ELSE Removed
  BY <1>2, TableStep, ReadFinds DEF Key
<1>6. Handled(t) = 1 .. n - 1 /\ Handled(t)' = 1 .. n BY <1>2, <1>4 DEF Handled
<1>7. /\ out[t] \in Seq({Absent, Removed}) /\ Len(out[t]) = n - 1
      /\ \A k \in Keys : read_pair(table, k) =
           IF \E j \in 1 .. n - 1 : c.keys[j] = k THEN Absent ELSE committed[k]
      /\ \A j \in 1 .. n - 1 : out[t][j] =
           IF \/ committed[c.keys[j]] = Absent
              \/ \E i \in 1 .. j - 1 : c.keys[i] = c.keys[j]
           THEN Absent ELSE Removed
  BY <1>6 DEF DeleteProgress
<1>8. o \in {Absent, Removed} OBVIOUS
<1> HIDE DEF c, n, o
<1>9. /\ out'[t] \in Seq({Absent, Removed}) /\ Len(out'[t]) = n
      /\ \A j \in 1 .. n - 1 : out'[t][j] = out[t][j]
      /\ out'[t][n] = o
  <2> DEFINE S == {Absent, Removed}
  <2>1. n \in Nat /\ o \in S BY <1>2, <1>8
  <2>2. out[t] \in Seq(S) /\ Len(out[t]) = n - 1 BY <1>7
  <2> HIDE DEF S
  <2>3. out'[t] \in Seq(S) BY <1>4, <2>1, <2>2, Append1
  <2>4. /\ Len(out'[t]) = n
        /\ \A j \in 1 .. n - 1 : out'[t][j] = out[t][j]
        /\ out'[t][n] = o
    BY <1>4, <2>1, <2>2, Append1
  <2> QED BY <2>3, <2>4 DEF S
<1>10. \A i \in 1 .. n : i \in 1 .. n - 1 \/ i = n BY <1>2
<1>11. \A i \in 1 .. n - 1 : i \in 1 .. n BY <1>2
<1>12. \A k \in Keys : read_pair(table', k) =
           IF \E j \in 1 .. n : c.keys[j] = k THEN Absent ELSE committed[k]
  BY <1>2, <1>3, <1>7, <1>10, <1>11
<1>13. o = IF \/ committed[c.keys[n]] = Absent
              \/ \E i \in 1 .. n - 1 : c.keys[i] = c.keys[n]
           THEN Absent ELSE Removed
  BY <1>2, <1>5, <1>7
<1>14. \A j \in 1 .. n : out'[t][j] =
           IF \/ committed[c.keys[j]] = Absent
              \/ \E i \in 1 .. j - 1 : c.keys[i] = c.keys[j]
           THEN Absent ELSE Removed
  <2> TAKE j \in 1 .. n
  <2>1. CASE j \in 1 .. n - 1 BY <1>7, <1>9, <2>1
  <2>2. CASE j = n
    <3>1. out'[t][j] = o BY <1>9, <2>2
    <3> QED BY <1>13, <2>2, <3>1
  <2> QED BY <1>10, <2>1, <2>2
<1>15. next'[t] - 1 = n BY <1>2, <1>4
<1>16. /\ out'[t] \in Seq({Absent, Removed}) /\ Len(out'[t]) = next'[t] - 1
       /\ \A k \in Keys : read_pair(table', k) =
            IF \E j \in Handled(t)' : command'[t].keys[j] = k THEN Absent ELSE committed'[k]
  BY <1>4, <1>6, <1>9, <1>12, <1>15
<1>17. \A j \in Handled(t)' : out'[t][j] =
         IF \/ committed'[command'[t].keys[j]] = Absent
            \/ \E i \in 1 .. j - 1 : command'[t].keys[i] = command'[t].keys[j]
         THEN Absent ELSE Removed
  BY <1>4, <1>6, <1>14
<1> QED BY <1>16, <1>17 DEF DeleteProgress

\* One more pair of a READ: the values found so far are those committed.
LEMMA ReadTurn ==
  ASSUME TypeOK, TableOK, CommandInv, NEW t \in Threads, committed = Contents(table),
         ReadProgress(t), ReadPair(t)
  PROVE  ReadProgress(t)'
<1> DEFINE c == command[t]
           n == next[t]
           o == read_pair(table, c.keys[n])
<1>1. /\ Turn(t, "READ", <<o>>) /\ pc[t] = "run" /\ Op(t) = "READ" /\ table' = table
  BY DEF ReadPair, Turn, Key
<1>2. /\ n \in 1 .. Len(c.keys) /\ Len(c.keys) \in Nat /\ c.keys[n] \in Keys
  BY <1>1, Running DEF Key
<1>3. /\ command'[t] = c /\ next'[t] = n + 1 /\ committed' = committed
      /\ out'[t] = out[t] \o <<o>>
  BY <1>1 DEF Turn, TypeOK
<1>4. o = committed[c.keys[n]] /\ o \in Values \cup {Absent}
  BY <1>2 DEF Contents, TypeOK
<1>5. Handled(t) = 1 .. n - 1 /\ Handled(t)' = 1 .. n BY <1>2, <1>3 DEF Handled
<1>6. /\ out[t] \in Seq(Values \cup {Absent}) /\ Len(out[t]) = n - 1
      /\ \A j \in 1 .. n - 1 : out[t][j] = committed[c.keys[j]]
  BY <1>5 DEF ReadProgress
<1> HIDE DEF c, n, o
<1>7. /\ out'[t] \in Seq(Values \cup {Absent}) /\ Len(out'[t]) = n
      /\ \A j \in 1 .. n - 1 : out'[t][j] = out[t][j]
      /\ out'[t][n] = o
  <2> DEFINE S == Values \cup {Absent}
  <2>1. n \in Nat /\ o \in S BY <1>2, <1>4
  <2>2. out[t] \in Seq(S) /\ Len(out[t]) = n - 1 BY <1>6
  <2> HIDE DEF S
  <2>3. out'[t] \in Seq(S) BY <1>3, <2>1, <2>2, Append1
  <2>4. /\ Len(out'[t]) = n
        /\ \A j \in 1 .. n - 1 : out'[t][j] = out[t][j]
        /\ out'[t][n] = o
    BY <1>3, <2>1, <2>2, Append1
  <2> QED BY <2>3, <2>4 DEF S
<1>8. \A i \in 1 .. n : i \in 1 .. n - 1 \/ i = n BY <1>2
<1>9. \A j \in 1 .. n : out'[t][j] = committed[c.keys[j]]
  BY <1>4, <1>6, <1>7, <1>8
<1>10. next'[t] - 1 = n BY <1>2, <1>3
<1> QED BY <1>3, <1>5, <1>7, <1>9, <1>10 DEF ReadProgress, c

\* kvs_key_exists finds the key if and only if it is committed.
LEMMA ExistsTurn ==
  ASSUME TypeOK, TableOK, CommandInv, NEW t \in Threads, committed = Contents(table),
         ThreadProgress(t), KeyExists(t)
  PROVE  ThreadProgress(t)'
<1> DEFINE c == command[t]
           found == Has(table[hash(Key(t))], Key(t))
<1>1. /\ Turn(t, "EXISTS", <<found>>) /\ pc[t] = "run" /\ Op(t) = "EXISTS" /\ table' = table
  BY DEF KeyExists, Turn
<1>2. /\ c \in Commands /\ c.op = "EXISTS" /\ Key(t) \in Keys
      /\ next[t] \in 1 .. Len(c.keys)
  BY <1>1, Running DEF Op
<1>3. Len(c.keys) = 1
  <2> HIDE DEF c
  <2> QED BY <1>2, CommandType
<1>4. next[t] = 1 /\ Key(t) = c.keys[1] BY <1>2, <1>3 DEF Key
<1>5. found = (committed[c.keys[1]] # Absent)
  <2>1. found <=> read_pair(table, Key(t)) # Absent BY <1>2, TableStep, ReadFinds
  <2>2. committed[c.keys[1]] = read_pair(table, Key(t)) BY <1>2, <1>4 DEF Contents
  <2>3. found \in BOOLEAN BY DEF Has
  <2> HIDE DEF found, c
  <2> QED BY <2>1, <2>2, <2>3
<1>6. /\ command'[t] = c /\ committed' = committed /\ pc'[t] = "unlock"
      /\ out'[t] = out[t] \o <<found>>
  BY <1>1, <1>3, <1>4 DEF Turn, TypeOK
<1>7. out[t] = <<>> BY <1>1 DEF ThreadProgress
<1> HIDE DEF found
<1>8. out'[t] = <<found>> BY <1>6, <1>7
<1> QED BY <1>2, <1>5, <1>6, <1>8 DEF ThreadProgress, Op

\* The step of t keeps the others' progress: it leaves what they depend on, or
\* it is a writer's and they do not hold the lock.
LEMMA Others ==
  ASSUME LockInv, CommandInv, Progress, NEW t \in Threads, Frame(t),
         \/ UNCHANGED <<table, committed>>
         \/ Holding(t) /\ Op(t) \in WriteOps
  PROVE  \A u \in Threads \ {t} : Holding(u)' => ThreadProgress(u)'
<1> SUFFICES ASSUME NEW u \in Threads \ {t}, Holding(u)' PROVE ThreadProgress(u)'
  OBVIOUS
<1>1. Holding(u) /\ ThreadProgress(u) BY DEF Frame, Holding, Progress
<1>2. Op(u) \in WriteOps \cup ReadOps
  <2>1. command[u] \in Commands BY <1>1 DEF CommandInv, Holding
  <2> QED BY <2>1, CommandType DEF Op, WriteOps, ReadOps
<1>3. UNCHANGED <<table, committed>> BY <1>1, <1>2, Excludes
<1> QED BY <1>1, <1>3, Stays DEF Frame

\* Every step keeps what the threads under the lock have done and found.
LEMMA ProgressStep ==
  ASSUME TypeOK, TableOK, LockInv, CommandInv, Progress, [Next]_vars
  PROVE  Progress'
<1> SUFFICES ASSUME Next PROVE Progress'
  <2>1. ASSUME UNCHANGED vars PROVE Progress'
    BY <2>1, Stays DEF vars, lockVars, threadVars, Progress, Holding
  <2> QED BY <2>1
<1>0. ASSUME NEW t \in Threads, Frame(t),
             \/ UNCHANGED <<table, committed>>
             \/ Holding(t) /\ Op(t) \in WriteOps,
             writer' = None => committed' = Contents(table)',
             Holding(t)' => ThreadProgress(t)'
      PROVE  Progress'
  BY <1>0, Others DEF Progress
<1>1. ASSUME NEW t \in Threads, NEW c \in Commands, Call(t, c) PROVE Progress'
  <2>1. Frame(t) /\ ~ Holding(t)' /\ UNCHANGED <<table, committed, writer>>
    BY <1>1 DEF Call, Frame, Holding, TypeOK, lockVars
  <2> QED BY <1>0, <2>1 DEF Progress, Contents
<1>2. ASSUME NEW t \in Threads, ReadLock(t) PROVE Progress'
  <2>1. /\ Frame(t) /\ UNCHANGED <<table, committed, writer>>
        /\ pc'[t] = "run" /\ command'[t] = command[t]
        /\ next'[t] = 1 /\ out'[t] = <<>>
        /\ Op(t) \in ReadOps
    BY <1>2 DEF ReadLock, Frame, TypeOK, CommandInv
  <2>2. ThreadProgress(t)'
    BY <2>1 DEF ThreadProgress, ReadProgress, Handled, Op, ReadOps
  <2> QED BY <1>0, <2>1, <2>2 DEF Progress, Contents
<1>3. ASSUME NEW t \in Threads, WriteLock(t) PROVE Progress'
  <2>1. /\ Frame(t) /\ UNCHANGED <<table, committed>> /\ writer' # None
        /\ pc'[t] = "run" /\ command'[t] = command[t]
        /\ next'[t] = 1 /\ out'[t] = <<>>
        /\ Op(t) \in WriteOps /\ committed = Contents(table)
    BY <1>3, KVStoreAssumption DEF WriteLock, Frame, TypeOK, CommandInv, Progress
  <2> SUFFICES ThreadProgress(t)' BY <1>0, <2>1
  <2>2. Handled(t)' = {} BY <2>1 DEF Handled
  <2>3. CASE Op(t) = "WRITE"
    <3>1. \A k \in Keys : read_pair(table', k) = committed'[k] BY <2>1 DEF Contents
    <3>2. WriteProgress(t)' BY <2>1, <2>2, <3>1 DEF WriteProgress
    <3> QED BY <2>1, <2>3, <3>2 DEF ThreadProgress, Op
  <2>4. CASE Op(t) = "DELETE"
    <3>1. out'[t] \in Seq({Absent, Removed}) /\ Len(out'[t]) = next'[t] - 1 BY <2>1
    <3>2. \A k \in Keys : read_pair(table', k) = committed'[k] BY <2>1 DEF Contents
    <3>3. DeleteProgress(t)' BY <2>2, <3>1, <3>2 DEF DeleteProgress
    <3> QED BY <2>1, <2>4, <3>3 DEF ThreadProgress, Op
  <2> QED BY <2>1, <2>3, <2>4 DEF WriteOps
<1>4. ASSUME NEW t \in Threads, WritePair(t) PROVE Progress'
  <2>1. /\ Turn(t, "WRITE", <<>>) /\ Holding(t) /\ Op(t) = "WRITE"
    BY <1>4 DEF WritePair, Turn, Holding
  <2>2. Frame(t) /\ command' = command /\ writer' = writer BY <2>1, TurnStep
  <2>3. writer # None BY <2>1, KVStoreAssumption DEF LockInv, WriteOps
  <2>4. WriteProgress(t) BY <2>1 DEF Progress, ThreadProgress
  <2>5. WriteProgress(t)' BY <1>4, <2>4, WriteTurn
  <2>6. ThreadProgress(t)' BY <2>1, <2>2, <2>5 DEF ThreadProgress, Op
  <2> QED BY <1>0, <2>1, <2>2, <2>3, <2>6 DEF WriteOps
<1>5. ASSUME NEW t \in Threads, ReadPair(t) PROVE Progress'
  <2>1. /\ Holding(t) /\ Op(t) = "READ" /\ Frame(t)
        /\ command' = command /\ UNCHANGED <<table, writer, committed>>
    BY <1>5 DEF ReadPair, Turn, Holding, Frame, TypeOK, lockVars
  <2>2. committed = Contents(table) BY <2>1, ReadersOnly DEF ReadOps
  <2>3. ReadProgress(t) BY <2>1 DEF Progress, ThreadProgress
  <2>4. ReadProgress(t)' BY <1>5, <2>2, <2>3, ReadTurn
  <2>5. ThreadProgress(t)' BY <2>1, <2>4 DEF ThreadProgress, Op
  <2> QED BY <1>0, <2>1, <2>2, <2>5 DEF Contents
<1>6. ASSUME NEW t \in Threads, DeletePair(t) PROVE Progress'
  <2>1. /\ Holding(t) /\ Op(t) = "DELETE" /\ Frame(t)
        /\ command' = command /\ writer' = writer
    BY <1>6 DEF DeletePair, Turn, Holding, Frame, TypeOK, lockVars
  <2>2. writer # None BY <2>1, KVStoreAssumption DEF LockInv, WriteOps
  <2>3. DeleteProgress(t) BY <2>1 DEF Progress, ThreadProgress
  <2>4. DeleteProgress(t)' BY <1>6, <2>3, DeleteTurn
  <2>5. ThreadProgress(t)' BY <2>1, <2>4 DEF ThreadProgress, Op
  <2> QED BY <1>0, <2>1, <2>2, <2>5 DEF WriteOps
<1>7. ASSUME NEW t \in Threads, KeyExists(t) PROVE Progress'
  <2>1. /\ Holding(t) /\ Op(t) = "EXISTS" /\ Frame(t)
        /\ UNCHANGED <<table, writer, committed>>
    BY <1>7 DEF KeyExists, Turn, Holding, Frame, TypeOK, lockVars
  <2>2. committed = Contents(table) BY <2>1, ReadersOnly DEF ReadOps
  <2>3. ThreadProgress(t)' BY <1>7, <2>1, <2>2, ExistsTurn DEF Progress
  <2> QED BY <1>0, <2>1, <2>2, <2>3 DEF Contents
<1>8. ASSUME NEW t \in Threads, Snapshot(t) PROVE Progress'
  <2>1. /\ Holding(t) /\ Op(t) \in {"SHOW", "BACKUP"} /\ Frame(t)
        /\ command' = command /\ UNCHANGED <<table, writer, committed>>
        /\ out'[t] = table
    BY <1>8 DEF Snapshot, Holding, Frame, TypeOK, lockVars
  <2>2. committed = Contents(table) BY <2>1, ReadersOnly DEF ReadOps
  <2>3. ThreadProgress(t)' BY <2>1, <2>2 DEF ThreadProgress, Op
  <2> QED BY <1>0, <2>1, <2>2, <2>3 DEF Contents
<1>9. ASSUME NEW t \in Threads, ReadUnlock(t) PROVE Progress'
  <2>1. Frame(t) /\ ~ Holding(t)' /\ UNCHANGED <<table, committed, writer>>
    BY <1>9 DEF ReadUnlock, Frame, Holding, TypeOK
  <2> QED BY <1>0, <2>1 DEF Progress, Contents
<1>10. ASSUME NEW t \in Threads, WriteUnlock(t) PROVE Progress'
  <2>1. /\ Holding(t) /\ Op(t) \in WriteOps /\ Frame(t) /\ ~ Holding(t)'
        /\ committed' = Contents(table) /\ table' = table
    BY <1>10 DEF WriteUnlock, Frame, Holding, TypeOK
  <2> QED BY <1>0, <2>1 DEF Contents
<1> QED BY <1>1, <1>2, <1>3, <1>4, <1>5, <1>6, <1>7, <1>8, <1>9, <1>10
        DEF Next, Work

-----------------------------------------------------------------------------
(* The invariant.                                                          *)

\* The invariant holds after kvs_init.
LEMMA InitHolds == Init => TypeOK /\ StoreInv
<1> SUFFICES ASSUME Init PROVE TypeOK /\ StoreInv OBVIOUS
<1>1. table \in [Buckets -> Seq(Node)] BY DEF Init, EmptyTable
<1>2. TableOK BY DEF Init, EmptyTable, TableOK, ChainsOK
<1>3. table \in Tables BY <1>1, <1>2 DEF Tables, TableOK
<1>4. TypeOK BY <1>1, <1>3, ContentsType DEF Init, TypeOK
<1>5. LockInv BY KVStoreAssumption DEF Init, LockInv, Holding
<1>6. CommandInv BY DEF Init, CommandInv, Holding
<1>7. Progress BY DEF Init, Progress, Holding
<1> QED BY <1>2, <1>4, <1>5, <1>6, <1>7 DEF StoreInv

\* The table keeps every key once and in the chain of its hash, the lock
\* excludes, and what a batch has done is told by the contents at the last
\* write unlock and the pairs it has handled (operations.c:45-178).
THEOREM StoreInvariant == Spec => [](TypeOK /\ StoreInv)
<1>1. TypeOK /\ StoreInv /\ [Next]_vars => (TypeOK /\ StoreInv)'
  BY TypeStep, LockStep, CommandStep, ProgressStep DEF StoreInv
<1> QED BY InitHolds, <1>1, PTL DEF Spec

\* Type correctness; above all no batch goes past its last pair.
THEOREM StoreTypeCorrect == Spec => []TypeOK
BY StoreInvariant, PTL

\* The table keeps a key in one node, in the chain of its hash, at every step of
\* every batch (kvs.c:34-109).
THEOREM OneNodePerKey == Spec => []TableOK
<1>1. StoreInv => TableOK BY DEF StoreInv
<1> QED BY <1>1, StoreInvariant, PTL

-----------------------------------------------------------------------------
(* KVStore implements AtomicKVS.                                           *)

\* The empty table is an initial state of the abstract store.
LEMMA InitAtomic == Init => Atomic!Init
<1> SUFFICES ASSUME Init PROVE Atomic!Init OBVIOUS
<1>1. committed = [k \in Keys |-> Absent]
  <2>1. EmptyTable \in Tables BY DEF EmptyTable, Tables, ChainsOK
  <2>2. \A k \in Keys : read_pair(EmptyTable, k) = Absent
    BY HashInRange DEF EmptyTable, read_pair, Has
  <2> QED BY <2>2 DEF Init, Contents
<1>2. Pending = [t \in Threads |-> FALSE] BY DEF Init, Pending
<1>3. Result = [t \in Threads |-> <<>>] BY DEF Init, Result, Op, NoCommand
<1> QED BY <1>1, <1>2, <1>3 DEF Init, Atomic!Init, NoCommand, Atomic!NoCommand

\* A step that neither calls nor returns is none of the promise's.
LEMMA Inside ==
  ASSUME NEW t \in Threads, Frame(t), UNCHANGED <<command, committed>>,
         pc[t] # "idle", pc'[t] # "idle"
  PROVE  UNCHANGED <<committed, command, Pending, Result>>
<1>1. \A u \in Threads : (pc'[u] # "idle") = (pc[u] # "idle") BY DEF Frame
<1>2. \A u \in Threads : Result'[u] = Result[u]
  BY DEF Frame, Result, Op
<1>3. Pending' = Pending BY <1>1 DEF Pending
<1>4. Result' = Result BY <1>2 DEF Result
<1> QED BY <1>3, <1>4

\* A call is a call of the abstract store.
LEMMA CallAtomic ==
  ASSUME TypeOK, NEW t \in Threads, NEW c \in Commands, Call(t, c)
  PROVE  Atomic!Call(t)
<1>1. Pending' = [Pending EXCEPT ![t] = TRUE] BY DEF Call, TypeOK, Pending
<1>2. Result' = [Result EXCEPT ![t] = <<>>]
  <2>1. Frame(t) /\ pc'[t] # "idle" BY DEF Call, TypeOK, Frame
  <2>2. \A u \in Threads : Result'[u] = IF u = t THEN <<>> ELSE Result[u]
    BY <2>1 DEF Frame, Result, Op
  <2>3. DOMAIN Result = Threads /\ Result' = [u \in Threads |-> Result'[u]] BY DEF Result
  <2> QED BY <2>2, <2>3 DEF Result
<1>3. ~ Pending[t] BY DEF Call, Pending
<1> QED BY <1>1, <1>2, <1>3 DEF Call, Atomic!Call

\* At its unlock a batch has handled all its pairs.
LEMMA AllHandled ==
  ASSUME CommandInv, NEW t \in Threads, pc[t] = "unlock", Op(t) \notin {"SHOW", "BACKUP"}
  PROVE  next[t] - 1 = Len(command[t].keys) /\ Handled(t) = DOMAIN command[t].keys
<1>1. command[t] \in Commands BY DEF CommandInv
<1>2. /\ Len(command[t].keys) \in Nat
      /\ DOMAIN command[t].keys = 1 .. Len(command[t].keys)
  BY <1>1, CommandType
<1>3. next[t] = Len(command[t].keys) + 1 BY DEF CommandInv, Holding
<1> QED BY <1>2, <1>3 DEF Handled

\* The result of a command at its unlock is the promised one.
LEMMA Answered ==
  ASSUME TypeOK, LockInv, CommandInv, Progress, NEW t \in Threads, pc[t] = "unlock"
  PROVE  (IF Op(t) \in {"SHOW", "BACKUP"} THEN Contents(out[t]) ELSE out[t])
           = Atomic!Answer(command[t], committed)
<1> DEFINE c == command[t]
<1>1. Holding(t) /\ c \in Commands /\ ThreadProgress(t)
  BY DEF Holding, CommandInv, Progress
<1>2. /\ c.op \in {"WRITE", "DELETE", "READ", "SHOW", "BACKUP", "EXISTS"}
      /\ Len(c.keys) \in Nat /\ DOMAIN c.keys = 1 .. Len(c.keys)
  BY <1>1, CommandType
<1>3. Op(t) \notin {"SHOW", "BACKUP"} =>
        next[t] - 1 = Len(c.keys) /\ Handled(t) = DOMAIN c.keys
  BY AllHandled
<1>4. CASE c.op = "WRITE"
  BY <1>1, <1>4 DEF ThreadProgress, WriteProgress, Op, Atomic!Answer
<1>5. CASE c.op = "DELETE"
  <2>1. DeleteProgress(t) BY <1>1, <1>5 DEF ThreadProgress, Op
  <2>2. out[t] \in Seq({Absent, Removed}) /\ Len(out[t]) = Len(c.keys)
    BY <1>3, <1>5, <2>1 DEF DeleteProgress, Op
  <2>3. DOMAIN out[t] = DOMAIN c.keys /\ out[t] = [j \in DOMAIN c.keys |-> out[t][j]]
    BY <1>2, <2>2, LenProperties
  <2>4. \A j \in DOMAIN c.keys : out[t][j] = Atomic!DeleteAnswer(c, committed)[j]
    BY <1>3, <1>5, <2>1 DEF DeleteProgress, Atomic!DeleteAnswer, Op
  <2>5. out[t] = Atomic!DeleteAnswer(c, committed)
    BY <2>3, <2>4 DEF Atomic!DeleteAnswer
  <2> QED BY <1>5, <2>5 DEF Atomic!Answer, Op
<1>6. CASE c.op = "READ"
  <2>1. ReadProgress(t) BY <1>1, <1>6 DEF ThreadProgress, Op
  <2>2. out[t] \in Seq(Values \cup {Absent}) /\ Len(out[t]) = Len(c.keys)
    BY <1>3, <1>6, <2>1 DEF ReadProgress, Op
  <2>3. DOMAIN out[t] = DOMAIN c.keys /\ out[t] = [j \in DOMAIN c.keys |-> out[t][j]]
    BY <1>2, <2>2, LenProperties
  <2>4. \A j \in DOMAIN c.keys : out[t][j] = committed[c.keys[j]]
    BY <1>3, <1>6, <2>1 DEF ReadProgress, Op
  <2>5. out[t] = [j \in DOMAIN c.keys |-> committed[c.keys[j]]] BY <2>3, <2>4
  <2> QED BY <1>6, <2>5 DEF Atomic!Answer, Op
<1>7. CASE c.op = "EXISTS"
  BY <1>1, <1>7 DEF ThreadProgress, Op, Atomic!Answer
<1>8. CASE c.op \in {"SHOW", "BACKUP"}
  BY <1>1, <1>8 DEF ThreadProgress, Op, Atomic!Answer
<1> QED BY <1>2, <1>4, <1>5, <1>6, <1>7, <1>8

\* So are the contents that a writer leaves.
LEMMA Stored ==
  ASSUME TypeOK, LockInv, CommandInv, Progress, NEW t \in Threads, pc[t] = "unlock",
         Op(t) \in WriteOps
  PROVE  Contents(table) = Atomic!After(command[t], committed)
<1> DEFINE c == command[t]
<1>1. /\ Holding(t) /\ c \in Commands /\ ThreadProgress(t)
      /\ c.op \in {"WRITE", "DELETE"}
  BY DEF Holding, CommandInv, Progress, Op, WriteOps
<1>2. Len(c.keys) \in Nat /\ DOMAIN c.keys = 1 .. Len(c.keys) BY <1>1, CommandType
<1>3. Handled(t) = DOMAIN c.keys BY AllHandled DEF WriteOps
<1> SUFFICES ASSUME NEW k \in Keys
             PROVE  read_pair(table, k) = Atomic!After(c, committed)[k]
  BY DEF Contents, Atomic!After
<1>4. CASE c.op = "WRITE"
  <2>1. WriteProgress(t) BY <1>1, <1>4 DEF ThreadProgress, Op
  <2>2. \/ /\ \A j \in DOMAIN c.keys : c.keys[j] # k
           /\ read_pair(table, k) = committed[k]
        \/ \E j \in DOMAIN c.keys :
             /\ c.keys[j] = k
             /\ read_pair(table, k) = c.values[j]
             /\ \A i \in DOMAIN c.keys : c.keys[i] = k => i <= j
    BY <1>3, <2>1 DEF WriteProgress
  <2> HIDE DEF c
  <2>3. CASE /\ \A j \in DOMAIN c.keys : c.keys[j] # k
             /\ read_pair(table, k) = committed[k]
    <3>1. Atomic!Positions(c, k) = {} BY <2>3 DEF Atomic!Positions
    <3> QED BY <2>3, <3>1 DEF Atomic!After
  <2>4. ASSUME NEW j \in DOMAIN c.keys, c.keys[j] = k,
               read_pair(table, k) = c.values[j],
               \A i \in DOMAIN c.keys : c.keys[i] = k => i <= j
        PROVE  read_pair(table, k) = Atomic!After(c, committed)[k]
    <3>1. j \in Atomic!Positions(c, k) BY <2>4 DEF Atomic!Positions
    <3>2. \A i \in Atomic!Positions(c, k) : i \in Nat /\ i <= j
      BY <1>2, <2>4 DEF Atomic!Positions, c
    <3>3. Atomic!LastAt(c, k) = j
      BY <3>1, <3>2 DEF Atomic!LastAt
    <3> QED BY <1>4, <2>4, <3>1, <3>3 DEF Atomic!After
  <2> QED BY <2>2, <2>3, <2>4
<1>5. CASE c.op = "DELETE"
  <2>1. DeleteProgress(t) BY <1>1, <1>5 DEF ThreadProgress, Op
  <2>2. read_pair(table, k) =
          IF \E j \in DOMAIN c.keys : c.keys[j] = k THEN Absent ELSE committed[k]
    BY <1>3, <2>1 DEF DeleteProgress
  <2> QED BY <1>5, <2>2 DEF Atomic!After, Atomic!Positions
<1> QED BY <1>1, <1>4, <1>5

\* Leaving the lock is the instant the command takes effect.
LEMMA UnlockAtomic ==
  ASSUME TypeOK, LockInv, CommandInv, Progress, NEW t \in Threads, pc[t] = "unlock",
         pc' = [pc EXCEPT ![t] = "idle"], UNCHANGED <<command, out>>,
         committed' = IF Op(t) \in WriteOps THEN Contents(table) ELSE committed
  PROVE  Atomic!Perform(t)
<1>1. Pending[t] /\ Pending' = [Pending EXCEPT ![t] = FALSE] BY DEF TypeOK, Pending
<1>2. Result' = [Result EXCEPT ![t] = Atomic!Answer(command[t], committed)]
  <2> DEFINE a == Atomic!Answer(command[t], committed)
  <2>1. Result'[t] = a BY Answered DEF TypeOK, Result, Op
  <2>2. \A u \in Threads \ {t} : Result'[u] = Result[u] BY DEF TypeOK, Result, Op
  <2>3. DOMAIN Result = Threads /\ Result' = [u \in Threads |-> Result'[u]] BY DEF Result
  <2> HIDE DEF a, Result
  <2>4. Result' = [Result EXCEPT ![t] = a] BY <2>1, <2>2, <2>3
  <2> QED BY <2>4 DEF a
<1>3. committed' = Atomic!After(command[t], committed)
  <2>1. CASE Op(t) \in WriteOps BY <2>1, Stored
  <2>2. CASE Op(t) \notin WriteOps
    <3>1. committed = [k \in Keys |-> committed[k]] BY DEF TypeOK
    <3> QED BY <2>2, <3>1 DEF Atomic!After, Op, WriteOps
  <2> QED BY <2>1, <2>2
<1> QED BY <1>1, <1>2, <1>3 DEF Atomic!Perform

\* Every step is a step of the abstract store, or leaves it alone.
LEMMA StepAtomic ==
  ASSUME TypeOK, LockInv, CommandInv, Progress, [Next]_vars
  PROVE  [Atomic!Next]_(Atomic!vars)
<1> USE DEF Atomic!vars
<1>0. ASSUME NEW t \in Threads, Frame(t), UNCHANGED <<command, committed>>,
             pc[t] # "idle", pc'[t] # "idle"
      PROVE  [Atomic!Next]_(Atomic!vars)
  BY <1>0, Inside
<1>1. ASSUME NEW t \in Threads, NEW c \in Commands, Call(t, c)
      PROVE  Atomic!Next
  BY <1>1, CallAtomic DEF Atomic!Next
<1>2. ASSUME NEW t \in Threads, ReadLock(t) \/ WriteLock(t)
      PROVE  [Atomic!Next]_(Atomic!vars)
  <2>1. /\ Frame(t) /\ UNCHANGED <<command, committed>>
        /\ pc[t] # "idle" /\ pc'[t] # "idle"
    BY <1>2 DEF ReadLock, WriteLock, Frame, TypeOK
  <2> QED BY <1>0, <2>1
<1>3. ASSUME NEW t \in Threads,
             WritePair(t) \/ ReadPair(t) \/ DeletePair(t) \/ KeyExists(t) \/ Snapshot(t)
      PROVE  [Atomic!Next]_(Atomic!vars)
  <2>1. /\ Frame(t) /\ UNCHANGED <<command, committed>>
        /\ pc[t] # "idle" /\ pc'[t] # "idle"
    BY <1>3 DEF WritePair, ReadPair, DeletePair, KeyExists, Snapshot, Turn, Frame, TypeOK
  <2> QED BY <1>0, <2>1
<1>4. ASSUME NEW t \in Threads, ReadUnlock(t) PROVE Atomic!Next
  <2>1. /\ pc[t] = "unlock" /\ pc' = [pc EXCEPT ![t] = "idle"]
        /\ UNCHANGED <<command, out, committed>> /\ Op(t) \notin WriteOps
    BY <1>4 DEF ReadUnlock, WriteOps, ReadOps
  <2> QED BY <2>1, UnlockAtomic DEF Atomic!Next
<1>5. ASSUME NEW t \in Threads, WriteUnlock(t) PROVE Atomic!Next
  <2>1. /\ pc[t] = "unlock" /\ pc' = [pc EXCEPT ![t] = "idle"]
        /\ UNCHANGED <<command, out>> /\ Op(t) \in WriteOps
        /\ committed' = Contents(table)
    BY <1>5 DEF WriteUnlock
  <2> QED BY <2>1, UnlockAtomic DEF Atomic!Next
<1>6. CASE UNCHANGED vars
  BY <1>6 DEF vars, threadVars, lockVars, Pending, Result, Op
<1> QED BY <1>1, <1>2, <1>3, <1>4, <1>5, <1>6 DEF Next, Work

\* Every WRITE, READ, DELETE, SHOW, BACKUP and kvs_key_exists takes effect with
\* all its pairs in one instant, its unlock, whatever the threads, the commands
\* and the length of the batches (operations.c:45-178, 185-199).
THEOREM AtomicBatches == Spec => BatchesAtomic
<1>1. TypeOK /\ StoreInv /\ [Next]_vars => [Atomic!Next]_(Atomic!vars)
  BY StepAtomic DEF StoreInv
<1> QED BY InitAtomic, StoreInvariant, <1>1, PTL DEF Spec, BatchesAtomic, Atomic!Spec
=============================================================================
