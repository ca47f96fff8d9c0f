------------------------- MODULE CommandLoopsProofs -------------------------
(***************************************************************************)
(* Proofs about the command loops: what the two parsers make of a text,    *)
(* for every text, all limits and all keys and values.                     *)
(*                                                                         *)
(* The loops of the parsers and the language are recursive functions, so   *)
(* their properties need induction.  The sets of the numbers that have a   *)
(* property stand for the property in it.                                  *)
(***************************************************************************)
EXTENDS CommandLoops, SequenceTheorems, WellFoundedInduction, TLAPS

-----------------------------------------------------------------------------
(* Induction, and functions defined by it.                                 *)

\* A set with 0 and with the successor of each of its numbers has them all.
LEMMA SetInduction ==
  ASSUME NEW S, 0 \in S, \A n \in Nat : n \in S => n + 1 \in S
  PROVE  Nat \subseteq S
<1> DEFINE T == Nat \ S
<1> SUFFICES ASSUME T # {} PROVE FALSE OBVIOUS
<1>1. PICK x \in T : \A y \in T : <<y, x>> \notin OpToRel(<, Nat)
  BY NatLessThanWellFounded, WFMin
<1>2. x # 0 /\ x \in Nat /\ x \notin S OBVIOUS
<1>3. x - 1 \in Nat /\ x - 1 < x BY <1>2
<1>4. x - 1 \notin S
  <2>1. (x - 1) + 1 = x BY <1>2
  <2> QED BY <1>2, <1>3, <2>1
<1>5. <<x - 1, x>> \in OpToRel(<, Nat) BY <1>2, <1>3 DEF OpToRel
<1> QED BY <1>1, <1>3, <1>4, <1>5

\* Steps applied one after the other to a value make a function.
Steps(V) == [Nat -> [V -> V]]

Iterates(f, v, F) == f[0] = v /\ \A n \in Nat : f[n + 1] = F[n][f[n]]

\* The values that steps give, one after the other, are those of a function.
LEMMA Iteration ==
  ASSUME NEW V, NEW v \in V, NEW F \in Steps(V)
  PROVE  \E f \in [Nat -> V] : Iterates(f, v, F)
<1>0. F \in [Nat -> [V -> V]] BY DEF Steps
<1> DEFINE Run(n, g) == /\ g \in [0 .. n -> V] /\ g[0] = v
                        /\ \A i \in 0 .. n - 1 : g[i + 1] = F[i][g[i]]
           S == {n \in Nat : /\ \E g : Run(n, g)
                             /\ \A g, h : Run(n, g) /\ Run(n, h) => g = h}
<1>1. 0 \in S
  <2>1. Run(0, [i \in 0 .. 0 |-> v]) OBVIOUS
  <2>2. ASSUME NEW g, NEW h, Run(0, g), Run(0, h) PROVE g = h
    <3>1. g \in [0 .. 0 -> V] /\ h \in [0 .. 0 -> V] BY <2>2
    <3>2. \A i \in 0 .. 0 : g[i] = h[i] BY <2>2
    <3> QED BY <3>1, <3>2
  <2> QED BY <2>1, <2>2
<1>2. ASSUME NEW n \in Nat, NEW m \in 0 .. n, NEW g, Run(n, g)
      PROVE  Run(m, [i \in 0 .. m |-> g[i]])
  <2>1. 0 .. m \subseteq 0 .. n /\ 0 \in 0 .. m OBVIOUS
  <2>2. \A i \in 0 .. m - 1 : i \in 0 .. m /\ i + 1 \in 0 .. m /\ i \in 0 .. n - 1 OBVIOUS
  <2> QED BY <1>2, <2>1, <2>2
<1>3. ASSUME NEW n \in Nat, n \in S PROVE n + 1 \in S
  <2>1. PICK g : Run(n, g) BY <1>3
  <2> DEFINE h == [i \in 0 .. n + 1 |-> IF i = n + 1 THEN F[n][g[n]] ELSE g[i]]
  <2>2. Run(n + 1, h)
    <3>1. \A i \in 0 .. n : g[i] \in V BY <2>1
    <3>2. F[n][g[n]] \in V BY <1>0, <3>1
    <3>3. \A i \in 0 .. n + 1 : i # n + 1 => i \in 0 .. n OBVIOUS
    <3>4. h \in [0 .. n + 1 -> V] BY <3>1, <3>2, <3>3
    <3>5. h[0] = v BY <2>1
    <3>6. ASSUME NEW i \in 0 .. n PROVE h[i + 1] = F[i][h[i]]
      <4>1. h[i] = g[i] OBVIOUS
      <4>2. CASE i = n BY <4>1, <4>2
      <4>3. CASE i # n
        <5>1. i \in 0 .. n - 1 /\ i + 1 \in 0 .. n + 1 /\ i + 1 # n + 1 BY <4>3
        <5>2. h[i + 1] = g[i + 1] BY <5>1
        <5> QED BY <2>1, <4>1, <5>1, <5>2
      <4> QED BY <4>2, <4>3
    <3>7. (n + 1) - 1 = n OBVIOUS
    <3> HIDE DEF h
    <3> QED BY <3>4, <3>5, <3>6, <3>7
  <2>3. ASSUME NEW g1, NEW g2, Run(n + 1, g1), Run(n + 1, g2) PROVE g1 = g2
    <3> DEFINE r1 == [i \in 0 .. n |-> g1[i]]
               r2 == [i \in 0 .. n |-> g2[i]]
    <3>1. Run(n, r1) /\ Run(n, r2) BY <1>2, <2>3
    <3>2. r1 = r2 BY <1>3, <3>1
    <3>3. \A i \in 0 .. n : g1[i] = g2[i] BY <3>2
    <3>4. n \in 0 .. (n + 1) - 1 OBVIOUS
    <3>5. g1[n + 1] = F[n][g1[n]] /\ g2[n + 1] = F[n][g2[n]] BY <2>3, <3>4
    <3>6. g1[n + 1] = g2[n + 1] BY <3>3, <3>5
    <3>7. \A i \in 0 .. n + 1 : i \in 0 .. n \/ i = n + 1 OBVIOUS
    <3>8. g1 \in [0 .. n + 1 -> V] /\ g2 \in [0 .. n + 1 -> V] BY <2>3
    <3> QED BY <3>3, <3>6, <3>7, <3>8
  <2> HIDE DEF Run
  <2> QED BY <2>2, <2>3
<1>4. Nat \subseteq S BY <1>1, <1>3, SetInduction
<1> DEFINE g(n) == CHOOSE x : Run(n, x)
           f == [n \in Nat |-> g(n)[n]]
<1>5. \A n \in Nat : Run(n, g(n)) BY <1>4
<1>6. f \in [Nat -> V]
  <2> SUFFICES ASSUME NEW n \in Nat PROVE g(n)[n] \in V OBVIOUS
  <2>1. g(n) \in [0 .. n -> V] BY <1>5
  <2> QED BY <2>1
<1>7. f[0] = v BY <1>5
<1>8. ASSUME NEW n \in Nat PROVE f[n + 1] = F[n][f[n]]
  <2>0. n \in 0 .. n /\ n \in 0 .. (n + 1) - 1 /\ n + 1 \in Nat /\ n \in 0 .. n + 1 OBVIOUS
  <2> HIDE DEF Run, g
  <2>1. Run(n + 1, g(n + 1)) /\ Run(n, g(n)) BY <1>5, <2>0
  <2>2. Run(n, [i \in 0 .. n |-> g(n + 1)[i]]) BY <1>2, <2>0, <2>1
  <2>3. g(n) = [i \in 0 .. n |-> g(n + 1)[i]] BY <1>4, <2>1, <2>2
  <2>4. g(n)[n] = g(n + 1)[n] BY <2>0, <2>3
  <2>5. g(n + 1)[n + 1] = F[n][g(n + 1)[n]] BY <2>0, <2>1 DEF Run
  <2>6. f[n] = g(n)[n] /\ f[n + 1] = g(n + 1)[n + 1] BY <2>0
  <2> QED BY <2>4, <2>5, <2>6
<1> HIDE DEF f
<1>9. Iterates(f, v, F) BY <1>7, <1>8 DEF Iterates
<1> QED BY <1>6, <1>9

\* What is defined from its value for the number before is a function.
Computes(f, max, v, F) ==
  \A n \in 0 .. max : f[n] = IF n = 0 THEN v ELSE F[n - 1][f[n - 1]]

\* A function on 0 .. max with a recursive equation exists: what CHOOSE has to find.
LEMMA RecursiveFunction ==
  ASSUME NEW max \in Nat, NEW V, NEW v \in V, NEW F \in Steps(V)
  PROVE  \E f \in [0 .. max -> V] : Computes(f, max, v, F)
<1>1. PICK g : g \in [Nat -> V] /\ Iterates(g, v, F)
  BY Iteration
<1> DEFINE f == [n \in 0 .. max |-> g[n]]
<1>2. f \in [0 .. max -> V] BY <1>1
<1>3. ASSUME NEW n \in 0 .. max
      PROVE  f[n] = IF n = 0 THEN v ELSE F[n - 1][f[n - 1]]
  <2>1. CASE n = 0 BY <1>1, <2>1 DEF Iterates
  <2>2. CASE n # 0
    <3>1. n - 1 \in Nat /\ n - 1 \in 0 .. max /\ (n - 1) + 1 = n BY <2>2
    <3>2. g[n] = F[n - 1][g[n - 1]] BY <1>1, <3>1 DEF Iterates
    <3> QED BY <2>2, <3>1, <3>2
  <2> QED BY <2>1, <2>2
<1> HIDE DEF f
<1>4. Computes(f, max, v, F) BY <1>3 DEF Computes
<1> QED BY <1>2, <1>4

\* A function whose next value is in a set if the one before is has all its values in it.
LEMMA ValuesIn ==
  ASSUME NEW max \in Nat, NEW V, NEW h, h = [n \in 0 .. max |-> h[n]], h[0] \in V,
         \A n \in 0 .. max - 1 : h[n] \in V => h[n + 1] \in V
  PROVE  h \in [0 .. max -> V]
<1> DEFINE S == {n \in Nat : n \in 0 .. max => h[n] \in V}
<1>1. 0 \in S OBVIOUS
<1>2. ASSUME NEW n \in Nat, n \in S PROVE n + 1 \in S
  <2> SUFFICES ASSUME n + 1 \in 0 .. max PROVE h[n + 1] \in V OBVIOUS
  <2>1. n \in 0 .. max - 1 /\ n \in 0 .. max OBVIOUS
  <2> QED BY <1>2, <2>1
<1> HIDE DEF S
<1>3. Nat \subseteq S BY <1>1, <1>2, SetInduction
<1>4. \A n \in 0 .. max : h[n] \in V BY <1>3 DEF S
<1> QED BY <1>4

-----------------------------------------------------------------------------
(* Places in a text.                                                       *)

\* The fields of a text and of the words and strings in it.
LEMMA TextType ==
  ASSUME NEW t \in Seq(Characters)
  PROVE  /\ Len(t) \in Nat
         /\ DOMAIN t = 1 .. Len(t)
         /\ \A i \in 1 .. Len(t) : t[i] \in Characters
  BY LenProperties, ElementOfSeq

\* Least gives the least of the numbers there are.
LEMMA LeastOf ==
  ASSUME NEW S \in SUBSET Nat, S # {}
  PROVE  Least(S) \in S /\ \A j \in S : Least(S) <= j
<1>1. PICK x \in S : \A y \in S : <<y, x>> \notin OpToRel(<, Nat)
  BY NatLessThanWellFounded, WFMin
<1>2. \A y \in S : ~ (y < x)
  <2> SUFFICES ASSUME NEW y \in S, y < x PROVE FALSE OBVIOUS
  <2>1. <<y, x>> \in OpToRel(<, Nat) BY DEF OpToRel
  <2> QED BY <1>1, <2>1
<1>3. \A y \in S : x <= y BY <1>2
<1> QED BY <1>3 DEF Least

\* Of two it is the smaller one.
LEMMA LeastOfTwo ==
  ASSUME NEW a \in Int, NEW b \in Int
  PROVE  Least({a, b}) = IF a <= b THEN a ELSE b
<1>1. \E i \in {a, b} : \A j \in {a, b} : i <= j
  <2>1. CASE a <= b BY <2>1
  <2>2. CASE b <= a BY <2>2
  <2> QED BY <2>1, <2>2
<1>2. Least({a, b}) \in {a, b} /\ \A j \in {a, b} : Least({a, b}) <= j
  BY <1>1 DEF Least
<1> QED BY <1>2

\* The place behind n characters, if there are so many.
LEMMA AfterIs ==
  ASSUME NEW t \in Seq(Characters), NEW p \in Nat, NEW n \in Nat
  PROVE  After(t, p, n) = IF p + n <= Len(t) + 1 THEN p + n ELSE Len(t) + 1
  BY TextType, LeastOfTwo DEF After

\* Find gives the first place, or the one behind the end.
LEMMA FindIs ==
  ASSUME NEW t \in Seq(Characters), NEW p \in 1 .. Len(t) + 1, NEW chars
  PROVE  /\ Find(t, p, chars) \in p .. Len(t) + 1
         /\ Find(t, p, chars) <= Len(t) => t[Find(t, p, chars)] \in chars
         /\ \A i \in p .. Find(t, p, chars) - 1 :
              i \in 1 .. Len(t) /\ t[i] \notin chars
<1> DEFINE S == {i \in p .. Len(t) : t[i] \in chars} \cup {Len(t) + 1}
<1>1. Len(t) \in Nat BY TextType
<1>2. S \in SUBSET Nat /\ S # {} BY <1>1
<1>3. Find(t, p, chars) = Least(S) BY DEF Find
<1>4. Least(S) \in S /\ \A j \in S : Least(S) <= j
  <2> HIDE DEF S
  <2> QED BY <1>2, LeastOf
<1> DEFINE f == Least(S)
<1>5. f \in S /\ f <= Len(t) + 1 /\ \A i \in p .. Len(t) : t[i] \in chars => f <= i
  BY <1>4
<1>6. f \in p .. Len(t) + 1 /\ (f <= Len(t) => t[f] \in chars) BY <1>1, <1>5
<1> HIDE DEF f, S
<1>7. ASSUME NEW i \in p .. f - 1 PROVE i \in 1 .. Len(t) /\ t[i] \notin chars
  <2>1. i \in p .. Len(t) /\ ~ (f <= i) BY <1>1, <1>6
  <2> QED BY <1>1, <1>5, <2>1
<1> QED BY <1>3, <1>6, <1>7 DEF f

\* A place with one of the characters and none before it is the one found.
LEMMA FindFirst ==
  ASSUME NEW t \in Seq(Characters), NEW p \in 1 .. Len(t) + 1, NEW chars,
         NEW q \in p .. Len(t), t[q] \in chars,
         \A i \in p .. q - 1 : t[i] \notin chars
  PROVE  Find(t, p, chars) = q
<1> DEFINE f == Find(t, p, chars)
<1>1. Len(t) \in Nat BY TextType
<1>2. /\ f \in p .. Len(t) + 1
      /\ f <= Len(t) => t[f] \in chars
      /\ \A i \in p .. f - 1 : i \in 1 .. Len(t) /\ t[i] \notin chars
  BY FindIs
<1> HIDE DEF f
<1>3. ~ (f < q) BY <1>1, <1>2
<1>4. ~ (q < f) BY <1>1, <1>2
<1>5. f = q BY <1>1, <1>2, <1>3, <1>4
<1> QED BY <1>5 DEF f

\* cleanup goes to the beginning of a line or to the end (parser.c:90-94).
LEMMA CleanupIs ==
  ASSUME NEW t \in Seq(Characters), NEW p \in 1 .. Len(t) + 1
  PROVE  /\ cleanup(t, p) \in p .. Len(t) + 1
         /\ cleanup(t, p) \in 1 .. Len(t) => t[cleanup(t, p) - 1] = NL
<1> DEFINE f == Find(t, p, {NL})
<1>1. Len(t) \in Nat BY TextType
<1>2. f \in p .. Len(t) + 1 /\ (f <= Len(t) => t[f] \in {NL}) BY FindIs
<1>3. cleanup(t, p) = After(t, f, 1) BY DEF cleanup
<1> HIDE DEF f
<1>4. After(t, f, 1) = IF f + 1 <= Len(t) + 1 THEN f + 1 ELSE Len(t) + 1
  <2>1. f \in Nat /\ 1 \in Nat BY <1>1, <1>2
  <2> QED BY <2>1, AfterIs
<1> QED BY <1>1, <1>2, <1>3, <1>4

\* The text has s from p on.
At(t, p, s) ==
  /\ p + Len(s) <= Len(t) + 1
  /\ \A i \in 1 .. Len(s) : t[p + i - 1] = s[i]

\* What is put together is there if both parts are, the second behind the first.
LEMMA AtJoined ==
  ASSUME NEW t \in Seq(Characters), NEW p \in 1 .. Len(t) + 1,
         NEW s \in Seq(Characters), NEW u \in Seq(Characters)
  PROVE  At(t, p, s \o u) <=> At(t, p, s) /\ At(t, p + Len(s), u)
<1>1. Len(t) \in Nat /\ Len(s) \in Nat /\ Len(u) \in Nat BY TextType
<1>2. /\ Len(s \o u) = Len(s) + Len(u)
      /\ \A i \in 1 .. Len(s) + Len(u) :
           (s \o u)[i] = IF i <= Len(s) THEN s[i] ELSE u[i - Len(s)]
  BY ConcatProperties
<1>3. ASSUME At(t, p, s \o u) PROVE At(t, p, s) /\ At(t, p + Len(s), u)
  <2>1. At(t, p, s) BY <1>1, <1>2, <1>3 DEF At
  <2>2. ASSUME NEW i \in 1 .. Len(u) PROVE t[(p + Len(s)) + i - 1] = u[i]
    <3>1. /\ Len(s) + i \in 1 .. Len(s) + Len(u) /\ ~ (Len(s) + i <= Len(s))
          /\ (Len(s) + i) - Len(s) = i /\ p + (Len(s) + i) - 1 = (p + Len(s)) + i - 1
      BY <1>1
    <3>2. (s \o u)[Len(s) + i] = u[i] BY <1>2, <3>1
    <3>3. t[p + (Len(s) + i) - 1] = (s \o u)[Len(s) + i] BY <1>2, <1>3, <3>1 DEF At
    <3> QED BY <3>1, <3>2, <3>3
  <2>3. (p + Len(s)) + Len(u) <= Len(t) + 1 BY <1>1, <1>2, <1>3 DEF At
  <2> QED BY <2>1, <2>2, <2>3 DEF At
<1>4. ASSUME At(t, p, s), At(t, p + Len(s), u) PROVE At(t, p, s \o u)
  <2>1. ASSUME NEW i \in 1 .. Len(s) + Len(u) PROVE t[p + i - 1] = (s \o u)[i]
    <3>1. CASE i <= Len(s) BY <1>1, <1>2, <1>4, <3>1 DEF At
    <3>2. CASE ~ (i <= Len(s))
      <4>1. /\ i - Len(s) \in 1 .. Len(u)
            /\ (p + Len(s)) + (i - Len(s)) - 1 = p + i - 1
        BY <1>1, <3>2
      <4>2. t[(p + Len(s)) + (i - Len(s)) - 1] = u[i - Len(s)] BY <1>4, <4>1 DEF At
      <4> QED BY <1>2, <3>2, <4>1, <4>2
    <3> QED BY <3>1, <3>2
  <2>2. p + (Len(s) + Len(u)) <= Len(t) + 1 BY <1>1, <1>4 DEF At
  <2> QED BY <1>2, <2>1, <2>2 DEF At
<1> QED BY <1>3, <1>4

\* A single character.
LEMMA AtChar ==
  ASSUME NEW t \in Seq(Characters), NEW p \in Nat, NEW c
  PROVE  At(t, p, <<c>>) <=> p <= Len(t) /\ t[p] = c
<1>1. Len(t) \in Nat BY TextType
<1>2. Len(<<c>>) = 1 /\ <<c>>[1] = c OBVIOUS
<1>3. p + 1 - 1 = p OBVIOUS
<1> QED BY <1>1, <1>2, <1>3 DEF At

\* What is there is that part of the text.
LEMMA AtIsPart ==
  ASSUME NEW t \in Seq(Characters), NEW p \in 1 .. Len(t) + 1,
         NEW s \in Seq(Characters)
  PROVE  At(t, p, s) <=> /\ p + Len(s) <= Len(t) + 1
                         /\ SubSeq(t, p, p + Len(s) - 1) = s
<1> DEFINE q == p + Len(s) - 1
           part == SubSeq(t, p, q)
<1>1. /\ Len(t) \in Nat /\ Len(s) \in Nat
      /\ \A i \in 1 .. Len(t) : t[i] \in Characters
  BY TextType
<1> SUFFICES ASSUME p + Len(s) <= Len(t) + 1 PROVE At(t, p, s) <=> part = s
  BY DEF At
<1>2. p \in Int /\ q \in Int /\ \A i \in p .. q : t[i] \in Characters BY <1>1
<1>3. q - p + 1 = Len(s) BY <1>1
<1>4. part \in Seq(Characters) /\ Len(part) = (IF p <= q THEN q - p + 1 ELSE 0)
      /\ \A i \in 1 .. q - p + 1 : part[i] = t[p + i - 1]
  <2> HIDE DEF q
  <2> QED BY <1>2, SubSeqProperties
<1>5. Len(part) = Len(s) BY <1>1, <1>3, <1>4
<1>6. \A i \in 1 .. Len(s) : part[i] = t[p + i - 1] BY <1>3, <1>4
<1> HIDE DEF part
<1>7. part = s <=> \A i \in 1 .. Len(s) : part[i] = s[i] BY <1>4, <1>5, SeqEqual
<1> QED BY <1>6, <1>7 DEF At

\* read gives the characters of a word if the text has it there.
LEMMA CharsAre ==
  ASSUME NEW t \in Seq(Characters), NEW p \in 1 .. Len(t) + 1,
         NEW s \in Seq(Characters), s # <<>>
  PROVE  Chars(t, p, Len(s)) = s <=> At(t, p, s)
<1>1. /\ Len(t) \in Nat /\ Len(s) \in Nat /\ Len(s) # 0
      /\ \A i \in 1 .. Len(t) : t[i] \in Characters
  BY TextType, EmptySeq
<1>2. CASE p + Len(s) <= Len(t) + 1
  <2>1. Least({p + Len(s) - 1, Len(t)}) = p + Len(s) - 1 BY <1>1, <1>2, LeastOfTwo
  <2>2. Chars(t, p, Len(s)) = SubSeq(t, p, p + Len(s) - 1) BY <2>1 DEF Chars
  <2>3. At(t, p, s) <=> SubSeq(t, p, p + Len(s) - 1) = s BY <1>2, AtIsPart
  <2> QED BY <2>2, <2>3
<1>3. CASE ~ (p + Len(s) <= Len(t) + 1)
  <2>1. Least({p + Len(s) - 1, Len(t)}) = Len(t)
    <3> DEFINE q == p + Len(s) - 1
    <3>1. q \in Int /\ Len(t) \in Int /\ ~ (q <= Len(t)) BY <1>1, <1>3
    <3> HIDE DEF q
    <3>2. Least({q, Len(t)}) = Len(t) BY <3>1, LeastOfTwo
    <3> QED BY <3>2 DEF q
  <2>2. Len(SubSeq(t, p, Len(t))) = IF p <= Len(t) THEN Len(t) - p + 1 ELSE 0
    <3>1. p \in Int /\ \A i \in p .. Len(t) : t[i] \in Characters BY <1>1
    <3> QED BY <1>1, <3>1, SubSeqProperties
  <2>3. Len(SubSeq(t, p, Len(t))) # Len(s) BY <1>1, <1>3, <2>2
  <2>4. Chars(t, p, Len(s)) # s BY <2>1, <2>3 DEF Chars
  <2> QED BY <1>3, <2>4 DEF At
<1> QED BY <1>2, <1>3

\* What reading a single character gets, which is nothing at the end.
LEMMA NextChar ==
  ASSUME NEW t \in Seq(Characters), NEW p \in 1 .. Len(t) + 1
  PROVE  Chars(t, p, 1) = IF p <= Len(t) THEN <<t[p]>> ELSE <<>>
<1>1. Len(t) \in Nat /\ \A i \in 1 .. Len(t) : t[i] \in Characters BY TextType
<1>2. CASE p <= Len(t)
  <2>1. t[p] \in Characters BY <1>1, <1>2
  <2> DEFINE s == <<t[p]>>
  <2>2. s \in Seq(Characters) /\ Len(s) = 1 /\ s # <<>> BY <2>1
  <2>3. At(t, p, s) BY <1>2, AtChar
  <2>4. Chars(t, p, Len(s)) = s
    <3> HIDE DEF s
    <3> QED BY <2>2, <2>3, CharsAre
  <2> QED BY <1>2, <2>2, <2>4
<1>3. CASE ~ (p <= Len(t))
  <2>1. p + 1 - 1 = p /\ p \in Int /\ Len(t) \in Int /\ ~ (p <= Len(t)) BY <1>1, <1>3
  <2>2. Least({p + 1 - 1, Len(t)}) = Len(t)
    <3>1. Least({p, Len(t)}) = Len(t) BY <2>1, LeastOfTwo
    <3> QED BY <2>1, <3>1
  <2>3. SubSeq(t, p, Len(t)) = <<>> BY <1>1, <1>3, SubSeqEmpty
  <2> QED BY <1>3, <2>2, <2>3 DEF Chars
<1> QED BY <1>2, <1>3

-----------------------------------------------------------------------------
(* Strings and numbers.                                                    *)

\* The characters that end a string, and the one that read_string stands for.
Ends == {" ", ",", ")", "]"}
Mark(value) == IF value = 0 THEN "," ELSE IF value = 1 THEN ")" ELSE "]"

\* The marks are characters.
LEMMA MarkType ==
  \A v \in {0, 1, 2} : Mark(v) \in Characters /\ <<Mark(v)>> \in Seq(Characters)
<1>1. \A v \in {0, 1, 2} : Mark(v) \in Characters
  BY CommandTextAssumption DEF Mark, Marks
<1> QED BY <1>1

\* The value of a string tells which mark has ended it.
LEMMA ValueOf ==
  ASSUME NEW ch, NEW v,
         v = CASE ch = "," -> 0 [] ch = ")" -> 1 [] ch = "]" -> 2 [] OTHER -> -1
  PROVE  /\ v \in {-1, 0, 1, 2}
         /\ v # -1 => ch = Mark(v) /\ ch # " "
         /\ \A m \in {0, 1, 2} : ch = Mark(m) => v = m
<1>1. CASE ch = "," BY <1>1 DEF Mark
<1>2. CASE ch = ")" BY <1>2 DEF Mark
<1>3. CASE ch = "]" BY <1>3 DEF Mark
<1>4. CASE ch \notin {",", ")", "]"} BY <1>4 DEF Mark
<1> QED BY <1>1, <1>2, <1>3, <1>4

\* What read_string gives: the characters up to a mark, few enough for the buffer with
\* a zero behind them, and the place behind the mark.
LEMMA ReadString ==
  ASSUME NEW t \in Seq(Characters), NEW p \in 1 .. Len(t) + 1, NEW r,
         r = read_string(t, p, MAX_STRING_SIZE)
  PROVE  /\ r.value \in {-1, 0, 1, 2}
         /\ r.next \in p .. Len(t) + 1
         /\ r.value # -1 => /\ r.string \in Seq(Characters)
                            /\ Len(r.string) < MAX_STRING_SIZE
                            /\ At(t, p, r.string \o <<Mark(r.value)>>)
                            /\ r.next = p + Len(r.string) + 1
<1> DEFINE stop == Find(t, p, Ends)
           ch   == IF stop <= Len(t) /\ stop < p + MAX_STRING_SIZE THEN t[stop] ELSE " "
<1>1. /\ Len(t) \in Nat /\ MAX_STRING_SIZE \in Nat \ {0}
      /\ \A i \in 1 .. Len(t) : t[i] \in Characters
  BY TextType, CommandTextAssumption
<1>2. /\ stop \in p .. Len(t) + 1
      /\ stop <= Len(t) => t[stop] \in Ends
      /\ \A i \in p .. stop - 1 : i \in 1 .. Len(t) /\ t[i] \notin Ends
  BY FindIs
<1>3. /\ r.value = (CASE ch = "," -> 0 [] ch = ")" -> 1 [] ch = "]" -> 2 [] OTHER -> -1)
      /\ r.string = SubSeq(t, p, stop - 1)
      /\ r.next = Least({After(t, stop, 1), After(t, p, MAX_STRING_SIZE)})
  BY DEF read_string, StringUpTo, Ends
<1> HIDE DEF stop
<1>4. /\ After(t, stop, 1) = (IF stop + 1 <= Len(t) + 1 THEN stop + 1 ELSE Len(t) + 1)
      /\ After(t, p, MAX_STRING_SIZE) =
           (IF p + MAX_STRING_SIZE <= Len(t) + 1 THEN p + MAX_STRING_SIZE ELSE Len(t) + 1)
  <2>1. stop \in Nat /\ p \in Nat /\ 1 \in Nat BY <1>1, <1>2
  <2> QED BY <1>1, <2>1, AfterIs
<1>5. r.next = IF After(t, stop, 1) <= After(t, p, MAX_STRING_SIZE)
               THEN After(t, stop, 1) ELSE After(t, p, MAX_STRING_SIZE)
  <2>1. After(t, stop, 1) \in Int /\ After(t, p, MAX_STRING_SIZE) \in Int
    BY <1>1, <1>2, <1>4
  <2> QED BY <1>3, <2>1, LeastOfTwo
<1>6. r.next \in p .. Len(t) + 1 BY <1>1, <1>2, <1>4, <1>5
<1>7. r.value \in {-1, 0, 1, 2}
  <2> HIDE DEF ch
  <2> QED BY <1>3, ValueOf
<1>8. ASSUME r.value # -1
      PROVE  /\ r.string \in Seq(Characters)
             /\ Len(r.string) < MAX_STRING_SIZE
             /\ At(t, p, r.string \o <<Mark(r.value)>>)
             /\ r.next = p + Len(r.string) + 1
  <2>1. ch = Mark(r.value) /\ ch # " "
    <3> HIDE DEF ch
    <3> QED BY <1>3, <1>8, ValueOf
  <2>2. stop <= Len(t) /\ stop < p + MAX_STRING_SIZE /\ t[stop] = Mark(r.value)
    BY <2>1
  <2>3. /\ r.string \in Seq(Characters) /\ Len(r.string) = stop - p
    <3>1. /\ p \in Int /\ stop - 1 \in Int
          /\ \A i \in p .. stop - 1 : t[i] \in Characters
      BY <1>1, <1>2
    <3>2. /\ SubSeq(t, p, stop - 1) \in Seq(Characters)
          /\ Len(SubSeq(t, p, stop - 1)) = IF p <= stop - 1 THEN (stop - 1) - p + 1 ELSE 0
      BY <3>1, SubSeqProperties
    <3>3. (IF p <= stop - 1 THEN (stop - 1) - p + 1 ELSE 0) = stop - p BY <1>1, <1>2
    <3> QED BY <1>3, <3>2, <3>3
  <2>4. At(t, p, r.string)
    <3>1. p + Len(r.string) - 1 = stop - 1 BY <1>2, <2>3
    <3>2. SubSeq(t, p, p + Len(r.string) - 1) = r.string BY <1>3, <3>1
    <3>3. p + Len(r.string) <= Len(t) + 1 BY <1>1, <1>2, <2>3
    <3> QED BY <2>3, <3>2, <3>3, AtIsPart
  <2>5. At(t, p + Len(r.string), <<Mark(r.value)>>)
    <3>1. p + Len(r.string) = stop /\ stop \in Nat BY <1>1, <1>2, <2>3
    <3> QED BY <2>2, <3>1, AtChar
  <2>6. <<Mark(r.value)>> \in Seq(Characters) BY <1>7, <1>8, MarkType
  <2>7. At(t, p, r.string \o <<Mark(r.value)>>) BY <2>3, <2>4, <2>5, <2>6, AtJoined
  <2>8. r.next = stop + 1
    <3>1. stop + 1 <= Len(t) + 1 /\ stop + 1 <= p + MAX_STRING_SIZE
      BY <1>1, <1>2, <2>2
    <3> QED BY <1>1, <1>2, <1>4, <1>5, <3>1
  <2>9. Len(r.string) < MAX_STRING_SIZE /\ r.next = p + Len(r.string) + 1
    BY <1>1, <1>2, <2>2, <2>3, <2>8
  <2> QED BY <2>3, <2>7, <2>9
<1> QED BY <1>6, <1>7, <1>8

\* A string of the language with a mark behind it is read as it is.
LEMMA StringIsRead ==
  ASSUME NEW t \in Seq(Characters), NEW p \in 1 .. Len(t) + 1, NEW r,
         r = read_string(t, p, MAX_STRING_SIZE),
         NEW s \in Strings, NEW v \in {0, 1, 2}, At(t, p, s \o <<Mark(v)>>)
  PROVE  r.value = v /\ r.string = s /\ r.next = p + Len(s) + 1
<1> DEFINE stop == Find(t, p, Ends)
           q == p + Len(s)
           ch   == IF stop <= Len(t) /\ stop < p + MAX_STRING_SIZE THEN t[stop] ELSE " "
<1>1. /\ Len(t) \in Nat /\ MAX_STRING_SIZE \in Nat \ {0}
      /\ \A i \in 1 .. Len(t) : t[i] \in Characters
  BY TextType, CommandTextAssumption
<1>2. /\ s \in Seq(Characters) /\ Len(s) \in Nat /\ Len(s) < MAX_STRING_SIZE
      /\ \A i \in 1 .. Len(s) : s[i] \notin Ends
  <2>1. s \in Seq(Characters \ Ends) /\ Len(s) < MAX_STRING_SIZE
    BY CommandLoopsAssumption DEF Ends
  <2>2. s \in Seq(Characters)
    <3>1. Characters \ Ends \subseteq Characters OBVIOUS
    <3> QED BY <2>1, <3>1, SeqMonotonic
  <2>3. \A i \in 1 .. Len(s) : s[i] \in Characters \ Ends BY <2>1, ElementOfSeq
  <2> QED BY <2>1, <2>2, <2>3, LenProperties
<1>3. At(t, p, s) /\ At(t, q, <<Mark(v)>>) BY <1>2, MarkType, AtJoined
<1>4. q \in Nat /\ q <= Len(t) /\ t[q] = Mark(v)
  <2>1. q \in Nat BY <1>1, <1>2
  <2> QED BY <1>3, <2>1, AtChar
<1>5. Mark(v) \in Ends BY DEF Mark, Ends
<1>6. stop = q
  <2>1. ASSUME NEW i \in p .. q - 1 PROVE t[i] \notin Ends
    <3>1. i - p + 1 \in 1 .. Len(s) /\ p + (i - p + 1) - 1 = i BY <1>2
    <3>2. t[i] = s[i - p + 1] BY <1>3, <3>1 DEF At
    <3> QED BY <1>2, <3>1, <3>2
  <2>2. q \in p .. Len(t) BY <1>1, <1>2, <1>4
  <2> HIDE DEF q
  <2> QED BY <1>4, <1>5, <2>1, <2>2, FindFirst
<1>7. ch = Mark(v)
  <2>1. stop <= Len(t) /\ stop < p + MAX_STRING_SIZE BY <1>1, <1>2, <1>4, <1>6
  <2> QED BY <1>4, <1>6, <2>1
<1>8. /\ r.value = (CASE ch = "," -> 0 [] ch = ")" -> 1 [] ch = "]" -> 2 [] OTHER -> -1)
      /\ r.string = SubSeq(t, p, stop - 1)
  BY DEF read_string, StringUpTo, Ends
<1>9. r.value = v
  <2> HIDE DEF ch
  <2> QED BY <1>7, <1>8, ValueOf
<1>10. r.string = s
  <2>1. SubSeq(t, p, p + Len(s) - 1) = s BY <1>2, <1>3, AtIsPart
  <2>2. stop - 1 = p + Len(s) - 1 BY <1>6
  <2> QED BY <1>8, <2>1, <2>2
<1>11. r.next = p + Len(s) + 1
  <2>1. r.value # -1 BY <1>9
  <2> QED BY <1>10, <2>1, ReadString
<1> QED BY <1>9, <1>10, <1>11

-----------------------------------------------------------------------------
(* The language: lists of strings and of pairs.                            *)

Words == Seq(Characters)
Lists == Seq(Words) \ {<<>>}

\* The characters the language puts between words are words.
LEMMA SignType ==
  /\ <<",">> \in Words /\ <<"(">> \in Words /\ <<")">> \in Words
  /\ <<"[">> \in Words /\ <<"]">> \in Words /\ <<NL>> \in Words
<1>1. \A c \in Marks : <<c>> \in Words
  <2>1. Marks \subseteq Characters BY CommandTextAssumption
  <2> QED BY <2>1 DEF Words
<1> QED BY <1>1 DEF Marks

\* A list has words, and at least one.
LEMMA ListType ==
  ASSUME NEW ss \in Lists
  PROVE  /\ Len(ss) \in Nat \ {0} /\ ss \in Seq(Words)
         /\ \A i \in 1 .. Len(ss) : ss[i] \in Words
<1>1. ss \in Seq(Words) /\ ss # <<>> BY DEF Lists
<1> QED BY <1>1, LenProperties, ElementOfSeq, EmptySeq

\* Words put together are a word.
LEMMA ConcatType ==
  \A s \in Words, u \in Words : s \o u \in Words
  BY ConcatProperties DEF Words

\* A word and the comma behind it.
LEMMA CommaBehind ==
  ASSUME NEW s \in Words
  PROVE  s \o <<",">> \in Words /\ Len(s \o <<",">>) = Len(s) + 1
<1> DEFINE l == <<",">>
<1>1. l \in Words /\ Len(l) = 1 BY SignType
<1> HIDE DEF l
<1>2. s \o l \in Words /\ Len(s \o l) = Len(s) + Len(l)
  BY <1>1, ConcatProperties DEF Words
<1> QED BY <1>1, <1>2 DEF l

\* Three words in a row; a name for it, as the provers would go on with it for ever.
InARow(r, s, u) == (r \o s) \o u = r \o (s \o u)

\* It does not matter which two are put together first.
LEMMA Associative == \A r \in Words, s \in Words, u \in Words : InARow(r, s, u)
  BY ConcatAssociative DEF Words, InARow

\* The recursive function in CommaList has its equation.
LEMMA CommaListDef ==
  ASSUME NEW ss \in Lists
  PROVE  \E f \in [1 .. Len(ss) -> Words] :
           /\ CommaList(ss) = f[Len(ss)]
           /\ f[1] = ss[1]
           /\ \A n \in 2 .. Len(ss) : f[n] = f[n - 1] \o <<",">> \o ss[n]
<1> DEFINE Body(f) == [n \in 1 .. Len(ss) |->
                         IF n = 1 THEN ss[1] ELSE f[n - 1] \o <<",">> \o ss[n]]
           upTo == CHOOSE f : f = Body(f)
           step(n, x) == IF n + 2 <= Len(ss) THEN x \o <<",">> \o ss[n + 2] ELSE x
           F == [n \in Nat |-> [x \in Words |-> step(n, x)]]
<1>1. CommaList(ss) = upTo[Len(ss)] BY DEF CommaList
<1>2. F \in Steps(Words)
  <2>1. ASSUME NEW n \in Nat, NEW x \in Words PROVE step(n, x) \in Words
    <3>1. CASE n + 2 <= Len(ss)
      <4>1. ss[n + 2] \in Words BY <3>1, ListType
      <4>2. (x \o <<",">>) \o ss[n + 2] \in Words BY <4>1, ConcatType, SignType
      <4> QED BY <3>1, <4>2
    <3>2. CASE ~ (n + 2 <= Len(ss)) BY <3>2
    <3> QED BY <3>1, <3>2
  <2> HIDE DEF step
  <2> QED BY <2>1 DEF Steps
<1>3. PICK g \in [0 .. Len(ss) - 1 -> Words] : Computes(g, Len(ss) - 1, ss[1], F)
  <2>1. Len(ss) - 1 \in Nat /\ ss[1] \in Words BY ListType
  <2> HIDE DEF F
  <2> QED BY <1>2, <2>1, RecursiveFunction
<1> DEFINE f == [n \in 1 .. Len(ss) |-> g[n - 1]]
<1>4. f \in [1 .. Len(ss) -> Words] BY ListType
<1>5. f[1] = ss[1]
  <2>1. 1 \in 1 .. Len(ss) /\ 0 \in 0 .. Len(ss) - 1 /\ 1 - 1 = 0 BY ListType
  <2> QED BY <1>3, <2>1 DEF Computes
<1>6. ASSUME NEW n \in 2 .. Len(ss)
      PROVE  f[n] = f[n - 1] \o <<",">> \o ss[n]
  <2>1. /\ n - 1 \in 0 .. Len(ss) - 1 /\ n - 1 # 0 /\ n - 2 \in Nat /\ (n - 2) + 2 = n
        /\ (n - 1) - 1 = n - 2 /\ n - 2 \in 0 .. Len(ss) - 1 /\ n <= Len(ss)
        /\ n \in 1 .. Len(ss) /\ n - 1 \in 1 .. Len(ss)
    BY ListType
  <2>2. g[n - 1] = F[n - 2][g[n - 2]] BY <1>3, <2>1 DEF Computes
  <2>3. g[n - 2] \in Words BY <2>1
  <2>4. F[n - 2][g[n - 2]] = step(n - 2, g[n - 2]) BY <2>1, <2>3
  <2>5. step(n - 2, g[n - 2]) = g[n - 2] \o <<",">> \o ss[n] BY <2>1
  <2>6. f[n] = g[n - 1] /\ f[n - 1] = g[n - 2] BY <2>1
  <2> QED BY <2>2, <2>4, <2>5, <2>6
<1>7. upTo = Body(upTo)
  <2>1. f = Body(f)
    <3>1. ASSUME NEW n \in 1 .. Len(ss) PROVE f[n] = Body(f)[n]
      <4>1. CASE n = 1 BY <1>5, <4>1
      <4>2. CASE n # 1
        <5>1. n \in 2 .. Len(ss) BY <4>2
        <5> HIDE DEF f
        <5> QED BY <1>6, <4>2, <5>1
      <4> QED BY <4>1, <4>2
    <3>2. DOMAIN f = 1 .. Len(ss) OBVIOUS
    <3> HIDE DEF f
    <3> QED BY <1>4, <3>1
  <2> HIDE DEF Body, f
  <2> QED BY <2>1
<1>8. ASSUME NEW h, h = Body(h) PROVE h = f
  <2>1. \A n \in Nat : n + 1 \in 1 .. Len(ss) => h[n + 1] = f[n + 1]
    <3> DEFINE S == {n \in Nat : n + 1 \in 1 .. Len(ss) => h[n + 1] = f[n + 1]}
    <3>1. 0 \in S
      <4>1. 1 \in 1 .. Len(ss) /\ 0 + 1 = 1 BY ListType
      <4>2. h[1] = ss[1] BY <1>8, <4>1
      <4> QED BY <1>5, <4>1, <4>2
    <3>2. ASSUME NEW n \in Nat, n \in S PROVE n + 1 \in S
      <4> SUFFICES ASSUME (n + 1) + 1 \in 1 .. Len(ss)
                   PROVE  h[(n + 1) + 1] = f[(n + 1) + 1]
        OBVIOUS
      <4>1. /\ (n + 1) + 1 \in 2 .. Len(ss) /\ n + 1 \in 1 .. Len(ss)
            /\ ((n + 1) + 1) - 1 = n + 1 /\ (n + 1) + 1 # 1
        BY ListType
      <4>2. h[n + 1] = f[n + 1] BY <3>2, <4>1
      <4>3. h[(n + 1) + 1] = h[n + 1] \o <<",">> \o ss[(n + 1) + 1] BY <1>8, <4>1
      <4> HIDE DEF f
      <4> QED BY <1>6, <4>1, <4>2, <4>3
    <3> HIDE DEF S
    <3>3. Nat \subseteq S BY <3>1, <3>2, SetInduction
    <3> QED BY <3>3 DEF S
  <2>2. ASSUME NEW n \in 1 .. Len(ss) PROVE h[n] = f[n]
    <3>1. n - 1 \in Nat /\ (n - 1) + 1 = n OBVIOUS
    <3> HIDE DEF f
    <3> QED BY <2>1, <3>1
  <2>3. h = [n \in 1 .. Len(ss) |-> h[n]] BY <1>8
  <2>4. f = [n \in 1 .. Len(ss) |-> f[n]] OBVIOUS
  <2> HIDE DEF f
  <2> QED BY <2>2, <2>3, <2>4
<1> HIDE DEF f, upTo, Body
<1>9. upTo = f BY <1>7, <1>8
<1> QED BY <1>1, <1>4, <1>5, <1>6, <1>9

\* A list with its commas is a word.
LEMMA CommaListType == \A ss \in Lists : CommaList(ss) \in Words
<1> SUFFICES ASSUME NEW ss \in Lists PROVE CommaList(ss) \in Words OBVIOUS
<1>1. PICK f \in [1 .. Len(ss) -> Words] : CommaList(ss) = f[Len(ss)] BY CommaListDef
<1>2. Len(ss) \in 1 .. Len(ss) BY ListType
<1> QED BY <1>1, <1>2

\* A list with a string in front of it.
LEMMA Front ==
  ASSUME NEW S, NEW x \in S, NEW xs \in Seq(S)
  PROVE  /\ <<x>> \o xs \in Seq(S) /\ <<x>> \o xs # <<>>
         /\ Len(<<x>> \o xs) = Len(xs) + 1
         /\ (<<x>> \o xs)[1] = x
         /\ \A i \in 1 .. Len(xs) : (<<x>> \o xs)[i + 1] = xs[i]
<1>1. <<x>> \in Seq(S) /\ Len(<<x>>) = 1 /\ <<x>>[1] = x OBVIOUS
<1>2. Len(xs) \in Nat BY LenProperties
<1> DEFINE y == <<x>>
<1>3. /\ y \o xs \in Seq(S) /\ Len(y \o xs) = 1 + Len(xs)
      /\ \A i \in 1 .. 1 + Len(xs) : (y \o xs)[i] = IF i <= 1 THEN y[1] ELSE xs[i - 1]
  <2>1. Len(y) = 1 /\ y \in Seq(S) BY <1>1 DEF y
  <2> HIDE DEF y
  <2>2. /\ y \o xs \in Seq(S) /\ Len(y \o xs) = Len(y) + Len(xs)
        /\ \A i \in 1 .. Len(y) + Len(xs) :
             (y \o xs)[i] = IF i <= Len(y) THEN y[i] ELSE xs[i - Len(y)]
    BY <2>1, ConcatProperties
  <2>3. \A i \in 1 .. 1 + Len(xs) : i <= 1 => i = 1 OBVIOUS
  <2> QED BY <1>2, <2>1, <2>2, <2>3
<1> HIDE DEF y
<1>4. \A i \in 1 .. Len(xs) : (y \o xs)[i + 1] = xs[i] BY <1>2, <1>3
<1>5. (y \o xs)[1] = x BY <1>1, <1>2, <1>3 DEF y
<1>6. y \o xs # <<>> BY <1>2, <1>3
<1> QED BY <1>2, <1>3, <1>4, <1>5, <1>6 DEF y

\* A list of one string has no comma.
LEMMA CommaListOne == \A s \in Words : CommaList(<<s>>) = s /\ <<s>> \in Lists
<1> SUFFICES ASSUME NEW s \in Words PROVE CommaList(<<s>>) = s /\ <<s>> \in Lists
  OBVIOUS
<1>1. <<s>> \in Lists /\ Len(<<s>>) = 1 /\ <<s>>[1] = s BY DEF Lists
<1> DEFINE ss == <<s>>
<1> HIDE DEF ss
<1>2. PICK f \in [1 .. Len(ss) -> Words] : CommaList(ss) = f[Len(ss)] /\ f[1] = ss[1]
  BY <1>1, CommaListDef DEF ss
<1> QED BY <1>1, <1>2 DEF ss

\* What a list starts with is written first.
LEMMA CommaListFirst ==
  ASSUME NEW s \in Words, NEW ss \in Lists
  PROVE  /\ <<s>> \o ss \in Lists
         /\ CommaList(<<s>> \o ss) = (s \o <<",">>) \o CommaList(ss)
<1> DEFINE zz == <<s>> \o ss
<1>1. /\ zz \in Lists /\ Len(zz) = Len(ss) + 1 /\ zz[1] = s
      /\ \A i \in 1 .. Len(ss) : zz[i + 1] = ss[i]
  <2>1. ss \in Seq(Words) BY ListType
  <2> QED BY <2>1, Front DEF Lists
<1> HIDE DEF zz
<1>2. Len(ss) \in Nat \ {0} BY ListType
<1>3. PICK f \in [1 .. Len(ss) -> Words] :
         /\ CommaList(ss) = f[Len(ss)] /\ f[1] = ss[1]
         /\ \A n \in 2 .. Len(ss) : f[n] = f[n - 1] \o <<",">> \o ss[n]
  BY CommaListDef
<1>4. PICK g \in [1 .. Len(zz) -> Words] :
         /\ CommaList(zz) = g[Len(zz)] /\ g[1] = zz[1]
         /\ \A n \in 2 .. Len(zz) : g[n] = g[n - 1] \o <<",">> \o zz[n]
  BY <1>1, CommaListDef
<1> DEFINE S == {n \in Nat : n + 1 \in 1 .. Len(ss) => g[n + 2] = (s \o <<",">>) \o f[n + 1]}
<1>5. 0 \in S
  <2>1. /\ 1 \in 1 .. Len(ss) /\ 2 \in 2 .. Len(zz) /\ 1 + 1 = 2 /\ 2 - 1 = 1
        /\ 0 + 1 = 1 /\ 0 + 2 = 2
    BY <1>1, <1>2
  <2>2. zz[2] = ss[1] BY <1>1, <2>1
  <2>3. g[2] = g[1] \o <<",">> \o zz[2] BY <1>4, <2>1
  <2> QED BY <1>1, <1>3, <1>4, <2>1, <2>2, <2>3
<1>6. ASSUME NEW n \in Nat, n \in S PROVE n + 1 \in S
  <2>0. n + 1 \in Nat OBVIOUS
  <2> SUFFICES ASSUME (n + 1) + 1 \in 1 .. Len(ss)
               PROVE  g[(n + 1) + 2] = (s \o <<",">>) \o f[(n + 1) + 1]
    BY <2>0, Zenon
  <2> DEFINE m == n + 2
  <2>1. /\ (n + 1) + 1 = m /\ (n + 1) + 2 = m + 1 /\ m - 1 = n + 1 /\ (m + 1) - 1 = n + 2
        /\ m \in 2 .. Len(ss) /\ m \in 1 .. Len(ss) /\ m + 1 \in 2 .. Len(zz)
        /\ n + 1 \in 1 .. Len(ss)
    BY <1>1, <1>2
  <2>2. g[n + 2] = (s \o <<",">>) \o f[n + 1] BY <1>6, <2>1
  <2> HIDE DEF m
  <2>3. f[m] = f[n + 1] \o <<",">> \o ss[m] BY <1>3, <2>1
  <2>4. g[m + 1] = g[n + 2] \o <<",">> \o zz[m + 1] BY <1>4, <2>1
  <2>5. zz[m + 1] = ss[m] BY <1>1, <2>1
  <2> DEFINE a == s \o <<",">>
             b == f[n + 1]
             d == ss[m]
  <2>6. a \in Words /\ b \in Words /\ d \in Words /\ <<",">> \in Words
    <3>1. s \o <<",">> \in Words BY ConcatType, SignType
    <3>2. f[n + 1] \in Words BY <2>1
    <3>3. ss[m] \in Words BY <2>1, ListType
    <3> QED BY <3>1, <3>2, <3>3, SignType
  <2>7. PICK x \in Words, y \in Words : x = a \o b /\ y = b \o <<",">>
    BY <2>6, ConcatType
  <2>8. (x \o <<",">>) \o d = a \o (y \o d)
    <3> HIDE DEF a, b, d
    <3>1. InARow(a, b, <<",">>) /\ InARow(a, y, d) BY <2>6, <2>7, Associative
    <3> QED BY <2>7, <3>1 DEF InARow
  <2>9. g[m + 1] = (x \o <<",">>) \o d /\ f[m] = y \o d
    BY <2>2, <2>3, <2>4, <2>5, <2>7
  <2> QED BY <2>1, <2>8, <2>9
<1> HIDE DEF S
<1>7. Nat \subseteq S BY <1>5, <1>6, SetInduction
<1>8. Len(ss) - 1 \in Nat /\ (Len(ss) - 1) + 1 = Len(ss) /\ (Len(ss) - 1) + 2 = Len(zz)
      /\ Len(ss) \in 1 .. Len(ss)
  BY <1>1, <1>2
<1>9. g[Len(zz)] = (s \o <<",">>) \o f[Len(ss)] BY <1>7, <1>8 DEF S
<1> QED BY <1>1, <1>3, <1>4, <1>9 DEF zz

\* A pair, and what a command has in its list for it.
Part(q) == <<"(">> \o CommaList(q) \o <<")">>

\* A pair in its brackets is a word.
LEMMA PartType == \A q \in Lists : Part(q) \in Words
  BY CommaListType, ConcatType, SignType DEF Part

\* The recursive function in Pairs has its equation.
LEMMA PairsDef ==
  ASSUME NEW pp \in Seq(Lists)
  PROVE  \E f \in [0 .. Len(pp) -> Words] :
           /\ Pairs(pp) = f[Len(pp)]
           /\ f[0] = <<>>
           /\ \A n \in 1 .. Len(pp) : f[n] = f[n - 1] \o Part(pp[n])
<1> DEFINE next(x, q) == x \o <<"(">> \o CommaList(q) \o <<")">>
           Body(f) == [n \in 0 .. Len(pp) |->
                         IF n = 0 THEN <<>> ELSE next(f[n - 1], pp[n])]
           upTo == CHOOSE f : f = Body(f)
           step(n, x) == IF n + 1 <= Len(pp) THEN next(x, pp[n + 1]) ELSE x
           F == [n \in Nat |-> [x \in Words |-> step(n, x)]]
<1>0. Len(pp) \in Nat /\ \A n \in 1 .. Len(pp) : pp[n] \in Lists
  BY LenProperties, ElementOfSeq
<1>1. Pairs(pp) = upTo[Len(pp)] BY DEF Pairs
<1>2. ASSUME NEW x \in Words, NEW q \in Lists
      PROVE  next(x, q) \in Words /\ next(x, q) = x \o Part(q)
  <2> DEFINE c == CommaList(q)
  <2>1. c \in Words BY CommaListType
  <2>2. PICK y \in Words, z \in Words : y = x \o <<"(">> /\ z = <<"(">> \o c
    BY <2>1, ConcatType, SignType
  <2>3. (y \o c) \o <<")">> = x \o (z \o <<")">>)
    <3> HIDE DEF c
    <3>1. InARow(x, <<"(">>, c) /\ InARow(x, z, <<")">>)
      BY <2>1, <2>2, SignType, Associative
    <3> QED BY <2>2, <3>1 DEF InARow
  <2>4. next(x, q) = (y \o c) \o <<")">> /\ Part(q) = z \o <<")">> BY <2>2 DEF Part
  <2> HIDE DEF next
  <2> QED BY <2>3, <2>4, PartType, ConcatType
<1> HIDE DEF next
<1>3. F \in Steps(Words)
  <2>1. ASSUME NEW n \in Nat, NEW x \in Words PROVE step(n, x) \in Words
    <3>1. CASE n + 1 <= Len(pp)
      <4>1. pp[n + 1] \in Lists BY <1>0, <3>1
      <4>2. next(x, pp[n + 1]) \in Words BY <1>2, <4>1
      <4> QED BY <3>1, <4>2
    <3>2. CASE ~ (n + 1 <= Len(pp)) BY <3>2
    <3> QED BY <3>1, <3>2
  <2> HIDE DEF step
  <2> QED BY <2>1 DEF Steps
<1>4. PICK g \in [0 .. Len(pp) -> Words] : Computes(g, Len(pp), <<>>, F)
  <2>1. <<>> \in Words BY DEF Words
  <2> HIDE DEF F
  <2> QED BY <1>0, <1>3, <2>1, RecursiveFunction
<1>5. g = Body(g)
  <2>1. ASSUME NEW n \in 0 .. Len(pp)
        PROVE  g[n] = IF n = 0 THEN <<>> ELSE next(g[n - 1], pp[n])
    <3>1. CASE n = 0 BY <1>4, <3>1 DEF Computes
    <3>2. CASE n # 0
      <4>1. /\ n - 1 \in Nat /\ n - 1 \in 0 .. Len(pp) /\ (n - 1) + 1 = n
            /\ n <= Len(pp)
        BY <1>0, <3>2
      <4>2. g[n] = F[n - 1][g[n - 1]] BY <1>4, <3>2 DEF Computes
      <4>3. g[n - 1] \in Words BY <4>1
      <4>4. F[n - 1][g[n - 1]] = step(n - 1, g[n - 1]) BY <4>1, <4>3
      <4>5. step(n - 1, g[n - 1]) = next(g[n - 1], pp[n]) BY <4>1
      <4> QED BY <3>2, <4>2, <4>4, <4>5
    <3> QED BY <3>1, <3>2
  <2> QED BY <2>1
<1>6. upTo = Body(upTo)
  <2> HIDE DEF Body
  <2> QED BY <1>5
<1> HIDE DEF upTo
<1>7. /\ upTo = [n \in 0 .. Len(pp) |-> upTo[n]] /\ upTo[0] = <<>>
      /\ \A n \in 1 .. Len(pp) : upTo[n] = next(upTo[n - 1], pp[n])
  BY <1>0, <1>6
<1>8. ASSUME NEW n \in 0 .. Len(pp) - 1, upTo[n] \in Words
      PROVE  upTo[n + 1] \in Words
  <2>1. n + 1 \in 1 .. Len(pp) /\ (n + 1) - 1 = n BY <1>0
  <2>2. upTo[n + 1] = next(upTo[n], pp[n + 1]) BY <1>7, <2>1
  <2>3. pp[n + 1] \in Lists BY <1>0, <2>1
  <2>4. next(upTo[n], pp[n + 1]) \in Words BY <1>2, <1>8, <2>3
  <2> QED BY <2>2, <2>4
<1>9. upTo \in [0 .. Len(pp) -> Words]
  <2>1. <<>> \in Words BY DEF Words
  <2> QED BY <1>0, <1>7, <1>8, <2>1, ValuesIn
<1>10. ASSUME NEW n \in 1 .. Len(pp) PROVE upTo[n] = upTo[n - 1] \o Part(pp[n])
  <2>1. n - 1 \in 0 .. Len(pp) /\ upTo[n - 1] \in Words BY <1>0, <1>9
  <2> QED BY <1>0, <1>2, <1>7, <2>1
<1> QED BY <1>1, <1>7, <1>9, <1>10

\* So are pairs, one behind the other.
LEMMA PairsType == \A pp \in Seq(Lists) : Pairs(pp) \in Words
<1> SUFFICES ASSUME NEW pp \in Seq(Lists) PROVE Pairs(pp) \in Words OBVIOUS
<1>1. PICK f \in [0 .. Len(pp) -> Words] : Pairs(pp) = f[Len(pp)] BY PairsDef
<1>2. Len(pp) \in 0 .. Len(pp) BY LenProperties
<1> QED BY <1>1, <1>2

\* No pairs are nothing.
LEMMA PairsNone == Pairs(<<>>) = <<>>
<1>1. <<>> \in Seq(Lists) /\ Len(<<>>) = 0 OBVIOUS
<1> DEFINE pp == <<>>
<1> HIDE DEF pp
<1>2. PICK f \in [0 .. Len(pp) -> Words] : Pairs(pp) = f[Len(pp)] /\ f[0] = <<>>
  BY <1>1, PairsDef DEF pp
<1> QED BY <1>1, <1>2 DEF pp

\* The first pair is in front of the others.
LEMMA PairsFirst ==
  ASSUME NEW q \in Lists, NEW pp \in Seq(Lists)
  PROVE  Pairs(<<q>> \o pp) = Part(q) \o Pairs(pp)
<1> DEFINE zz == <<q>> \o pp
<1>1. /\ zz \in Seq(Lists) /\ Len(zz) = Len(pp) + 1 /\ zz[1] = q
      /\ \A i \in 1 .. Len(pp) : zz[i + 1] = pp[i]
  BY Front
<1> HIDE DEF zz
<1>2. Len(pp) \in Nat /\ \A n \in 1 .. Len(pp) : pp[n] \in Lists
  BY LenProperties, ElementOfSeq
<1>3. PICK f \in [0 .. Len(pp) -> Words] :
         /\ Pairs(pp) = f[Len(pp)] /\ f[0] = <<>>
         /\ \A n \in 1 .. Len(pp) : f[n] = f[n - 1] \o Part(pp[n])
  BY PairsDef
<1>4. PICK g \in [0 .. Len(zz) -> Words] :
         /\ Pairs(zz) = g[Len(zz)] /\ g[0] = <<>>
         /\ \A n \in 1 .. Len(zz) : g[n] = g[n - 1] \o Part(zz[n])
  BY <1>1, PairsDef
<1> DEFINE S == {n \in Nat : n \in 0 .. Len(pp) => g[n + 1] = Part(q) \o f[n]}
<1>5. 0 \in S
  <2>1. 1 \in 1 .. Len(zz) /\ 1 - 1 = 0 /\ 0 + 1 = 1 BY <1>1, <1>2
  <2>2. g[1] = <<>> \o Part(q) BY <1>1, <1>4, <2>1
  <2>3. Part(q) \in Words BY PartType
  <2>4. <<>> \o Part(q) = Part(q) /\ Part(q) \o <<>> = Part(q)
    BY <2>3, ConcatEmptySeq DEF Words
  <2> QED BY <1>3, <2>1, <2>2, <2>4
<1>6. ASSUME NEW n \in Nat, n \in S PROVE n + 1 \in S
  <2>0. n + 1 \in Nat OBVIOUS
  <2> SUFFICES ASSUME n + 1 \in 0 .. Len(pp) PROVE g[(n + 1) + 1] = Part(q) \o f[n + 1]
    BY <2>0, Zenon
  <2> DEFINE m == n + 1
  <2>1. /\ m \in 1 .. Len(pp) /\ m - 1 = n /\ n \in 0 .. Len(pp)
        /\ m + 1 \in 1 .. Len(zz) /\ (m + 1) - 1 = m
    BY <1>1, <1>2
  <2>2. g[m] = Part(q) \o f[n] BY <1>6, <2>1
  <2> HIDE DEF m
  <2>3. f[m] = f[n] \o Part(pp[m]) BY <1>3, <2>1
  <2>4. g[m + 1] = g[m] \o Part(pp[m]) BY <1>1, <1>4, <2>1
  <2>5. Part(q) \in Words /\ f[n] \in Words /\ Part(pp[m]) \in Words
    BY <1>2, <2>1, PartType
  <2>6. InARow(Part(q), f[n], Part(pp[m])) BY <2>5, Associative
  <2>7. g[m + 1] = Part(q) \o f[m] BY <2>2, <2>3, <2>4, <2>6 DEF InARow
  <2> QED BY <2>7 DEF m
<1> HIDE DEF S
<1>7. Nat \subseteq S BY <1>5, <1>6, SetInduction
<1>8. Len(pp) \in 0 .. Len(pp) BY <1>2
<1>9. g[Len(pp) + 1] = Part(q) \o f[Len(pp)] BY <1>2, <1>7, <1>8 DEF S
<1> QED BY <1>1, <1>3, <1>4, <1>9 DEF zz

-----------------------------------------------------------------------------
(* The lists of keys.                                                      *)

Places(t) == 1 .. Len(t) + 1

\* Places are numbers.
LEMMA PlaceType ==
  ASSUME NEW t \in Words, NEW p \in Places(t)
  PROVE  /\ Len(t) \in Nat /\ p \in Nat \ {0} /\ p <= Len(t) + 1
         /\ p \in 1 .. Len(t) + 1 /\ t \in Seq(Characters)
  BY TextType DEF Words, Places

\* Both ways to put together what is in a text.
LEMMA AtBoth ==
  ASSUME NEW t \in Words, NEW p \in Places(t), NEW s \in Words, NEW u \in Words,
         NEW q, q = p + Len(s)
  PROVE  At(t, p, s \o u) <=> At(t, p, s) /\ At(t, q, u)
  BY PlaceType, AtJoined DEF Words

\* What is known of the rest of a list of keys.
KeyResults(t) == [end : {"full", "closed", "wrong"}, keys : Seq(Words), next : Places(t)]

\* One turn of the loop in parse_read_delete (parser.c:260-274).
LEMMA KeyFromIs ==
  ASSUME NEW t \in Words, NEW q \in Places(t), NEW more \in [Places(t) -> KeyResults(t)],
         NEW r, r = read_string(t, q, MAX_STRING_SIZE), NEW k, k = KeyFrom(t, q, more)
  PROVE  /\ k \in KeyResults(t)
         /\ r.value = 2 => k = [end |-> "closed", keys |-> <<r.string>>, next |-> r.next]
         /\ r.value = 0 => /\ more[r.next] \in KeyResults(t)
                           /\ k.end = more[r.next].end
                           /\ k.keys = <<r.string>> \o more[r.next].keys
                           /\ k.next = more[r.next].next
         /\ r.value \notin {0, 2} => k.end = "wrong" /\ k.keys = <<>> /\ k.next = r.next
<1>1. /\ r.value \in {-1, 0, 1, 2} /\ r.next \in q .. Len(t) + 1
      /\ r.value # -1 => r.string \in Words
  BY ReadString DEF Words, Places
<1>2. r.next \in Places(t) BY <1>1 DEF Places
<1>3. CASE r.value = 2
  <2>1. k = [end |-> "closed", keys |-> <<r.string>>, next |-> r.next]
    BY <1>3 DEF KeyFrom
  <2>2. <<r.string>> \in Seq(Words) BY <1>1, <1>3
  <2> QED BY <1>2, <1>3, <2>1, <2>2 DEF KeyResults
<1>4. CASE r.value = 0
  <2> DEFINE m == more[r.next]
  <2>1. m \in KeyResults(t) BY <1>2
  <2>2. k = [m EXCEPT !.keys = <<r.string>> \o m.keys] BY <1>4 DEF KeyFrom
  <2>3. <<r.string>> \o m.keys \in Seq(Words)
    <3>1. m.keys \in Seq(Words) /\ r.string \in Words BY <1>1, <1>4, <2>1 DEF KeyResults
    <3> HIDE DEF m
    <3> QED BY <3>1, Front
  <2> HIDE DEF m
  <2>4. /\ k \in KeyResults(t) /\ k.end = m.end /\ k.keys = <<r.string>> \o m.keys
        /\ k.next = m.next
    BY <2>1, <2>2, <2>3 DEF KeyResults
  <2> QED BY <1>4, <2>1, <2>4 DEF m
<1>5. CASE r.value \notin {0, 2}
  <2>1. k = [end |-> "wrong", keys |-> <<>>, next |-> r.next] BY <1>5 DEF KeyFrom
  <2>2. <<>> \in Seq(Words) OBVIOUS
  <2> QED BY <1>2, <1>5, <2>1, <2>2 DEF KeyResults
<1> QED BY <1>3, <1>4, <1>5

\* The recursive function in KeyList has its equation.
LEMMA KeyListDef ==
  ASSUME NEW t \in Words, NEW max \in Nat
  PROVE  \E f \in [0 .. max -> [Places(t) -> KeyResults(t)]] :
           /\ \A p \in Places(t) : KeyList(t, p, max) = f[max][p]
           /\ \A q \in Places(t) : f[0][q] = [end |-> "full", keys |-> <<>>, next |-> q]
           /\ \A n \in 1 .. max, q \in Places(t) : f[n][q] = KeyFrom(t, q, f[n - 1])
<1> DEFINE None(q) == [end |-> "full", keys |-> <<>>, next |-> q]
           Body(f) == [n \in 0 .. max |->
                         [q \in 1 .. Len(t) + 1 |->
                            IF n = 0 THEN None(q) ELSE KeyFrom(t, q, f[n - 1])]]
           from == CHOOSE f : f = Body(f)
           V == [Places(t) -> KeyResults(t)]
           v == [q \in Places(t) |-> None(q)]
           F == [n \in Nat |-> [x \in V |-> [q \in Places(t) |-> KeyFrom(t, q, x)]]]
<1>1. \A p \in Places(t) : KeyList(t, p, max) = from[max][p] BY DEF KeyList
<1>2. v \in V
  <2>1. \A q \in Places(t) : None(q) \in KeyResults(t) BY DEF KeyResults
  <2> HIDE DEF None
  <2> QED BY <2>1
<1>3. ASSUME NEW x \in V PROVE [q \in Places(t) |-> KeyFrom(t, q, x)] \in V
  <2>1. \A q \in Places(t) : KeyFrom(t, q, x) \in KeyResults(t) BY KeyFromIs
  <2> QED BY <2>1
<1>4. F \in Steps(V)
  <2> HIDE DEF V
  <2> QED BY <1>3 DEF Steps
<1>5. PICK g \in [0 .. max -> V] : Computes(g, max, v, F)
  <2> HIDE DEF F, V, v
  <2> QED BY <1>2, <1>4, RecursiveFunction
<1>6. g = Body(g)
  <2>1. ASSUME NEW n \in 0 .. max
        PROVE  g[n] = [q \in Places(t) |-> IF n = 0 THEN None(q) ELSE KeyFrom(t, q, g[n - 1])]
    <3> HIDE DEF None, V
    <3>1. CASE n = 0
      <4>1. g[n] = v BY <1>5, <3>1 DEF Computes
      <4> QED BY <3>1, <4>1
    <3>2. CASE n # 0
      <4>1. n - 1 \in Nat /\ n - 1 \in 0 .. max BY <3>2
      <4>2. g[n] = F[n - 1][g[n - 1]]
        <5> HIDE DEF F
        <5> QED BY <1>5, <3>2 DEF Computes
      <4>3. g[n - 1] \in V BY <4>1
      <4>4. F[n - 1][g[n - 1]] = [q \in Places(t) |-> KeyFrom(t, q, g[n - 1])]
        BY <4>1, <4>3
      <4> QED BY <3>2, <4>2, <4>4
    <3> QED BY <3>1, <3>2
  <2>2. g = [n \in 0 .. max |-> g[n]] OBVIOUS
  <2> QED BY <2>1, <2>2 DEF Places
<1>7. from = Body(from)
  <2> HIDE DEF Body
  <2> QED BY <1>6
<1> HIDE DEF from
<1>8. /\ from = [n \in 0 .. max |-> from[n]]
      /\ from[0] = v
      /\ \A n \in 1 .. max : from[n] = [q \in Places(t) |-> KeyFrom(t, q, from[n - 1])]
  <2>1. ASSUME NEW n \in 0 .. max
        PROVE  from[n] =
                 [q \in Places(t) |-> IF n = 0 THEN None(q) ELSE KeyFrom(t, q, from[n - 1])]
    <3>1. from[n] = Body(from)[n]
      <4> HIDE DEF Body
      <4> QED BY <1>7
    <3> HIDE DEF None
    <3> QED BY <3>1 DEF Places
  <2>2. from = [n \in 0 .. max |-> from[n]] BY <1>7
  <2> HIDE DEF None
  <2>3. from[0] = v BY <2>1
  <2>4. ASSUME NEW n \in 1 .. max
        PROVE  from[n] = [q \in Places(t) |-> KeyFrom(t, q, from[n - 1])]
    <3>1. n \in 0 .. max /\ n # 0 OBVIOUS
    <3> QED BY <2>1, <3>1
  <2> QED BY <2>2, <2>3, <2>4
<1>9. ASSUME NEW n \in 0 .. max - 1, from[n] \in V PROVE from[n + 1] \in V
  <2>1. n + 1 \in 1 .. max /\ (n + 1) - 1 = n OBVIOUS
  <2>2. from[n + 1] = [q \in Places(t) |-> KeyFrom(t, q, from[n])] BY <1>8, <2>1
  <2> HIDE DEF V
  <2> QED BY <1>3, <1>9, <2>2
<1>10. from \in [0 .. max -> V]
  <2> HIDE DEF V, v
  <2> QED BY <1>2, <1>8, <1>9, ValuesIn
<1>11. ASSUME NEW n \in 1 .. max, NEW q \in Places(t)
       PROVE  from[n][q] = KeyFrom(t, q, from[n - 1])
  <2>1. from[n] = [z \in Places(t) |-> KeyFrom(t, z, from[n - 1])] BY <1>8
  <2> QED BY <2>1
<1>12. \A q \in Places(t) : from[0][q] = None(q) BY <1>8
<1> QED BY <1>1, <1>10, <1>11, <1>12

\* What the list is: what was read is what writes it, and each key fits its buffer.
KeysRead(t, n, q, k) ==
  /\ k \in KeyResults(t) /\ k.next >= q
  /\ Len(k.keys) <= n
  /\ \A i \in 1 .. Len(k.keys) : Len(k.keys[i]) < MAX_STRING_SIZE
  /\ k.end = "closed" => /\ k.keys \in Lists
                         /\ At(t, q, CommaList(k.keys) \o <<"]">>)
                         /\ k.next = q + Len(CommaList(k.keys)) + 1

\* One turn, if the rest of the list is as it should be.
LEMMA KeyFromReads ==
  ASSUME NEW t \in Words, NEW q \in Places(t), NEW more \in [Places(t) -> KeyResults(t)],
         NEW n \in Nat, \A z \in Places(t) : KeysRead(t, n, z, more[z])
  PROVE  KeysRead(t, n + 1, q, KeyFrom(t, q, more))
<1> DEFINE r == read_string(t, q, MAX_STRING_SIZE)
           k == KeyFrom(t, q, more)
           m == more[r.next]
<1>1. Len(t) \in Nat /\ q \in 1 .. Len(t) + 1 BY TextType DEF Places, Words
<1>2. /\ r.value \in {-1, 0, 1, 2} /\ r.next \in q .. Len(t) + 1 /\ r.next \in Places(t)
      /\ r.value # -1 => /\ r.string \in Words /\ Len(r.string) \in Nat
                         /\ Len(r.string) < MAX_STRING_SIZE
                         /\ At(t, q, r.string \o <<Mark(r.value)>>)
                         /\ r.next = q + Len(r.string) + 1
  <2> HIDE DEF r
  <2>1. /\ r.value \in {-1, 0, 1, 2} /\ r.next \in q .. Len(t) + 1
        /\ r.value # -1 => /\ r.string \in Words
                           /\ Len(r.string) < MAX_STRING_SIZE
                           /\ At(t, q, r.string \o <<Mark(r.value)>>)
                           /\ r.next = q + Len(r.string) + 1
    BY <1>1, ReadString DEF Words, r
  <2> QED BY <1>1, <2>1, TextType DEF Places, Words
<1>3. /\ k \in KeyResults(t)
      /\ r.value = 2 => k = [end |-> "closed", keys |-> <<r.string>>, next |-> r.next]
      /\ r.value = 0 => /\ m \in KeyResults(t) /\ k.end = m.end /\ k.next = m.next
                        /\ k.keys = <<r.string>> \o m.keys
      /\ r.value \notin {0, 2} => k.end = "wrong" /\ k.keys = <<>> /\ k.next = r.next
  BY KeyFromIs
<1> SUFFICES KeysRead(t, n + 1, q, k) OBVIOUS
<1> HIDE DEF r, k
<1>4. CASE r.value = 2
  <2>1. k.end = "closed" /\ k.keys = <<r.string>> /\ k.next = r.next BY <1>3, <1>4
  <2>2. /\ Len(k.keys) = 1 /\ k.keys[1] = r.string /\ k.keys \in Lists
        /\ CommaList(k.keys) = r.string
    BY <1>2, <1>4, <2>1, CommaListOne
  <2>3. Mark(2) = "]" BY DEF Mark
  <2>4. /\ At(t, q, CommaList(k.keys) \o <<"]">>)
        /\ k.next = q + Len(CommaList(k.keys)) + 1 /\ k.next >= q
    BY <1>1, <1>2, <1>4, <2>1, <2>2, <2>3
  <2>5. \A i \in 1 .. Len(k.keys) : i = 1 BY <2>2
  <2>6. Len(r.string) < MAX_STRING_SIZE /\ 1 <= n + 1 BY <1>2, <1>4
  <2> QED BY <1>3, <2>1, <2>2, <2>4, <2>5, <2>6 DEF KeysRead
<1>5. CASE r.value = 0
  <2>1. /\ k.end = m.end /\ k.keys = <<r.string>> \o m.keys /\ k.next = m.next
    BY <1>3, <1>5
  <2>2. KeysRead(t, n, r.next, m) BY <1>2
  <2>3. m.keys \in Seq(Words) /\ Len(m.keys) \in Nat /\ m.next \in Places(t)
    <3>1. m.keys \in Seq(Words) /\ m.next \in Places(t) BY <2>2 DEF KeysRead, KeyResults
    <3> QED BY <3>1, LenProperties
  <2>4. r.string \in Words /\ Len(r.string) < MAX_STRING_SIZE /\ Len(r.string) \in Nat
    BY <1>2, <1>5
  <2>5. /\ Len(k.keys) = Len(m.keys) + 1 /\ k.keys[1] = r.string
        /\ \A i \in 1 .. Len(m.keys) : k.keys[i + 1] = m.keys[i]
    <3> HIDE DEF m
    <3> QED BY <2>1, <2>3, <2>4, Front
  <2>6. ASSUME NEW i \in 1 .. Len(k.keys) PROVE Len(k.keys[i]) < MAX_STRING_SIZE
    <3>1. CASE i = 1 BY <2>4, <2>5, <3>1
    <3>2. CASE i # 1
      <4>1. i - 1 \in 1 .. Len(m.keys) /\ (i - 1) + 1 = i BY <2>3, <2>5, <3>2
      <4>2. k.keys[i] = m.keys[i - 1] BY <2>5, <4>1
      <4> QED BY <2>2, <4>1, <4>2 DEF KeysRead
    <3> QED BY <3>1, <3>2
  <2>7. Len(k.keys) <= n + 1 /\ k.next >= q
    <3>1. Len(m.keys) <= n /\ m.next >= r.next BY <2>2 DEF KeysRead
    <3> QED BY <1>1, <1>2, <2>1, <2>3, <2>5, <3>1 DEF Places
  <2>8. ASSUME k.end = "closed"
        PROVE  /\ k.keys \in Lists
               /\ At(t, q, CommaList(k.keys) \o <<"]">>)
               /\ k.next = q + Len(CommaList(k.keys)) + 1
    <3> DEFINE c == CommaList(m.keys)
               a == r.string \o <<",">>
    <3>1. /\ m.keys \in Lists /\ At(t, r.next, c \o <<"]">>)
          /\ m.next = r.next + Len(c) + 1
      BY <2>1, <2>2, <2>8 DEF KeysRead
    <3>2. k.keys \in Lists /\ CommaList(k.keys) = a \o c
      <4> HIDE DEF m
      <4> QED BY <2>1, <2>4, <3>1, CommaListFirst
    <3>3. At(t, q, a)
      <4>1. Mark(r.value) = "," BY <1>5 DEF Mark
      <4>2. At(t, q, r.string \o <<Mark(r.value)>>) BY <1>2, <1>5
      <4> QED BY <4>1, <4>2
    <3>4. a \in Words /\ Len(a) = Len(r.string) + 1 /\ c \in Words /\ Len(c) \in Nat
      <4>1. c \in Words BY <3>1, CommaListType
      <4>2. a \in Words /\ Len(a) = Len(r.string) + 1 BY <2>4, CommaBehind
      <4> HIDE DEF c, a
      <4> QED BY <4>1, <4>2, TextType DEF Words
    <3> HIDE DEF a, c
    <3>5. At(t, q, a \o (c \o <<"]">>))
      <4> DEFINE u == c \o <<"]">>
      <4>1. u \in Words /\ At(t, r.next, u) BY <3>1, <3>4, ConcatType, SignType
      <4>2. r.next = q + Len(a) BY <1>1, <1>2, <1>5, <2>4, <3>4
      <4> HIDE DEF u
      <4>3. At(t, q, a \o u) BY <3>3, <3>4, <4>1, <4>2, AtBoth
      <4> QED BY <4>3 DEF u
    <3>6. InARow(a, c, <<"]">>) BY <3>4, SignType, Associative
    <3>7. Len(a \o c) = Len(a) + Len(c) BY <3>4, ConcatProperties DEF Words
    <3>8. At(t, q, (a \o c) \o <<"]">>) BY <3>5, <3>6 DEF InARow
    <3>9. k.next = q + Len(a \o c) + 1
      BY <1>1, <1>2, <1>5, <2>1, <2>4, <3>1, <3>4, <3>7
    <3> QED BY <3>2, <3>8, <3>9
  <2> QED BY <1>3, <2>6, <2>7, <2>8 DEF KeysRead
<1>6. CASE r.value \notin {0, 2}
  <2>1. k.end = "wrong" /\ k.keys = <<>> /\ k.next = r.next BY <1>3, <1>6
  <2>2. Len(k.keys) = 0 /\ k.next >= q BY <1>1, <1>2, <2>1
  <2> QED BY <1>3, <2>1, <2>2 DEF KeysRead
<1> QED BY <1>4, <1>5, <1>6

\* A list of keys that was read is what writes it (parser.c:253-274).
LEMMA KeyListIs ==
  ASSUME NEW t \in Words, NEW max \in Nat, NEW p \in Places(t)
  PROVE  KeysRead(t, max, p, KeyList(t, p, max))
<1>1. PICK f \in [0 .. max -> [Places(t) -> KeyResults(t)]] :
         /\ \A q \in Places(t) : KeyList(t, q, max) = f[max][q]
         /\ \A q \in Places(t) : f[0][q] = [end |-> "full", keys |-> <<>>, next |-> q]
         /\ \A n \in 1 .. max, q \in Places(t) : f[n][q] = KeyFrom(t, q, f[n - 1])
  BY KeyListDef
<1> DEFINE S == {n \in Nat : n \in 0 .. max =>
                              \A q \in Places(t) : KeysRead(t, n, q, f[n][q])}
<1>2. 0 \in S
  <2>1. ASSUME NEW q \in Places(t) PROVE KeysRead(t, 0, q, f[0][q])
    <3> DEFINE k == f[0][q]
    <3>1. k = [end |-> "full", keys |-> <<>>, next |-> q] BY <1>1
    <3>2. <<>> \in Seq(Words) /\ Len(<<>>) = 0 OBVIOUS
    <3>3. q >= q BY DEF Places
    <3> HIDE DEF k
    <3>4. k \in KeyResults(t) BY <3>1, <3>2 DEF KeyResults
    <3>5. KeysRead(t, 0, q, k) BY <3>1, <3>2, <3>3, <3>4 DEF KeysRead
    <3> QED BY <3>5 DEF k
  <2> QED BY <2>1
<1>3. ASSUME NEW n \in Nat, n \in S PROVE n + 1 \in S
  <2>0. n + 1 \in Nat OBVIOUS
  <2> SUFFICES ASSUME n + 1 \in 0 .. max, NEW q \in Places(t)
               PROVE  KeysRead(t, n + 1, q, f[n + 1][q])
    BY <2>0, Zenon
  <2>1. n \in 0 .. max /\ n + 1 \in 1 .. max /\ (n + 1) - 1 = n OBVIOUS
  <2>2. \A z \in Places(t) : KeysRead(t, n, z, f[n][z]) BY <1>3, <2>1
  <2>3. f[n + 1][q] = KeyFrom(t, q, f[n]) BY <1>1, <2>1
  <2>4. f[n] \in [Places(t) -> KeyResults(t)] BY <2>1
  <2> QED BY <2>2, <2>3, <2>4, KeyFromReads
<1> HIDE DEF S
<1>4. Nat \subseteq S BY <1>2, <1>3, SetInduction
<1>5. max \in 0 .. max OBVIOUS
<1>6. KeysRead(t, max, p, f[max][p]) BY <1>4, <1>5 DEF S
<1> QED BY <1>1, <1>6

\* The first of a list, and what is left.
LEMMA FrontOff ==
  ASSUME NEW S, NEW xs \in Seq(S), xs # <<>>
  PROVE  /\ xs[1] \in S /\ Tail(xs) \in Seq(S)
         /\ Len(Tail(xs)) = Len(xs) - 1 /\ Len(xs) \in Nat \ {0}
         /\ xs = <<xs[1]>> \o Tail(xs)
<1> DEFINE ys == Tail(xs)
           zs == <<xs[1]>> \o ys
<1>1. Len(xs) \in Nat \ {0} BY EmptySeq
<1>2. /\ ys \in Seq(S) /\ Len(ys) = Len(xs) - 1
      /\ \A i \in 1 .. Len(ys) : ys[i] = xs[i + 1]
  BY HeadTailProperties
<1>3. xs[1] \in S BY <1>1, ElementOfSeq
<1> HIDE DEF ys
<1>4. /\ zs \in Seq(S) /\ Len(zs) = Len(ys) + 1 /\ zs[1] = xs[1]
      /\ \A i \in 1 .. Len(ys) : zs[i + 1] = ys[i]
  BY <1>2, <1>3, Front
<1> HIDE DEF zs
<1>5. ASSUME NEW i \in 1 .. Len(xs) PROVE xs[i] = zs[i]
  <2>1. CASE i = 1 BY <1>4, <2>1
  <2>2. CASE i # 1
    <3>1. i - 1 \in 1 .. Len(ys) /\ (i - 1) + 1 = i BY <1>1, <1>2, <2>2
    <3>2. ys[i - 1] = xs[i] /\ zs[i] = ys[i - 1] BY <1>2, <1>4, <3>1
    <3> QED BY <3>2
  <2> QED BY <2>1, <2>2
<1>6. Len(xs) = Len(zs) BY <1>1, <1>2, <1>4
<1>7. xs = zs BY <1>4, <1>5, <1>6, SeqEqual
<1> QED BY <1>1, <1>2, <1>3, <1>7 DEF ys, zs

\* A string of the language is a word.
LEMMA StringsAreWords == Strings \subseteq Words /\ Seq(Strings) \subseteq Seq(Words)
<1>1. Characters \ Ends \subseteq Characters OBVIOUS
<1>2. ASSUME NEW s \in Strings PROVE s \in Words
  <2>1. s \in Seq(Characters \ Ends) BY CommandLoopsAssumption DEF Ends
  <2> QED BY <1>1, <2>1, SeqMonotonic DEF Words
<1>3. Strings \subseteq Words BY <1>2
<1> QED BY <1>3, SeqMonotonic

\* A list of the language is read as it is, with room for it.
KeysFound(t, n, q, k) ==
  \A ss \in Seq(Strings) :
    /\ ss # <<>> /\ Len(ss) <= n
    /\ At(t, q, CommaList(ss) \o <<"]">>)
    => k.end = "closed" /\ k.keys = ss

\* One turn of the loop finds a key of the language, and the rest finds the others.
LEMMA KeyFromFinds ==
  ASSUME NEW t \in Words, NEW q \in Places(t), NEW more \in [Places(t) -> KeyResults(t)],
         NEW n \in Nat, \A z \in Places(t) : KeysFound(t, n, z, more[z])
  PROVE  KeysFound(t, n + 1, q, KeyFrom(t, q, more))
<1> DEFINE r == read_string(t, q, MAX_STRING_SIZE)
           k == KeyFrom(t, q, more)
<1> SUFFICES ASSUME NEW ss \in Seq(Strings), ss # <<>>, Len(ss) <= n + 1,
                    At(t, q, CommaList(ss) \o <<"]">>)
             PROVE  k.end = "closed" /\ k.keys = ss
  BY DEF KeysFound
<1>1. Len(t) \in Nat /\ q \in 1 .. Len(t) + 1 BY TextType DEF Places, Words
<1>2. /\ r.value = 2 => k = [end |-> "closed", keys |-> <<r.string>>, next |-> r.next]
      /\ r.value = 0 => /\ k.end = more[r.next].end
                        /\ k.keys = <<r.string>> \o more[r.next].keys
  BY KeyFromIs
<1> DEFINE s == ss[1]
           rest == Tail(ss)
<1>3. /\ s \in Strings /\ rest \in Seq(Strings) /\ Len(rest) = Len(ss) - 1
      /\ Len(ss) \in Nat \ {0} /\ ss = <<s>> \o rest /\ s \in Words /\ Len(s) \in Nat
  <2>1. /\ s \in Strings /\ rest \in Seq(Strings) /\ Len(rest) = Len(ss) - 1
        /\ Len(ss) \in Nat \ {0} /\ ss = <<s>> \o rest
    BY FrontOff
  <2> HIDE DEF s
  <2>2. s \in Words BY <2>1, StringsAreWords
  <2> QED BY <2>1, <2>2, TextType DEF Words
<1> HIDE DEF r, k, s, rest
<1>4. CASE rest = <<>>
  <2>1. ss = <<s>> /\ CommaList(ss) = s
    <3>1. <<s>> \in Seq(Words) BY <1>3
    <3>2. <<s>> \o <<>> = <<s>> BY <3>1, ConcatEmptySeq
    <3> QED BY <1>3, <1>4, <3>2, CommaListOne
  <2>2. Mark(2) = "]" BY DEF Mark
  <2>3. At(t, q, s \o <<Mark(2)>>) BY <2>1, <2>2
  <2>4. r.value = 2 /\ r.string = s BY <1>1, <1>3, <2>3, StringIsRead DEF Words, r
  <2> QED BY <1>2, <2>1, <2>4
<1>5. CASE rest # <<>>
  <2> DEFINE c == CommaList(rest)
             a == s \o <<",">>
  <2>1. rest \in Lists BY <1>3, <1>5, StringsAreWords DEF Lists
  <2>2. CommaList(ss) = a \o c BY <1>3, <2>1, CommaListFirst
  <2>3. a \in Words /\ Len(a) = Len(s) + 1 /\ c \in Words
    <3>1. c \in Words BY <2>1, CommaListType
    <3> QED BY <1>3, <3>1, CommaBehind
  <2> HIDE DEF a, c
  <2>4. InARow(a, c, <<"]">>) /\ c \o <<"]">> \in Words
    BY <2>3, SignType, Associative, ConcatType
  <2>5. At(t, q, a \o (c \o <<"]">>)) BY <2>2, <2>4 DEF InARow
  <2>6. At(t, q, a) /\ At(t, q + Len(a), c \o <<"]">>)
    BY <1>1, <2>3, <2>4, <2>5, AtJoined DEF Words
  <2>7. Mark(0) = "," BY DEF Mark
  <2>8. At(t, q, s \o <<Mark(0)>>) BY <2>6, <2>7 DEF a
  <2>9. r.value = 0 /\ r.string = s /\ r.next = q + Len(s) + 1
    <3>1. r = read_string(t, q, MAX_STRING_SIZE) /\ t \in Seq(Characters)
      BY DEF r, Words
    <3>2. 0 \in {0, 1, 2} OBVIOUS
    <3>3. s \in Strings /\ Len(t) \in Nat /\ q \in 1 .. Len(t) + 1 BY <1>1, <1>3
    <3>4. r.value = 0 /\ r.string = s BY <2>8, <3>1, <3>2, <3>3, StringIsRead
    <3>5. r.next = q + Len(s) + 1 BY SMTT(20), <2>8, <3>1, <3>2, <3>3, StringIsRead
    <3> QED BY <3>4, <3>5
  <2>10. r.next \in Places(t) /\ r.next = q + Len(a)
    <3>1. q + Len(a) <= Len(t) + 1 BY <2>6 DEF At
    <3> QED BY <1>1, <1>3, <2>3, <2>9, <3>1 DEF Places
  <2>11. KeysFound(t, n, r.next, more[r.next]) BY <2>10
  <2>12. /\ rest # <<>> /\ Len(rest) <= n /\ At(t, r.next, CommaList(rest) \o <<"]">>)
    BY <1>3, <1>5, <2>6, <2>10 DEF c
  <2>13. more[r.next].end = "closed" /\ more[r.next].keys = rest
    BY <1>3, <2>11, <2>12 DEF KeysFound
  <2> QED BY <1>2, <1>3, <2>9, <2>13
<1> QED BY <1>4, <1>5

\* A list of the language that there is room for is read as it is.
LEMMA KeyListFinds ==
  ASSUME NEW t \in Words, NEW max \in Nat, NEW p \in Places(t)
  PROVE  KeysFound(t, max, p, KeyList(t, p, max))
<1>1. PICK f \in [0 .. max -> [Places(t) -> KeyResults(t)]] :
         /\ \A q \in Places(t) : KeyList(t, q, max) = f[max][q]
         /\ \A q \in Places(t) : f[0][q] = [end |-> "full", keys |-> <<>>, next |-> q]
         /\ \A n \in 1 .. max, q \in Places(t) : f[n][q] = KeyFrom(t, q, f[n - 1])
  BY KeyListDef
<1> DEFINE S == {n \in Nat : n \in 0 .. max =>
                              \A q \in Places(t) : KeysFound(t, n, q, f[n][q])}
<1>2. 0 \in S
  <2>1. \A ss \in Seq(Strings) : ss # <<>> => ~ (Len(ss) <= 0) BY EmptySeq
  <2>2. \A q \in Places(t) : KeysFound(t, 0, q, f[0][q]) BY <2>1 DEF KeysFound
  <2> QED BY <2>2
<1>3. ASSUME NEW n \in Nat, n \in S PROVE n + 1 \in S
  <2>0. n + 1 \in Nat OBVIOUS
  <2> SUFFICES ASSUME n + 1 \in 0 .. max, NEW q \in Places(t)
               PROVE  KeysFound(t, n + 1, q, f[n + 1][q])
    BY <2>0, Zenon
  <2>1. n \in 0 .. max /\ n + 1 \in 1 .. max /\ (n + 1) - 1 = n OBVIOUS
  <2>2. \A z \in Places(t) : KeysFound(t, n, z, f[n][z]) BY <1>3, <2>1
  <2>3. f[n + 1][q] = KeyFrom(t, q, f[n]) BY <1>1, <2>1
  <2>4. f[n] \in [Places(t) -> KeyResults(t)] BY <2>1
  <2> QED BY <2>2, <2>3, <2>4, KeyFromFinds
<1> HIDE DEF S
<1>4. Nat \subseteq S BY <1>2, <1>3, SetInduction
<1>5. max \in 0 .. max OBVIOUS
<1>6. KeysFound(t, max, p, f[max][p]) BY <1>4, <1>5 DEF S
<1> QED BY <1>1, <1>6

-----------------------------------------------------------------------------
(* The lists of pairs.                                                     *)

Twos == {w \in Seq(Words) : Len(w) = 2}
StringPairs == {w \in Seq(Strings) : Len(w) = 2}

\* Two words make a pair, written with a comma between them.
LEMMA TwoIs ==
  ASSUME NEW a \in Words, NEW b \in Words
  PROVE  /\ <<a, b>> \in Twos /\ CommaList(<<a, b>>) = (a \o <<",">>) \o b
<1> DEFINE w == <<a, b>>
<1>1. /\ w \in Seq(Words) /\ Len(w) = 2 /\ w[1] = a /\ w[2] = b OBVIOUS
<1> HIDE DEF w
<1>2. <<b>> \in Lists /\ CommaList(<<b>>) = b /\ <<b>> \in Seq(Words) BY CommaListOne DEF Lists
<1> DEFINE z == <<a>> \o <<b>>
<1>3. /\ z \in Seq(Words) /\ Len(z) = 2 /\ z[1] = a /\ z[2] = b
  <2>1. Len(<<b>>) = 1 /\ <<b>>[1] = b OBVIOUS
  <2> DEFINE y == <<b>>
  <2>2. y \in Seq(Words) /\ Len(y) = 1 /\ y[1] = b BY <1>2, <2>1
  <2> HIDE DEF y
  <2>3. /\ <<a>> \o y \in Seq(Words) /\ Len(<<a>> \o y) = Len(y) + 1
        /\ (<<a>> \o y)[1] = a /\ \A i \in 1 .. Len(y) : (<<a>> \o y)[i + 1] = y[i]
    BY <2>2, Front
  <2>4. 1 \in 1 .. 1 /\ 1 + 1 = 2 OBVIOUS
  <2>5. (<<a>> \o y)[2] = b BY <2>2, <2>3, <2>4
  <2> QED BY <2>2, <2>3, <2>5 DEF y
<1> HIDE DEF z
<1>4. \A i \in 1 .. Len(w) : w[i] = z[i]
  <2>1. \A i \in 1 .. 2 : i = 1 \/ i = 2 OBVIOUS
  <2> QED BY <1>1, <1>3, <2>1
<1>5. w = z BY <1>1, <1>3, <1>4, SeqEqual
<1>6. CommaList(z) = (a \o <<",">>) \o b BY <1>2, CommaListFirst DEF z
<1>7. w \in Twos BY <1>1 DEF Twos
<1> QED BY <1>5, <1>6, <1>7 DEF w

\* A pair is its key and its value.
LEMMA TwoType ==
  ASSUME NEW w \in Twos
  PROVE  /\ w \in Lists /\ w[1] \in Words /\ w[2] \in Words /\ w = <<w[1], w[2]>>
<1>1. w \in Seq(Words) /\ Len(w) = 2 BY DEF Twos
<1>2. 1 \in 1 .. Len(w) /\ 2 \in 1 .. Len(w) BY <1>1
<1>3. w[1] \in Words /\ w[2] \in Words BY <1>1, <1>2, ElementOfSeq
<1> DEFINE z == <<w[1], w[2]>>
<1>4. z \in Seq(Words) /\ Len(z) = 2 /\ z[1] = w[1] /\ z[2] = w[2] BY <1>3
<1> HIDE DEF z
<1>5. \A i \in 1 .. Len(w) : w[i] = z[i]
  <2>1. \A i \in 1 .. 2 : i = 1 \/ i = 2 OBVIOUS
  <2> QED BY <1>1, <1>4, <2>1
<1>6. w = z BY <1>1, <1>4, <1>5, SeqEqual
<1>7. w # <<>> BY <1>1, EmptySeq
<1> QED BY <1>1, <1>3, <1>6, <1>7 DEF Lists, z

\* What parse_pair takes is what writes a pair, without its opening (parser.c:187-199).
LEMMA PairIs ==
  ASSUME NEW t \in Words, NEW q \in Places(t), NEW r, r = parse_pair(t, q)
  PROVE  /\ r.ok \in BOOLEAN
         /\ r.next \in q .. Len(t) + 1
         /\ r.ok => /\ r.pair \in Twos
                    /\ Len(r.pair[1]) < MAX_STRING_SIZE /\ Len(r.pair[2]) < MAX_STRING_SIZE
                    /\ At(t, q, CommaList(r.pair) \o <<")">>)
                    /\ r.next = q + Len(CommaList(r.pair)) + 1
<1> DEFINE key   == read_string(t, q, MAX_STRING_SIZE)
           value == read_string(t, key.next, MAX_STRING_SIZE)
           wrong(z) == [ok |-> FALSE, pair |-> <<>>, next |-> cleanup(t, z)]
<1>1. Len(t) \in Nat /\ q \in 1 .. Len(t) + 1 /\ t \in Seq(Characters)
  BY TextType DEF Places, Words
<1>2. /\ key.value \in {-1, 0, 1, 2} /\ key.next \in q .. Len(t) + 1
      /\ key.value # -1 => /\ key.string \in Words /\ Len(key.string) \in Nat
                           /\ Len(key.string) < MAX_STRING_SIZE
                           /\ At(t, q, key.string \o <<Mark(key.value)>>)
                           /\ key.next = q + Len(key.string) + 1
  <2> DEFINE k == key
  <2> HIDE DEF k
  <2>1. k = read_string(t, q, MAX_STRING_SIZE) BY DEF k
  <2>2. /\ k.value \in {-1, 0, 1, 2} /\ k.next \in q .. Len(t) + 1
        /\ k.value # -1 => /\ k.string \in Words
                           /\ Len(k.string) < MAX_STRING_SIZE
                           /\ At(t, q, k.string \o <<Mark(k.value)>>)
                           /\ k.next = q + Len(k.string) + 1
    BY <1>1, <2>1, ReadString DEF Words
  <2>3. k.value # -1 => Len(k.string) \in Nat BY <2>2, TextType DEF Words
  <2> QED BY <2>2, <2>3 DEF k
<1>3. /\ value.value \in {-1, 0, 1, 2} /\ value.next \in key.next .. Len(t) + 1
      /\ value.value # -1 => /\ value.string \in Words /\ Len(value.string) \in Nat
                             /\ Len(value.string) < MAX_STRING_SIZE
                             /\ At(t, key.next, value.string \o <<Mark(value.value)>>)
                             /\ value.next = key.next + Len(value.string) + 1
  <2> DEFINE z == key.next
             k == value
  <2>1. z \in 1 .. Len(t) + 1 BY <1>1, <1>2
  <2>2. k = read_string(t, z, MAX_STRING_SIZE) OBVIOUS
  <2> HIDE DEF k, z
  <2>3. /\ k.value \in {-1, 0, 1, 2} /\ k.next \in z .. Len(t) + 1
        /\ k.value # -1 => /\ k.string \in Words
                           /\ Len(k.string) < MAX_STRING_SIZE
                           /\ At(t, z, k.string \o <<Mark(k.value)>>)
                           /\ k.next = z + Len(k.string) + 1
    BY <1>1, <2>1, <2>2, ReadString DEF Words
  <2>4. k.value # -1 => Len(k.string) \in Nat BY <2>3, TextType DEF Words
  <2> QED BY <2>3, <2>4 DEF k, z
<1>4. r = CASE key.value # 0                    -> wrong(key.next)
            [] key.value = 0 /\ value.value # 1 -> wrong(value.next)
            [] OTHER -> [ok   |-> TRUE, pair |-> <<key.string, value.string>>,
                         next |-> value.next]
  BY DEF parse_pair
<1> HIDE DEF key, value
<1>5. /\ cleanup(t, key.next) \in q .. Len(t) + 1 /\ cleanup(t, value.next) \in q .. Len(t) + 1
  <2>1. key.next \in 1 .. Len(t) + 1 /\ value.next \in 1 .. Len(t) + 1 BY <1>1, <1>2, <1>3
  <2>2. /\ cleanup(t, key.next) \in key.next .. Len(t) + 1
        /\ cleanup(t, value.next) \in value.next .. Len(t) + 1
    BY <1>1, <2>1, CleanupIs
  <2> QED BY <1>1, <1>2, <1>3, <2>2
<1>6. CASE key.value # 0
  <2>1. r = wrong(key.next) BY <1>4, <1>6
  <2> QED BY <1>5, <2>1
<1>7. CASE key.value = 0 /\ value.value # 1
  <2>1. r = wrong(value.next) BY <1>4, <1>7
  <2> QED BY <1>5, <2>1
<1>8. CASE key.value = 0 /\ value.value = 1
  <2> DEFINE x == key.string
             y == value.string
             a == x \o <<",">>
  <2>1. r = [ok |-> TRUE, pair |-> <<x, y>>, next |-> value.next] BY <1>4, <1>8
  <2>2. /\ x \in Words /\ Len(x) \in Nat /\ Len(x) < MAX_STRING_SIZE
        /\ y \in Words /\ Len(y) \in Nat /\ Len(y) < MAX_STRING_SIZE
        /\ key.next = q + Len(x) + 1 /\ value.next = key.next + Len(y) + 1
    BY <1>2, <1>3, <1>8 DEF NL
  <2>3. At(t, q, a) /\ At(t, key.next, y \o <<")">>)
    <3>1. Mark(key.value) = "," /\ Mark(value.value) = ")" BY <1>8 DEF Mark
    <3>2. /\ At(t, q, x \o <<Mark(key.value)>>)
          /\ At(t, key.next, y \o <<Mark(value.value)>>)
      BY <1>2, <1>3, <1>8 DEF NL
    <3> QED BY <3>1, <3>2
  <2>4. <<x, y>> \in Twos /\ CommaList(<<x, y>>) = a \o y BY <2>2, TwoIs
  <2>5. a \in Words /\ Len(a) = Len(x) + 1
    <3> HIDE DEF x
    <3> QED BY <2>2, CommaBehind
  <2> HIDE DEF a, x, y
  <2>6. Len(a \o y) = Len(a) + Len(y) BY <2>2, <2>5, ConcatProperties DEF Words
  <2>7. InARow(a, y, <<")">>) /\ y \o <<")">> \in Words
    BY <2>2, <2>5, SignType, Associative, ConcatType
  <2>8. q + Len(a) = key.next BY <1>1, <2>2, <2>5
  <2>9. At(t, q, a \o (y \o <<")">>))
    <3> DEFINE u == y \o <<")">>
    <3>1. u \in Words /\ At(t, key.next, u) BY <2>3, <2>7
    <3> HIDE DEF u
    <3>2. At(t, q, a \o u) BY <2>3, <2>5, <2>8, <3>1, AtBoth
    <3> QED BY <3>2 DEF u
  <2>10. At(t, q, (a \o y) \o <<")">>) BY <2>7, <2>9 DEF InARow
  <2>11. /\ r.ok = TRUE /\ r.pair = <<x, y>> /\ r.next = value.next
         /\ r.pair[1] = x /\ r.pair[2] = y
    BY <2>1
  <2>12. CommaList(r.pair) = a \o y BY <2>4, <2>11
  <2>13. value.next = q + Len(a \o y) + 1 BY <1>1, <2>2, <2>5, <2>6
  <2>14. value.next \in q .. Len(t) + 1 BY <1>1, <1>2, <1>3
  <2> QED BY <2>2, <2>4, <2>10, <2>11, <2>12, <2>13, <2>14
<1> QED BY <1>6, <1>7, <1>8

\* A pair of the language is read as it is.
LEMMA PairIsRead ==
  ASSUME NEW t \in Words, NEW q \in Places(t), NEW r, r = parse_pair(t, q),
         NEW w \in StringPairs, At(t, q, CommaList(w) \o <<")">>)
  PROVE  r.ok /\ r.pair = w
<1> DEFINE x == w[1]
           y == w[2]
           a == x \o <<",">>
           key   == read_string(t, q, MAX_STRING_SIZE)
           value == read_string(t, key.next, MAX_STRING_SIZE)
<1>1. Len(t) \in Nat /\ q \in 1 .. Len(t) + 1 /\ t \in Seq(Characters)
  BY TextType DEF Places, Words
<1>2. x \in Strings /\ y \in Strings /\ w = <<x, y>>
  <2>1. w \in Seq(Strings) /\ Len(w) = 2 BY DEF StringPairs
  <2>2. 1 \in 1 .. Len(w) /\ 2 \in 1 .. Len(w) BY <2>1
  <2>3. w[1] \in Strings /\ w[2] \in Strings BY <2>1, <2>2, ElementOfSeq
  <2>4. w \in Twos BY <2>1, StringsAreWords DEF Twos
  <2> QED BY <2>3, <2>4, TwoType
<1> HIDE DEF x, y
<1>3. /\ x \in Words /\ y \in Words /\ Len(x) \in Nat
  <2>1. x \in Words /\ y \in Words BY <1>2, StringsAreWords
  <2> QED BY <2>1, TextType DEF Words
<1>4. CommaList(w) = a \o y BY <1>2, <1>3, TwoIs
<1>5. a \in Words /\ Len(a) = Len(x) + 1
  <2>1. a \in Seq(Characters) /\ Len(a) = Len(x) + Len(<<",">>)
    BY <1>3, SignType, ConcatProperties DEF Words
  <2> HIDE DEF a
  <2> QED BY <1>3, <2>1 DEF Words
<1>6. At(t, q, a) /\ At(t, q + Len(a), y \o <<")">>)
  <2> HIDE DEF a
  <2>1. InARow(a, y, <<")">>) /\ y \o <<")">> \in Words
    BY <1>3, <1>5, SignType, Associative, ConcatType
  <2>2. At(t, q, a \o (y \o <<")">>)) BY <1>4, <2>1 DEF InARow
  <2> QED BY <1>1, <1>5, <2>1, <2>2, AtJoined DEF Words
<1>7. key.value = 0 /\ key.string = x /\ key.next = q + Len(x) + 1
  <2> DEFINE k == key
  <2>1. k = read_string(t, q, MAX_STRING_SIZE) OBVIOUS
  <2> HIDE DEF k
  <2>2. Mark(0) = "," BY DEF Mark
  <2>3. At(t, q, x \o <<Mark(0)>>) BY <1>6, <2>2
  <2>4. 0 \in {0, 1, 2} OBVIOUS
  <2>5. k.value = 0 /\ k.string = x BY <1>1, <1>2, <2>1, <2>3, <2>4, StringIsRead
  <2>6. k.next = q + Len(x) + 1 BY <1>1, <1>2, <2>1, <2>3, <2>4, StringIsRead
  <2> QED BY <2>5, <2>6 DEF k
<1>8. value.value = 1 /\ value.string = y
  <2> DEFINE z == key.next
             k == value
  <2>1. k = read_string(t, z, MAX_STRING_SIZE) OBVIOUS
  <2>2. z = q + Len(a)
    <3> HIDE DEF key, a
    <3> QED BY <1>1, <1>3, <1>5, <1>7
  <2> HIDE DEF k, z, a
  <2>3. z \in 1 .. Len(t) + 1
    <3>1. q + Len(a) <= Len(t) + 1 BY <1>6 DEF At
    <3> QED BY <1>1, <1>3, <1>5, <2>2, <3>1
  <2>4. Mark(1) = ")" BY DEF Mark
  <2>5. At(t, z, y \o <<Mark(1)>>) BY <1>6, <2>2, <2>4
  <2>6. 1 \in {0, 1, 2} OBVIOUS
  <2>7. k.value = 1 /\ k.string = y BY <1>1, <1>2, <2>1, <2>3, <2>5, <2>6, StringIsRead
  <2> QED BY <2>7 DEF k
<1> HIDE DEF key, value
<1>9. r = [ok |-> TRUE, pair |-> <<key.string, value.string>>, next |-> value.next]
  BY <1>7, <1>8 DEF parse_pair, key, value
<1> QED BY <1>2, <1>7, <1>8, <1>9

PairResults(t) == [end : {"full", "closed", "wrong"}, pairs : Seq(Twos), next : Places(t)]

\* What one turn of the loop returns, r being the pair it read.
TurnOfPairs(t, more, r, k) ==
  /\ k \in PairResults(t)
  /\ r.ok /\ r.next <= Len(t) /\ t[r.next] = "]" =>
       k = [end |-> "closed", pairs |-> <<r.pair>>, next |-> r.next + 1]
  /\ r.ok /\ r.next <= Len(t) /\ t[r.next] = "(" =>
       /\ r.next + 1 \in Places(t)
       /\ k.end = more[r.next + 1].end
       /\ k.pairs = <<r.pair>> \o more[r.next + 1].pairs
       /\ k.next = more[r.next + 1].next
  /\ ~ (r.ok /\ r.next <= Len(t) /\ t[r.next] \in {"]", "("}) =>
       k.end = "wrong" /\ k.pairs = <<>> /\ k.next \in r.next .. Len(t) + 1

\* One turn of the loop in parse_write (parser.c:216-236).
LEMMA PairFromIs ==
  ASSUME NEW t \in Words, NEW q \in Places(t), NEW more \in [Places(t) -> PairResults(t)],
         NEW r, r = parse_pair(t, q), NEW k, k = PairFrom(t, q, more)
  PROVE  TurnOfPairs(t, more, r, k)
<1> USE DEF TurnOfPairs
<1> DEFINE ch   == Chars(t, r.next, 1)
           past == After(t, r.next, 1)
<1>1. Len(t) \in Nat /\ q \in 1 .. Len(t) + 1 /\ t \in Seq(Characters)
  BY TextType DEF Places, Words
<1>2. r.ok \in BOOLEAN /\ r.next \in q .. Len(t) + 1 /\ (r.ok => r.pair \in Twos) BY PairIs
<1>3. r.next \in 1 .. Len(t) + 1 /\ r.next \in Nat BY <1>1, <1>2
<1>4. ch = IF r.next <= Len(t) THEN <<t[r.next]>> ELSE <<>> BY <1>1, <1>3, NextChar
<1>5. past = IF r.next + 1 <= Len(t) + 1 THEN r.next + 1 ELSE Len(t) + 1
  <2>1. 1 \in Nat OBVIOUS
  <2> QED BY <1>1, <1>3, <2>1, AfterIs
<1>6. past \in Places(t) /\ past \in r.next .. Len(t) + 1 BY <1>1, <1>3, <1>5 DEF Places
<1>7. k = CASE ~ r.ok -> [end |-> "wrong", pairs |-> <<>>, next |-> r.next]
            [] r.ok /\ ch = <<"]">> -> [end |-> "closed", pairs |-> <<r.pair>>, next |-> past]
            [] r.ok /\ ch = <<"(">> ->
                 [more[past] EXCEPT !.pairs = <<r.pair>> \o more[past].pairs]
            [] OTHER -> [end |-> "wrong", pairs |-> <<>>, next |-> past]
  BY DEF PairFrom
<1>8. /\ <<"]">> # <<"(">>
      /\ ch = <<"]">> <=> r.next <= Len(t) /\ t[r.next] = "]"
      /\ ch = <<"(">> <=> r.next <= Len(t) /\ t[r.next] = "("
  <2>1. \A c \in {"]", "("} : <<c>> # <<>> /\ \A d : <<d>> = <<c>> <=> d = c OBVIOUS
  <2> HIDE DEF ch
  <2>2. ch = <<"]">> <=> r.next <= Len(t) /\ t[r.next] = "]" BY <1>4, <2>1
  <2>3. ch = <<"(">> <=> r.next <= Len(t) /\ t[r.next] = "(" BY <1>4, <2>1
  <2>4. <<"]">> # <<"(">> OBVIOUS
  <2> QED BY <2>2, <2>3, <2>4
<1>9. <<>> \in Seq(Twos) /\ r.next \in Places(t) BY <1>3 DEF Places
<1> HIDE DEF ch, past
<1>10. CASE ~ r.ok
  <2>1. k = [end |-> "wrong", pairs |-> <<>>, next |-> r.next] BY <1>7, <1>10
  <2> QED BY <1>1, <1>3, <1>9, <1>10, <2>1 DEF PairResults
<1>11. CASE r.ok /\ ch = <<"]">>
  <2>1. k = [end |-> "closed", pairs |-> <<r.pair>>, next |-> past] BY <1>7, <1>11
  <2>2. <<r.pair>> \in Seq(Twos) BY <1>2, <1>11
  <2>3. r.next <= Len(t) /\ t[r.next] = "]" BY <1>8, <1>11
  <2>4. past = r.next + 1 BY <1>1, <1>3, <1>5, <2>3
  <2>5. k \in PairResults(t) BY <1>6, <2>1, <2>2 DEF PairResults
  <2> QED BY <1>11, <2>1, <2>3, <2>4, <2>5
<1>12. CASE r.ok /\ ch = <<"(">>
  <2> DEFINE m == more[past]
  <2>1. m \in PairResults(t) BY <1>6
  <2>2. k = [m EXCEPT !.pairs = <<r.pair>> \o m.pairs] BY <1>7, <1>8, <1>12
  <2>3. <<r.pair>> \o m.pairs \in Seq(Twos)
    <3>1. m.pairs \in Seq(Twos) /\ r.pair \in Twos BY <1>2, <1>12, <2>1 DEF PairResults
    <3> HIDE DEF m
    <3> QED BY <3>1, Front
  <2> HIDE DEF m
  <2>4. /\ k \in PairResults(t) /\ k.end = m.end /\ k.pairs = <<r.pair>> \o m.pairs
        /\ k.next = m.next
    BY <2>1, <2>2, <2>3 DEF PairResults
  <2>5. r.next <= Len(t) /\ t[r.next] = "(" BY <1>8, <1>12
  <2>6. past = r.next + 1 BY <1>1, <1>3, <1>5, <2>5
  <2> QED BY <1>6, <1>12, <2>4, <2>5, <2>6 DEF m
<1>13. CASE r.ok /\ ch # <<"]">> /\ ch # <<"(">>
  <2>1. k = [end |-> "wrong", pairs |-> <<>>, next |-> past] BY <1>7, <1>13
  <2>2. ~ (r.next <= Len(t) /\ t[r.next] \in {"]", "("}) BY <1>8, <1>13
  <2> QED BY <1>6, <1>9, <2>1, <2>2 DEF PairResults
<1> QED BY <1>2, <1>10, <1>11, <1>12, <1>13

\* The recursive function in PairList has its equation.
LEMMA PairListDef ==
  ASSUME NEW t \in Words, NEW max \in Nat
  PROVE  \E f \in [0 .. max -> [Places(t) -> PairResults(t)]] :
           /\ \A p \in Places(t) : PairList(t, p, max) = f[max][p]
           /\ \A q \in Places(t) : f[0][q] = [end |-> "full", pairs |-> <<>>, next |-> q]
           /\ \A n \in 1 .. max, q \in Places(t) : f[n][q] = PairFrom(t, q, f[n - 1])
<1> DEFINE None(q) == [end |-> "full", pairs |-> <<>>, next |-> q]
           Body(f) == [n \in 0 .. max |->
                         [q \in 1 .. Len(t) + 1 |->
                            IF n = 0 THEN None(q) ELSE PairFrom(t, q, f[n - 1])]]
           from == CHOOSE f : f = Body(f)
           V == [Places(t) -> PairResults(t)]
           v == [q \in Places(t) |-> None(q)]
           F == [n \in Nat |-> [x \in V |-> [q \in Places(t) |-> PairFrom(t, q, x)]]]
<1>1. \A p \in Places(t) : PairList(t, p, max) = from[max][p] BY DEF PairList
<1>2. v \in V
  <2>1. \A q \in Places(t) : None(q) \in PairResults(t) BY DEF PairResults
  <2> HIDE DEF None
  <2> QED BY <2>1
<1>3. ASSUME NEW x \in V PROVE [q \in Places(t) |-> PairFrom(t, q, x)] \in V
  <2>1. \A q \in Places(t) : PairFrom(t, q, x) \in PairResults(t)
    <3>1. ASSUME NEW q \in Places(t) PROVE TurnOfPairs(t, x, parse_pair(t, q), PairFrom(t, q, x))
      BY PairFromIs
    <3> QED BY <3>1 DEF TurnOfPairs
  <2> QED BY <2>1
<1>4. F \in Steps(V)
  <2> HIDE DEF V
  <2> QED BY <1>3 DEF Steps
<1>5. PICK g \in [0 .. max -> V] : Computes(g, max, v, F)
  <2> HIDE DEF F, V, v
  <2> QED BY <1>2, <1>4, RecursiveFunction
<1>6. g = Body(g)
  <2>1. ASSUME NEW n \in 0 .. max
        PROVE  g[n] = [q \in Places(t) |-> IF n = 0 THEN None(q) ELSE PairFrom(t, q, g[n - 1])]
    <3> HIDE DEF None, V
    <3>1. CASE n = 0
      <4>1. g[n] = v BY <1>5, <3>1 DEF Computes
      <4> QED BY <3>1, <4>1
    <3>2. CASE n # 0
      <4>1. n - 1 \in Nat /\ n - 1 \in 0 .. max BY <3>2
      <4>2. g[n] = F[n - 1][g[n - 1]]
        <5> HIDE DEF F
        <5> QED BY <1>5, <3>2 DEF Computes
      <4>3. g[n - 1] \in V BY <4>1
      <4>4. F[n - 1][g[n - 1]] = [q \in Places(t) |-> PairFrom(t, q, g[n - 1])]
        BY <4>1, <4>3
      <4> QED BY <3>2, <4>2, <4>4
    <3> QED BY <3>1, <3>2
  <2>2. g = [n \in 0 .. max |-> g[n]] OBVIOUS
  <2> QED BY <2>1, <2>2 DEF Places
<1>7. from = Body(from)
  <2> HIDE DEF Body
  <2> QED BY <1>6
<1> HIDE DEF from
<1>8. /\ from = [n \in 0 .. max |-> from[n]]
      /\ from[0] = v
      /\ \A n \in 1 .. max : from[n] = [q \in Places(t) |-> PairFrom(t, q, from[n - 1])]
  <2>1. ASSUME NEW n \in 0 .. max
        PROVE  from[n] =
                 [q \in Places(t) |-> IF n = 0 THEN None(q) ELSE PairFrom(t, q, from[n - 1])]
    <3>1. from[n] = Body(from)[n]
      <4> HIDE DEF Body
      <4> QED BY <1>7
    <3> HIDE DEF None
    <3> QED BY <3>1 DEF Places
  <2>2. from = [n \in 0 .. max |-> from[n]] BY <1>7
  <2> HIDE DEF None
  <2>3. from[0] = v BY <2>1
  <2>4. ASSUME NEW n \in 1 .. max
        PROVE  from[n] = [q \in Places(t) |-> PairFrom(t, q, from[n - 1])]
    <3>1. n \in 0 .. max /\ n # 0 OBVIOUS
    <3> QED BY <2>1, <3>1
  <2> QED BY <2>2, <2>3, <2>4
<1>9. ASSUME NEW n \in 0 .. max - 1, from[n] \in V PROVE from[n + 1] \in V
  <2>1. n + 1 \in 1 .. max /\ (n + 1) - 1 = n OBVIOUS
  <2>2. from[n + 1] = [q \in Places(t) |-> PairFrom(t, q, from[n])] BY <1>8, <2>1
  <2> HIDE DEF V
  <2> QED BY <1>3, <1>9, <2>2
<1>10. from \in [0 .. max -> V]
  <2> HIDE DEF V, v
  <2> QED BY <1>2, <1>8, <1>9, ValuesIn
<1>11. ASSUME NEW n \in 1 .. max, NEW q \in Places(t)
       PROVE  from[n][q] = PairFrom(t, q, from[n - 1])
  <2>1. from[n] = [z \in Places(t) |-> PairFrom(t, z, from[n - 1])] BY <1>8
  <2> QED BY <2>1
<1>12. \A q \in Places(t) : from[0][q] = None(q) BY <1>8
<1> QED BY <1>1, <1>10, <1>11, <1>12

\* A pair is a list of words.
LEMMA TwosAreLists == Twos \subseteq Lists /\ Seq(Twos) \subseteq Seq(Lists)
<1>1. Twos \subseteq Lists BY TwoType
<1> QED BY <1>1, SeqMonotonic

\* A pair in the text begins one place before what parse_pair reads.
LEMMA PartAt ==
  ASSUME NEW t \in Words, NEW q \in Places(t), q # 1, NEW w \in Lists
  PROVE  /\ At(t, q - 1, Part(w)) <=> t[q - 1] = "(" /\ At(t, q, CommaList(w) \o <<")">>)
         /\ Len(Part(w)) = Len(CommaList(w)) + 2
         /\ Part(w) \in Words /\ Len(CommaList(w)) \in Nat
<1> DEFINE c == CommaList(w)
           d == c \o <<")">>
           e == <<"(">>
<1>1. Len(t) \in Nat /\ q - 1 \in 1 .. Len(t) /\ q - 1 \in 1 .. Len(t) + 1 /\ q - 1 \in Nat
      /\ (q - 1) + 1 = q /\ t \in Seq(Characters)
  BY TextType DEF Places, Words
<1>2. c \in Words /\ d \in Words /\ e \in Words /\ Len(e) = 1
  BY CommaListType, ConcatType, SignType
<1>3. InARow(e, c, <<")">>) BY <1>2, SignType, Associative
<1>4. Part(w) = e \o d BY <1>3 DEF InARow, Part
<1> HIDE DEF c
<1>5. Len(d) = Len(c) + 1 /\ Len(c) \in Nat
  <2>1. Len(d) = Len(c) + Len(<<")">>) BY <1>2, SignType, ConcatProperties DEF Words
  <2> HIDE DEF d
  <2> QED BY <1>2, <2>1, TextType DEF Words
<1>6. At(t, q - 1, e) <=> t[q - 1] = "(" BY <1>1, AtChar
<1> HIDE DEF d, e
<1>7. At(t, q - 1, e \o d) <=> At(t, q - 1, e) /\ At(t, q, d)
  <2> DEFINE z == q - 1
  <2>1. z \in 1 .. Len(t) + 1 /\ z + 1 = q BY <1>1
  <2> HIDE DEF z
  <2>2. z + Len(e) = q BY <1>2, <2>1
  <2>3. At(t, z, e \o d) <=> At(t, z, e) /\ At(t, z + Len(e), d)
    BY <1>1, <1>2, <2>1, AtJoined DEF Words
  <2> QED BY <2>2, <2>3 DEF z
<1>8. Len(e \o d) = Len(e) + Len(d) /\ e \o d \in Words
  BY <1>2, ConcatProperties DEF Words
<1>9. Len(Part(w)) = Len(c) + 2 BY <1>2, <1>4, <1>5, <1>8
<1> QED BY <1>4, <1>5, <1>6, <1>7, <1>8, <1>9 DEF c, d

\* What the list is, as for keys, if the bracket of its first pair was read before.
PairsRead(t, n, q, k) ==
  /\ k \in PairResults(t) /\ k.next >= q
  /\ Len(k.pairs) <= n
  /\ \A i \in 1 .. Len(k.pairs) : \A j \in 1 .. 2 : Len(k.pairs[i][j]) < MAX_STRING_SIZE
  /\ k.end = "closed" /\ q # 1 /\ t[q - 1] = "(" =>
       /\ At(t, q - 1, Pairs(k.pairs) \o <<"]">>)
       /\ k.next = q + Len(Pairs(k.pairs))

\* What one turn of the loop and the rest have read is in the text.
LEMMA PairFromReads ==
  ASSUME NEW t \in Words, NEW q \in Places(t), NEW more \in [Places(t) -> PairResults(t)],
         NEW n \in Nat, \A z \in Places(t) : PairsRead(t, n, z, more[z])
  PROVE  PairsRead(t, n + 1, q, PairFrom(t, q, more))
<1> DEFINE r == parse_pair(t, q)
           k == PairFrom(t, q, more)
           m == more[r.next + 1]
<1> SUFFICES PairsRead(t, n + 1, q, k) OBVIOUS
<1>1. Len(t) \in Nat /\ q \in 1 .. Len(t) + 1 /\ t \in Seq(Characters)
  BY TextType DEF Places, Words
<1>2. /\ r.ok \in BOOLEAN /\ r.next \in q .. Len(t) + 1
      /\ r.ok => /\ r.pair \in Twos
                 /\ Len(r.pair[1]) < MAX_STRING_SIZE /\ Len(r.pair[2]) < MAX_STRING_SIZE
                 /\ At(t, q, CommaList(r.pair) \o <<")">>)
                 /\ r.next = q + Len(CommaList(r.pair)) + 1
  <2> HIDE DEF r
  <2>1. r = parse_pair(t, q) BY DEF r
  <2> QED BY <2>1, PairIs
<1>3. /\ k \in PairResults(t)
      /\ r.ok /\ r.next <= Len(t) /\ t[r.next] = "]" =>
           k = [end |-> "closed", pairs |-> <<r.pair>>, next |-> r.next + 1]
      /\ r.ok /\ r.next <= Len(t) /\ t[r.next] = "(" =>
           /\ r.next + 1 \in Places(t) /\ k.end = m.end
           /\ k.pairs = <<r.pair>> \o m.pairs /\ k.next = m.next
      /\ ~ (r.ok /\ r.next <= Len(t) /\ t[r.next] \in {"]", "("}) =>
           k.end = "wrong" /\ k.pairs = <<>> /\ k.next \in r.next .. Len(t) + 1
  <2> DEFINE rr == r
             kk == k
  <2>1. rr = parse_pair(t, q) /\ kk = PairFrom(t, q, more) OBVIOUS
  <2> HIDE DEF rr, kk
  <2>2. TurnOfPairs(t, more, rr, kk) BY <2>1, PairFromIs
  <2> QED BY <2>2 DEF rr, kk, TurnOfPairs
<1> HIDE DEF r, k
<1> DEFINE w == r.pair
           c == CommaList(w)
<1>4. CASE r.ok /\ r.next <= Len(t) /\ t[r.next] = "]"
  <2>1. k.end = "closed" /\ k.pairs = <<w>> /\ k.next = r.next + 1 BY <1>3, <1>4
  <2>2. /\ w \in Twos /\ w \in Lists
        /\ Len(w[1]) < MAX_STRING_SIZE /\ Len(w[2]) < MAX_STRING_SIZE
    BY <1>2, <1>4, TwosAreLists
  <2>3. Len(k.pairs) = 1 /\ k.pairs[1] = w BY <2>1
  <2>4. Pairs(k.pairs) = Part(w)
    <3>1. <<w>> \in Seq(Lists) /\ <<>> \in Seq(Lists) BY <2>2
    <3>2. <<w>> \o <<>> = <<w>> BY <3>1, ConcatEmptySeq
    <3>3. Pairs(<<w>> \o <<>>) = Part(w) \o <<>> BY <2>2, <3>1, PairsFirst, PairsNone
    <3>4. Part(w) \in Seq(Characters) BY <2>2, PartType DEF Words
    <3>5. Part(w) \o <<>> = Part(w) BY <3>4, ConcatEmptySeq
    <3> QED BY <2>1, <3>2, <3>3, <3>5
  <2>5. ASSUME q # 1, t[q - 1] = "("
        PROVE  At(t, q - 1, Pairs(k.pairs) \o <<"]">>) /\ k.next = q + Len(Pairs(k.pairs))
    <3>1. At(t, q, c \o <<")">>) /\ r.next = q + Len(c) + 1 BY <1>2, <1>4
    <3> HIDE DEF c, w
    <3>2. /\ At(t, q - 1, Part(w)) /\ Len(Part(w)) = Len(c) + 2
          /\ Part(w) \in Words /\ Len(c) \in Nat
      BY <2>2, <2>5, <3>1, PartAt DEF c
    <3>3. (q - 1) + Len(Part(w)) = r.next /\ r.next \in Nat
          /\ q - 1 \in 1 .. Len(t) + 1
      BY <1>1, <2>5, <3>1, <3>2
    <3>4. At(t, r.next, <<"]">>) BY <1>1, <1>4, <3>3, AtChar
    <3>5. At(t, q - 1, Part(w) \o <<"]">>)
      <4> DEFINE z == q - 1
                 a == Part(w)
      <4>1. z \in 1 .. Len(t) + 1 /\ z + Len(a) = r.next /\ At(t, z, a) /\ a \in Words
        BY <3>2, <3>3
      <4> HIDE DEF z, a
      <4>2. At(t, z, a \o <<"]">>) <=> At(t, z, a) /\ At(t, z + Len(a), <<"]">>)
        BY <1>1, <4>1, SignType, AtJoined DEF Words
      <4> QED BY <3>4, <4>1, <4>2 DEF z, a
    <3>6. k.next = q + Len(Part(w)) BY <1>1, <2>1, <3>1, <3>2
    <3> QED BY <2>4, <3>5, <3>6
  <2>6. Len(k.pairs) <= n + 1 /\ k.next >= q BY <1>1, <1>2, <2>1, <2>3
  <2>7. \A i \in 1 .. Len(k.pairs) : \A j \in 1 .. 2 : Len(k.pairs[i][j]) < MAX_STRING_SIZE
    <3>1. \A i \in 1 .. Len(k.pairs) : i = 1 BY <2>3
    <3>2. \A j \in 1 .. 2 : j = 1 \/ j = 2 OBVIOUS
    <3> HIDE DEF w
    <3> QED BY <2>2, <2>3, <3>1, <3>2
  <2> HIDE DEF w
  <2> QED BY <1>3, <2>5, <2>6, <2>7 DEF PairsRead
<1>5. CASE r.ok /\ r.next <= Len(t) /\ t[r.next] = "("
  <2> DEFINE z == r.next + 1
  <2>1. /\ z \in Places(t) /\ k.end = m.end /\ k.pairs = <<w>> \o m.pairs /\ k.next = m.next
    BY <1>3, <1>5
  <2>2. PairsRead(t, n, z, m) BY <2>1
  <2>3. m.pairs \in Seq(Twos) /\ Len(m.pairs) \in Nat /\ m.next \in Places(t)
        /\ m.pairs \in Seq(Lists)
    <3>1. m.pairs \in Seq(Twos) /\ m.next \in Places(t) BY <2>2 DEF PairsRead, PairResults
    <3> QED BY <3>1, LenProperties, TwosAreLists
  <2>4. /\ w \in Twos /\ w \in Lists
        /\ Len(w[1]) < MAX_STRING_SIZE /\ Len(w[2]) < MAX_STRING_SIZE
    BY <1>2, <1>5, TwosAreLists
  <2>5. z \in Nat /\ z - 1 = r.next /\ z # 1 /\ t[z - 1] = "(" BY <1>1, <1>2, <1>5
  <2> HIDE DEF w, m
  <2>6. /\ Len(k.pairs) = Len(m.pairs) + 1 /\ k.pairs[1] = w
        /\ \A i \in 1 .. Len(m.pairs) : k.pairs[i + 1] = m.pairs[i]
    BY <2>1, <2>3, <2>4, Front
  <2>7. ASSUME NEW i \in 1 .. Len(k.pairs), NEW j \in 1 .. 2
        PROVE  Len(k.pairs[i][j]) < MAX_STRING_SIZE
    <3>1. CASE i = 1
      <4>1. j = 1 \/ j = 2 OBVIOUS
      <4> QED BY <2>4, <2>6, <3>1, <4>1
    <3>2. CASE i # 1
      <4>1. i - 1 \in 1 .. Len(m.pairs) /\ (i - 1) + 1 = i BY <2>3, <2>6, <3>2
      <4>2. k.pairs[i] = m.pairs[i - 1] BY <2>6, <4>1
      <4>3. Len(m.pairs[i - 1][j]) < MAX_STRING_SIZE BY <2>2, <4>1 DEF PairsRead
      <4> QED BY <4>2, <4>3
    <3> QED BY <3>1, <3>2
  <2>8. Len(k.pairs) <= n + 1 /\ k.next >= q
    <3>1. Len(m.pairs) <= n /\ m.next >= z BY <2>2 DEF PairsRead
    <3>2. k.next = m.next BY <2>1
    <3>3. m.next \in Nat /\ z >= q BY <1>1, <1>2, <2>3, <2>5 DEF Places
    <3>4. k.next >= q BY <1>1, <2>5, <3>1, <3>2, <3>3
    <3>5. Len(k.pairs) <= n + 1 BY <2>3, <2>6, <3>1
    <3> QED BY <3>4, <3>5
  <2>9. ASSUME k.end = "closed", q # 1, t[q - 1] = "("
        PROVE  At(t, q - 1, Pairs(k.pairs) \o <<"]">>) /\ k.next = q + Len(Pairs(k.pairs))
    <3> DEFINE d == Pairs(m.pairs)
               a == Part(w)
    <3>1. At(t, z - 1, d \o <<"]">>) /\ m.next = z + Len(d)
      BY <2>1, <2>2, <2>5, <2>9 DEF PairsRead
    <3>2. Pairs(k.pairs) = a \o d BY <2>1, <2>3, <2>4, PairsFirst
    <3>3. At(t, q, c \o <<")">>) /\ r.next = q + Len(c) + 1 BY <1>2, <1>5 DEF w
    <3> HIDE DEF c
    <3>4. /\ At(t, q - 1, a) /\ Len(a) = Len(c) + 2 /\ a \in Words /\ Len(c) \in Nat
      BY <2>4, <2>9, <3>3, PartAt DEF c
    <3>5. d \in Words /\ Len(d) \in Nat
      <4>1. d \in Words BY <2>3, PairsType
      <4> QED BY <4>1, TextType DEF Words
    <3> HIDE DEF d, a
    <3>6. (q - 1) + Len(a) = z - 1 /\ q - 1 \in 1 .. Len(t) + 1
      BY <1>1, <2>5, <2>9, <3>3, <3>4
    <3>7. InARow(a, d, <<"]">>) /\ d \o <<"]">> \in Words
      BY <3>4, <3>5, SignType, Associative, ConcatType
    <3>8. At(t, q - 1, a \o (d \o <<"]">>))
      BY <1>1, <3>1, <3>4, <3>6, <3>7, AtJoined DEF Words
    <3>9. At(t, q - 1, (a \o d) \o <<"]">>) BY <3>7, <3>8 DEF InARow
    <3>10. Len(a \o d) = Len(a) + Len(d) BY <3>4, <3>5, ConcatProperties DEF Words
    <3>11. k.next = q + Len(a \o d)
      BY <1>1, <2>1, <2>5, <3>1, <3>4, <3>5, <3>6, <3>10
    <3> QED BY <3>2, <3>9, <3>11
  <2> QED BY <1>3, <2>7, <2>8, <2>9 DEF PairsRead
<1>6. CASE ~ (r.ok /\ r.next <= Len(t) /\ t[r.next] \in {"]", "("})
  <2>1. k.end = "wrong" /\ k.pairs = <<>> /\ k.next \in r.next .. Len(t) + 1
    BY <1>3, <1>6
  <2>2. Len(k.pairs) = 0 /\ k.next >= q BY <1>1, <1>2, <2>1
  <2> QED BY <1>3, <2>1, <2>2 DEF PairsRead
<1> QED BY <1>4, <1>5, <1>6

\* A list of pairs that was read is what writes it (parser.c:201-236).
LEMMA PairListIs ==
  ASSUME NEW t \in Words, NEW max \in Nat, NEW p \in Places(t)
  PROVE  PairsRead(t, max, p, PairList(t, p, max))
<1>1. PICK f \in [0 .. max -> [Places(t) -> PairResults(t)]] :
         /\ \A q \in Places(t) : PairList(t, q, max) = f[max][q]
         /\ \A q \in Places(t) : f[0][q] = [end |-> "full", pairs |-> <<>>, next |-> q]
         /\ \A n \in 1 .. max, q \in Places(t) : f[n][q] = PairFrom(t, q, f[n - 1])
  BY PairListDef
<1> DEFINE S == {n \in Nat : n \in 0 .. max =>
                              \A q \in Places(t) : PairsRead(t, n, q, f[n][q])}
<1>2. 0 \in S
  <2>1. ASSUME NEW q \in Places(t) PROVE PairsRead(t, 0, q, f[0][q])
    <3> DEFINE k == f[0][q]
    <3>1. k = [end |-> "full", pairs |-> <<>>, next |-> q] BY <1>1
    <3>2. <<>> \in Seq(Twos) /\ Len(<<>>) = 0 OBVIOUS
    <3>3. q >= q BY DEF Places
    <3> HIDE DEF k
    <3>4. k \in PairResults(t) BY <3>1, <3>2 DEF PairResults
    <3>5. PairsRead(t, 0, q, k) BY <3>1, <3>2, <3>3, <3>4 DEF PairsRead
    <3> QED BY <3>5 DEF k
  <2> QED BY <2>1
<1>3. ASSUME NEW n \in Nat, n \in S PROVE n + 1 \in S
  <2>0. n + 1 \in Nat OBVIOUS
  <2> SUFFICES ASSUME n + 1 \in 0 .. max, NEW q \in Places(t)
               PROVE  PairsRead(t, n + 1, q, f[n + 1][q])
    BY <2>0, Zenon
  <2>1. n \in 0 .. max /\ n + 1 \in 1 .. max /\ (n + 1) - 1 = n OBVIOUS
  <2>2. \A z \in Places(t) : PairsRead(t, n, z, f[n][z]) BY <1>3, <2>1
  <2>3. f[n + 1][q] = PairFrom(t, q, f[n]) BY <1>1, <2>1
  <2>4. f[n] \in [Places(t) -> PairResults(t)] BY <2>1
  <2> QED BY <2>2, <2>3, <2>4, PairFromReads
<1> HIDE DEF S
<1>4. Nat \subseteq S BY <1>2, <1>3, SetInduction
<1>5. max \in 0 .. max OBVIOUS
<1>6. PairsRead(t, max, p, f[max][p]) BY <1>4, <1>5 DEF S
<1> QED BY <1>1, <1>6

\* A list of pairs of the language is read as it is, with room for it.
PairsFound(t, n, q, k) ==
  \A pp \in Seq(StringPairs) :
    /\ pp # <<>> /\ Len(pp) <= n /\ q # 1
    /\ At(t, q - 1, Pairs(pp) \o <<"]">>)
    => k.end = "closed" /\ k.pairs = pp

\* Pairs of the language are lists of two words.
LEMMA StringPairsAre ==
  /\ StringPairs \subseteq Twos /\ StringPairs \subseteq Lists
  /\ Seq(StringPairs) \subseteq Seq(Lists)
<1>1. StringPairs \subseteq Twos BY StringsAreWords DEF StringPairs, Twos
<1>2. StringPairs \subseteq Lists BY <1>1, TwosAreLists
<1> QED BY <1>1, <1>2, SeqMonotonic

\* The pairs of a list that is not empty begin with a bracket.
LEMMA PairsBegin ==
  ASSUME NEW t \in Words, NEW z \in Places(t), NEW u \in Words,
         NEW pp \in Seq(StringPairs), pp # <<>>, At(t, z, Pairs(pp) \o u)
  PROVE  /\ t[z] = "(" /\ z + 1 \in Places(t)
         /\ At(t, z + 1, CommaList(pp[1]) \o <<")">>)
         /\ At(t, z + Len(CommaList(pp[1])) + 2, Pairs(Tail(pp)) \o u)
<1> DEFINE w == pp[1]
           rest == Tail(pp)
           a == Part(w)
           d == Pairs(rest)
           y == z + 1
<1>1. /\ w \in StringPairs /\ w \in Lists /\ rest \in Seq(StringPairs)
      /\ rest \in Seq(Lists) /\ pp = <<w>> \o rest
  <2>1. w \in StringPairs /\ rest \in Seq(StringPairs) /\ pp = <<w>> \o rest BY FrontOff
  <2> QED BY <2>1, StringPairsAre
<1> HIDE DEF w, rest
<1>2. Pairs(pp) = a \o d BY <1>1, PairsFirst
<1>3. a \in Words /\ d \in Words /\ Len(CommaList(w)) \in Nat /\ Len(a) \in Nat
  <2>1. a \in Words /\ d \in Words /\ CommaList(w) \in Words
    BY <1>1, PartType, PairsType, CommaListType
  <2> QED BY <2>1, TextType DEF Words
<1>4. Len(t) \in Nat /\ z \in 1 .. Len(t) + 1 BY TextType DEF Places, Words
<1>5. At(t, z, a) /\ At(t, z + Len(a), d \o u)
  <2> HIDE DEF a, d
  <2>1. InARow(a, d, u) /\ d \o u \in Words BY <1>3, Associative, ConcatType
  <2>2. At(t, z, a \o (d \o u)) BY <1>2, <2>1 DEF InARow
  <2> QED BY <1>3, <1>4, <2>1, <2>2, AtJoined DEF Words
<1>6. Len(a) >= 1
  <2>1. <<"(">> \in Words /\ CommaList(w) \o <<")">> \in Words
    BY <1>1, CommaListType, SignType, ConcatType
  <2>2. InARow(<<"(">>, CommaList(w), <<")">>) BY <1>1, CommaListType, SignType, Associative
  <2> DEFINE e == <<"(">>
             v == CommaList(w) \o <<")">>
  <2>3. Len(e) = 1 /\ a = e \o v BY <2>2 DEF InARow, Part
  <2> HIDE DEF a, e, v
  <2>4. e \in Words /\ v \in Words BY <2>1 DEF e, v
  <2>5. Len(e \o v) = Len(e) + Len(v) /\ Len(v) \in Nat
    BY <2>4, ConcatProperties, TextType DEF Words
  <2> QED BY <2>3, <2>5
<1>7. y \in Places(t) /\ y # 1 /\ y - 1 = z
  <2>1. z + Len(a) <= Len(t) + 1 BY <1>5 DEF At
  <2> HIDE DEF a
  <2> QED BY <1>3, <1>4, <1>6, <2>1 DEF Places
<1>8. /\ t[z] = "(" /\ At(t, y, CommaList(w) \o <<")">>)
      /\ Len(a) = Len(CommaList(w)) + 2
  <2> HIDE DEF y
  <2>1. At(t, y - 1, a) <=> t[y - 1] = "(" /\ At(t, y, CommaList(w) \o <<")">>)
    BY <1>1, <1>7, PartAt
  <2>2. Len(a) = Len(CommaList(w)) + 2 BY <1>1, <1>7, PartAt
  <2> QED BY <1>5, <1>7, <2>1, <2>2
<1>9. z + Len(a) = z + Len(CommaList(w)) + 2
  <2> HIDE DEF a
  <2> QED BY <1>3, <1>4, <1>8
<1>10. At(t, z + Len(CommaList(w)) + 2, d \o u) BY <1>5, <1>9
<1> QED BY <1>7, <1>8, <1>10 DEF w, rest

\* One turn of the loop finds a pair of the language, and the rest finds the others.
LEMMA PairFromFinds ==
  ASSUME NEW t \in Words, NEW q \in Places(t), NEW more \in [Places(t) -> PairResults(t)],
         NEW n \in Nat, \A z \in Places(t) : PairsFound(t, n, z, more[z])
  PROVE  PairsFound(t, n + 1, q, PairFrom(t, q, more))
<1> DEFINE r == parse_pair(t, q)
           k == PairFrom(t, q, more)
<1> SUFFICES PairsFound(t, n + 1, q, k) OBVIOUS
<1>1. Len(t) \in Nat /\ q \in 1 .. Len(t) + 1 /\ t \in Seq(Characters)
  BY TextType DEF Places, Words
<1>2. /\ r.ok /\ r.next <= Len(t) /\ t[r.next] = "]" =>
           k = [end |-> "closed", pairs |-> <<r.pair>>, next |-> r.next + 1]
      /\ r.ok /\ r.next <= Len(t) /\ t[r.next] = "(" =>
           /\ r.next + 1 \in Places(t) /\ k.end = more[r.next + 1].end
           /\ k.pairs = <<r.pair>> \o more[r.next + 1].pairs
  <2> DEFINE rr == r
             kk == k
  <2>1. rr = parse_pair(t, q) /\ kk = PairFrom(t, q, more) OBVIOUS
  <2> HIDE DEF rr, kk
  <2>2. TurnOfPairs(t, more, rr, kk) BY <2>1, PairFromIs
  <2> QED BY <2>2 DEF rr, kk, TurnOfPairs
<1> SUFFICES ASSUME NEW pp \in Seq(StringPairs), pp # <<>>, Len(pp) <= n + 1, q # 1,
                    At(t, q - 1, Pairs(pp) \o <<"]">>)
             PROVE  k.end = "closed" /\ k.pairs = pp
  BY DEF PairsFound
<1> DEFINE w == pp[1]
           rest == Tail(pp)
           b == q - 1
           z == r.next
<1>3. /\ w \in StringPairs /\ rest \in Seq(StringPairs) /\ Len(rest) = Len(pp) - 1
      /\ Len(pp) \in Nat \ {0} /\ pp = <<w>> \o rest
  BY FrontOff
<1>4. Len(CommaList(w)) \in Nat /\ w \in Twos
  <2>1. w \in Twos /\ CommaList(w) \in Words BY <1>3, StringPairsAre, CommaListType
  <2> QED BY <2>1, TextType DEF Words
<1>5. b \in Places(t) /\ b + 1 = q /\ b \in Nat BY <1>1 DEF Places
<1>6. /\ At(t, q, CommaList(w) \o <<")">>)
      /\ At(t, b + Len(CommaList(w)) + 2, Pairs(rest) \o <<"]">>)
  <2>1. At(t, b, Pairs(pp) \o <<"]">>) /\ <<"]">> \in Words BY SignType
  <2> HIDE DEF b
  <2>2. /\ At(t, b + 1, CommaList(pp[1]) \o <<")">>)
        /\ At(t, b + Len(CommaList(pp[1])) + 2, Pairs(Tail(pp)) \o <<"]">>)
    BY <1>5, <2>1, PairsBegin
  <2> QED BY <1>5, <2>2
<1> HIDE DEF r, k, w, rest, b
<1>7. r.ok /\ r.pair = w /\ z = q + Len(CommaList(w)) + 1
  <2>1. r = parse_pair(t, q) BY DEF r
  <2>2. r.ok /\ r.pair = w BY <1>3, <1>6, <2>1, PairIsRead
  <2>3. r.next = q + Len(CommaList(r.pair)) + 1 BY <2>1, <2>2, PairIs
  <2> QED BY <2>2, <2>3
<1>8. z = b + Len(CommaList(w)) + 2 /\ z \in Nat
  <2> DEFINE l == Len(CommaList(w))
  <2>1. l \in Nat /\ z = q + l + 1 BY <1>4, <1>7
  <2> HIDE DEF l, z
  <2>2. z = b + l + 2 /\ z \in Nat BY <1>5, <2>1
  <2> QED BY <2>2 DEF l
<1>9. At(t, z, Pairs(rest) \o <<"]">>) BY <1>6, <1>8
<1> HIDE DEF z
<1>10. CASE rest = <<>>
  <2>1. Pairs(rest) \o <<"]">> = <<"]">>
    <3>1. <<"]">> \in Seq(Characters) BY SignType DEF Words
    <3>2. <<>> \o <<"]">> = <<"]">> BY <3>1, ConcatEmptySeq
    <3> QED BY <1>10, <3>2, PairsNone
  <2>2. z <= Len(t) /\ t[z] = "]" BY <1>1, <1>8, <1>9, <2>1, AtChar
  <2>3. k = [end |-> "closed", pairs |-> <<w>>, next |-> r.next + 1] BY <1>2, <1>7, <2>2 DEF z
  <2>4. pp = <<w>>
    <3>1. <<w>> \in Seq(Twos) BY <1>4
    <3>2. <<w>> \o <<>> = <<w>> BY <3>1, ConcatEmptySeq
    <3> QED BY <1>3, <1>10, <3>2
  <2> QED BY <2>3, <2>4
<1>11. CASE rest # <<>>
  <2>1. z \in Places(t)
    <3>1. z <= Len(t) + 1
      <4>1. r = parse_pair(t, q) BY DEF r
      <4> QED BY <1>1, <4>1, PairIs DEF z
    <3> QED BY <1>1, <1>4, <1>7, <3>1 DEF Places
  <2>2. t[z] = "(" /\ z + 1 \in Places(t)
    BY <1>3, <1>9, <1>11, <2>1, SignType, PairsBegin
  <2> DEFINE y == z + 1
             m == more[y]
  <2>3. z <= Len(t) /\ y # 1 /\ y - 1 = z BY <1>1, <1>8, <2>1, <2>2 DEF Places
  <2>4. /\ k.end = m.end /\ k.pairs = <<w>> \o m.pairs
    BY <1>2, <1>7, <2>2, <2>3 DEF z
  <2>5. PairsFound(t, n, y, m) BY <2>2
  <2> HIDE DEF y, m
  <2>6. m.end = "closed" /\ m.pairs = rest
    BY <1>3, <1>9, <1>11, <2>3, <2>5 DEF PairsFound
  <2> QED BY <1>3, <2>4, <2>6
<1> QED BY <1>10, <1>11

\* A list of pairs of the language that there is room for is read as it is.
LEMMA PairListFinds ==
  ASSUME NEW t \in Words, NEW max \in Nat, NEW p \in Places(t)
  PROVE  PairsFound(t, max, p, PairList(t, p, max))
<1>1. PICK f \in [0 .. max -> [Places(t) -> PairResults(t)]] :
         /\ \A q \in Places(t) : PairList(t, q, max) = f[max][q]
         /\ \A q \in Places(t) : f[0][q] = [end |-> "full", pairs |-> <<>>, next |-> q]
         /\ \A n \in 1 .. max, q \in Places(t) : f[n][q] = PairFrom(t, q, f[n - 1])
  BY PairListDef
<1> DEFINE S == {n \in Nat : n \in 0 .. max =>
                              \A q \in Places(t) : PairsFound(t, n, q, f[n][q])}
<1>2. 0 \in S
  <2>1. \A pp \in Seq(StringPairs) : pp # <<>> => ~ (Len(pp) <= 0) BY EmptySeq
  <2>2. \A q \in Places(t) : PairsFound(t, 0, q, f[0][q]) BY <2>1 DEF PairsFound
  <2> QED BY <2>2
<1>3. ASSUME NEW n \in Nat, n \in S PROVE n + 1 \in S
  <2>0. n + 1 \in Nat OBVIOUS
  <2> SUFFICES ASSUME n + 1 \in 0 .. max, NEW q \in Places(t)
               PROVE  PairsFound(t, n + 1, q, f[n + 1][q])
    BY <2>0, Zenon
  <2>1. n \in 0 .. max /\ n + 1 \in 1 .. max /\ (n + 1) - 1 = n OBVIOUS
  <2>2. \A z \in Places(t) : PairsFound(t, n, z, f[n][z]) BY <1>3, <2>1
  <2>3. f[n + 1][q] = PairFrom(t, q, f[n]) BY <1>1, <2>1
  <2>4. f[n] \in [Places(t) -> PairResults(t)] BY <2>1
  <2> QED BY <2>2, <2>3, <2>4, PairFromFinds
<1> HIDE DEF S
<1>4. Nat \subseteq S BY <1>2, <1>3, SetInduction
<1>5. max \in 0 .. max OBVIOUS
<1>6. PairsFound(t, max, p, f[max][p]) BY <1>4, <1>5 DEF S
<1> QED BY <1>1, <1>6

-----------------------------------------------------------------------------
(* What is in a line.                                                      *)

\* Reading goes on at the beginning of a line, or not at all.
Resumes(t, q) == q > Len(t) \/ t[q - 1] = NL

\* The result of a command that is refused, or of one without arguments.
Plain(t, p, c, cmds) ==
  /\ c.cmd \in cmds /\ c.args = <<>>
  /\ c.next \in p .. Len(t) + 1
  /\ Resumes(t, c.next)

\* A list in brackets at the end of its line.
Bracketed(t, q, b) ==
  /\ At(t, q, <<"[">>)
  /\ At(t, q + 1, b \o <<"]">>)
  /\ At(t, q + Len(b) + 2, <<NL>>)

\* The place behind what is there.
LEMMA AtPlace ==
  ASSUME NEW t \in Words, NEW p \in Places(t), NEW s \in Words, At(t, p, s)
  PROVE  p + Len(s) \in Places(t) /\ Len(s) \in Nat
<1>1. Len(s) \in Nat BY TextType DEF Words
<1>2. p + Len(s) <= Len(t) + 1 BY DEF At
<1> QED BY <1>1, <1>2, PlaceType DEF Places

\* The next character, read on its own.
LEMMA NextIs ==
  ASSUME NEW t \in Words, NEW p \in Places(t), NEW ch
  PROVE  /\ Chars(t, p, 1) = <<ch>> <=> p <= Len(t) /\ t[p] = ch
         /\ At(t, p, <<ch>>) <=> p <= Len(t) /\ t[p] = ch
         /\ Chars(t, p, 1) = <<>> <=> p = Len(t) + 1
<1>1. Len(t) \in Nat /\ p \in Nat /\ p <= Len(t) + 1 BY PlaceType
<1>2. Chars(t, p, 1) = IF p <= Len(t) THEN <<t[p]>> ELSE <<>> BY PlaceType, NextChar
<1>3. \A c, d : <<c>> # <<>> /\ (<<c>> = <<d>> <=> c = d) OBVIOUS
<1>4. Chars(t, p, 1) = <<ch>> <=> p <= Len(t) /\ t[p] = ch BY <1>2, <1>3
<1>5. Chars(t, p, 1) = <<>> <=> p = Len(t) + 1 BY <1>1, <1>2, <1>3
<1>6. At(t, p, <<ch>>) <=> p <= Len(t) /\ t[p] = ch BY <1>1, PlaceType, AtChar
<1> QED BY <1>4, <1>5, <1>6

\* The place behind the next characters.
LEMMA AfterType ==
  ASSUME NEW t \in Words, NEW p \in Places(t), NEW n \in Nat
  PROVE  /\ After(t, p, n) \in p .. Len(t) + 1 /\ After(t, p, n) \in Places(t)
         /\ p + n <= Len(t) + 1 => After(t, p, n) = p + n
         /\ ~ (p + n <= Len(t) + 1) => After(t, p, n) = Len(t) + 1
<1>1. Len(t) \in Nat /\ p \in Nat \ {0} /\ p <= Len(t) + 1 BY PlaceType
<1>2. After(t, p, n) = IF p + n <= Len(t) + 1 THEN p + n ELSE Len(t) + 1
  BY <1>1, PlaceType, AfterIs
<1> QED BY <1>1, <1>2 DEF Places

\* A refused command has cleaned up after itself.
LEMMA RefusedIs ==
  ASSUME NEW t \in Words, NEW q \in Places(t), NEW p \in 1 .. q,
         NEW c, c = Refused(t, q)
  PROVE  Plain(t, p, c, {"INVALID"})
<1> DEFINE z == cleanup(t, q)
<1>1. Len(t) \in Nat /\ q \in Nat \ {0} /\ q <= Len(t) + 1 BY PlaceType
<1>2. z \in q .. Len(t) + 1 /\ (z \in 1 .. Len(t) => t[z - 1] = NL)
  BY PlaceType, CleanupIs
<1>3. c.cmd = "INVALID" /\ c.args = <<>> /\ c.next = z BY DEF Refused, Command
<1> HIDE DEF z
<1>4. z \in p .. Len(t) + 1 /\ (z > Len(t) \/ t[z - 1] = NL) BY <1>1, <1>2
<1> QED BY <1>3, <1>4 DEF Plain, Resumes

\* A word that is not there is refused.
LEMMA WordIs ==
  ASSUME NEW t \in Words, NEW p \in Places(t), NEW word \in Words, word # <<>>, NEW cmd,
         NEW c, c = Word(t, p, word, cmd)
  PROVE  /\ At(t, p, word) => c = Command(cmd, <<>>, p + Len(word))
         /\ ~ At(t, p, word) => Plain(t, p, c, {"INVALID"})
<1>1. Chars(t, p, Len(word)) = word <=> At(t, p, word) BY PlaceType, CharsAre DEF Words
<1>2. CASE At(t, p, word) BY <1>1, <1>2 DEF Word
<1>3. CASE ~ At(t, p, word)
  <2> DEFINE q == After(t, p, Len(word))
  <2>1. c = Refused(t, q) BY <1>1, <1>3 DEF Word
  <2>2. Len(word) \in Nat BY TextType DEF Words
  <2>3. q \in p .. Len(t) + 1 /\ q \in Places(t) BY <2>2, AfterType
  <2> HIDE DEF q
  <2>4. p \in 1 .. q BY <2>3, PlaceType
  <2> QED BY <1>3, <2>1, <2>3, <2>4, RefusedIs
<1> QED BY <1>2, <1>3

\* A word that has to be alone ends its line or is refused.
LEMMA WordAloneIs ==
  ASSUME NEW t \in Words, NEW p \in Places(t), NEW word \in Words, word # <<>>, NEW cmd,
         NEW c, c = WordAlone(t, p, word, cmd)
  PROVE  /\ Plain(t, p, c, {cmd, "INVALID"})
         /\ At(t, p, word \o <<NL>>) => c = Command(cmd, <<>>, p + Len(word) + 1)
<1> DEFINE q == After(t, p, Len(word))
<1>1. Chars(t, p, Len(word)) = word <=> At(t, p, word) BY PlaceType, CharsAre DEF Words
<1>2. Len(word) \in Nat BY TextType DEF Words
<1>3. /\ q \in p .. Len(t) + 1 /\ q \in Places(t)
      /\ p + Len(word) <= Len(t) + 1 => q = p + Len(word)
  BY <1>2, AfterType
<1>4. NL \in Characters /\ <<NL>> \in Words BY CommandTextAssumption, SignType DEF Marks
<1>5. c = IF At(t, p, word) /\ Chars(t, q, 1) \in {<<>>, <<NL>>}
          THEN Command(cmd, <<>>, After(t, q, 1))
          ELSE Refused(t, IF At(t, p, word) THEN q + 1 ELSE q)
  BY <1>1 DEF WordAlone
<1> HIDE DEF q
<1>6. Len(t) \in Nat /\ q \in Nat \ {0} /\ q <= Len(t) + 1 /\ p \in 1 .. q /\ p \in Nat
  BY <1>3, PlaceType
<1>7. /\ Chars(t, q, 1) = <<NL>> <=> q <= Len(t) /\ t[q] = NL
      /\ At(t, q, <<NL>>) <=> q <= Len(t) /\ t[q] = NL
      /\ Chars(t, q, 1) = <<>> <=> q = Len(t) + 1
  BY <1>3, <1>4, NextIs
<1>8. CASE At(t, p, word) /\ Chars(t, q, 1) = <<NL>>
  <2>1. q + 1 <= Len(t) + 1 /\ 1 \in Nat BY <1>6, <1>7, <1>8
  <2>2. After(t, q, 1) = q + 1 BY <1>3, <2>1, AfterType
  <2>3. c = Command(cmd, <<>>, q + 1) BY <1>5, <1>8, <2>2
  <2>4. c.cmd = cmd /\ c.args = <<>> /\ c.next = q + 1 BY <2>3 DEF Command
  <2>5. q = p + Len(word) BY <1>3, <1>8 DEF At
  <2>6. (q + 1) - 1 = q /\ q + 1 \in p .. Len(t) + 1 BY <1>6, <2>1
  <2>7. Resumes(t, q + 1) BY <1>7, <1>8, <2>6 DEF Resumes
  <2> QED BY <2>3, <2>4, <2>5, <2>6, <2>7 DEF Plain
<1>9. CASE At(t, p, word) /\ Chars(t, q, 1) = <<>>
  <2>1. ~ (q + 1 <= Len(t) + 1) /\ 1 \in Nat BY <1>6, <1>7, <1>9
  <2>2. After(t, q, 1) = Len(t) + 1 BY <1>3, <2>1, AfterType
  <2>3. c = Command(cmd, <<>>, Len(t) + 1) BY <1>5, <1>9, <2>2
  <2>4. c.cmd = cmd /\ c.args = <<>> /\ c.next = Len(t) + 1 BY <2>3 DEF Command
  <2>5. q = p + Len(word) BY <1>3, <1>9 DEF At
  <2>6. Len(t) + 1 > Len(t) /\ Len(t) + 1 \in p .. Len(t) + 1 BY <1>6
  <2>7. ~ At(t, q, <<NL>>) BY <1>6, <1>7, <1>9
  <2>8. ~ At(t, p, word \o <<NL>>) BY <1>4, <2>5, <2>7, AtBoth
  <2> QED BY <2>4, <2>6, <2>8 DEF Plain, Resumes
<1>10. CASE At(t, p, word) /\ Chars(t, q, 1) \notin {<<>>, <<NL>>}
  <2>1. q + 1 \in Places(t) /\ p \in 1 .. q + 1 BY <1>6, <1>7, <1>10 DEF Places
  <2>2. c = Refused(t, q + 1) BY <1>5, <1>10
  <2>3. Plain(t, p, c, {"INVALID"}) BY <2>1, <2>2, RefusedIs
  <2>4. q = p + Len(word) BY <1>3, <1>10 DEF At
  <2>5. ~ At(t, p, word \o <<NL>>) BY <1>4, <1>7, <1>10, <2>4, AtBoth
  <2> QED BY <2>3, <2>5 DEF Plain
<1>11. CASE ~ At(t, p, word)
  <2>1. c = Refused(t, q) BY <1>5, <1>11
  <2>2. Plain(t, p, c, {"INVALID"}) BY <1>3, <1>6, <2>1, RefusedIs
  <2>3. ~ At(t, p, word \o <<NL>>) BY <1>4, <1>11, AtBoth
  <2> QED BY <2>2, <2>3 DEF Plain
<1> QED BY <1>8, <1>9, <1>10, <1>11

\* A command whose line ends behind its list.
LEMMA EndOfLineIs ==
  ASSUME NEW t \in Words, NEW q \in Places(t), NEW p \in 1 .. q, NEW cmd, NEW args,
         NEW c, c = EndOfLine(t, q, cmd, args)
  PROVE  /\ At(t, q, <<NL>>) => /\ c = Command(cmd, args, q + 1)
                                /\ q + 1 \in p .. Len(t) + 1 /\ Resumes(t, q + 1)
         /\ ~ At(t, q, <<NL>>) => Plain(t, p, c, {"INVALID"})
<1>1. NL \in Characters BY CommandTextAssumption DEF Marks
<1>2. Len(t) \in Nat /\ q \in Nat \ {0} /\ q <= Len(t) + 1 BY PlaceType
<1>3. /\ Chars(t, q, 1) = <<NL>> <=> At(t, q, <<NL>>)
      /\ At(t, q, <<NL>>) <=> q <= Len(t) /\ t[q] = NL
  BY <1>1, NextIs
<1>4. CASE At(t, q, <<NL>>)
  <2>1. c = Command(cmd, args, q + 1) BY <1>3, <1>4 DEF EndOfLine
  <2>2. (q + 1) - 1 = q /\ q + 1 \in p .. Len(t) + 1 BY <1>2, <1>3, <1>4
  <2>3. Resumes(t, q + 1) BY <1>3, <1>4, <2>2 DEF Resumes
  <2> QED BY <1>4, <2>1, <2>2, <2>3
<1>5. CASE ~ At(t, q, <<NL>>)
  <2> DEFINE z == After(t, q, 1)
  <2>1. 1 \in Nat OBVIOUS
  <2>2. z \in q .. Len(t) + 1 /\ z \in Places(t) BY <2>1, AfterType
  <2>3. c = Refused(t, z) BY <1>3, <1>5 DEF EndOfLine
  <2> HIDE DEF z
  <2>4. p \in 1 .. z BY <1>2, <2>2
  <2> QED BY <1>5, <2>2, <2>3, <2>4, RefusedIs
<1> QED BY <1>4, <1>5

\* How a command with a list is written, in its parts.
LEMMA BracketedIs ==
  ASSUME NEW t \in Words, NEW p \in Places(t), NEW a \in Words, NEW b \in Words
  PROVE  /\ At(t, p, (((a \o <<"[">>) \o b) \o <<"]">>) \o <<NL>>)
              <=> At(t, p, a) /\ Bracketed(t, p + Len(a), b)
         /\ Len(((a \o <<"[">>) \o b) \o <<"]">>) = Len(a) + Len(b) + 2
         /\ ((a \o <<"[">>) \o b) \o <<"]">> \in Words
<1> DEFINE o == <<"[">>
           e == <<"]">>
           l == <<NL>>
           ao == a \o o
           be == b \o e
           all == ao \o be
<1>1. /\ o \in Words /\ e \in Words /\ l \in Words /\ Len(o) = 1 /\ Len(e) = 1
      /\ Len(a) \in Nat /\ Len(b) \in Nat /\ p \in Nat
  <2>1. Len(a) \in Nat /\ Len(b) \in Nat BY TextType DEF Words
  <2> QED BY <2>1, SignType, PlaceType
<1> HIDE DEF o, e, l
<1>2. ao \in Words /\ be \in Words /\ Len(ao) = Len(a) + 1 /\ Len(be) = Len(b) + 1
  <2>1. ao \in Words /\ be \in Words BY <1>1, ConcatType
  <2>2. Len(ao) = Len(a) + Len(o) BY <1>1, ConcatProperties DEF Words
  <2>3. Len(be) = Len(b) + Len(e) BY <1>1, ConcatProperties DEF Words
  <2> QED BY <1>1, <2>1, <2>2, <2>3
<1>3. (ao \o b) \o e = all
  <2>1. InARow(ao, b, e) BY <1>1, <1>2, Associative
  <2> QED BY <2>1 DEF InARow
<1> HIDE DEF ao, be
<1>4. all \in Words /\ Len(all) = Len(ao) + Len(be) BY <1>2, ConcatProperties DEF Words
<1>5. Len(all) = Len(a) + Len(b) + 2 BY <1>1, <1>2, <1>4
<1> HIDE DEF all
<1>6. ASSUME At(t, p, all \o l) PROVE At(t, p, a) /\ Bracketed(t, p + Len(a), b)
  <2> DEFINE z == p + Len(all)
             x == p + Len(ao)
             w == p + Len(a)
  <2>1. z = w + Len(b) + 2 /\ x = w + 1 BY <1>1, <1>2, <1>5
  <2>2. At(t, p, all) /\ At(t, z, l) BY <1>1, <1>4, <1>6, AtBoth
  <2>3. At(t, p, ao) /\ At(t, x, be) BY <1>2, <2>2, AtBoth DEF all
  <2>4. At(t, p, a) /\ At(t, w, o) BY <1>1, <2>3, AtBoth DEF ao
  <2> QED BY <2>1, <2>2, <2>3, <2>4 DEF Bracketed, o, e, l, be
<1>7. ASSUME At(t, p, a), Bracketed(t, p + Len(a), b) PROVE At(t, p, all \o l)
  <2> DEFINE z == p + Len(all)
             x == p + Len(ao)
             w == p + Len(a)
  <2>1. z = w + Len(b) + 2 /\ x = w + 1 BY <1>1, <1>2, <1>5
  <2>2. At(t, w, o) /\ At(t, x, be) /\ At(t, z, l) BY <1>7, <2>1 DEF Bracketed, o, e, l, be
  <2>3. At(t, p, ao) BY <1>1, <1>7, <2>2, AtBoth DEF ao
  <2>4. At(t, p, all) BY <1>2, <2>2, <2>3, AtBoth DEF all
  <2> QED BY <1>1, <1>4, <2>2, <2>4, AtBoth
<1> QED BY <1>3, <1>4, <1>5, <1>6, <1>7 DEF ao, o, e, l

-----------------------------------------------------------------------------
(* The commands of a job.                                                  *)

\* The words, and the letters that tell them apart.
LEMMA JobWords ==
  /\ WRITE \in Words /\ WAIT \in Words /\ READ \in Words /\ DELETE \in Words
  /\ SHOW \in Words /\ BACKUP \in Words /\ HELP \in Words
  /\ WRITE # <<>> /\ WAIT # <<>> /\ READ # <<>> /\ DELETE # <<>>
  /\ SHOW # <<>> /\ BACKUP # <<>> /\ HELP # <<>>
  /\ Len(WRITE) = 6 /\ WRITE[1] = "W" /\ WRITE[2] = "R"
  /\ Len(WAIT) = 5 /\ WAIT[1] = "W" /\ WAIT[2] = "A"
  /\ Len(READ) = 5 /\ READ[1] = "R" /\ Len(DELETE) = 7 /\ DELETE[1] = "D"
  /\ Len(SHOW) = 4 /\ SHOW[1] = "S" /\ Len(BACKUP) = 6 /\ BACKUP[1] = "B"
  /\ Len(HELP) = 4 /\ HELP[1] = "H"
<1>1. /\ WRITE \in Words /\ WAIT \in Words /\ READ \in Words /\ DELETE \in Words
      /\ SHOW \in Words /\ BACKUP \in Words /\ HELP \in Words
  BY JobParserAssumption DEF Words
<1>2. Len(WRITE) = 6 /\ WRITE[1] = "W" /\ WRITE[2] = "R" /\ WRITE # <<>> BY DEF WRITE
<1>3. Len(WAIT) = 5 /\ WAIT[1] = "W" /\ WAIT[2] = "A" /\ WAIT # <<>> BY DEF WAIT
<1>4. Len(READ) = 5 /\ READ[1] = "R" /\ READ # <<>> BY DEF READ
<1>5. Len(DELETE) = 7 /\ DELETE[1] = "D" /\ DELETE # <<>> BY DEF DELETE
<1>6. Len(SHOW) = 4 /\ SHOW[1] = "S" /\ SHOW # <<>> BY DEF SHOW
<1>7. Len(BACKUP) = 6 /\ BACKUP[1] = "B" /\ BACKUP # <<>> BY DEF BACKUP
<1>8. Len(HELP) = 4 /\ HELP[1] = "H" /\ HELP # <<>> BY DEF HELP
<1> QED BY <1>1, <1>2, <1>3, <1>4, <1>5, <1>6, <1>7, <1>8

\* The first letter of a word that is there, and of one with a line feed behind it.
LEMMA FirstLetter ==
  ASSUME NEW t \in Words, NEW p \in Places(t), NEW w \in Words, w # <<>>
  PROVE  /\ At(t, p, w) => p <= Len(t) /\ t[p] = w[1]
         /\ At(t, p, w \o <<NL>>) => At(t, p, w)
<1>1. Len(w) \in Nat \ {0} /\ Len(t) \in Nat /\ p \in Nat
  BY EmptySeq, TextType, PlaceType DEF Words
<1>2. ASSUME At(t, p, w) PROVE p <= Len(t) /\ t[p] = w[1]
  <2>1. 1 \in 1 .. Len(w) /\ p + 1 - 1 = p BY <1>1
  <2>2. t[p + 1 - 1] = w[1] BY <1>2, <2>1 DEF At
  <2>3. p + Len(w) <= Len(t) + 1 BY <1>2 DEF At
  <2> QED BY <1>1, <2>1, <2>2, <2>3
<1>3. At(t, p, w \o <<NL>>) => At(t, p, w) BY SignType, AtBoth
<1> QED BY <1>2, <1>3

\* The word of the next command: read to its end, or the whole line is dealt with
\* (parser.c:96-179).
LEMMA JobWordIs ==
  ASSUME NEW t \in Words, NEW p \in Places(t), NEW w, w = job_get_next(t, p)
  PROVE  /\ \/ Plain(t, p, w, {"EOC", "SHOW", "BACKUP", "HELP", "EMPTY", "INVALID"})
            \/ At(t, p, WAIT)   /\ w = Command("WAIT", <<>>, p + Len(WAIT))
            \/ At(t, p, WRITE)  /\ w = Command("WRITE", <<>>, p + Len(WRITE))
            \/ At(t, p, READ)   /\ w = Command("READ", <<>>, p + Len(READ))
            \/ At(t, p, DELETE) /\ w = Command("DELETE", <<>>, p + Len(DELETE))
         /\ At(t, p, WAIT)   => w = Command("WAIT", <<>>, p + Len(WAIT))
         /\ At(t, p, WRITE)  => w = Command("WRITE", <<>>, p + Len(WRITE))
         /\ At(t, p, READ)   => w = Command("READ", <<>>, p + Len(READ))
         /\ At(t, p, DELETE) => w = Command("DELETE", <<>>, p + Len(DELETE))
         /\ At(t, p, SHOW \o <<NL>>)   => w = Command("SHOW", <<>>, p + Len(SHOW) + 1)
         /\ At(t, p, BACKUP \o <<NL>>) => w = Command("BACKUP", <<>>, p + Len(BACKUP) + 1)
         /\ At(t, p, HELP \o <<NL>>)   => w = Command("HELP", <<>>, p + Len(HELP) + 1)
         /\ At(t, p, <<NL>>) => w = Command("EMPTY", <<>>, p + 1)
<1> DEFINE first == Chars(t, p, 1)
           Is(x) == p <= Len(t) /\ t[p] = x
           ALONE == {"EOC", "SHOW", "BACKUP", "HELP", "EMPTY", "INVALID"}
<1>1. /\ \A x : first = <<x>> <=> Is(x)
      /\ first = <<>> <=> p = Len(t) + 1
      /\ At(t, p, <<NL>>) <=> Is(NL)
  BY NextIs
<1>2. w = CASE p = Len(t) + 1 -> Command("EOC", <<>>, p)
            [] Is("W") -> IF Chars(t, p, Len(WAIT)) = WAIT
                                  THEN Command("WAIT", <<>>, p + Len(WAIT))
                                  ELSE Word(t, p, WRITE, "WRITE")
            [] Is("R") -> Word(t, p, READ, "READ")
            [] Is("D") -> Word(t, p, DELETE, "DELETE")
            [] Is("S") -> WordAlone(t, p, SHOW, "SHOW")
            [] Is("B") -> WordAlone(t, p, BACKUP, "BACKUP")
            [] Is("H") -> WordAlone(t, p, HELP, "HELP")
            [] Is("#") -> Command("EMPTY", <<>>, cleanup(t, p + 1))
            [] Is(NL) -> Command("EMPTY", <<>>, p + 1)
            [] OTHER           -> Refused(t, p + 1)
  <2>1. w = CASE first = <<>>    -> Command("EOC", <<>>, p)
              [] first = <<"W">> -> IF Chars(t, p, Len(WAIT)) = WAIT
                                    THEN Command("WAIT", <<>>, p + Len(WAIT))
                                    ELSE Word(t, p, WRITE, "WRITE")
              [] first = <<"R">> -> Word(t, p, READ, "READ")
              [] first = <<"D">> -> Word(t, p, DELETE, "DELETE")
              [] first = <<"S">> -> WordAlone(t, p, SHOW, "SHOW")
              [] first = <<"B">> -> WordAlone(t, p, BACKUP, "BACKUP")
              [] first = <<"H">> -> WordAlone(t, p, HELP, "HELP")
              [] first = <<"#">> -> Command("EMPTY", <<>>, cleanup(t, p + 1))
              [] first = <<NL>>  -> Command("EMPTY", <<>>, p + 1)
              [] OTHER           -> Refused(t, p + 1)
    BY DEF job_get_next
  <2> HIDE DEF first
  <2>2. /\ first = <<"W">> <=> Is("W")
        /\ first = <<"R">> <=> Is("R")
        /\ first = <<"D">> <=> Is("D")
        /\ first = <<"S">> <=> Is("S")
        /\ first = <<"B">> <=> Is("B")
        /\ first = <<"H">> <=> Is("H")
        /\ first = <<"#">> <=> Is("#")
        /\ first = <<NL>> <=> Is(NL)
    BY <1>1
  <2> HIDE DEF Is
  <2> QED BY <1>1, <2>1, <2>2
<1> HIDE DEF first
<1>3. Len(t) \in Nat /\ p \in Nat \ {0} /\ p <= Len(t) + 1 BY PlaceType
<1>4. /\ At(t, p, WAIT) => Is("W")
      /\ At(t, p, WRITE) => Is("W")
      /\ At(t, p, READ) => Is("R")
      /\ At(t, p, DELETE) => Is("D")
      /\ At(t, p, SHOW \o <<NL>>) => Is("S")
      /\ At(t, p, BACKUP \o <<NL>>) => Is("B")
      /\ At(t, p, HELP \o <<NL>>) => Is("H")
  BY JobWords, FirstLetter
<1>5. ~ (At(t, p, WAIT) /\ At(t, p, WRITE))
  <2> SUFFICES ASSUME At(t, p, WAIT), At(t, p, WRITE) PROVE FALSE OBVIOUS
  <2>1. 2 \in 1 .. Len(WAIT) /\ 2 \in 1 .. Len(WRITE) BY JobWords
  <2>2. t[p + 2 - 1] = WAIT[2] /\ t[p + 2 - 1] = WRITE[2] BY <2>1 DEF At
  <2> QED BY <2>2, JobWords
<1>6. CASE p = Len(t) + 1
  <2>1. w = Command("EOC", <<>>, p) BY <1>1, <1>2, <1>6
  <2>2. w.cmd = "EOC" /\ w.args = <<>> /\ w.next = p BY <2>1 DEF Command
  <2>3. p > Len(t) /\ p \in p .. Len(t) + 1 BY <1>3, <1>6
  <2>4. Plain(t, p, w, ALONE) BY <2>2, <2>3 DEF Plain, Resumes
  <2>5. \A x : ~ Is(x) BY <1>3, <1>6
  <2> QED BY <1>1, <1>4, <2>4, <2>5
<1>7. CASE Is("W")
  <2>1. w = IF Chars(t, p, Len(WAIT)) = WAIT
            THEN Command("WAIT", <<>>, p + Len(WAIT))
            ELSE Word(t, p, WRITE, "WRITE")
    BY <1>2, <1>3, <1>7 DEF NL
  <2>2. Chars(t, p, Len(WAIT)) = WAIT <=> At(t, p, WAIT)
    BY JobWords, PlaceType, CharsAre DEF Words
  <2>3. At(t, p, WAIT) => w = Command("WAIT", <<>>, p + Len(WAIT)) BY <2>1, <2>2
  <2>4. ~ At(t, p, WAIT) =>
          /\ At(t, p, WRITE) => w = Command("WRITE", <<>>, p + Len(WRITE))
          /\ ~ At(t, p, WRITE) => Plain(t, p, w, {"INVALID"})
    BY <2>1, <2>2, JobWords, WordIs
  <2>5. Plain(t, p, w, {"INVALID"}) => Plain(t, p, w, ALONE) BY DEF Plain
  <2>6. ~ Is("R") /\ ~ Is("D") /\ ~ Is("S") /\ ~ Is("B") /\ ~ Is("H") /\ ~ Is(NL)
    BY <1>7 DEF NL
  <2> QED BY <1>1, <1>4, <1>5, <2>3, <2>4, <2>5, <2>6
<1>8. CASE Is("R")
  <2>1. w = Word(t, p, READ, "READ")
    BY <1>2, <1>3, <1>8 DEF NL
  <2>2. /\ At(t, p, READ) => w = Command("READ", <<>>, p + Len(READ))
        /\ ~ At(t, p, READ) => Plain(t, p, w, {"INVALID"})
    BY <2>1, JobWords, WordIs
  <2>3. Plain(t, p, w, {"INVALID"}) => Plain(t, p, w, ALONE) BY DEF Plain
  <2>4. ~ Is("W") /\ ~ Is("D") /\ ~ Is("S") /\ ~ Is("B") /\ ~ Is("H") /\ ~ Is(NL)
    BY <1>8 DEF NL
  <2> QED BY <1>1, <1>4, <2>2, <2>3, <2>4
<1>9. CASE Is("D")
  <2>1. w = Word(t, p, DELETE, "DELETE")
    BY <1>2, <1>3, <1>9 DEF NL
  <2>2. /\ At(t, p, DELETE) => w = Command("DELETE", <<>>, p + Len(DELETE))
        /\ ~ At(t, p, DELETE) => Plain(t, p, w, {"INVALID"})
    BY <2>1, JobWords, WordIs
  <2>3. Plain(t, p, w, {"INVALID"}) => Plain(t, p, w, ALONE) BY DEF Plain
  <2>4. ~ Is("W") /\ ~ Is("R") /\ ~ Is("S") /\ ~ Is("B") /\ ~ Is("H") /\ ~ Is(NL)
    BY <1>9 DEF NL
  <2> QED BY <1>1, <1>4, <2>2, <2>3, <2>4
<1>10. CASE Is("S")
  <2>1. w = WordAlone(t, p, SHOW, "SHOW")
    BY <1>2, <1>3, <1>10 DEF NL
  <2>2. /\ Plain(t, p, w, {"SHOW", "INVALID"})
        /\ At(t, p, SHOW \o <<NL>>) => w = Command("SHOW", <<>>, p + Len(SHOW) + 1)
    BY <2>1, JobWords, WordAloneIs
  <2>3. Plain(t, p, w, ALONE) BY <2>2 DEF Plain
  <2>4. ~ Is("W") /\ ~ Is("R") /\ ~ Is("D") /\ ~ Is("B") /\ ~ Is("H") /\ ~ Is(NL)
    BY <1>10 DEF NL
  <2> QED BY <1>1, <1>4, <2>2, <2>3, <2>4
<1>11. CASE Is("B")
  <2>1. w = WordAlone(t, p, BACKUP, "BACKUP")
    BY <1>2, <1>3, <1>11 DEF NL
  <2>2. /\ Plain(t, p, w, {"BACKUP", "INVALID"})
        /\ At(t, p, BACKUP \o <<NL>>) => w = Command("BACKUP", <<>>, p + Len(BACKUP) + 1)
    BY <2>1, JobWords, WordAloneIs
  <2>3. Plain(t, p, w, ALONE) BY <2>2 DEF Plain
  <2>4. ~ Is("W") /\ ~ Is("R") /\ ~ Is("D") /\ ~ Is("S") /\ ~ Is("H") /\ ~ Is(NL)
    BY <1>11 DEF NL
  <2> QED BY <1>1, <1>4, <2>2, <2>3, <2>4
<1>12. CASE Is("H")
  <2>1. w = WordAlone(t, p, HELP, "HELP")
    BY <1>2, <1>3, <1>12 DEF NL
  <2>2. /\ Plain(t, p, w, {"HELP", "INVALID"})
        /\ At(t, p, HELP \o <<NL>>) => w = Command("HELP", <<>>, p + Len(HELP) + 1)
    BY <2>1, JobWords, WordAloneIs
  <2>3. Plain(t, p, w, ALONE) BY <2>2 DEF Plain
  <2>4. ~ Is("W") /\ ~ Is("R") /\ ~ Is("D") /\ ~ Is("S") /\ ~ Is("B") /\ ~ Is(NL)
    BY <1>12 DEF NL
  <2> QED BY <1>1, <1>4, <2>2, <2>3, <2>4
<1>13. CASE p <= Len(t) /\ t[p] \notin {"W", "R", "D", "S", "B", "H"}
  <2> DEFINE y == p + 1
             z == cleanup(t, y)
  <2>1. y \in Places(t) /\ p \in 1 .. y /\ y \in p .. Len(t) + 1 /\ y - 1 = p
    BY <1>3, <1>13 DEF Places
  <2>2. Plain(t, p, w, ALONE) /\ (Is(NL) => w = Command("EMPTY", <<>>, y))
    <3>1. CASE t[p] = "#"
      <4>1. ~ Is(NL) BY <3>1 DEF NL
      <4>2. w = Command("EMPTY", <<>>, z) BY <1>2, <1>3, <1>13, <3>1 DEF NL
      <4> HIDE DEF z
      <4>3. w.cmd = "EMPTY" /\ w.args = <<>> /\ w.next = z BY <4>2 DEF Command
      <4>4. Plain(t, p, Refused(t, y), {"INVALID"}) /\ Refused(t, y).next = z
        <5> DEFINE c == Refused(t, y)
        <5>1. c.next = z BY DEF Refused, Command, z
        <5>2. c = Refused(t, y) OBVIOUS
        <5> HIDE DEF c, y
        <5>3. Plain(t, p, c, {"INVALID"}) BY <2>1, <5>2, RefusedIs
        <5> QED BY <5>1, <5>3 DEF c
      <4> QED BY <4>1, <4>3, <4>4 DEF Plain
    <3>2. CASE t[p] = NL
      <4>1. w = Command("EMPTY", <<>>, y) BY <1>2, <1>3, <1>13, <3>2 DEF NL
      <4>2. w.cmd = "EMPTY" /\ w.args = <<>> /\ w.next = y BY <4>1 DEF Command
      <4>3. t[y - 1] = NL BY <2>1, <3>2
      <4> HIDE DEF y
      <4> QED BY <2>1, <4>1, <4>2, <4>3 DEF Plain, Resumes
    <3>3. CASE t[p] # NL /\ t[p] # "#"
      <4>1. w = Refused(t, y) BY <1>2, <1>3, <1>13, <3>3
      <4> HIDE DEF y
      <4>2. Plain(t, p, w, {"INVALID"}) BY <2>1, <4>1, RefusedIs
      <4> QED BY <3>3, <4>2 DEF Plain
    <3> QED BY <3>1, <3>2, <3>3
  <2>3. \A x \in {"W", "R", "D", "S", "B", "H"} : ~ Is(x) BY <1>13
  <2> QED BY <1>1, <1>4, <2>2, <2>3
<1>14. p = Len(t) + 1 \/ p <= Len(t) BY <1>3
<1> QED BY <1>6, <1>7, <1>8, <1>9, <1>10, <1>11, <1>12, <1>13, <1>14

-----------------------------------------------------------------------------
(* Arguments.                                                              *)

\* Where cleanup leaves the reading.
LEMMA CleanupResumes ==
  ASSUME NEW t \in Words, NEW q \in Places(t), NEW p \in 1 .. q
  PROVE  cleanup(t, q) \in p .. Len(t) + 1 /\ Resumes(t, cleanup(t, q))
<1> DEFINE c == Refused(t, q)
<1>1. c.next = cleanup(t, q) BY DEF Refused, Command
<1>2. c = Refused(t, q) OBVIOUS
<1> HIDE DEF c
<1>3. Plain(t, p, c, {"INVALID"}) BY <1>2, RefusedIs
<1> QED BY <1>1, <1>3 DEF Plain

\* A number ends at a character that is none of its digits, or at the end of the file
\* (parser.c:57-88).
LEMMA NumberIs ==
  ASSUME NEW t \in Words, NEW q \in Places(t), NEW fits \in BOOLEAN,
         NEW r, r = read_uint(t, q, fits)
  PROVE  /\ r.fits \in BOOLEAN
         /\ r.next \in q .. Len(t) + 1
         /\ r.ch = EOT => r.next = Len(t) + 1
         /\ r.ch # EOT => r.next - 1 \in q .. Len(t) /\ t[r.next - 1] = r.ch
         /\ \A d \in Digits \ {HugeNumber} :
              At(t, q, <<d>> \o <<NL>>) => r.fits /\ r.ch = NL /\ r.next = q + 2
<1> DEFINE others == {t[i] : i \in DOMAIN t} \ Digits
           stop == Find(t, q, others)
           z == After(t, stop, 1)
<1>1. /\ Len(t) \in Nat /\ q \in Nat \ {0} /\ q <= Len(t) + 1 /\ DOMAIN t = 1 .. Len(t)
      /\ \A i \in 1 .. Len(t) : t[i] \in Characters
  BY PlaceType, TextType
<1>2. /\ stop \in q .. Len(t) + 1
      /\ \A i \in q .. stop - 1 : i \in 1 .. Len(t) /\ t[i] \notin others
  <2> HIDE DEF others
  <2> QED BY PlaceType, FindIs
<1>3. /\ r.fits = (/\ stop > Len(t) => fits
                   /\ \A i \in q .. stop - 1 : t[i] # HugeNumber)
      /\ r.ch = (IF stop <= Len(t) THEN t[stop] ELSE EOT)
      /\ r.next = z
  BY DEF read_uint
<1>4. ASSUME NEW d \in Digits \ {HugeNumber}, At(t, q, <<d>> \o <<NL>>)
      PROVE  /\ stop = q + 1 /\ q + 1 <= Len(t) /\ t[q + 1] = NL /\ t[q] = d
  <2>1. NL \notin Digits /\ d \in Characters BY CommandTextAssumption DEF Marks
  <2>2. <<d>> \in Words /\ <<NL>> \in Words /\ q + 1 = q + Len(<<d>>)
    <3>1. <<d>> \in Words BY <2>1 DEF Words
    <3>2. Len(<<d>>) = 1 OBVIOUS
    <3> QED BY <3>1, <3>2, SignType
  <2> DEFINE y == q + 1
             e == <<d>>
  <2>3. At(t, q, e) /\ At(t, y, <<NL>>)
    <3> HIDE DEF y, e
    <3>1. e \in Words /\ <<NL>> \in Words /\ y = q + Len(e) /\ At(t, q, e \o <<NL>>)
      BY <1>4, <2>2 DEF y, e
    <3> QED BY <3>1, AtBoth
  <2>4. q <= Len(t) /\ t[q] = d BY <2>3, NextIs
  <2>5. y \in Nat BY <1>1
  <2>6. y <= Len(t) /\ t[y] = NL
    <3> HIDE DEF y
    <3> QED BY <2>3, <2>5, PlaceType, AtChar
  <2>7. t[y] \in others BY <1>1, <2>1, <2>5, <2>6
  <2>8. \A i \in q .. y - 1 : t[i] \notin others
    <3>1. \A i \in q .. y - 1 : i = q BY <1>1
    <3> QED BY <2>4, <3>1
  <2>9. y \in q .. Len(t) BY <1>1, <2>6
  <2> HIDE DEF others
  <2>10. stop = y
    <3> HIDE DEF y
    <3> QED BY <2>7, <2>8, <2>9, PlaceType, FindFirst
  <2> QED BY <2>4, <2>6, <2>10
<1> HIDE DEF stop, others
<1>5. stop \in Places(t) /\ 1 \in Nat /\ Len(t) + 1 \in Nat BY <1>1, <1>2 DEF Places
<1>6. /\ z \in stop .. Len(t) + 1
      /\ stop + 1 <= Len(t) + 1 => z = stop + 1
      /\ ~ (stop + 1 <= Len(t) + 1) => z = Len(t) + 1
  BY <1>5, AfterType
<1> HIDE DEF z
<1>7. r.fits \in BOOLEAN BY <1>3
<1>8. r.next \in q .. Len(t) + 1 BY <1>1, <1>2, <1>3, <1>6
<1>9. r.ch = EOT => r.next = Len(t) + 1
  <2>1. stop <= Len(t) => t[stop] # EOT BY <1>1, <1>2, CommandTextAssumption
  <2> QED BY <1>1, <1>2, <1>3, <1>6, <2>1
<1>10. r.ch # EOT => r.next - 1 \in q .. Len(t) /\ t[r.next - 1] = r.ch
  <2> SUFFICES ASSUME r.ch # EOT PROVE r.next - 1 \in q .. Len(t) /\ t[r.next - 1] = r.ch
    OBVIOUS
  <2>1. stop <= Len(t) /\ r.ch = t[stop] BY <1>3
  <2>2. r.next - 1 = stop /\ stop \in q .. Len(t) BY <1>1, <1>2, <1>3, <1>6, <2>1
  <2> QED BY <2>1, <2>2
<1>11. ASSUME NEW d \in Digits \ {HugeNumber}, At(t, q, <<d>> \o <<NL>>)
       PROVE  r.fits /\ r.ch = NL /\ r.next = q + 2
  <2>1. stop = q + 1 /\ q + 1 <= Len(t) /\ t[q + 1] = NL /\ t[q] = d BY <1>4, <1>11
  <2>2. \A i \in q .. stop - 1 : t[i] # HugeNumber
    <3>1. \A i \in q .. stop - 1 : i = q BY <1>1, <2>1
    <3> QED BY <2>1, <3>1
  <2>3. r.fits BY <1>1, <1>3, <2>1, <2>2
  <2>4. r.ch = NL BY <1>3, <2>1
  <2>5. r.next = q + 2 BY <1>1, <1>3, <1>6, <2>1
  <2> QED BY <2>3, <2>4, <2>5
<1> QED BY <1>7, <1>8, <1>9, <1>10, <1>11

\* What is read for a list of keys, in brackets at the end of its line.
KeysTaken(t, p, q, c, max) ==
  /\ c.args \in Lists /\ Len(c.args) <= max
  /\ \A i \in 1 .. Len(c.args) : Len(c.args[i]) < MAX_STRING_SIZE
  /\ Bracketed(t, q, CommaList(c.args))
  /\ c.next = q + Len(CommaList(c.args)) + 3
  /\ c.next \in p .. Len(t) + 1 /\ Resumes(t, c.next)

\* The command that a list of keys gives.
ListCommand(t, q, cmd, max, limit) ==
  LET list == KeyList(t, q + 1, max) IN
  IF Chars(t, q, 1) # <<"[">> THEN Refused(t, After(t, q, 1))
  ELSE IF list.end = "closed" /\ Len(list.keys) < limit
  THEN EndOfLine(t, list.next, cmd, list.keys)
  ELSE Refused(t, list.next)

\* The keys of a READ, a DELETE or a subscription (parser.c:251-287,
\* client/parser.c:146-183).
LEMMA KeysAre ==
  ASSUME NEW t \in Words, NEW q \in Places(t), NEW p \in 1 .. q, NEW cmd, cmd # "INVALID",
         NEW max \in Nat, NEW limit \in Nat, NEW c, c = ListCommand(t, q, cmd, max, limit)
  PROVE  /\ Plain(t, p, c, {"INVALID"}) \/ (c.cmd = cmd /\ KeysTaken(t, p, q, c, max))
         /\ \A ss \in Seq(Strings) :
              /\ ss # <<>> /\ Len(ss) <= max /\ Len(ss) < limit
              /\ Bracketed(t, q, CommaList(ss))
              => c.cmd = cmd /\ c.args = ss
<1> DEFINE list == KeyList(t, q + 1, max)
           Found == \A ss \in Seq(Strings) :
                     /\ ss # <<>> /\ Len(ss) <= max /\ Len(ss) < limit
                     /\ Bracketed(t, q, CommaList(ss))
                     => c.cmd = cmd /\ c.args = ss
           Taken == Plain(t, p, c, {"INVALID"}) \/ (c.cmd = cmd /\ KeysTaken(t, p, q, c, max))
<1> SUFFICES Taken /\ Found OBVIOUS
<1>1. Len(t) \in Nat /\ q \in Nat \ {0} /\ q <= Len(t) + 1 /\ p \in Nat BY PlaceType
<1>2. Chars(t, q, 1) = <<"[">> <=> At(t, q, <<"[">>) BY NextIs
<1>3. CASE ~ At(t, q, <<"[">>)
  <2> DEFINE z == After(t, q, 1)
  <2>1. c = Refused(t, z) BY <1>2, <1>3 DEF ListCommand, list
  <2>2. 1 \in Nat OBVIOUS
  <2>3. z \in q .. Len(t) + 1 /\ z \in Places(t) BY <2>2, AfterType
  <2> HIDE DEF z
  <2>4. p \in 1 .. z BY <1>1, <2>3
  <2>5. Plain(t, p, c, {"INVALID"}) BY <2>1, <2>3, <2>4, RefusedIs
  <2>6. Found BY <1>3 DEF Bracketed
  <2>7. Taken BY <2>5
  <2> HIDE DEF Taken, Found
  <2> QED BY <2>6, <2>7
<1>4. CASE At(t, q, <<"[">>)
  <2> DEFINE y == q + 1
             z == list.next
  <2>1. y \in Places(t)
    <3>1. q <= Len(t) BY <1>4, NextIs
    <3> QED BY <1>1, <3>1 DEF Places
  <2>2. list = KeyList(t, y, max) OBVIOUS
  <2> HIDE DEF y, list
  <2>3. KeysRead(t, max, y, list) /\ KeysFound(t, max, y, list)
    BY <2>1, <2>2, KeyListIs, KeyListFinds
  <2>4. z \in Places(t) /\ z >= y BY <2>3 DEF KeysRead, KeyResults
  <2>5. y = q + 1 BY DEF y
  <2>6. p \in 1 .. z
    <3> HIDE DEF z
    <3>1. z \in Nat BY <2>4, PlaceType
    <3> QED BY <1>1, <2>4, <2>5, <3>1
  <2>7. CASE list.end = "closed" /\ Len(list.keys) < limit
    <3>1. c = EndOfLine(t, z, cmd, list.keys) BY <1>2, <1>4, <2>7 DEF ListCommand, list
    <3>2. /\ list.keys \in Lists /\ Len(list.keys) <= max
          /\ \A i \in 1 .. Len(list.keys) : Len(list.keys[i]) < MAX_STRING_SIZE
          /\ At(t, y, CommaList(list.keys) \o <<"]">>)
          /\ z = y + Len(CommaList(list.keys)) + 1
      BY <2>3, <2>7 DEF KeysRead
    <3> DEFINE l == Len(CommaList(list.keys))
    <3>3. l \in Nat BY <3>2, CommaListType, TextType DEF Words
    <3>4. z = q + l + 2 /\ z + 1 = q + l + 3
      <4> HIDE DEF l, z
      <4>1. z = y + l + 1 BY <3>2 DEF l, z
      <4> QED BY <1>1, <2>5, <3>3, <4>1
    <3> HIDE DEF l, z
    <3>5. CASE At(t, z, <<NL>>)
      <4>1. c = Command(cmd, list.keys, z + 1) /\ z + 1 \in p .. Len(t) + 1 /\ Resumes(t, z + 1)
        BY <2>4, <2>6, <3>1, <3>5, EndOfLineIs
      <4>2. c.cmd = cmd /\ c.args = list.keys /\ c.next = z + 1 BY <4>1 DEF Command
      <4>3. Bracketed(t, q, CommaList(c.args))
        BY <1>4, <2>5, <3>2, <3>4, <3>5, <4>2 DEF Bracketed, l
      <4>4. KeysTaken(t, p, q, c, max)
        BY <3>2, <3>4, <4>1, <4>2, <4>3 DEF KeysTaken, l
      <4>5. ASSUME NEW ss \in Seq(Strings), ss # <<>>, Len(ss) <= max,
                   Bracketed(t, q, CommaList(ss))
            PROVE  list.keys = ss
        <5>1. At(t, y, CommaList(ss) \o <<"]">>) BY <2>5, <4>5 DEF Bracketed
        <5> QED BY <2>3, <4>5, <5>1 DEF KeysFound
      <4>6. Taken BY <4>2, <4>4
      <4>7. Found BY <4>2, <4>5
      <4> QED BY <4>6, <4>7
    <3>6. CASE ~ At(t, z, <<NL>>)
      <4>1. Plain(t, p, c, {"INVALID"}) BY <2>4, <2>6, <3>1, <3>6, EndOfLineIs
      <4>2. ASSUME NEW ss \in Seq(Strings), ss # <<>>, Len(ss) <= max,
                   Bracketed(t, q, CommaList(ss))
            PROVE  FALSE
        <5>1. At(t, y, CommaList(ss) \o <<"]">>) BY <2>5, <4>2 DEF Bracketed
        <5>2. list.keys = ss BY <2>3, <4>2, <5>1 DEF KeysFound
        <5>3. At(t, z, <<NL>>) BY <3>4, <4>2, <5>2 DEF Bracketed, l
        <5> QED BY <3>6, <5>3
      <4>3. Found BY <4>2
      <4>4. Taken BY <4>1
      <4> HIDE DEF Taken, Found
      <4> QED BY <4>3, <4>4
    <3> QED BY <3>5, <3>6
  <2>8. CASE ~ (list.end = "closed" /\ Len(list.keys) < limit)
    <3>1. c = Refused(t, z) BY <1>2, <1>4, <2>8 DEF ListCommand, list
    <3> HIDE DEF z
    <3>2. Plain(t, p, c, {"INVALID"}) BY <2>4, <2>6, <3>1, RefusedIs
    <3>3. ASSUME NEW ss \in Seq(Strings), ss # <<>>, Len(ss) <= max, Len(ss) < limit,
                 Bracketed(t, q, CommaList(ss))
          PROVE  FALSE
      <4>1. At(t, y, CommaList(ss) \o <<"]">>) BY <2>5, <3>3 DEF Bracketed
      <4>2. list.end = "closed" /\ list.keys = ss BY <2>3, <3>3, <4>1 DEF KeysFound
      <4> QED BY <2>8, <3>3, <4>2
    <3>4. Found BY <3>3
    <3>5. Taken BY <3>2
    <3> HIDE DEF Taken, Found
    <3> QED BY <3>4, <3>5
  <2> QED BY <2>7, <2>8
<1> QED BY <1>3, <1>4

\* What is read for a list of pairs, in brackets at the end of its line.
PairsTaken(t, p, q, c) ==
  /\ c.args \in Seq(Twos) /\ Len(c.args) < MAX_WRITE_SIZE
  /\ \A i \in 1 .. Len(c.args) : \A j \in 1 .. 2 : Len(c.args[i][j]) < MAX_STRING_SIZE
  /\ Bracketed(t, q, Pairs(c.args))
  /\ c.next = q + Len(Pairs(c.args)) + 3
  /\ c.next \in p .. Len(t) + 1 /\ Resumes(t, c.next)

\* The pairs of a WRITE (parser.c:201-249).
LEMMA ParseWriteIs ==
  ASSUME NEW t \in Words, NEW q \in Places(t), NEW p \in 1 .. q,
         NEW c, c = parse_write(t, q)
  PROVE  /\ Plain(t, p, c, {"INVALID"}) \/ (c.cmd = "WRITE" /\ PairsTaken(t, p, q, c))
         /\ \A pp \in Seq(StringPairs) :
              /\ pp # <<>> /\ Len(pp) < MAX_WRITE_SIZE /\ Bracketed(t, q, Pairs(pp))
              => c.cmd = "WRITE" /\ c.args = pp
<1> DEFINE Found == \A pp \in Seq(StringPairs) :
                     /\ pp # <<>> /\ Len(pp) < MAX_WRITE_SIZE /\ Bracketed(t, q, Pairs(pp))
                     => c.cmd = "WRITE" /\ c.args = pp
           Taken == Plain(t, p, c, {"INVALID"}) \/ (c.cmd = "WRITE" /\ PairsTaken(t, p, q, c))
           y == q + 1
           list == PairList(t, q + 2, MAX_WRITE_SIZE)
<1> SUFFICES Taken /\ Found OBVIOUS
<1>1. /\ Len(t) \in Nat /\ q \in Nat \ {0} /\ q <= Len(t) + 1 /\ p \in Nat
      /\ MAX_WRITE_SIZE \in Nat
  BY PlaceType, JobParserAssumption
<1>2. Chars(t, q, 1) = <<"[">> <=> At(t, q, <<"[">>) BY NextIs
<1>3. Chars(t, q, 2) = <<"[", "(">> <=>
        At(t, q, <<"[">>) /\ y \in Places(t) /\ y <= Len(t) /\ t[y] = "("
  <2> DEFINE s == <<"[", "(">>
  <2>1. Len(s) = 2 /\ s[1] = "[" /\ s[2] = "(" /\ s # <<>> OBVIOUS
  <2>2. s \in Seq(Characters)
    <3>1. "[" \in Characters /\ "(" \in Characters BY CommandTextAssumption DEF Marks
    <3> QED BY <3>1
  <2> HIDE DEF s
  <2>3. Chars(t, q, Len(s)) = s <=> At(t, q, s) BY <2>1, <2>2, PlaceType, CharsAre
  <2>4. At(t, q, s) <=> y <= Len(t) /\ t[q] = "[" /\ t[y] = "("
    <3>1. \A i \in 1 .. 2 : i = 1 \/ i = 2 OBVIOUS
    <3>2. q + 1 - 1 = q /\ q + 2 - 1 = y /\ (q + 2 <= Len(t) + 1 <=> y <= Len(t)) BY <1>1
    <3> QED BY <2>1, <3>1, <3>2 DEF At
  <2>5. At(t, q, <<"[">>) <=> q <= Len(t) /\ t[q] = "[" BY NextIs
  <2>6. y <= Len(t) => y \in Places(t) /\ q <= Len(t) BY <1>1 DEF Places
  <2> HIDE DEF y
  <2> QED BY <2>1, <2>3, <2>4, <2>5, <2>6 DEF s
<1>4. c = IF Chars(t, q, 1) # <<"[">> THEN Refused(t, After(t, q, 1))
          ELSE IF Chars(t, q, 2) # <<"[", "(">> THEN Refused(t, After(t, q, 2))
          ELSE IF list.end = "closed" /\ Len(list.pairs) < MAX_WRITE_SIZE
          THEN EndOfLine(t, list.next, "WRITE", list.pairs)
          ELSE Refused(t, list.next)
  BY DEF parse_write
<1>5. ASSUME NEW pp \in Seq(StringPairs), pp # <<>>, Bracketed(t, q, Pairs(pp))
      PROVE  At(t, q, <<"[">>) /\ y \in Places(t) /\ y <= Len(t) /\ t[y] = "("
  <2>1. At(t, q, <<"[">>) /\ At(t, y, Pairs(pp) \o <<"]">>) BY <1>5 DEF Bracketed
  <2>2. q <= Len(t) BY <2>1, NextIs
  <2>3. y \in Places(t) BY <1>1, <2>2 DEF Places
  <2> HIDE DEF y
  <2>4. t[y] = "(" /\ y + 1 \in Places(t) BY <1>5, <2>1, <2>3, SignType, PairsBegin
  <2>5. y <= Len(t) BY <1>1, <2>3, <2>4 DEF Places
  <2> QED BY <2>1, <2>3, <2>4, <2>5
<1>6. ASSUME NEW n \in {1, 2}, c = Refused(t, After(t, q, n))
      PROVE  Plain(t, p, c, {"INVALID"})
  <2> DEFINE z == After(t, q, n)
  <2>1. n \in Nat OBVIOUS
  <2>2. z \in q .. Len(t) + 1 /\ z \in Places(t) BY <2>1, AfterType
  <2>3. c = Refused(t, z) BY <1>6
  <2> HIDE DEF z
  <2>4. p \in 1 .. z BY <1>1, <2>2
  <2> QED BY <2>2, <2>3, <2>4, RefusedIs
<1>7. CASE Chars(t, q, 2) # <<"[", "(">>
  <2>1. c = Refused(t, After(t, q, 1)) \/ c = Refused(t, After(t, q, 2)) BY <1>4, <1>7
  <2>2. 1 \in {1, 2} /\ 2 \in {1, 2} OBVIOUS
  <2>3. Plain(t, p, c, {"INVALID"}) BY <1>6, <2>1, <2>2
  <2>4. Taken BY <2>3
  <2>5. Found BY <1>3, <1>5, <1>7
  <2> HIDE DEF Taken, Found
  <2> QED BY <2>4, <2>5
<1>8. CASE Chars(t, q, 2) = <<"[", "(">>
  <2> DEFINE x == q + 2
             z == list.next
  <2>1. At(t, q, <<"[">>) /\ t[y] = "(" /\ y \in Places(t) /\ y <= Len(t) BY <1>3, <1>8
  <2>2. x \in Places(t) /\ x # 1 /\ x - 1 = y /\ q \in Nat BY <1>1, <2>1 DEF Places
  <2>3. list = PairList(t, x, MAX_WRITE_SIZE) OBVIOUS
  <2> HIDE DEF x, y, list
  <2>4. PairsRead(t, MAX_WRITE_SIZE, x, list) /\ PairsFound(t, MAX_WRITE_SIZE, x, list)
    BY <1>1, <2>2, <2>3, PairListIs, PairListFinds
  <2>5. z \in Places(t) /\ z >= x BY <2>4 DEF PairsRead, PairResults
  <2>6. p \in 1 .. z
    <3> HIDE DEF z
    <3>1. z \in Nat BY <2>5, PlaceType
    <3> QED BY <1>1, <2>5, <3>1 DEF x
  <2>7. ASSUME NEW pp \in Seq(StringPairs), pp # <<>>, Len(pp) < MAX_WRITE_SIZE,
               Bracketed(t, q, Pairs(pp))
        PROVE  list.end = "closed" /\ list.pairs = pp
    <3>1. At(t, x - 1, Pairs(pp) \o <<"]">>) BY <2>2, <2>7 DEF Bracketed, y
    <3>2. Len(pp) <= MAX_WRITE_SIZE
      <4>1. Len(pp) \in Nat BY LenProperties
      <4> QED BY <1>1, <2>7, <4>1
    <3> QED BY <2>2, <2>4, <2>7, <3>1, <3>2 DEF PairsFound
  <2>8. CASE list.end = "closed" /\ Len(list.pairs) < MAX_WRITE_SIZE
    <3>1. c = EndOfLine(t, z, "WRITE", list.pairs) BY <1>2, <1>4, <1>8, <2>1, <2>8
    <3>2. /\ list.pairs \in Seq(Twos)
          /\ \A i \in 1 .. Len(list.pairs) : \A j \in 1 .. 2 :
               Len(list.pairs[i][j]) < MAX_STRING_SIZE
          /\ At(t, y, Pairs(list.pairs) \o <<"]">>)
          /\ z = x + Len(Pairs(list.pairs))
      <4>1. list.pairs \in Seq(Twos) BY <2>4 DEF PairsRead, PairResults
      <4> QED BY <2>1, <2>2, <2>4, <2>8, <4>1 DEF PairsRead
    <3> DEFINE l == Len(Pairs(list.pairs))
    <3>4. l \in Nat
      <4>1. Pairs(list.pairs) \in Words BY <3>2, TwosAreLists, PairsType
      <4> QED BY <4>1, TextType DEF Words
    <3>5. z = q + l + 2 /\ z + 1 = q + l + 3
      <4> HIDE DEF l, z
      <4>1. z = x + l BY <3>2 DEF l, z
      <4> QED BY <2>2, <3>4, <4>1 DEF x
    <3> HIDE DEF l, z
    <3>6. CASE At(t, z, <<NL>>)
      <4>1. /\ c = Command("WRITE", list.pairs, z + 1)
            /\ z + 1 \in p .. Len(t) + 1 /\ Resumes(t, z + 1)
        BY <2>5, <2>6, <3>1, <3>6, EndOfLineIs
      <4>2. c.cmd = "WRITE" /\ c.args = list.pairs /\ c.next = z + 1 BY <4>1 DEF Command
      <4>3. Bracketed(t, q, Pairs(c.args))
        BY <2>1, <3>2, <3>5, <3>6, <4>2 DEF Bracketed, l, y
      <4>4. PairsTaken(t, p, q, c)
        BY <2>8, <3>2, <3>5, <4>1, <4>2, <4>3 DEF PairsTaken, l
      <4>5. Taken BY <4>2, <4>4
      <4>6. Found BY <2>7, <4>2
      <4> HIDE DEF Taken, Found
      <4> QED BY <4>5, <4>6
    <3>7. CASE ~ At(t, z, <<NL>>)
      <4>1. Plain(t, p, c, {"INVALID"}) BY <2>5, <2>6, <3>1, <3>7, EndOfLineIs
      <4>2. ASSUME NEW pp \in Seq(StringPairs), pp # <<>>, Len(pp) < MAX_WRITE_SIZE,
                   Bracketed(t, q, Pairs(pp))
            PROVE  FALSE
        <5>1. list.pairs = pp BY <2>7, <4>2
        <5>2. At(t, z, <<NL>>) BY <3>5, <4>2, <5>1 DEF Bracketed, l
        <5> QED BY <3>7, <5>2
      <4>3. Taken BY <4>1
      <4>4. Found BY <4>2
      <4> HIDE DEF Taken, Found
      <4> QED BY <4>3, <4>4
    <3> QED BY <3>6, <3>7
  <2>9. CASE ~ (list.end = "closed" /\ Len(list.pairs) < MAX_WRITE_SIZE)
    <3>1. c = Refused(t, z) BY <1>2, <1>4, <1>8, <2>1, <2>9
    <3> HIDE DEF z
    <3>2. Plain(t, p, c, {"INVALID"}) BY <2>5, <2>6, <3>1, RefusedIs
    <3>3. Taken BY <3>2
    <3>4. Found BY <2>7, <2>9
    <3> HIDE DEF Taken, Found
    <3> QED BY <3>3, <3>4
  <2> QED BY <2>8, <2>9
<1> QED BY <1>7, <1>8

\* The delay of a WAIT (parser.c:289-315).
LEMMA ParseWaitIs ==
  ASSUME NEW t \in Words, NEW q \in Places(t), NEW p \in 1 .. q, NEW fits \in BOOLEAN,
         NEW c, c = parse_wait(t, q, fits)
  PROVE  /\ Plain(t, p, c, {"WAIT", "INVALID"})
         /\ \A d \in Digits \ {HugeNumber} :
              At(t, q, <<d>> \o <<NL>>) => c = Command("WAIT", <<>>, q + 2)
<1> DEFINE r == read_uint(t, q, fits)
           z == r.next
<1>1. Len(t) \in Nat /\ q \in Nat \ {0} /\ q <= Len(t) + 1 /\ p \in Nat BY PlaceType
<1>2. /\ r.fits \in BOOLEAN /\ z \in q .. Len(t) + 1
      /\ r.ch = EOT => z = Len(t) + 1
      /\ r.ch # EOT => z - 1 \in q .. Len(t) /\ t[z - 1] = r.ch
      /\ \A d \in Digits \ {HugeNumber} :
           At(t, q, <<d>> \o <<NL>>) => r.fits /\ r.ch = NL /\ z = q + 2
  <2> DEFINE n == r
  <2>1. n = read_uint(t, q, fits) OBVIOUS
  <2> HIDE DEF n
  <2>2. /\ n.fits \in BOOLEAN /\ n.next \in q .. Len(t) + 1
        /\ n.ch = EOT => n.next = Len(t) + 1
        /\ n.ch # EOT => n.next - 1 \in q .. Len(t) /\ t[n.next - 1] = n.ch
    BY <2>1, NumberIs
  <2>3. \A d \in Digits \ {HugeNumber} :
          At(t, q, <<d>> \o <<NL>>) => n.fits /\ n.ch = NL /\ n.next = q + 2
    BY <2>1, NumberIs
  <2> QED BY <2>2, <2>3 DEF n
<1>3. c = CASE r.fits /\ r.ch = " " -> Command("WAIT", <<>>, cleanup(t, z))
            [] r.fits /\ r.ch \in {NL, EOT} -> Command("WAIT", <<>>, z)
            [] OTHER -> Refused(t, z)
  BY DEF parse_wait
<1> HIDE DEF r, z
<1>4. z \in Places(t) /\ p \in 1 .. z BY <1>1, <1>2 DEF Places
<1>5. CASE r.fits /\ r.ch = " "
  <2> DEFINE y == cleanup(t, z)
  <2>1. c = Command("WAIT", <<>>, y) BY <1>3, <1>5 DEF NL, EOT
  <2>2. y \in p .. Len(t) + 1 /\ Resumes(t, y) BY <1>4, CleanupResumes
  <2> HIDE DEF y
  <2>3. c.cmd = "WAIT" /\ c.args = <<>> /\ c.next = y BY <2>1 DEF Command
  <2>4. Plain(t, p, c, {"WAIT", "INVALID"}) BY <2>2, <2>3 DEF Plain
  <2>5. r.ch # NL BY <1>5 DEF NL
  <2> QED BY <1>2, <2>4, <2>5
<1>6. CASE r.fits /\ r.ch \in {NL, EOT}
  <2>1. c = Command("WAIT", <<>>, z) BY <1>3, <1>6 DEF NL, EOT
  <2>2. c.cmd = "WAIT" /\ c.args = <<>> /\ c.next = z BY <2>1 DEF Command
  <2>3. z \in p .. Len(t) + 1 BY <1>1, <1>2
  <2>4. Resumes(t, z)
    <3>1. CASE r.ch = EOT
      <4>1. z = Len(t) + 1 BY <1>2, <3>1
      <4> QED BY <1>1, <4>1 DEF Resumes
    <3>2. CASE r.ch = NL /\ r.ch # EOT BY <1>2, <3>2 DEF Resumes
    <3> QED BY <1>6, <3>1, <3>2
  <2>5. Plain(t, p, c, {"WAIT", "INVALID"}) BY <2>2, <2>3, <2>4 DEF Plain
  <2> QED BY <1>2, <2>1, <2>5
<1>7. CASE ~ (r.fits /\ r.ch \in {" ", NL, EOT})
  <2>1. c = Refused(t, z) BY <1>3, <1>7
  <2>2. Plain(t, p, c, {"INVALID"}) BY <1>4, <2>1, RefusedIs
  <2>3. Plain(t, p, c, {"WAIT", "INVALID"}) BY <2>2 DEF Plain
  <2>4. \A d \in Digits \ {HugeNumber} : ~ At(t, q, <<d>> \o <<NL>>) BY <1>2, <1>7
  <2> QED BY <2>3, <2>4
<1> QED BY <1>5, <1>6, <1>7

\* One turn of run_job: what is taken was written and fits, and what is a line of the
\* language is taken.
LEMMA JobCommandIs ==
  ASSUME NEW t \in Words, NEW p \in Places(t), NEW fits \in BOOLEAN,
         NEW c, c = JobCommand(t, p, fits)
  PROVE  /\ \/ Plain(t, p, c, {"EOC", "SHOW", "BACKUP", "HELP", "EMPTY", "WAIT", "INVALID"})
            \/ c.cmd = "WRITE" /\ At(t, p, WRITE) /\ PairsTaken(t, p, p + Len(WRITE), c)
            \/ c.cmd = "READ" /\ At(t, p, READ)
               /\ KeysTaken(t, p, p + Len(READ), c, MAX_WRITE_SIZE)
            \/ c.cmd = "DELETE" /\ At(t, p, DELETE)
               /\ KeysTaken(t, p, p + Len(DELETE), c, MAX_WRITE_SIZE)
         /\ \A pp \in Seq(StringPairs) :
              /\ pp # <<>> /\ Len(pp) < MAX_WRITE_SIZE
              /\ At(t, p, WRITE) /\ Bracketed(t, p + Len(WRITE), Pairs(pp))
              => c.cmd = "WRITE" /\ c.args = pp
         /\ \A ss \in Seq(Strings) :
              /\ ss # <<>> /\ Len(ss) < MAX_WRITE_SIZE
              /\ At(t, p, READ) /\ Bracketed(t, p + Len(READ), CommaList(ss))
              => c.cmd = "READ" /\ c.args = ss
         /\ \A ss \in Seq(Strings) :
              /\ ss # <<>> /\ Len(ss) < MAX_WRITE_SIZE
              /\ At(t, p, DELETE) /\ Bracketed(t, p + Len(DELETE), CommaList(ss))
              => c.cmd = "DELETE" /\ c.args = ss
         /\ \A d \in Digits \ {HugeNumber} :
              At(t, p, WAIT) /\ At(t, p + Len(WAIT), <<d>> \o <<NL>>) =>
                c = Command("WAIT", <<>>, p + Len(WAIT) + 2)
         /\ At(t, p, SHOW \o <<NL>>)   => c = Command("SHOW", <<>>, p + Len(SHOW) + 1)
         /\ At(t, p, BACKUP \o <<NL>>) => c = Command("BACKUP", <<>>, p + Len(BACKUP) + 1)
         /\ At(t, p, HELP \o <<NL>>)   => c = Command("HELP", <<>>, p + Len(HELP) + 1)
         /\ At(t, p, <<NL>>) => c = Command("EMPTY", <<>>, p + 1)
<1> DEFINE w == job_get_next(t, p)
           ALONE == {"EOC", "SHOW", "BACKUP", "HELP", "EMPTY", "INVALID"}
           PLAIN == {"EOC", "SHOW", "BACKUP", "HELP", "EMPTY", "WAIT", "INVALID"}
           Writes == \A pp \in Seq(StringPairs) :
                       /\ pp # <<>> /\ Len(pp) < MAX_WRITE_SIZE
                       /\ At(t, p, WRITE) /\ Bracketed(t, p + Len(WRITE), Pairs(pp))
                       => c.cmd = "WRITE" /\ c.args = pp
           Lists1(word, cmd) == \A ss \in Seq(Strings) :
                       /\ ss # <<>> /\ Len(ss) < MAX_WRITE_SIZE
                       /\ At(t, p, word) /\ Bracketed(t, p + Len(word), CommaList(ss))
                       => c.cmd = cmd /\ c.args = ss
           Waits == \A d \in Digits \ {HugeNumber} :
                      At(t, p, WAIT) /\ At(t, p + Len(WAIT), <<d>> \o <<NL>>) =>
                        c = Command("WAIT", <<>>, p + Len(WAIT) + 2)
           Rest == /\ At(t, p, SHOW \o <<NL>>)   => c = Command("SHOW", <<>>, p + Len(SHOW) + 1)
                   /\ At(t, p, BACKUP \o <<NL>>) => c = Command("BACKUP", <<>>, p + Len(BACKUP) + 1)
                   /\ At(t, p, HELP \o <<NL>>)   => c = Command("HELP", <<>>, p + Len(HELP) + 1)
                   /\ At(t, p, <<NL>>) => c = Command("EMPTY", <<>>, p + 1)
           Words1 == /\ At(t, p, WAIT)   => w = Command("WAIT", <<>>, p + Len(WAIT))
                     /\ At(t, p, WRITE)  => w = Command("WRITE", <<>>, p + Len(WRITE))
                     /\ At(t, p, READ)   => w = Command("READ", <<>>, p + Len(READ))
                     /\ At(t, p, DELETE) => w = Command("DELETE", <<>>, p + Len(DELETE))
           Taken == \/ Plain(t, p, c, PLAIN)
                    \/ c.cmd = "WRITE" /\ At(t, p, WRITE) /\ PairsTaken(t, p, p + Len(WRITE), c)
                    \/ c.cmd = "READ" /\ At(t, p, READ)
                       /\ KeysTaken(t, p, p + Len(READ), c, MAX_WRITE_SIZE)
                    \/ c.cmd = "DELETE" /\ At(t, p, DELETE)
                       /\ KeysTaken(t, p, p + Len(DELETE), c, MAX_WRITE_SIZE)
<1> SUFFICES Taken /\ Writes /\ Lists1(READ, "READ") /\ Lists1(DELETE, "DELETE") /\ Waits /\ Rest
  OBVIOUS
<1>1. c = CASE w.cmd = "WRITE" -> parse_write(t, w.next)
            [] w.cmd \in {"READ", "DELETE"} -> parse_read_delete(t, w.next, w.cmd)
            [] w.cmd = "WAIT"  -> parse_wait(t, w.next, fits)
            [] OTHER -> w
  BY DEF JobCommand
<1>2. /\ \/ Plain(t, p, w, ALONE)
         \/ At(t, p, WAIT)   /\ w = Command("WAIT", <<>>, p + Len(WAIT))
         \/ At(t, p, WRITE)  /\ w = Command("WRITE", <<>>, p + Len(WRITE))
         \/ At(t, p, READ)   /\ w = Command("READ", <<>>, p + Len(READ))
         \/ At(t, p, DELETE) /\ w = Command("DELETE", <<>>, p + Len(DELETE))
      /\ Words1
  <2> DEFINE x == w
  <2>1. x = job_get_next(t, p) OBVIOUS
  <2> HIDE DEF x
  <2>2. /\ \/ Plain(t, p, x, ALONE)
           \/ At(t, p, WAIT)   /\ x = Command("WAIT", <<>>, p + Len(WAIT))
           \/ At(t, p, WRITE)  /\ x = Command("WRITE", <<>>, p + Len(WRITE))
           \/ At(t, p, READ)   /\ x = Command("READ", <<>>, p + Len(READ))
           \/ At(t, p, DELETE) /\ x = Command("DELETE", <<>>, p + Len(DELETE))
        /\ At(t, p, WAIT)   => x = Command("WAIT", <<>>, p + Len(WAIT))
        /\ At(t, p, WRITE)  => x = Command("WRITE", <<>>, p + Len(WRITE))
        /\ At(t, p, READ)   => x = Command("READ", <<>>, p + Len(READ))
        /\ At(t, p, DELETE) => x = Command("DELETE", <<>>, p + Len(DELETE))
    BY <2>1, JobWordIs
  <2> QED BY <2>2 DEF x
<1>3. /\ At(t, p, SHOW \o <<NL>>)   => w = Command("SHOW", <<>>, p + Len(SHOW) + 1)
      /\ At(t, p, BACKUP \o <<NL>>) => w = Command("BACKUP", <<>>, p + Len(BACKUP) + 1)
      /\ At(t, p, HELP \o <<NL>>)   => w = Command("HELP", <<>>, p + Len(HELP) + 1)
      /\ At(t, p, <<NL>>) => w = Command("EMPTY", <<>>, p + 1)
  <2> DEFINE x == w
  <2>1. x = job_get_next(t, p) OBVIOUS
  <2> HIDE DEF x
  <2>2. /\ At(t, p, SHOW \o <<NL>>)   => x = Command("SHOW", <<>>, p + Len(SHOW) + 1)
        /\ At(t, p, BACKUP \o <<NL>>) => x = Command("BACKUP", <<>>, p + Len(BACKUP) + 1)
        /\ At(t, p, HELP \o <<NL>>)   => x = Command("HELP", <<>>, p + Len(HELP) + 1)
        /\ At(t, p, <<NL>>) => x = Command("EMPTY", <<>>, p + 1)
    BY <2>1, JobWordIs
  <2> QED BY <2>2 DEF x
<1> HIDE DEF w
<1>4. \A cmd, n : Command(cmd, <<>>, n).cmd = cmd /\ Command(cmd, <<>>, n).next = n BY DEF Command
<1>5. ASSUME w.cmd \in {"WAIT", "WRITE", "READ", "DELETE"} PROVE Rest BY <1>3, <1>4, <1>5
<1>6. ASSUME NEW word \in Words, At(t, p, word)
      PROVE  p + Len(word) \in Places(t) /\ p \in 1 .. p + Len(word)
  <2>1. p + Len(word) \in Places(t) /\ Len(word) \in Nat BY <1>6, AtPlace
  <2> QED BY <2>1, PlaceType
<1>7. MAX_WRITE_SIZE \in Nat BY JobParserAssumption
<1>8. CASE Plain(t, p, w, ALONE)
  <2>1. w.cmd \notin {"WAIT", "WRITE", "READ", "DELETE"} BY <1>8 DEF Plain
  <2>2. c = w BY <1>1, <2>1
  <2>3. Taken BY <1>8, <2>2 DEF Plain
  <2>4. ~ At(t, p, WAIT) /\ ~ At(t, p, WRITE) /\ ~ At(t, p, READ) /\ ~ At(t, p, DELETE)
    BY <1>2, <1>4, <2>1
  <2>5. Writes /\ Lists1(READ, "READ") /\ Lists1(DELETE, "DELETE") /\ Waits BY <2>4
  <2>6. Rest BY <1>3, <2>2
  <2> HIDE DEF Taken, Writes, Lists1, Waits, Rest
  <2> QED BY <2>3, <2>5, <2>6
<1>9. CASE At(t, p, WAIT) /\ w = Command("WAIT", <<>>, p + Len(WAIT))
  <2> DEFINE q == p + Len(WAIT)
  <2>1. w.cmd = "WAIT" /\ w.next = q BY <1>4, <1>9
  <2>2. c = parse_wait(t, q, fits) BY <1>1, <2>1
  <2>3. q \in Places(t) /\ p \in 1 .. q BY <1>6, <1>9, JobWords
  <2>4. Plain(t, p, c, {"WAIT", "INVALID"})
    <3> HIDE DEF q
    <3> QED BY <2>2, <2>3, ParseWaitIs
  <2>5. \A d \in Digits \ {HugeNumber} :
          At(t, q, <<d>> \o <<NL>>) => c = Command("WAIT", <<>>, q + 2)
    <3> HIDE DEF q
    <3> QED BY <2>2, <2>3, ParseWaitIs
  <2>6. Taken BY <2>4 DEF Plain
  <2>7. Waits BY <2>5
  <2>8. ~ At(t, p, WRITE) /\ ~ At(t, p, READ) /\ ~ At(t, p, DELETE) BY <1>2, <1>4, <2>1
  <2>9. Writes /\ Lists1(READ, "READ") /\ Lists1(DELETE, "DELETE") BY <2>8
  <2>10. Rest BY <1>5, <2>1
  <2> HIDE DEF Taken, Writes, Lists1, Waits, Rest
  <2> QED BY <2>6, <2>7, <2>9, <2>10
<1>10. CASE At(t, p, WRITE) /\ w = Command("WRITE", <<>>, p + Len(WRITE))
  <2> DEFINE q == p + Len(WRITE)
  <2>1. w.cmd = "WRITE" /\ w.next = q BY <1>4, <1>10
  <2>2. c = parse_write(t, q) BY <1>1, <2>1
  <2>3. q \in Places(t) /\ p \in 1 .. q BY <1>6, <1>10, JobWords
  <2>4. /\ Plain(t, p, c, {"INVALID"}) \/ (c.cmd = "WRITE" /\ PairsTaken(t, p, q, c))
        /\ \A pp \in Seq(StringPairs) :
             /\ pp # <<>> /\ Len(pp) < MAX_WRITE_SIZE /\ Bracketed(t, q, Pairs(pp))
             => c.cmd = "WRITE" /\ c.args = pp
    <3> HIDE DEF q
    <3> QED BY <2>2, <2>3, ParseWriteIs
  <2>5. Taken BY <1>10, <2>4 DEF Plain
  <2>6. Writes BY <2>4
  <2>7. ~ At(t, p, WAIT) /\ ~ At(t, p, READ) /\ ~ At(t, p, DELETE) BY <1>2, <1>4, <2>1
  <2>8. Waits /\ Lists1(READ, "READ") /\ Lists1(DELETE, "DELETE") BY <2>7
  <2>9. Rest BY <1>5, <2>1
  <2> HIDE DEF Taken, Writes, Lists1, Waits, Rest
  <2> QED BY <2>5, <2>6, <2>8, <2>9
<1>11. ASSUME NEW q \in Places(t), p \in 1 .. q, NEW cmd \in {"READ", "DELETE"},
              c = parse_read_delete(t, q, cmd)
       PROVE  /\ \/ Plain(t, p, c, {"INVALID"})
                 \/ (c.cmd = cmd /\ KeysTaken(t, p, q, c, MAX_WRITE_SIZE))
              /\ \A ss \in Seq(Strings) :
                   /\ ss # <<>> /\ Len(ss) < MAX_WRITE_SIZE
                   /\ Bracketed(t, q, CommaList(ss))
                   => c.cmd = cmd /\ c.args = ss
  <2>1. c = ListCommand(t, q, cmd, MAX_WRITE_SIZE, MAX_WRITE_SIZE)
    BY <1>11 DEF parse_read_delete, KeysBelow, ListCommand
  <2>2. cmd # "INVALID" OBVIOUS
  <2>3. Plain(t, p, c, {"INVALID"}) \/ (c.cmd = cmd /\ KeysTaken(t, p, q, c, MAX_WRITE_SIZE))
    BY <1>7, <1>11, <2>1, <2>2, KeysAre
  <2>4. \A ss \in Seq(Strings) :
          /\ ss # <<>> /\ Len(ss) <= MAX_WRITE_SIZE /\ Len(ss) < MAX_WRITE_SIZE
          /\ Bracketed(t, q, CommaList(ss))
          => c.cmd = cmd /\ c.args = ss
    BY <1>7, <1>11, <2>1, <2>2, KeysAre
  <2>5. \A ss \in Seq(Strings) : Len(ss) < MAX_WRITE_SIZE => Len(ss) <= MAX_WRITE_SIZE
    BY <1>7, LenProperties
  <2> QED BY <2>3, <2>4, <2>5
<1>12. CASE At(t, p, READ) /\ w = Command("READ", <<>>, p + Len(READ))
  <2> DEFINE q == p + Len(READ)
  <2>1. w.cmd = "READ" /\ w.next = q BY <1>4, <1>12
  <2>2. c = parse_read_delete(t, q, "READ") BY <1>1, <2>1
  <2>3. q \in Places(t) /\ p \in 1 .. q BY <1>6, <1>12, JobWords
  <2>4. /\ \/ Plain(t, p, c, {"INVALID"})
           \/ (c.cmd = "READ" /\ KeysTaken(t, p, q, c, MAX_WRITE_SIZE))
        /\ \A ss \in Seq(Strings) :
             /\ ss # <<>> /\ Len(ss) < MAX_WRITE_SIZE /\ Bracketed(t, q, CommaList(ss))
             => c.cmd = "READ" /\ c.args = ss
    <3> HIDE DEF q
    <3> QED BY <1>11, <2>2, <2>3
  <2>5. Taken BY <1>12, <2>4 DEF Plain
  <2>6. Lists1(READ, "READ") BY <2>4
  <2>7. ~ At(t, p, WAIT) /\ ~ At(t, p, WRITE) /\ ~ At(t, p, DELETE) BY <1>2, <1>4, <2>1
  <2>8. Waits /\ Writes /\ Lists1(DELETE, "DELETE") BY <2>7
  <2>9. Rest BY <1>5, <2>1
  <2> HIDE DEF Taken, Writes, Lists1, Waits, Rest
  <2> QED BY <2>5, <2>6, <2>8, <2>9
<1>13. CASE At(t, p, DELETE) /\ w = Command("DELETE", <<>>, p + Len(DELETE))
  <2> DEFINE q == p + Len(DELETE)
  <2>1. w.cmd = "DELETE" /\ w.next = q BY <1>4, <1>13
  <2>2. c = parse_read_delete(t, q, "DELETE") BY <1>1, <2>1
  <2>3. q \in Places(t) /\ p \in 1 .. q BY <1>6, <1>13, JobWords
  <2>4. /\ \/ Plain(t, p, c, {"INVALID"})
           \/ (c.cmd = "DELETE" /\ KeysTaken(t, p, q, c, MAX_WRITE_SIZE))
        /\ \A ss \in Seq(Strings) :
             /\ ss # <<>> /\ Len(ss) < MAX_WRITE_SIZE /\ Bracketed(t, q, CommaList(ss))
             => c.cmd = "DELETE" /\ c.args = ss
    <3> HIDE DEF q
    <3> QED BY <1>11, <2>2, <2>3
  <2>5. Taken BY <1>13, <2>4 DEF Plain
  <2>6. Lists1(DELETE, "DELETE") BY <2>4
  <2>7. ~ At(t, p, WAIT) /\ ~ At(t, p, WRITE) /\ ~ At(t, p, READ) BY <1>2, <1>4, <2>1
  <2>8. Waits /\ Writes /\ Lists1(READ, "READ") BY <2>7
  <2>9. Rest BY <1>5, <2>1
  <2> HIDE DEF Taken, Writes, Lists1, Waits, Rest
  <2> QED BY <2>5, <2>6, <2>8, <2>9
<1> HIDE DEF Taken, Writes, Lists1, Waits, Rest, Words1
<1> QED BY <1>2, <1>8, <1>9, <1>10, <1>12, <1>13

-----------------------------------------------------------------------------
(* The commands of the client.                                             *)

\* The words, and the letters that tell them apart.
LEMMA ClientWords ==
  /\ SUBSCRIBE \in Words /\ UNSUBSCRIBE \in Words /\ DELAY \in Words /\ DISCONNECT \in Words
  /\ SUBSCRIBE # <<>> /\ UNSUBSCRIBE # <<>> /\ DELAY # <<>> /\ DISCONNECT # <<>>
  /\ SUBSCRIBE[1] = "S" /\ UNSUBSCRIBE[1] = "U"
  /\ Len(DELAY) = 6 /\ DELAY[1] = "D" /\ DELAY[2] = "E"
  /\ Len(DISCONNECT) = 10 /\ DISCONNECT[1] = "D" /\ DISCONNECT[2] = "I"
<1>1. /\ SUBSCRIBE \in Words /\ UNSUBSCRIBE \in Words
      /\ DELAY \in Words /\ DISCONNECT \in Words
  BY ClientParserAssumption DEF Words
<1>2. SUBSCRIBE[1] = "S" /\ SUBSCRIBE # <<>> BY DEF SUBSCRIBE
<1>3. UNSUBSCRIBE[1] = "U" /\ UNSUBSCRIBE # <<>> BY DEF UNSUBSCRIBE
<1>4. Len(DELAY) = 6 /\ DELAY[1] = "D" /\ DELAY[2] = "E" /\ DELAY # <<>> BY DEF DELAY
<1>5. /\ Len(DISCONNECT) = 10 /\ DISCONNECT[1] = "D" /\ DISCONNECT[2] = "I"
      /\ DISCONNECT # <<>>
  BY DEF DISCONNECT
<1> QED BY <1>1, <1>2, <1>3, <1>4, <1>5

\* The word of the next command (client/parser.c:95-144).
LEMMA ClientWordIs ==
  ASSUME NEW t \in Words, NEW p \in Places(t), NEW w, w = client_get_next(t, p)
  PROVE  /\ \/ Plain(t, p, w, {"EOC", "DISCONNECT", "EMPTY", "INVALID"})
            \/ At(t, p, SUBSCRIBE)   /\ w = Command("SUBSCRIBE", <<>>, p + Len(SUBSCRIBE))
            \/ At(t, p, UNSUBSCRIBE) /\ w = Command("UNSUBSCRIBE", <<>>, p + Len(UNSUBSCRIBE))
            \/ At(t, p, DELAY)       /\ w = Command("DELAY", <<>>, p + Len(DELAY))
         /\ At(t, p, SUBSCRIBE)   => w = Command("SUBSCRIBE", <<>>, p + Len(SUBSCRIBE))
         /\ At(t, p, UNSUBSCRIBE) => w = Command("UNSUBSCRIBE", <<>>, p + Len(UNSUBSCRIBE))
         /\ At(t, p, DELAY)       => w = Command("DELAY", <<>>, p + Len(DELAY))
         /\ At(t, p, DISCONNECT \o <<NL>>) =>
              w = Command("DISCONNECT", <<>>, p + Len(DISCONNECT) + 1)
         /\ At(t, p, <<NL>>) => w = Command("EMPTY", <<>>, p + 1)
<1> DEFINE first == Chars(t, p, 1)
           Is(x) == p <= Len(t) /\ t[p] = x
           ALONE == {"EOC", "DISCONNECT", "EMPTY", "INVALID"}
<1>1. /\ \A x : first = <<x>> <=> Is(x)
      /\ first = <<>> <=> p = Len(t) + 1
      /\ At(t, p, <<NL>>) <=> Is(NL)
  BY NextIs
<1>2. w = CASE p = Len(t) + 1 -> Command("EOC", <<>>, p)
            [] Is("S") -> Word(t, p, SUBSCRIBE, "SUBSCRIBE")
            [] Is("U") -> Word(t, p, UNSUBSCRIBE, "UNSUBSCRIBE")
            [] Is("D") -> IF Chars(t, p, Len(DELAY)) = DELAY
                          THEN Command("DELAY", <<>>, p + Len(DELAY))
                          ELSE WordAlone(t, p, DISCONNECT, "DISCONNECT")
            [] Is("#") -> Command("EMPTY", <<>>, cleanup(t, p + 1))
            [] Is(NL)  -> Command("EMPTY", <<>>, p + 1)
            [] OTHER   -> Refused(t, p + 1)
  <2>1. w = CASE first = <<>>    -> Command("EOC", <<>>, p)
              [] first = <<"S">> -> Word(t, p, SUBSCRIBE, "SUBSCRIBE")
              [] first = <<"U">> -> Word(t, p, UNSUBSCRIBE, "UNSUBSCRIBE")
              [] first = <<"D">> -> IF Chars(t, p, Len(DELAY)) = DELAY
                                    THEN Command("DELAY", <<>>, p + Len(DELAY))
                                    ELSE WordAlone(t, p, DISCONNECT, "DISCONNECT")
              [] first = <<"#">> -> Command("EMPTY", <<>>, cleanup(t, p + 1))
              [] first = <<NL>>  -> Command("EMPTY", <<>>, p + 1)
              [] OTHER           -> Refused(t, p + 1)
    BY DEF client_get_next
  <2> HIDE DEF first
  <2>2. /\ first = <<"S">> <=> Is("S")
        /\ first = <<"U">> <=> Is("U")
        /\ first = <<"D">> <=> Is("D")
        /\ first = <<"#">> <=> Is("#")
        /\ first = <<NL>> <=> Is(NL)
    BY <1>1
  <2> HIDE DEF Is
  <2> QED BY <1>1, <2>1, <2>2
<1> HIDE DEF first
<1>3. Len(t) \in Nat /\ p \in Nat \ {0} /\ p <= Len(t) + 1 BY PlaceType
<1>4. /\ At(t, p, SUBSCRIBE) => Is("S")
      /\ At(t, p, UNSUBSCRIBE) => Is("U")
      /\ At(t, p, DELAY) => Is("D")
      /\ At(t, p, DISCONNECT \o <<NL>>) => Is("D")
  BY ClientWords, FirstLetter
<1>5. ~ (At(t, p, DELAY) /\ At(t, p, DISCONNECT \o <<NL>>))
  <2> SUFFICES ASSUME At(t, p, DELAY), At(t, p, DISCONNECT) PROVE FALSE
    BY ClientWords, FirstLetter
  <2>1. 2 \in 1 .. Len(DELAY) /\ 2 \in 1 .. Len(DISCONNECT) BY ClientWords
  <2>2. t[p + 2 - 1] = DELAY[2] /\ t[p + 2 - 1] = DISCONNECT[2] BY <2>1 DEF At
  <2> QED BY <2>2, ClientWords
<1>6. CASE p = Len(t) + 1
  <2>1. w = Command("EOC", <<>>, p) BY <1>1, <1>2, <1>3, <1>6
  <2>2. w.cmd = "EOC" /\ w.args = <<>> /\ w.next = p BY <2>1 DEF Command
  <2>3. p > Len(t) /\ p \in p .. Len(t) + 1 BY <1>3, <1>6
  <2>4. Plain(t, p, w, ALONE) BY <2>2, <2>3 DEF Plain, Resumes
  <2>5. \A x : ~ Is(x) BY <1>3, <1>6
  <2> QED BY <1>1, <1>4, <2>4, <2>5
<1>7. CASE Is("S")
  <2>1. w = Word(t, p, SUBSCRIBE, "SUBSCRIBE") BY <1>2, <1>3, <1>7 DEF NL
  <2>2. /\ At(t, p, SUBSCRIBE) => w = Command("SUBSCRIBE", <<>>, p + Len(SUBSCRIBE))
        /\ ~ At(t, p, SUBSCRIBE) => Plain(t, p, w, {"INVALID"})
    BY <2>1, ClientWords, WordIs
  <2>3. Plain(t, p, w, {"INVALID"}) => Plain(t, p, w, ALONE) BY DEF Plain
  <2>4. ~ Is("U") /\ ~ Is("D") /\ ~ Is(NL) BY <1>7 DEF NL
  <2> QED BY <1>1, <1>4, <2>2, <2>3, <2>4
<1>8. CASE Is("U")
  <2>1. w = Word(t, p, UNSUBSCRIBE, "UNSUBSCRIBE") BY <1>2, <1>3, <1>8 DEF NL
  <2>2. /\ At(t, p, UNSUBSCRIBE) => w = Command("UNSUBSCRIBE", <<>>, p + Len(UNSUBSCRIBE))
        /\ ~ At(t, p, UNSUBSCRIBE) => Plain(t, p, w, {"INVALID"})
    BY <2>1, ClientWords, WordIs
  <2>3. Plain(t, p, w, {"INVALID"}) => Plain(t, p, w, ALONE) BY DEF Plain
  <2>4. ~ Is("S") /\ ~ Is("D") /\ ~ Is(NL) BY <1>8 DEF NL
  <2> QED BY <1>1, <1>4, <2>2, <2>3, <2>4
<1>9. CASE Is("D")
  <2>1. w = IF Chars(t, p, Len(DELAY)) = DELAY
            THEN Command("DELAY", <<>>, p + Len(DELAY))
            ELSE WordAlone(t, p, DISCONNECT, "DISCONNECT")
    BY <1>2, <1>3, <1>9 DEF NL
  <2>2. Chars(t, p, Len(DELAY)) = DELAY <=> At(t, p, DELAY)
    BY ClientWords, PlaceType, CharsAre DEF Words
  <2>3. At(t, p, DELAY) => w = Command("DELAY", <<>>, p + Len(DELAY)) BY <2>1, <2>2
  <2>4. ~ At(t, p, DELAY) =>
          /\ Plain(t, p, w, {"DISCONNECT", "INVALID"})
          /\ At(t, p, DISCONNECT \o <<NL>>) =>
               w = Command("DISCONNECT", <<>>, p + Len(DISCONNECT) + 1)
    BY <2>1, <2>2, ClientWords, WordAloneIs
  <2>5. Plain(t, p, w, {"DISCONNECT", "INVALID"}) => Plain(t, p, w, ALONE) BY DEF Plain
  <2>6. ~ Is("S") /\ ~ Is("U") /\ ~ Is(NL) BY <1>9 DEF NL
  <2> QED BY <1>1, <1>4, <1>5, <2>3, <2>4, <2>5, <2>6
<1>10. CASE p <= Len(t) /\ t[p] \notin {"S", "U", "D"}
  <2> DEFINE y == p + 1
             z == cleanup(t, y)
  <2>1. y \in Places(t) /\ p \in 1 .. y /\ y \in p .. Len(t) + 1 /\ y - 1 = p
    BY <1>3, <1>10 DEF Places
  <2>2. Plain(t, p, w, ALONE) /\ (Is(NL) => w = Command("EMPTY", <<>>, y))
    <3>1. CASE t[p] = "#"
      <4>1. ~ Is(NL) BY <3>1 DEF NL
      <4>2. w = Command("EMPTY", <<>>, z) BY <1>2, <1>3, <1>10, <3>1 DEF NL
      <4>3. z \in p .. Len(t) + 1 /\ Resumes(t, z)
        <5> HIDE DEF y
        <5> QED BY <2>1, CleanupResumes
      <4> HIDE DEF z
      <4>4. w.cmd = "EMPTY" /\ w.args = <<>> /\ w.next = z BY <4>2 DEF Command
      <4> QED BY <4>1, <4>3, <4>4 DEF Plain
    <3>2. CASE t[p] = NL
      <4>1. w = Command("EMPTY", <<>>, y) BY <1>2, <1>3, <1>10, <3>2 DEF NL
      <4>2. w.cmd = "EMPTY" /\ w.args = <<>> /\ w.next = y BY <4>1 DEF Command
      <4>3. t[y - 1] = NL BY <2>1, <3>2
      <4> HIDE DEF y
      <4> QED BY <2>1, <4>1, <4>2, <4>3 DEF Plain, Resumes
    <3>3. CASE t[p] # NL /\ t[p] # "#"
      <4>1. w = Refused(t, y) BY <1>2, <1>3, <1>10, <3>3
      <4> HIDE DEF y
      <4>2. Plain(t, p, w, {"INVALID"}) BY <2>1, <4>1, RefusedIs
      <4> QED BY <3>3, <4>2 DEF Plain
    <3> QED BY <3>1, <3>2, <3>3
  <2>3. \A x \in {"S", "U", "D"} : ~ Is(x) BY <1>10
  <2> QED BY <1>1, <1>4, <2>2, <2>3
<1>11. p = Len(t) + 1 \/ p <= Len(t) BY <1>3
<1> QED BY <1>6, <1>7, <1>8, <1>9, <1>10, <1>11

\* The list of one key of a subscription is read like those of the server: with room
\* for one key there are never two (client/parser.c:146-183).
LEMMA ParseListIs ==
  ASSUME NEW t \in Words, NEW q \in Places(t), NEW p \in 1 .. q, NEW cmd, cmd # "INVALID",
         NEW c, c = parse_list(t, q, cmd)
  PROVE  /\ Plain(t, p, c, {"INVALID"}) \/ (c.cmd = cmd /\ KeysTaken(t, p, q, c, 1))
         /\ \A ss \in Seq(Strings) :
              ss # <<>> /\ Len(ss) <= 1 /\ Bracketed(t, q, CommaList(ss))
              => c.cmd = cmd /\ c.args = ss
<1>1. c = ListCommand(t, q, cmd, 1, 2)
  <2>1. CASE Chars(t, q, 1) # <<"[">> BY <2>1 DEF parse_list, ListCommand
  <2>2. CASE Chars(t, q, 1) = <<"[">>
    <3> DEFINE y == q + 1
               list == KeyList(t, y, 1)
    <3>1. q <= Len(t) BY <2>2, NextIs
    <3>2. y \in Places(t) BY <3>1, PlaceType DEF Places
    <3>3. 1 \in Nat OBVIOUS
    <3> HIDE DEF y
    <3>4. KeysRead(t, 1, y, list) BY <3>2, <3>3, KeyListIs
    <3>5. list.end = "closed" => Len(list.keys) < 2
      <4> HIDE DEF list
      <4>1. Len(list.keys) <= 1 /\ list.keys \in Seq(Words) BY <3>4 DEF KeysRead, KeyResults
      <4>2. Len(list.keys) \in Nat BY <4>1, LenProperties
      <4> QED BY <4>1, <4>2
    <3> QED BY <2>2, <3>5 DEF parse_list, ListCommand, y
  <2> QED BY <2>1, <2>2
<1>2. 1 \in Nat /\ 2 \in Nat OBVIOUS
<1>3. Plain(t, p, c, {"INVALID"}) \/ (c.cmd = cmd /\ KeysTaken(t, p, q, c, 1))
  BY <1>1, <1>2, KeysAre
<1>4. \A ss \in Seq(Strings) :
        ss # <<>> /\ Len(ss) <= 1 /\ Len(ss) < 2 /\ Bracketed(t, q, CommaList(ss))
        => c.cmd = cmd /\ c.args = ss
  BY <1>1, <1>2, KeysAre
<1>5. \A ss \in Seq(Strings) : Len(ss) <= 1 => Len(ss) < 2 BY LenProperties
<1> QED BY <1>3, <1>4, <1>5

\* The delay of the client, whose line may have more in it (client/parser.c:185-194).
LEMMA ParseDelayIs ==
  ASSUME NEW t \in Words, NEW q \in Places(t), NEW p \in 1 .. q, NEW fits \in BOOLEAN,
         NEW c, c = parse_delay(t, q, fits)
  PROVE  /\ \/ Plain(t, p, c, {"INVALID"})
            \/ (c.cmd = "DELAY" /\ c.args = <<>> /\ c.next \in p .. Len(t) + 1)
         /\ \A d \in Digits \ {HugeNumber} :
              At(t, q, <<d>> \o <<NL>>) => c = Command("DELAY", <<>>, q + 2)
<1> DEFINE r == read_uint(t, q, fits)
           z == r.next
<1>1. Len(t) \in Nat /\ q \in Nat \ {0} /\ q <= Len(t) + 1 /\ p \in Nat BY PlaceType
<1>2. r.fits \in BOOLEAN /\ z \in q .. Len(t) + 1
  <2> DEFINE n == r
  <2>1. n = read_uint(t, q, fits) OBVIOUS
  <2> HIDE DEF n
  <2>2. n.fits \in BOOLEAN /\ n.next \in q .. Len(t) + 1 BY <2>1, NumberIs
  <2> QED BY <2>2 DEF n
<1>3. \A d \in Digits \ {HugeNumber} : At(t, q, <<d>> \o <<NL>>) => r.fits /\ z = q + 2
  <2> DEFINE n == r
  <2>1. n = read_uint(t, q, fits) OBVIOUS
  <2> HIDE DEF n
  <2>2. \A d \in Digits \ {HugeNumber} :
          At(t, q, <<d>> \o <<NL>>) => n.fits /\ n.ch = NL /\ n.next = q + 2
    BY <2>1, NumberIs
  <2> QED BY <2>2 DEF n
<1>4. c = IF r.fits THEN Command("DELAY", <<>>, z) ELSE Refused(t, z) BY DEF parse_delay
<1> HIDE DEF r, z
<1>5. z \in Places(t) /\ p \in 1 .. z /\ z \in p .. Len(t) + 1 BY <1>1, <1>2 DEF Places
<1>6. CASE r.fits
  <2>1. c = Command("DELAY", <<>>, z) BY <1>4, <1>6
  <2>2. c.cmd = "DELAY" /\ c.args = <<>> /\ c.next = z BY <2>1 DEF Command
  <2> QED BY <1>3, <1>5, <2>1, <2>2
<1>7. CASE ~ r.fits
  <2>1. c = Refused(t, z) BY <1>4, <1>7
  <2>2. Plain(t, p, c, {"INVALID"}) BY <1>5, <2>1, RefusedIs
  <2> QED BY <1>3, <1>7, <2>2
<1> QED BY <1>6, <1>7

\* One turn of the client's main, as JobCommandIs.
LEMMA ClientCommandIs ==
  ASSUME NEW t \in Words, NEW p \in Places(t), NEW fits \in BOOLEAN,
         NEW c, c = ClientCommand(t, p, fits)
  PROVE  /\ \/ Plain(t, p, c, {"EOC", "DISCONNECT", "EMPTY", "INVALID"})
            \/ c.cmd = "DELAY" /\ c.args = <<>> /\ c.next \in p .. Len(t) + 1
            \/ c.cmd = "SUBSCRIBE" /\ At(t, p, SUBSCRIBE)
               /\ KeysTaken(t, p, p + Len(SUBSCRIBE), c, 1)
            \/ c.cmd = "UNSUBSCRIBE" /\ At(t, p, UNSUBSCRIBE)
               /\ KeysTaken(t, p, p + Len(UNSUBSCRIBE), c, 1)
         /\ \A ss \in Seq(Strings) :
              /\ ss # <<>> /\ Len(ss) <= 1
              /\ At(t, p, SUBSCRIBE) /\ Bracketed(t, p + Len(SUBSCRIBE), CommaList(ss))
              => c.cmd = "SUBSCRIBE" /\ c.args = ss
         /\ \A ss \in Seq(Strings) :
              /\ ss # <<>> /\ Len(ss) <= 1
              /\ At(t, p, UNSUBSCRIBE) /\ Bracketed(t, p + Len(UNSUBSCRIBE), CommaList(ss))
              => c.cmd = "UNSUBSCRIBE" /\ c.args = ss
         /\ \A d \in Digits \ {HugeNumber} :
              At(t, p, DELAY) /\ At(t, p + Len(DELAY), <<d>> \o <<NL>>) =>
                c = Command("DELAY", <<>>, p + Len(DELAY) + 2)
         /\ At(t, p, DISCONNECT \o <<NL>>) =>
              c = Command("DISCONNECT", <<>>, p + Len(DISCONNECT) + 1)
         /\ At(t, p, <<NL>>) => c = Command("EMPTY", <<>>, p + 1)
<1> DEFINE w == client_get_next(t, p)
           ALONE == {"EOC", "DISCONNECT", "EMPTY", "INVALID"}
           Found(word, cmd) == \A ss \in Seq(Strings) :
                       /\ ss # <<>> /\ Len(ss) <= 1
                       /\ At(t, p, word) /\ Bracketed(t, p + Len(word), CommaList(ss))
                       => c.cmd = cmd /\ c.args = ss
           Delays == \A d \in Digits \ {HugeNumber} :
                       At(t, p, DELAY) /\ At(t, p + Len(DELAY), <<d>> \o <<NL>>) =>
                         c = Command("DELAY", <<>>, p + Len(DELAY) + 2)
           Rest == /\ At(t, p, DISCONNECT \o <<NL>>) =>
                        c = Command("DISCONNECT", <<>>, p + Len(DISCONNECT) + 1)
                   /\ At(t, p, <<NL>>) => c = Command("EMPTY", <<>>, p + 1)
           Word1 == /\ At(t, p, SUBSCRIBE)   => w = Command("SUBSCRIBE", <<>>, p + Len(SUBSCRIBE))
                    /\ At(t, p, UNSUBSCRIBE) => w = Command("UNSUBSCRIBE", <<>>, p + Len(UNSUBSCRIBE))
                    /\ At(t, p, DELAY)       => w = Command("DELAY", <<>>, p + Len(DELAY))
           Taken == \/ Plain(t, p, c, ALONE)
                    \/ c.cmd = "DELAY" /\ c.args = <<>> /\ c.next \in p .. Len(t) + 1
                    \/ c.cmd = "SUBSCRIBE" /\ At(t, p, SUBSCRIBE)
                       /\ KeysTaken(t, p, p + Len(SUBSCRIBE), c, 1)
                    \/ c.cmd = "UNSUBSCRIBE" /\ At(t, p, UNSUBSCRIBE)
                       /\ KeysTaken(t, p, p + Len(UNSUBSCRIBE), c, 1)
<1> SUFFICES /\ Taken /\ Found(SUBSCRIBE, "SUBSCRIBE") /\ Found(UNSUBSCRIBE, "UNSUBSCRIBE")
             /\ Delays /\ Rest
  OBVIOUS
<1>1. c = CASE w.cmd \in {"SUBSCRIBE", "UNSUBSCRIBE"} -> parse_list(t, w.next, w.cmd)
            [] w.cmd = "DELAY" -> parse_delay(t, w.next, fits)
            [] OTHER -> w
  BY DEF ClientCommand
<1>2. /\ \/ Plain(t, p, w, ALONE)
         \/ At(t, p, SUBSCRIBE)   /\ w = Command("SUBSCRIBE", <<>>, p + Len(SUBSCRIBE))
         \/ At(t, p, UNSUBSCRIBE) /\ w = Command("UNSUBSCRIBE", <<>>, p + Len(UNSUBSCRIBE))
         \/ At(t, p, DELAY)       /\ w = Command("DELAY", <<>>, p + Len(DELAY))
      /\ Word1
  <2> DEFINE x == w
  <2>1. x = client_get_next(t, p) OBVIOUS
  <2> HIDE DEF x
  <2>2. /\ \/ Plain(t, p, x, ALONE)
           \/ At(t, p, SUBSCRIBE)   /\ x = Command("SUBSCRIBE", <<>>, p + Len(SUBSCRIBE))
           \/ At(t, p, UNSUBSCRIBE) /\ x = Command("UNSUBSCRIBE", <<>>, p + Len(UNSUBSCRIBE))
           \/ At(t, p, DELAY)       /\ x = Command("DELAY", <<>>, p + Len(DELAY))
        /\ At(t, p, SUBSCRIBE)   => x = Command("SUBSCRIBE", <<>>, p + Len(SUBSCRIBE))
        /\ At(t, p, UNSUBSCRIBE) => x = Command("UNSUBSCRIBE", <<>>, p + Len(UNSUBSCRIBE))
        /\ At(t, p, DELAY)       => x = Command("DELAY", <<>>, p + Len(DELAY))
    BY <2>1, ClientWordIs
  <2> QED BY <2>2 DEF x
<1>3. /\ At(t, p, DISCONNECT \o <<NL>>) =>
           w = Command("DISCONNECT", <<>>, p + Len(DISCONNECT) + 1)
      /\ At(t, p, <<NL>>) => w = Command("EMPTY", <<>>, p + 1)
  <2> DEFINE x == w
  <2>1. x = client_get_next(t, p) OBVIOUS
  <2> HIDE DEF x
  <2>2. /\ At(t, p, DISCONNECT \o <<NL>>) =>
             x = Command("DISCONNECT", <<>>, p + Len(DISCONNECT) + 1)
        /\ At(t, p, <<NL>>) => x = Command("EMPTY", <<>>, p + 1)
    BY <2>1, ClientWordIs
  <2> QED BY <2>2 DEF x
<1> HIDE DEF w
<1>4. \A cmd, n : Command(cmd, <<>>, n).cmd = cmd /\ Command(cmd, <<>>, n).next = n BY DEF Command
<1>5. ASSUME w.cmd \in {"SUBSCRIBE", "UNSUBSCRIBE", "DELAY"} PROVE Rest BY <1>3, <1>4, <1>5
<1>6. ASSUME NEW word \in Words, At(t, p, word)
      PROVE  p + Len(word) \in Places(t) /\ p \in 1 .. p + Len(word)
  <2>1. p + Len(word) \in Places(t) /\ Len(word) \in Nat BY <1>6, AtPlace
  <2> QED BY <2>1, PlaceType
<1>7. CASE Plain(t, p, w, ALONE)
  <2>1. w.cmd \notin {"SUBSCRIBE", "UNSUBSCRIBE", "DELAY"} BY <1>7 DEF Plain
  <2>2. c = w BY <1>1, <2>1
  <2>3. Taken BY <1>7, <2>2 DEF Plain
  <2>4. ~ At(t, p, SUBSCRIBE) /\ ~ At(t, p, UNSUBSCRIBE) /\ ~ At(t, p, DELAY)
    BY <1>2, <1>4, <2>1
  <2>5. Found(SUBSCRIBE, "SUBSCRIBE") /\ Found(UNSUBSCRIBE, "UNSUBSCRIBE") /\ Delays BY <2>4
  <2>6. Rest BY <1>3, <2>2
  <2> HIDE DEF Taken, Found, Delays, Rest
  <2> QED BY <2>3, <2>5, <2>6
<1>8. CASE At(t, p, DELAY) /\ w = Command("DELAY", <<>>, p + Len(DELAY))
  <2> DEFINE q == p + Len(DELAY)
  <2>1. w.cmd = "DELAY" /\ w.next = q BY <1>4, <1>8
  <2>2. c = parse_delay(t, q, fits) BY <1>1, <2>1
  <2>3. q \in Places(t) /\ p \in 1 .. q BY <1>6, <1>8, ClientWords
  <2>4. \/ Plain(t, p, c, {"INVALID"})
        \/ (c.cmd = "DELAY" /\ c.args = <<>> /\ c.next \in p .. Len(t) + 1)
    <3> HIDE DEF q
    <3> QED BY <2>2, <2>3, ParseDelayIs
  <2>5. \A d \in Digits \ {HugeNumber} :
          At(t, q, <<d>> \o <<NL>>) => c = Command("DELAY", <<>>, q + 2)
    <3> HIDE DEF q
    <3> QED BY <2>2, <2>3, ParseDelayIs
  <2>6. Taken BY <2>4 DEF Plain
  <2>7. Delays BY <2>5
  <2>8. ~ At(t, p, SUBSCRIBE) /\ ~ At(t, p, UNSUBSCRIBE) BY <1>2, <1>4, <2>1
  <2>9. Found(SUBSCRIBE, "SUBSCRIBE") /\ Found(UNSUBSCRIBE, "UNSUBSCRIBE") BY <2>8
  <2>10. Rest BY <1>5, <2>1
  <2> HIDE DEF Taken, Found, Delays, Rest
  <2> QED BY <2>6, <2>7, <2>9, <2>10
<1>9. CASE At(t, p, SUBSCRIBE) /\ w = Command("SUBSCRIBE", <<>>, p + Len(SUBSCRIBE))
  <2> DEFINE q == p + Len(SUBSCRIBE)
  <2>1. w.cmd = "SUBSCRIBE" /\ w.next = q BY <1>4, <1>9
  <2>2. c = parse_list(t, q, "SUBSCRIBE") BY <1>1, <2>1
  <2>3. q \in Places(t) /\ p \in 1 .. q BY <1>6, <1>9, ClientWords
  <2>4. /\ \/ Plain(t, p, c, {"INVALID"})
           \/ (c.cmd = "SUBSCRIBE" /\ KeysTaken(t, p, q, c, 1))
        /\ \A ss \in Seq(Strings) :
             ss # <<>> /\ Len(ss) <= 1 /\ Bracketed(t, q, CommaList(ss))
             => c.cmd = "SUBSCRIBE" /\ c.args = ss
    <3> HIDE DEF q
    <3>1. "SUBSCRIBE" # "INVALID" OBVIOUS
    <3> QED BY <2>2, <2>3, <3>1, ParseListIs
  <2>5. Taken BY <1>9, <2>4 DEF Plain
  <2>6. Found(SUBSCRIBE, "SUBSCRIBE") BY <2>4
  <2>7. ~ At(t, p, UNSUBSCRIBE) /\ ~ At(t, p, DELAY) BY <1>2, <1>4, <2>1
  <2>8. Delays /\ Found(UNSUBSCRIBE, "UNSUBSCRIBE") BY <2>7
  <2>9. Rest BY <1>5, <2>1
  <2> HIDE DEF Taken, Found, Delays, Rest
  <2> QED BY <2>5, <2>6, <2>8, <2>9
<1>10. CASE At(t, p, UNSUBSCRIBE) /\ w = Command("UNSUBSCRIBE", <<>>, p + Len(UNSUBSCRIBE))
  <2> DEFINE q == p + Len(UNSUBSCRIBE)
  <2>1. w.cmd = "UNSUBSCRIBE" /\ w.next = q BY <1>4, <1>10
  <2>2. c = parse_list(t, q, "UNSUBSCRIBE") BY <1>1, <2>1
  <2>3. q \in Places(t) /\ p \in 1 .. q BY <1>6, <1>10, ClientWords
  <2>4. /\ \/ Plain(t, p, c, {"INVALID"})
           \/ (c.cmd = "UNSUBSCRIBE" /\ KeysTaken(t, p, q, c, 1))
        /\ \A ss \in Seq(Strings) :
             ss # <<>> /\ Len(ss) <= 1 /\ Bracketed(t, q, CommaList(ss))
             => c.cmd = "UNSUBSCRIBE" /\ c.args = ss
    <3> HIDE DEF q
    <3>1. "UNSUBSCRIBE" # "INVALID" OBVIOUS
    <3> QED BY <2>2, <2>3, <3>1, ParseListIs
  <2>5. Taken BY <1>10, <2>4 DEF Plain
  <2>6. Found(UNSUBSCRIBE, "UNSUBSCRIBE") BY <2>4
  <2>7. ~ At(t, p, SUBSCRIBE) /\ ~ At(t, p, DELAY) BY <1>2, <1>4, <2>1
  <2>8. Delays /\ Found(SUBSCRIBE, "SUBSCRIBE") BY <2>7
  <2>9. Rest BY <1>5, <2>1
  <2> HIDE DEF Taken, Found, Delays, Rest
  <2> QED BY <2>5, <2>6, <2>8, <2>9
<1> HIDE DEF Taken, Found, Delays, Rest, Word1
<1> QED BY <1>2, <1>7, <1>8, <1>9, <1>10

-----------------------------------------------------------------------------
(* What holds of every command that is taken.                              *)

\* What is taken fits: see TakenFits.
Fits(c, max) ==
  c.cmd \in WithArguments =>
    /\ Len(c.args) <= max
    /\ \A i \in DOMAIN c.args :
         IF c.cmd = "WRITE" THEN \A j \in 1 .. 2 : Len(c.args[i][j]) < MAX_STRING_SIZE
                            ELSE Len(c.args[i]) < MAX_STRING_SIZE

\* What is taken was written: see TakenAsWritten.
WasWritten(t, p, c) ==
  c.cmd \in WithArguments => SubSeq(t, p, c.next - 1) = Written(c.cmd, c.args) \o <<NL>>

\* A word, and what is in the brackets behind it.
InBrackets(a, b) == ((a \o <<"[">>) \o b) \o <<"]">>

\* What is in a text up to a line feed; the name is there as for InARow.
IsLine(t, p, n, s) == SubSeq(t, p, n) = s \o <<NL>>

\* What is read up to a line feed is written.
LEMMA WrittenAt ==
  ASSUME NEW t \in Words, NEW p \in Places(t), NEW a \in Words, NEW b \in Words,
         NEW q, q = p + Len(a), At(t, p, a), Bracketed(t, q, b),
         NEW n, n = q + Len(b) + 2
  PROVE  IsLine(t, p, n, InBrackets(a, b))
<1> DEFINE all == InBrackets(a, b)
           s == all \o <<NL>>
<1>1. At(t, p, s) /\ Len(all) = Len(a) + Len(b) + 2 /\ all \in Words
  BY BracketedIs DEF InBrackets
<1>2. Len(a) \in Nat /\ Len(b) \in Nat /\ p \in Nat BY TextType, PlaceType DEF Words
<1> HIDE DEF all
<1>3. s \in Words /\ Len(s) = Len(all) + 1
  <2> DEFINE l == <<NL>>
  <2>1. l \in Words /\ Len(l) = 1 BY SignType
  <2> HIDE DEF l
  <2>2. all \o l \in Words /\ Len(all \o l) = Len(all) + Len(l)
    BY <1>1, <2>1, ConcatProperties DEF Words
  <2> QED BY <2>1, <2>2 DEF l
<1> HIDE DEF s
<1>4. SubSeq(t, p, p + Len(s) - 1) = s
  <2>1. t \in Seq(Characters) /\ p \in 1 .. Len(t) + 1 /\ s \in Seq(Characters)
    BY <1>3, PlaceType DEF Words
  <2>2. At(t, p, s) => SubSeq(t, p, p + Len(s) - 1) = s BY <2>1, AtIsPart
  <2> QED BY <1>1, <2>2
<1>5. p + Len(s) - 1 = n BY <1>1, <1>2, <1>3
<1> QED BY <1>4, <1>5 DEF s, all, IsLine

\* How long a command with a list is.
LEMMA WrittenLength ==
  ASSUME NEW a \in Words, NEW b \in Words, NEW p \in Nat, NEW n,
         n = (p + Len(a)) + Len(b) + 3
  PROVE  n = p + Len(InBrackets(a, b)) + 1
<1> DEFINE t == a
           all == InBrackets(a, b)
<1>1. 1 \in Places(t) BY TextType DEF Places, Words
<1>2. Len(all) = Len(a) + Len(b) + 2 BY <1>1, BracketedIs DEF InBrackets
<1>3. Len(a) \in Nat /\ Len(b) \in Nat BY TextType DEF Words
<1> HIDE DEF all
<1> QED BY <1>2, <1>3 DEF all

\* Lists of the language as functions are sequences.
LEMMA SeqsUpToAre ==
  ASSUME NEW S, NEW n \in Int, NEW x \in SeqsUpTo(S, n)
  PROVE  x \in Seq(S) /\ x # <<>> /\ Len(x) <= n
<1>1. PICK k \in 1 .. n : x \in [1 .. k -> S] BY DEF SeqsUpTo
<1>2. x \in Seq(S) BY <1>1, SeqDef
<1>3. Len(x) = k BY <1>1, <1>2, LenProperties
<1> QED BY <1>1, <1>2, <1>3, EmptySeq

\* A key and a value of the language make a pair of it.
LEMMA TwoStrings == [1 .. 2 -> Strings] \subseteq StringPairs
<1> SUFFICES ASSUME NEW w \in [1 .. 2 -> Strings] PROVE w \in StringPairs OBVIOUS
<1>1. 2 \in Nat OBVIOUS
<1>2. w \in Seq(Strings) BY <1>1, SeqDef
<1>3. Len(w) = 2 BY <1>2, LenProperties
<1> QED BY <1>2, <1>3 DEF StringPairs

\* What a command with a list of keys has if it was taken.
LEMMA KeysOf ==
  ASSUME NEW t \in Words, NEW p \in Places(t), NEW word \in Words, At(t, p, word),
         NEW cmd \in WithArguments \ {"WRITE"}, NEW max \in Nat,
         \A ss \in Lists : Written(cmd, ss) = List(word, ss),
         NEW c, c.cmd = cmd, KeysTaken(t, p, p + Len(word), c, max)
  PROVE  /\ c.next \in p .. Len(t) + 1 /\ Resumes(t, c.next)
         /\ Fits(c, max) /\ WasWritten(t, p, c)
         /\ c.next = p + Len(List(word, c.args)) + 1
<1> DEFINE b == CommaList(c.args)
           q == p + Len(word)
<1>1. /\ c.args \in Lists /\ Len(c.args) <= max
      /\ \A i \in 1 .. Len(c.args) : Len(c.args[i]) < MAX_STRING_SIZE
      /\ Bracketed(t, q, b) /\ c.next = q + Len(b) + 3
      /\ c.next \in p .. Len(t) + 1 /\ Resumes(t, c.next)
  BY DEF KeysTaken
<1>2. b \in Words BY <1>1, CommaListType
<1>3. DOMAIN c.args = 1 .. Len(c.args) BY <1>1, LenProperties DEF Lists
<1>4. Fits(c, max) BY <1>1, <1>3 DEF Fits
<1>5. Written(c.cmd, c.args) = InBrackets(word, b)
  BY <1>1 DEF List, InBrackets
<1>6. SubSeq(t, p, c.next - 1) = InBrackets(word, b) \o <<NL>>
  <2> DEFINE n == c.next - 1
  <2>1. /\ n = q + Len(b) + 2 /\ Bracketed(t, q, b)
        /\ b \in Words /\ q = p + Len(word)
    <3>1. Len(word) \in Nat /\ Len(b) \in Nat /\ p \in Nat
      BY <1>2, TextType, PlaceType DEF Words
    <3> HIDE DEF b
    <3> QED BY <1>1, <1>2, <3>1
  <2> HIDE DEF n, b, q
  <2>2. IsLine(t, p, n, InBrackets(word, b)) BY <2>1, WrittenAt
  <2> QED BY <2>2 DEF n, IsLine
<1>7. WasWritten(t, p, c) BY <1>5, <1>6 DEF WasWritten
<1>8. c.next = p + Len(List(word, c.args)) + 1
  <2> DEFINE n == c.next
  <2>1. n = (p + Len(word)) + Len(b) + 3 /\ p \in Nat BY <1>1, PlaceType
  <2> HIDE DEF n, b
  <2>2. n = p + Len(InBrackets(word, b)) + 1 BY <1>2, <2>1, WrittenLength
  <2> QED BY <2>2 DEF n, b, List, InBrackets
<1> QED BY <1>1, <1>4, <1>7, <1>8

\* What a WRITE has if it was taken.
LEMMA PairsOf ==
  ASSUME NEW t \in Words, NEW p \in Places(t), At(t, p, WRITE),
         NEW c, c.cmd = "WRITE", PairsTaken(t, p, p + Len(WRITE), c)
  PROVE  /\ c.next \in p .. Len(t) + 1 /\ Resumes(t, c.next)
         /\ Fits(c, MAX_WRITE_SIZE) /\ WasWritten(t, p, c)
         /\ c.next = p + Len(Written("WRITE", c.args)) + 1
<1> DEFINE b == Pairs(c.args)
           q == p + Len(WRITE)
<1>1. /\ c.args \in Seq(Twos) /\ Len(c.args) < MAX_WRITE_SIZE
      /\ \A i \in 1 .. Len(c.args) : \A j \in 1 .. 2 : Len(c.args[i][j]) < MAX_STRING_SIZE
      /\ Bracketed(t, q, b) /\ c.next = q + Len(b) + 3
      /\ c.next \in p .. Len(t) + 1 /\ Resumes(t, c.next)
  BY DEF PairsTaken
<1>2. b \in Words /\ WRITE \in Words BY <1>1, TwosAreLists, PairsType, JobWords
<1>3. DOMAIN c.args = 1 .. Len(c.args) /\ Len(c.args) \in Nat BY <1>1, LenProperties
<1>4. Fits(c, MAX_WRITE_SIZE)
  <2>1. MAX_WRITE_SIZE \in Nat BY JobParserAssumption
  <2>2. Len(c.args) <= MAX_WRITE_SIZE BY <1>1, <1>3, <2>1
  <2>3. \A i \in DOMAIN c.args : \A j \in 1 .. 2 : Len(c.args[i][j]) < MAX_STRING_SIZE
    BY <1>1, <1>3
  <2> QED BY <2>2, <2>3 DEF Fits
<1>5. Written("WRITE", c.args) = InBrackets(WRITE, b)
  BY DEF Written, InBrackets
<1>6. SubSeq(t, p, c.next - 1) = InBrackets(WRITE, b) \o <<NL>>
  <2> DEFINE n == c.next - 1
             a == WRITE
  <2>1. /\ n = q + Len(b) + 2 /\ Bracketed(t, q, b) /\ q = p + Len(a)
        /\ a \in Words /\ b \in Words /\ At(t, p, a)
    <3>1. Len(a) \in Nat /\ Len(b) \in Nat /\ p \in Nat
      BY <1>2, TextType, PlaceType DEF Words
    <3> HIDE DEF b
    <3> QED BY <1>1, <1>2, <3>1
  <2> HIDE DEF n, b, a, q
  <2>2. IsLine(t, p, n, InBrackets(a, b)) BY <2>1, WrittenAt
  <2> QED BY <2>2 DEF n, a, IsLine
<1>7. WasWritten(t, p, c) BY <1>5, <1>6 DEF WasWritten
<1>8. c.next = p + Len(InBrackets(WRITE, b)) + 1
  <2> DEFINE n == c.next
             a == WRITE
  <2>1. n = (p + Len(a)) + Len(b) + 3 /\ p \in Nat /\ a \in Words BY <1>1, <1>2, PlaceType
  <2> HIDE DEF n, b, a
  <2>2. n = p + Len(InBrackets(a, b)) + 1 BY <1>2, <2>1, WrittenLength
  <2> QED BY <2>2 DEF n, a
<1> QED BY <1>1, <1>4, <1>5, <1>7, <1>8

\* A line of the language with its list in brackets.
LEMMA LineOf ==
  ASSUME NEW t \in Words, NEW p \in Places(t), NEW a \in Words, NEW b \in Words, NEW s,
         s = InBrackets(a, b), At(t, p, s \o <<NL>>)
  PROVE  At(t, p, a) /\ Bracketed(t, p + Len(a), b)
  BY BracketedIs DEF InBrackets

\* A word with a digit behind it, alone on its line.
LEMMA LineOfDelay ==
  ASSUME NEW t \in Words, NEW p \in Places(t), NEW a \in Words, NEW d \in Digits,
         At(t, p, (a \o <<d>>) \o <<NL>>)
  PROVE  /\ At(t, p, a) /\ At(t, p + Len(a), <<d>> \o <<NL>>)
         /\ p + Len(a) + 2 = p + Len(a \o <<d>>) + 1
<1> DEFINE e == <<d>>
           l == <<NL>>
           q == p + Len(a)
<1>1. e \in Words /\ l \in Words /\ Len(e) = 1
  <2>1. d \in Characters BY CommandTextAssumption
  <2>2. <<d>> \in Words BY <2>1 DEF Words
  <2>3. Len(<<d>>) = 1 OBVIOUS
  <2> QED BY <2>2, <2>3, SignType
<1>2. Len(a) \in Nat /\ p \in Nat BY TextType, PlaceType DEF Words
<1> HIDE DEF e, l, q
<1>3. InARow(a, e, l) /\ e \o l \in Words BY <1>1, Associative, ConcatType
<1>4. At(t, p, a \o (e \o l)) BY <1>3 DEF InARow, e, l
<1>5. q = p + Len(a) BY DEF q
<1>6. At(t, p, a) /\ At(t, q, e \o l) BY <1>3, <1>4, <1>5, AtBoth
<1>7. Len(a \o e) = Len(a) + Len(e) BY <1>1, ConcatProperties DEF Words
<1>8. p + Len(a) + 2 = p + Len(a \o e) + 1 BY <1>1, <1>2, <1>7
<1> QED BY <1>6, <1>8 DEF e, l, q

\* A line that is found is there, with its line feed.
LEMMA LineAt ==
  ASSUME NEW t \in Words, NEW p \in Places(t), Find(t, p, {NL}) <= Len(t)
  PROVE  /\ SubSeq(t, p, Find(t, p, {NL}) - 1) \in Words
         /\ Find(t, p, {NL}) = p + Len(SubSeq(t, p, Find(t, p, {NL}) - 1))
         /\ At(t, p, SubSeq(t, p, Find(t, p, {NL}) - 1) \o <<NL>>)
<1> DEFINE end == Find(t, p, {NL})
           e == end - 1
           line == SubSeq(t, p, e)
<1>1. Len(t) \in Nat /\ p \in Nat \ {0} /\ p <= Len(t) + 1 BY PlaceType
<1>2. end \in p .. Len(t) /\ t[end] = NL
  <2>1. end \in p .. Len(t) + 1 /\ (end <= Len(t) => t[end] \in {NL})
    BY PlaceType, FindIs
  <2> HIDE DEF end
  <2>2. end <= Len(t) BY DEF end
  <2> QED BY <1>1, <2>1, <2>2
<1> HIDE DEF end
<1>3. /\ p \in Int /\ e \in Int /\ p <= e + 1 /\ end = e + 1 /\ e <= Len(t)
  BY <1>1, <1>2
<1> HIDE DEF e
<1>4. \A i \in p .. e : t[i] \in Characters
  <2>1. \A i \in 1 .. Len(t) : t[i] \in Characters BY PlaceType, TextType
  <2> QED BY <1>1, <1>3, <2>1
<1>5. line \in Seq(Characters) /\ Len(line) = IF p <= e THEN e - p + 1 ELSE 0
  BY <1>3, <1>4, SubSeqProperties
<1>6. p + Len(line) - 1 = e /\ end = p + Len(line) /\ line \in Words BY <1>3, <1>5 DEF Words
<1>7. At(t, p, line)
  <2>1. line = SubSeq(t, p, p + Len(line) - 1) BY <1>6
  <2> HIDE DEF line
  <2>2. p + Len(line) <= Len(t) + 1 BY <1>1, <1>2, <1>6
  <2> QED BY <1>5, <2>1, <2>2, PlaceType, AtIsPart
<1>8. At(t, end, <<NL>>) BY <1>1, <1>2, PlaceType, AtChar
<1>9. <<NL>> \in Words BY SignType
<1> HIDE DEF line
<1>10. At(t, p, line \o <<NL>>) BY <1>6, <1>7, <1>8, <1>9, AtBoth
<1> QED BY <1>6, <1>10 DEF line, end, e

-----------------------------------------------------------------------------
(* The lines of the language are understood.                               *)

\* What a line means.
Means(m, line, cmd, args) == m[1] = line /\ m[2].cmd = cmd /\ m[2].args = args

\* The lines of a job.
LEMMA JobMeaningsAre ==
  ASSUME NEW m \in JobMeanings
  PROVE  \/ \E pp \in Seq(StringPairs) :
              /\ pp # <<>> /\ Len(pp) < MAX_WRITE_SIZE
              /\ Means(m, Written("WRITE", pp), "WRITE", pp)
         \/ \E cmd \in {"READ", "DELETE"}, ss \in Seq(Strings) :
              /\ ss # <<>> /\ Len(ss) < MAX_WRITE_SIZE
              /\ Means(m, Written(cmd, ss), cmd, ss)
         \/ Means(m, SHOW, "SHOW", <<>>) \/ Means(m, BACKUP, "BACKUP", <<>>)
         \/ Means(m, HELP, "HELP", <<>>)
         \/ \E d \in Digits \ {HugeNumber} : Means(m, WAIT \o <<d>>, "WAIT", <<>>)
         \/ Means(m, <<>>, "EMPTY", <<>>)
<1> DEFINE T == [1 .. 2 -> Strings]
           max == MAX_WRITE_SIZE - 1
           W == [cmd : {"WRITE"}, args : SeqsUpTo(T, max)]
           K == [cmd : {"READ", "DELETE"}, args : SeqsUpTo(Strings, max)]
           Alone == {<<SHOW, "SHOW">>, <<BACKUP, "BACKUP">>, <<HELP, "HELP">>}
<1>1. \/ m \in {<<Written(c.cmd, c.args), c>> : c \in W \cup K}
      \/ m \in {<<a[1], [cmd |-> a[2], args |-> <<>>]>> : a \in Alone}
      \/ m \in {<<WAIT \o <<d>>, [cmd |-> "WAIT", args |-> <<>>]>> :
                  d \in Digits \ {HugeNumber}}
      \/ m \in {<<<<>>, [cmd |-> "EMPTY", args |-> <<>>]>>}
  BY Zenon DEF JobMeanings, Meanings
<1>2. max \in Int /\ \A n \in Int : n <= max => n < MAX_WRITE_SIZE
  BY JobParserAssumption
<1>3. T \subseteq StringPairs BY TwoStrings
<1>4. Seq(T) \subseteq Seq(StringPairs) BY <1>3, SeqMonotonic
<1> HIDE DEF T, max
<1>5. ASSUME NEW c \in W, m = <<Written(c.cmd, c.args), c>>
      PROVE  \E pp \in Seq(StringPairs) :
               /\ pp # <<>> /\ Len(pp) < MAX_WRITE_SIZE
               /\ Means(m, Written("WRITE", pp), "WRITE", pp)
  <2> DEFINE x == c.args
  <2>1. c.cmd = "WRITE" /\ x \in SeqsUpTo(T, max) BY <1>5
  <2>2. Means(m, Written("WRITE", x), "WRITE", x) BY <1>5, <2>1 DEF Means
  <2> HIDE DEF x
  <2>3. x \in Seq(T) /\ x # <<>> /\ Len(x) <= max BY <1>2, <2>1, SeqsUpToAre
  <2>4. Len(x) \in Int BY <2>3, LenProperties
  <2> QED BY <1>2, <1>4, <2>2, <2>3, <2>4
<1>6. ASSUME NEW c \in K, m = <<Written(c.cmd, c.args), c>>
      PROVE  \E cmd \in {"READ", "DELETE"}, ss \in Seq(Strings) :
               /\ ss # <<>> /\ Len(ss) < MAX_WRITE_SIZE
               /\ Means(m, Written(cmd, ss), cmd, ss)
  <2> DEFINE x == c.args
             y == c.cmd
  <2>1. y \in {"READ", "DELETE"} /\ x \in SeqsUpTo(Strings, max) BY <1>6
  <2>2. Means(m, Written(y, x), y, x) BY <1>6 DEF Means
  <2> HIDE DEF x, y
  <2>3. x \in Seq(Strings) /\ x # <<>> /\ Len(x) <= max BY <1>2, <2>1, SeqsUpToAre
  <2>4. Len(x) \in Int BY <2>3, LenProperties
  <2> QED BY <1>2, <2>1, <2>2, <2>3, <2>4
<1>7. ASSUME NEW a \in Alone, m = <<a[1], [cmd |-> a[2], args |-> <<>>]>>
      PROVE  \/ Means(m, SHOW, "SHOW", <<>>) \/ Means(m, BACKUP, "BACKUP", <<>>)
             \/ Means(m, HELP, "HELP", <<>>)
  <2>1. Means(m, a[1], a[2], <<>>) BY <1>7 DEF Means
  <2>2. \/ (a[1] = SHOW /\ a[2] = "SHOW") \/ (a[1] = BACKUP /\ a[2] = "BACKUP")
        \/ (a[1] = HELP /\ a[2] = "HELP")
    OBVIOUS
  <2> QED BY <2>1, <2>2
<1>8. ASSUME NEW d \in Digits \ {HugeNumber},
             m = <<WAIT \o <<d>>, [cmd |-> "WAIT", args |-> <<>>]>>
      PROVE  Means(m, WAIT \o <<d>>, "WAIT", <<>>)
  BY <1>8 DEF Means
<1>9. ASSUME m = <<<<>>, [cmd |-> "EMPTY", args |-> <<>>]>>
      PROVE  Means(m, <<>>, "EMPTY", <<>>)
  BY <1>9 DEF Means
<1> HIDE DEF W, K, Alone
<1> QED BY <1>1, <1>5, <1>6, <1>7, <1>8, <1>9

\* How the commands with a list of keys are written.
LEMMA WrittenKeys ==
  \A ss \in Lists :
    /\ Written("READ", ss) = List(READ, ss)
    /\ Written("DELETE", ss) = List(DELETE, ss)
    /\ Written("SUBSCRIBE", ss) = List(SUBSCRIBE, ss)
    /\ Written("UNSUBSCRIBE", ss) = List(UNSUBSCRIBE, ss)
  BY DEF Written

\* What a command has that is not refused.
Took(t, p, c, max) ==
  /\ c.next \in p .. Len(t) + 1
  /\ Resumes(t, c.next) \/ c.cmd = "DELAY"
  /\ Fits(c, max) /\ WasWritten(t, p, c)
  /\ c.cmd \in WithArguments => c.next = p + Len(Written(c.cmd, c.args)) + 1

\* A command with no arguments has it.
LEMMA PlainTook ==
  ASSUME NEW t, NEW p, NEW max, NEW c, NEW cmds, cmds \cap WithArguments = {},
         Plain(t, p, c, cmds)
  PROVE  Took(t, p, c, max)
<1>1. c.cmd \notin WithArguments BY DEF Plain
<1> QED BY <1>1 DEF Took, Plain, Fits, WasWritten

\* One with a list of keys has it.
LEMMA KeysTook ==
  ASSUME NEW t \in Words, NEW p \in Places(t), NEW word \in Words, At(t, p, word),
         NEW cmd \in WithArguments \ {"WRITE"}, NEW max \in Nat,
         \A ss \in Lists : Written(cmd, ss) = List(word, ss),
         NEW c, c.cmd = cmd, KeysTaken(t, p, p + Len(word), c, max)
  PROVE  Took(t, p, c, max)
<1>1. /\ c.next \in p .. Len(t) + 1 /\ Resumes(t, c.next)
      /\ Fits(c, max) /\ WasWritten(t, p, c)
      /\ c.next = p + Len(List(word, c.args)) + 1
  BY KeysOf
<1>2. Written(c.cmd, c.args) = List(word, c.args) BY DEF KeysTaken
<1> QED BY <1>1, <1>2 DEF Took

\* What run_job takes or refuses.
LEMMA JobTook ==
  ASSUME NEW t \in Words, NEW p \in Places(t), NEW fits \in BOOLEAN,
         NEW c, c = JobCommand(t, p, fits)
  PROVE  /\ c.cmd \in {"EOC", "SHOW", "BACKUP", "HELP", "EMPTY", "WAIT", "INVALID",
                       "WRITE", "READ", "DELETE"}
         /\ Took(t, p, c, MAX_WRITE_SIZE)
<1> DEFINE PLAIN == {"EOC", "SHOW", "BACKUP", "HELP", "EMPTY", "WAIT", "INVALID"}
<1>1. \/ Plain(t, p, c, PLAIN)
      \/ (c.cmd = "WRITE" /\ At(t, p, WRITE) /\ PairsTaken(t, p, p + Len(WRITE), c))
      \/ (c.cmd = "READ" /\ At(t, p, READ)
            /\ KeysTaken(t, p, p + Len(READ), c, MAX_WRITE_SIZE))
      \/ (c.cmd = "DELETE" /\ At(t, p, DELETE)
            /\ KeysTaken(t, p, p + Len(DELETE), c, MAX_WRITE_SIZE))
  BY JobCommandIs
<1>2. MAX_WRITE_SIZE \in Nat BY JobParserAssumption
<1>3. CASE Plain(t, p, c, PLAIN)
  <2>1. PLAIN \cap WithArguments = {} BY DEF WithArguments
  <2>2. c.cmd \in PLAIN BY <1>3 DEF Plain
  <2> HIDE DEF PLAIN
  <2>3. Took(t, p, c, MAX_WRITE_SIZE) BY <1>3, <2>1, PlainTook
  <2> QED BY <2>2, <2>3 DEF PLAIN
<1>4. CASE c.cmd = "WRITE" /\ At(t, p, WRITE) /\ PairsTaken(t, p, p + Len(WRITE), c)
  BY <1>4, PairsOf DEF Took
<1>5. CASE c.cmd = "READ" /\ At(t, p, READ)
             /\ KeysTaken(t, p, p + Len(READ), c, MAX_WRITE_SIZE)
  <2>1. "READ" \in WithArguments \ {"WRITE"} BY DEF WithArguments
  <2>2. \A ss \in Lists : Written("READ", ss) = List(READ, ss) BY WrittenKeys
  <2>3. Took(t, p, c, MAX_WRITE_SIZE) BY <1>2, <1>5, <2>1, <2>2, KeysTook, JobWords
  <2> QED BY <1>5, <2>3
<1>6. CASE c.cmd = "DELETE" /\ At(t, p, DELETE)
             /\ KeysTaken(t, p, p + Len(DELETE), c, MAX_WRITE_SIZE)
  <2>1. "DELETE" \in WithArguments \ {"WRITE"} BY DEF WithArguments
  <2>2. \A ss \in Lists : Written("DELETE", ss) = List(DELETE, ss) BY WrittenKeys
  <2>3. Took(t, p, c, MAX_WRITE_SIZE) BY <1>2, <1>6, <2>1, <2>2, KeysTook, JobWords
  <2> QED BY <1>6, <2>3
<1> QED BY <1>1, <1>3, <1>4, <1>5, <1>6

\* What the client's main takes or refuses.
LEMMA ClientTook ==
  ASSUME NEW t \in Words, NEW p \in Places(t), NEW fits \in BOOLEAN,
         NEW c, c = ClientCommand(t, p, fits)
  PROVE  /\ c.cmd \in {"EOC", "DISCONNECT", "EMPTY", "INVALID", "DELAY",
                       "SUBSCRIBE", "UNSUBSCRIBE"}
         /\ Took(t, p, c, 1)
<1> DEFINE PLAIN == {"EOC", "DISCONNECT", "EMPTY", "INVALID"}
<1>1. \/ Plain(t, p, c, PLAIN)
      \/ (c.cmd = "DELAY" /\ c.args = <<>> /\ c.next \in p .. Len(t) + 1)
      \/ (c.cmd = "SUBSCRIBE" /\ At(t, p, SUBSCRIBE)
            /\ KeysTaken(t, p, p + Len(SUBSCRIBE), c, 1))
      \/ (c.cmd = "UNSUBSCRIBE" /\ At(t, p, UNSUBSCRIBE)
            /\ KeysTaken(t, p, p + Len(UNSUBSCRIBE), c, 1))
  BY ClientCommandIs
<1>2. 1 \in Nat OBVIOUS
<1>3. CASE Plain(t, p, c, PLAIN)
  <2>1. PLAIN \cap WithArguments = {} BY DEF WithArguments
  <2>2. c.cmd \in PLAIN BY <1>3 DEF Plain
  <2> HIDE DEF PLAIN
  <2>3. Took(t, p, c, 1) BY <1>3, <2>1, PlainTook
  <2> QED BY <2>2, <2>3 DEF PLAIN
<1>4. CASE c.cmd = "DELAY" /\ c.args = <<>> /\ c.next \in p .. Len(t) + 1
  BY <1>4 DEF Took, Fits, WasWritten, WithArguments
<1>5. CASE c.cmd = "SUBSCRIBE" /\ At(t, p, SUBSCRIBE)
             /\ KeysTaken(t, p, p + Len(SUBSCRIBE), c, 1)
  <2>1. "SUBSCRIBE" \in WithArguments \ {"WRITE"} BY DEF WithArguments
  <2>2. \A ss \in Lists : Written("SUBSCRIBE", ss) = List(SUBSCRIBE, ss) BY WrittenKeys
  <2>3. Took(t, p, c, 1) BY <1>2, <1>5, <2>1, <2>2, KeysTook, ClientWords
  <2> QED BY <1>5, <2>3
<1>6. CASE c.cmd = "UNSUBSCRIBE" /\ At(t, p, UNSUBSCRIBE)
             /\ KeysTaken(t, p, p + Len(UNSUBSCRIBE), c, 1)
  <2>1. "UNSUBSCRIBE" \in WithArguments \ {"WRITE"} BY DEF WithArguments
  <2>2. \A ss \in Lists : Written("UNSUBSCRIBE", ss) = List(UNSUBSCRIBE, ss) BY WrittenKeys
  <2>3. Took(t, p, c, 1) BY <1>2, <1>6, <2>1, <2>2, KeysTook, ClientWords
  <2> QED BY <1>6, <2>3
<1> QED BY <1>1, <1>3, <1>4, <1>5, <1>6

\* A line of the language is understood: see LinesUnderstood.
Understood(p, c, m) ==
  c.cmd = m[2].cmd /\ c.args = m[2].args /\ c.next = p + Len(m[1]) + 1

\* A line, a word with its keys, and one with its number: names as for InARow.
LineAtPlace(t, p, s) == At(t, p, s \o <<NL>>)
KeysBehind(t, p, word, ss) == At(t, p, word) /\ Bracketed(t, p + Len(word), CommaList(ss))
WithNumber(word, d) == word \o <<d>>
NumberBehind(t, p, word, d) == At(t, p, word) /\ At(t, p + Len(word), <<d>> \o <<NL>>)

\* A line of the language with a list of keys is understood where it is taken.
LEMMA KeysUnderstood ==
  ASSUME NEW t \in Words, NEW p \in Places(t), NEW word \in Words,
         NEW cmd \in WithArguments \ {"WRITE"}, NEW max,
         \A ss \in Lists : Written(cmd, ss) = List(word, ss),
         NEW c, Took(t, p, c, max), NEW ss \in Seq(Strings), ss # <<>>,
         KeysBehind(t, p, word, ss) => c.cmd = cmd /\ c.args = ss,
         NEW m, Means(m, Written(cmd, ss), cmd, ss), LineAtPlace(t, p, m[1])
  PROVE  Understood(p, c, m)
<1> DEFINE s == m[1]
           b == CommaList(ss)
<1>1. ss \in Lists BY StringsAreWords DEF Lists
<1>2. b \in Words BY <1>1, CommaListType
<1>3. s = Written(cmd, ss) /\ m[2].cmd = cmd /\ m[2].args = ss BY DEF Means
<1>4. Written(cmd, ss) = List(word, ss) BY <1>1
<1>5. List(word, ss) = InBrackets(word, b) BY DEF List, InBrackets
<1>6. At(t, p, s \o <<NL>>) BY DEF LineAtPlace
<1> HIDE DEF s, b
<1>7. At(t, p, word) /\ Bracketed(t, p + Len(word), b)
  BY <1>2, <1>3, <1>4, <1>5, <1>6, LineOf
<1>8. c.cmd = cmd /\ c.args = ss BY <1>7 DEF b, KeysBehind
<1>9. c.next = p + Len(s) + 1 BY <1>3, <1>8 DEF Took
<1> QED BY <1>3, <1>8, <1>9 DEF s, Understood

\* One with a list of pairs is.
LEMMA PairsUnderstood ==
  ASSUME NEW t \in Words, NEW p \in Places(t), NEW max,
         NEW c, Took(t, p, c, max), NEW pp \in Seq(StringPairs), pp # <<>>,
         At(t, p, WRITE) /\ Bracketed(t, p + Len(WRITE), Pairs(pp))
           => c.cmd = "WRITE" /\ c.args = pp,
         NEW m, Means(m, Written("WRITE", pp), "WRITE", pp), LineAtPlace(t, p, m[1])
  PROVE  Understood(p, c, m)
<1> DEFINE s == m[1]
           b == Pairs(pp)
           a == WRITE
<1>1. pp \in Seq(Lists) BY StringPairsAre
<1>2. b \in Words /\ a \in Words BY <1>1, PairsType, JobWords
<1>3. s = Written("WRITE", pp) /\ m[2].cmd = "WRITE" /\ m[2].args = pp BY DEF Means
<1>4. Written("WRITE", pp) = InBrackets(a, b) BY DEF Written, InBrackets
<1>5. At(t, p, s \o <<NL>>) BY DEF LineAtPlace
<1> HIDE DEF s, b, a
<1>6. At(t, p, a) /\ Bracketed(t, p + Len(a), b) BY <1>2, <1>3, <1>4, <1>5, LineOf
<1>7. c.cmd = "WRITE" /\ c.args = pp BY <1>6 DEF a, b
<1>8. c.next = p + Len(s) + 1 BY <1>3, <1>7 DEF Took, WithArguments
<1> QED BY <1>3, <1>7, <1>8 DEF s, Understood

\* A word alone on its line is.
LEMMA WordUnderstood ==
  ASSUME NEW t, NEW p, NEW word, NEW cmd, NEW c,
         NEW n, n = p + Len(word) + 1, LineAtPlace(t, p, word) => c = Command(cmd, <<>>, n),
         NEW m, Means(m, word, cmd, <<>>), LineAtPlace(t, p, m[1])
  PROVE  Understood(p, c, m)
<1>1. m[1] = word /\ m[2].cmd = cmd /\ m[2].args = <<>> BY DEF Means
<1>2. c = Command(cmd, <<>>, n) BY <1>1
<1>3. c.cmd = cmd /\ c.args = <<>> /\ c.next = p + Len(word) + 1 BY <1>2 DEF Command
<1> QED BY <1>1, <1>3 DEF Understood

\* An empty line is.
LEMMA NothingUnderstood ==
  ASSUME NEW t \in Words, NEW p \in Places(t), NEW c,
         At(t, p, <<NL>>) => c = Command("EMPTY", <<>>, p + 1),
         NEW m, Means(m, <<>>, "EMPTY", <<>>), LineAtPlace(t, p, m[1])
  PROVE  Understood(p, c, m)
<1>1. m[1] = <<>> /\ m[2].cmd = "EMPTY" /\ m[2].args = <<>> BY DEF Means
<1>2. <<>> \o <<NL>> = <<NL>>
  <2> DEFINE l == <<NL>>
  <2>1. l \in Words BY SignType
  <2> HIDE DEF l
  <2>2. <<>> \o l = l BY <2>1, ConcatEmptySeq DEF Words
  <2> QED BY <2>2 DEF l
<1>3. At(t, p, <<NL>>) BY <1>1, <1>2 DEF LineAtPlace
<1>4. c.cmd = "EMPTY" /\ c.args = <<>> /\ c.next = p + 1 BY <1>3 DEF Command
<1>5. Len(<<>>) = 0 /\ p + 0 + 1 = p + 1 BY PlaceType
<1> QED BY <1>1, <1>4, <1>5 DEF Understood

\* A word with a number is.
LEMMA NumberUnderstood ==
  ASSUME NEW t \in Words, NEW p \in Places(t), NEW word \in Words, NEW cmd,
         NEW d \in Digits, NEW c,
         NEW n, n = p + Len(word) + 2, NumberBehind(t, p, word, d) => c = Command(cmd, <<>>, n),
         NEW m, Means(m, WithNumber(word, d), cmd, <<>>), LineAtPlace(t, p, m[1])
  PROVE  Understood(p, c, m)
<1>1. m[1] = word \o <<d>> /\ m[2].cmd = cmd /\ m[2].args = <<>> BY DEF Means, WithNumber
<1>2. At(t, p, (word \o <<d>>) \o <<NL>>) BY <1>1 DEF LineAtPlace
<1>3. /\ At(t, p, word) /\ At(t, p + Len(word), <<d>> \o <<NL>>)
      /\ p + Len(word) + 2 = p + Len(word \o <<d>>) + 1
  BY <1>2, LineOfDelay
<1>4. c = Command(cmd, <<>>, n) BY <1>3 DEF NumberBehind
<1>5. c.cmd = cmd /\ c.args = <<>> /\ c.next = p + Len(word) + 2 BY <1>4 DEF Command
<1> QED BY <1>1, <1>3, <1>5 DEF Understood

\* Every line of a job that run_job comes to is understood.
LEMMA JobUnderstood ==
  ASSUME NEW t \in Words, NEW p \in Places(t), NEW fits \in BOOLEAN,
         NEW c, c = JobCommand(t, p, fits),
         NEW m \in JobMeanings, LineAtPlace(t, p, m[1])
  PROVE  Understood(p, c, m)
<1> DEFINE Pairs1(pp) == At(t, p, WRITE) /\ Bracketed(t, p + Len(WRITE), Pairs(pp))
<1>1. /\ \A pp \in Seq(StringPairs) :
           pp # <<>> /\ Len(pp) < MAX_WRITE_SIZE /\ Pairs1(pp) => c.cmd = "WRITE" /\ c.args = pp
      /\ \A ss \in Seq(Strings) :
           ss # <<>> /\ Len(ss) < MAX_WRITE_SIZE /\ KeysBehind(t, p, READ, ss)
           => c.cmd = "READ" /\ c.args = ss
      /\ \A ss \in Seq(Strings) :
           ss # <<>> /\ Len(ss) < MAX_WRITE_SIZE /\ KeysBehind(t, p, DELETE, ss)
           => c.cmd = "DELETE" /\ c.args = ss
  BY JobCommandIs DEF KeysBehind
<1>2. /\ \A d \in Digits \ {HugeNumber} :
           NumberBehind(t, p, WAIT, d) => c = Command("WAIT", <<>>, p + Len(WAIT) + 2)
      /\ LineAtPlace(t, p, SHOW) => c = Command("SHOW", <<>>, p + Len(SHOW) + 1)
      /\ LineAtPlace(t, p, BACKUP) => c = Command("BACKUP", <<>>, p + Len(BACKUP) + 1)
      /\ LineAtPlace(t, p, HELP) => c = Command("HELP", <<>>, p + Len(HELP) + 1)
      /\ At(t, p, <<NL>>) => c = Command("EMPTY", <<>>, p + 1)
  BY JobCommandIs DEF NumberBehind, LineAtPlace
<1>3. Took(t, p, c, MAX_WRITE_SIZE) BY JobTook
<1>4. "READ" \in WithArguments \ {"WRITE"} /\ "DELETE" \in WithArguments \ {"WRITE"}
  BY DEF WithArguments
<1>5. ASSUME NEW pp \in Seq(StringPairs), pp # <<>>, Len(pp) < MAX_WRITE_SIZE,
             Means(m, Written("WRITE", pp), "WRITE", pp)
      PROVE  Understood(p, c, m)
  <2>1. Pairs1(pp) => c.cmd = "WRITE" /\ c.args = pp BY <1>1, <1>5
  <2> QED BY <1>3, <1>5, <2>1, PairsUnderstood
<1>6. ASSUME NEW ss \in Seq(Strings), ss # <<>>, Len(ss) < MAX_WRITE_SIZE,
             Means(m, Written("READ", ss), "READ", ss)
      PROVE  Understood(p, c, m)
  <2>1. KeysBehind(t, p, READ, ss) => c.cmd = "READ" /\ c.args = ss BY <1>1, <1>6
  <2>2. \A xs \in Lists : Written("READ", xs) = List(READ, xs) BY WrittenKeys
  <2> QED BY <1>3, <1>4, <1>6, <2>1, <2>2, KeysUnderstood, JobWords
<1>7. ASSUME NEW ss \in Seq(Strings), ss # <<>>, Len(ss) < MAX_WRITE_SIZE,
             Means(m, Written("DELETE", ss), "DELETE", ss)
      PROVE  Understood(p, c, m)
  <2>1. KeysBehind(t, p, DELETE, ss) => c.cmd = "DELETE" /\ c.args = ss BY <1>1, <1>7
  <2>2. \A xs \in Lists : Written("DELETE", xs) = List(DELETE, xs) BY WrittenKeys
  <2> QED BY <1>3, <1>4, <1>7, <2>1, <2>2, KeysUnderstood, JobWords
<1>8. ASSUME \/ Means(m, SHOW, "SHOW", <<>>) \/ Means(m, BACKUP, "BACKUP", <<>>)
             \/ Means(m, HELP, "HELP", <<>>)
      PROVE  Understood(p, c, m)
  <2>1. CASE Means(m, SHOW, "SHOW", <<>>)
    <3> DEFINE n == p + Len(SHOW) + 1
    <3>1. n = p + Len(SHOW) + 1 OBVIOUS
    <3>2. LineAtPlace(t, p, SHOW) => c = Command("SHOW", <<>>, n) BY <1>2, Zenon
    <3> HIDE DEF n
    <3> QED BY <2>1, <3>1, <3>2, WordUnderstood
  <2>2. CASE Means(m, BACKUP, "BACKUP", <<>>)
    <3> DEFINE n == p + Len(BACKUP) + 1
    <3>1. n = p + Len(BACKUP) + 1 OBVIOUS
    <3>2. LineAtPlace(t, p, BACKUP) => c = Command("BACKUP", <<>>, n) BY <1>2, Zenon
    <3> HIDE DEF n
    <3> QED BY <2>2, <3>1, <3>2, WordUnderstood
  <2>3. CASE Means(m, HELP, "HELP", <<>>)
    <3> DEFINE n == p + Len(HELP) + 1
    <3>1. n = p + Len(HELP) + 1 OBVIOUS
    <3>2. LineAtPlace(t, p, HELP) => c = Command("HELP", <<>>, n) BY <1>2, Zenon
    <3> HIDE DEF n
    <3> QED BY <2>3, <3>1, <3>2, WordUnderstood
  <2> QED BY <1>8, <2>1, <2>2, <2>3
<1>9. ASSUME NEW d \in Digits \ {HugeNumber}, Means(m, WithNumber(WAIT, d), "WAIT", <<>>)
      PROVE  Understood(p, c, m)
  <2> DEFINE n == p + Len(WAIT) + 2
  <2>1. n = p + Len(WAIT) + 2 /\ (NumberBehind(t, p, WAIT, d) => c = Command("WAIT", <<>>, n))
    BY <1>2, <1>9
  <2> HIDE DEF n
  <2> QED BY <1>9, <2>1, NumberUnderstood, JobWords
<1>10. ASSUME Means(m, <<>>, "EMPTY", <<>>) PROVE Understood(p, c, m)
  BY <1>2, <1>10, NothingUnderstood
<1>11. ASSUME NEW cmd \in {"READ", "DELETE"}, NEW ss \in Seq(Strings),
              ss # <<>>, Len(ss) < MAX_WRITE_SIZE, Means(m, Written(cmd, ss), cmd, ss)
       PROVE  Understood(p, c, m)
  BY <1>6, <1>7, <1>11
<1> QED BY <1>5, <1>8, <1>9, <1>10, <1>11, JobMeaningsAre DEF WithNumber

\* The lines a client is told.
LEMMA ClientMeaningsAre ==
  ASSUME NEW m \in ClientMeanings
  PROVE  \/ \E cmd \in {"SUBSCRIBE", "UNSUBSCRIBE"}, ss \in Seq(Strings) :
              ss # <<>> /\ Len(ss) <= 1 /\ Means(m, Written(cmd, ss), cmd, ss)
         \/ Means(m, DISCONNECT, "DISCONNECT", <<>>)
         \/ \E d \in Digits \ {HugeNumber} : Means(m, DELAY \o <<d>>, "DELAY", <<>>)
         \/ Means(m, <<>>, "EMPTY", <<>>)
<1> DEFINE K == [cmd : {"SUBSCRIBE", "UNSUBSCRIBE"}, args : SeqsUpTo(Strings, 1)]
           Alone == {<<DISCONNECT, "DISCONNECT">>}
<1>1. \/ m \in {<<Written(c.cmd, c.args), c>> : c \in K}
      \/ m \in {<<a[1], [cmd |-> a[2], args |-> <<>>]>> : a \in Alone}
      \/ m \in {<<DELAY \o <<d>>, [cmd |-> "DELAY", args |-> <<>>]>> :
                  d \in Digits \ {HugeNumber}}
      \/ m \in {<<<<>>, [cmd |-> "EMPTY", args |-> <<>>]>>}
  BY Zenon DEF ClientMeanings, Meanings
<1>2. 1 \in Int OBVIOUS
<1>3. ASSUME NEW c \in K, m = <<Written(c.cmd, c.args), c>>
      PROVE  \E cmd \in {"SUBSCRIBE", "UNSUBSCRIBE"}, ss \in Seq(Strings) :
               ss # <<>> /\ Len(ss) <= 1 /\ Means(m, Written(cmd, ss), cmd, ss)
  <2> DEFINE x == c.args
             y == c.cmd
  <2>1. y \in {"SUBSCRIBE", "UNSUBSCRIBE"} /\ x \in SeqsUpTo(Strings, 1) BY <1>3
  <2>2. Means(m, Written(y, x), y, x) BY <1>3 DEF Means
  <2> HIDE DEF x, y
  <2>3. x \in Seq(Strings) /\ x # <<>> /\ Len(x) <= 1 BY <1>2, <2>1, SeqsUpToAre
  <2> QED BY <2>1, <2>2, <2>3
<1>4. ASSUME NEW a \in Alone, m = <<a[1], [cmd |-> a[2], args |-> <<>>]>>
      PROVE  Means(m, DISCONNECT, "DISCONNECT", <<>>)
  <2>1. Means(m, a[1], a[2], <<>>) BY <1>4 DEF Means
  <2>2. a[1] = DISCONNECT /\ a[2] = "DISCONNECT" OBVIOUS
  <2> QED BY <2>1, <2>2
<1>5. ASSUME NEW d \in Digits \ {HugeNumber},
             m = <<DELAY \o <<d>>, [cmd |-> "DELAY", args |-> <<>>]>>
      PROVE  Means(m, DELAY \o <<d>>, "DELAY", <<>>)
  BY <1>5 DEF Means
<1>6. ASSUME m = <<<<>>, [cmd |-> "EMPTY", args |-> <<>>]>>
      PROVE  Means(m, <<>>, "EMPTY", <<>>)
  BY <1>6 DEF Means
<1> HIDE DEF K, Alone
<1> QED BY <1>1, <1>3, <1>4, <1>5, <1>6

\* Every line that the client's main comes to is understood.
LEMMA ClientUnderstood ==
  ASSUME NEW t \in Words, NEW p \in Places(t), NEW fits \in BOOLEAN,
         NEW c, c = ClientCommand(t, p, fits),
         NEW m \in ClientMeanings, LineAtPlace(t, p, m[1])
  PROVE  Understood(p, c, m)
<1>1. /\ \A ss \in Seq(Strings) :
           ss # <<>> /\ Len(ss) <= 1 /\ KeysBehind(t, p, SUBSCRIBE, ss)
           => c.cmd = "SUBSCRIBE" /\ c.args = ss
      /\ \A ss \in Seq(Strings) :
           ss # <<>> /\ Len(ss) <= 1 /\ KeysBehind(t, p, UNSUBSCRIBE, ss)
           => c.cmd = "UNSUBSCRIBE" /\ c.args = ss
  BY ClientCommandIs DEF KeysBehind
<1>2. /\ \A d \in Digits \ {HugeNumber} :
           NumberBehind(t, p, DELAY, d) => c = Command("DELAY", <<>>, p + Len(DELAY) + 2)
      /\ LineAtPlace(t, p, DISCONNECT) =>
           c = Command("DISCONNECT", <<>>, p + Len(DISCONNECT) + 1)
      /\ At(t, p, <<NL>>) => c = Command("EMPTY", <<>>, p + 1)
  BY ClientCommandIs DEF NumberBehind, LineAtPlace
<1>3. Took(t, p, c, 1) BY ClientTook
<1>4. /\ "SUBSCRIBE" \in WithArguments \ {"WRITE"}
      /\ "UNSUBSCRIBE" \in WithArguments \ {"WRITE"}
  BY DEF WithArguments
<1>5. ASSUME NEW ss \in Seq(Strings), ss # <<>>, Len(ss) <= 1,
             Means(m, Written("SUBSCRIBE", ss), "SUBSCRIBE", ss)
      PROVE  Understood(p, c, m)
  <2>1. KeysBehind(t, p, SUBSCRIBE, ss) => c.cmd = "SUBSCRIBE" /\ c.args = ss BY <1>1, <1>5
  <2>2. \A xs \in Lists : Written("SUBSCRIBE", xs) = List(SUBSCRIBE, xs) BY WrittenKeys
  <2> QED BY <1>3, <1>4, <1>5, <2>1, <2>2, KeysUnderstood, ClientWords
<1>6. ASSUME NEW ss \in Seq(Strings), ss # <<>>, Len(ss) <= 1,
             Means(m, Written("UNSUBSCRIBE", ss), "UNSUBSCRIBE", ss)
      PROVE  Understood(p, c, m)
  <2>1. KeysBehind(t, p, UNSUBSCRIBE, ss) => c.cmd = "UNSUBSCRIBE" /\ c.args = ss BY <1>1, <1>6
  <2>2. \A xs \in Lists : Written("UNSUBSCRIBE", xs) = List(UNSUBSCRIBE, xs) BY WrittenKeys
  <2> QED BY <1>3, <1>4, <1>6, <2>1, <2>2, KeysUnderstood, ClientWords
<1>7. ASSUME Means(m, DISCONNECT, "DISCONNECT", <<>>) PROVE Understood(p, c, m)
  <2> DEFINE n == p + Len(DISCONNECT) + 1
  <2>1. /\ n = p + Len(DISCONNECT) + 1
        /\ LineAtPlace(t, p, DISCONNECT) => c = Command("DISCONNECT", <<>>, n)
    BY <1>2
  <2> HIDE DEF n
  <2> QED BY <1>7, <2>1, WordUnderstood
<1>8. ASSUME NEW d \in Digits \ {HugeNumber}, Means(m, WithNumber(DELAY, d), "DELAY", <<>>)
      PROVE  Understood(p, c, m)
  <2> DEFINE n == p + Len(DELAY) + 2
  <2>1. n = p + Len(DELAY) + 2 /\ (NumberBehind(t, p, DELAY, d) => c = Command("DELAY", <<>>, n))
    BY <1>2, <1>8
  <2> HIDE DEF n
  <2> QED BY <1>8, <2>1, NumberUnderstood, ClientWords
<1>9. ASSUME Means(m, <<>>, "EMPTY", <<>>) PROVE Understood(p, c, m)
  BY <1>2, <1>9, NothingUnderstood
<1>10. ASSUME NEW cmd \in {"SUBSCRIBE", "UNSUBSCRIBE"}, NEW ss \in Seq(Strings),
              ss # <<>>, Len(ss) <= 1, Means(m, Written(cmd, ss), cmd, ss)
       PROVE  Understood(p, c, m)
  BY <1>5, <1>6, <1>10
<1> QED BY <1>7, <1>8, <1>9, <1>10, ClientMeaningsAre DEF WithNumber

-----------------------------------------------------------------------------
(* What holds in every state.                                              *)

\* The last command is c, and the place is the one behind it.
CameTo(c) == last.cmd = c.cmd /\ last.args = c.args /\ place = c.next

\* The last command is what the parser of the loop makes of the text where it
\* started, and the loop is at the place where the parser stopped.
Inv ==
  /\ loop \in {"job", "client"} /\ text \in Words /\ place \in Places(text)
  /\ \/ place = 1 /\ last.cmd = "none" /\ last.from = 1
     \/ /\ last.from \in Places(text)
        /\ \E fits \in BOOLEAN :
             \/ (loop = "job" /\ CameTo(JobCommand(text, last.from, fits)))
             \/ (loop = "client" /\ CameTo(ClientCommand(text, last.from, fits)))

\* The loops start with it.
LEMMA InitInv == Init => Inv
<1> SUFFICES ASSUME Init PROVE Inv OBVIOUS
<1>1. text \in JobTexts \cup ClientTexts BY DEF Init
<1>2. text \in Words BY <1>1, CommandLoopsAssumption DEF Words
<1>3. 1 \in Places(text) BY <1>2, TextType DEF Places, Words
<1> QED BY <1>2, <1>3 DEF Init, Inv

\* Every turn of them keeps it.
LEMMA NextInv == Inv /\ [Next]_vars => Inv'
<1> SUFFICES ASSUME Inv, [Next]_vars PROVE Inv' OBVIOUS
<1>1. loop \in {"job", "client"} /\ text \in Words /\ place \in Places(text) BY DEF Inv
<1>2. \A c : Turn(c) /\ c.next \in place .. Len(text) + 1 =>
        /\ loop' = loop /\ text' = text /\ last'.from = place /\ place' \in Places(text)
        /\ last'.cmd = c.cmd /\ last'.args = c.args /\ place' = c.next
  BY <1>1, PlaceType DEF Turn, Places
<1>3. CASE JobTurn
  <2>1. PICK fits \in BOOLEAN : Turn(JobCommand(text, place, fits)) BY <1>3 DEF JobTurn
  <2> DEFINE c == JobCommand(text, place, fits)
  <2>2. Turn(c) /\ c = JobCommand(text, place, fits) BY <2>1
  <2> HIDE DEF c
  <2>3. c.next \in place .. Len(text) + 1 BY <1>1, <2>2, JobTook DEF Took
  <2>4. /\ loop' = loop /\ text' = text /\ last'.from = place /\ place' \in Places(text)
        /\ last'.cmd = c.cmd /\ last'.args = c.args /\ place' = c.next
    BY <1>2, <2>2, <2>3
  <2>5. CameTo(JobCommand(text, last.from, fits))' BY <2>2, <2>4 DEF CameTo
  <2>6. loop = "job" BY <1>3 DEF JobTurn
  <2> QED BY <1>1, <2>4, <2>5, <2>6 DEF Inv
<1>4. CASE ClientTurn
  <2>1. PICK fits \in BOOLEAN : Turn(ClientCommand(text, place, fits)) BY <1>4 DEF ClientTurn
  <2> DEFINE c == ClientCommand(text, place, fits)
  <2>2. Turn(c) /\ c = ClientCommand(text, place, fits) BY <2>1
  <2> HIDE DEF c
  <2>3. c.next \in place .. Len(text) + 1 BY <1>1, <2>2, ClientTook DEF Took
  <2>4. /\ loop' = loop /\ text' = text /\ last'.from = place /\ place' \in Places(text)
        /\ last'.cmd = c.cmd /\ last'.args = c.args /\ place' = c.next
    BY <1>2, <2>2, <2>3
  <2>5. CameTo(ClientCommand(text, last.from, fits))' BY <2>2, <2>4 DEF CameTo
  <2>6. loop = "client" BY <1>4 DEF ClientTurn
  <2> QED BY <1>1, <2>4, <2>5, <2>6 DEF Inv
<1>5. CASE UNCHANGED vars BY <1>5 DEF vars, Inv, CameTo
<1> QED BY <1>3, <1>4, <1>5 DEF Next

\* So it always holds.
LEMMA SpecInv == Spec => []Inv
  BY InitInv, NextInv, PTL DEF Spec

\* What the two loops differ in.
Limit == IF loop = "job" THEN MAX_WRITE_SIZE ELSE 1
TheMeanings == IF loop = "job" THEN JobMeanings ELSE ClientMeanings
Commands ==
  {"INVALID", "EMPTY", "EOC"} \cup
    IF loop = "job" THEN {"WRITE", "READ", "DELETE", "SHOW", "WAIT", "BACKUP", "HELP"}
                    ELSE {"SUBSCRIBE", "UNSUBSCRIBE", "DELAY", "DISCONNECT"}

\* What is known of the last command, but for the first state.
LEMMA LastTook ==
  ASSUME Inv
  PROVE  \/ place = 1 /\ last.cmd = "none" /\ last.from = 1
         \/ /\ last.from \in Places(text)
            /\ \E c : /\ CameTo(c) /\ c.cmd \in Commands /\ Took(text, last.from, c, Limit)
                      /\ \A m \in TheMeanings : LineAtPlace(text, last.from, m[1])
                                                  => Understood(last.from, c, m)
<1> DEFINE p == last.from
<1>1. CASE place = 1 /\ last.cmd = "none" /\ last.from = 1 BY <1>1
<1>2. ASSUME p \in Places(text), NEW fits \in BOOLEAN,
             loop = "job", CameTo(JobCommand(text, p, fits))
      PROVE  \E c : /\ CameTo(c) /\ c.cmd \in Commands /\ Took(text, p, c, Limit)
                    /\ \A m \in TheMeanings : LineAtPlace(text, p, m[1])
                                                => Understood(p, c, m)
  <2> DEFINE c == JobCommand(text, p, fits)
  <2>0. text \in Words BY DEF Inv
  <2> HIDE DEF p
  <2>1. c.cmd \in {"EOC", "SHOW", "BACKUP", "HELP", "EMPTY", "WAIT", "INVALID",
                   "WRITE", "READ", "DELETE"}
        /\ Took(text, p, c, MAX_WRITE_SIZE)
    BY <1>2, <2>0, JobTook
  <2>2. \A m \in JobMeanings : LineAtPlace(text, p, m[1]) => Understood(p, c, m)
    BY <1>2, <2>0, JobUnderstood
  <2>3. CameTo(c) BY <1>2
  <2> HIDE DEF c
  <2>4. c.cmd \in Commands BY <1>2, <2>1 DEF Commands
  <2> QED BY <1>2, <2>1, <2>2, <2>3, <2>4 DEF Limit, TheMeanings
<1>3. ASSUME p \in Places(text), NEW fits \in BOOLEAN,
             loop = "client", CameTo(ClientCommand(text, p, fits))
      PROVE  \E c : /\ CameTo(c) /\ c.cmd \in Commands /\ Took(text, p, c, Limit)
                    /\ \A m \in TheMeanings : LineAtPlace(text, p, m[1])
                                                => Understood(p, c, m)
  <2> DEFINE c == ClientCommand(text, p, fits)
  <2>0. text \in Words BY DEF Inv
  <2> HIDE DEF p
  <2>1. c.cmd \in {"EOC", "DISCONNECT", "EMPTY", "INVALID", "DELAY",
                   "SUBSCRIBE", "UNSUBSCRIBE"}
        /\ Took(text, p, c, 1)
    BY <1>3, <2>0, ClientTook
  <2>2. \A m \in ClientMeanings : LineAtPlace(text, p, m[1]) => Understood(p, c, m)
    BY <1>3, <2>0, ClientUnderstood
  <2>3. CameTo(c) BY <1>3
  <2> HIDE DEF c
  <2>4. c.cmd \in Commands BY <1>3, <2>1 DEF Commands
  <2> QED BY <1>3, <2>1, <2>2, <2>3, <2>4 DEF Limit, TheMeanings
<1> QED BY <1>1, <1>2, <1>3 DEF Inv

\* A loop takes the commands of its own parser, and never leaves its text; each
\* command is read from where the one before it was left (parser.c:96-175,
\* client/parser.c:95-144).
THEOREM ParsersTypeCorrect == Spec => []TypeOK
<1>1. Inv => TypeOK
  <2> SUFFICES ASSUME Inv PROVE TypeOK OBVIOUS
  <2>1. loop \in {"job", "client"} /\ place \in 1 .. Len(text) + 1 BY DEF Inv, Places
  <2>2. CASE place = 1 /\ last.cmd = "none" /\ last.from = 1 BY <2>1, <2>2 DEF TypeOK
  <2>3. ASSUME last.from \in Places(text), NEW c, CameTo(c), c.cmd \in Commands,
               Took(text, last.from, c, Limit)
        PROVE  TypeOK
    <3>1. last.cmd \in Commands /\ place \in last.from .. Len(text) + 1
      BY <2>3 DEF CameTo, Took
    <3>2. text \in Words BY DEF Inv
    <3>3. Len(text) \in Nat /\ last.from \in Nat \ {0} BY <2>3, <3>2, PlaceType
    <3>4. last.from \in 1 .. place BY <3>1, <3>3
    <3> QED BY <2>1, <3>1, <3>4 DEF TypeOK, Commands
  <2> QED BY <2>2, <2>3, LastTook
<1> QED BY <1>1, SpecInv, PTL

\* Whatever came before it, a line of the language is taken as the command and the
\* arguments it is written for, up to the limits of the arrays (parser.c:96-315,
\* client/parser.c:95-194).
THEOREM LinesAreUnderstood == Spec => []LinesUnderstood
<1>1. Inv => LinesUnderstood
  <2> SUFFICES ASSUME Inv PROVE LinesUnderstood OBVIOUS
  <2> DEFINE end  == Find(text, last.from, {NL})
             line == SubSeq(text, last.from, end - 1)
  <2> SUFFICES ASSUME last.cmd # "none", end <= Len(text), NEW m \in TheMeanings, m[1] = line
               PROVE  last.cmd = m[2].cmd /\ last.args = m[2].args /\ place = end + 1
    BY DEF LinesUnderstood, TheMeanings
  <2>1. PICK c : /\ CameTo(c)
                 /\ LineAtPlace(text, last.from, m[1]) => Understood(last.from, c, m)
    BY LastTook
  <2>2. last.from \in Places(text) /\ text \in Words BY LastTook DEF Inv
  <2>3. end = last.from + Len(line) /\ At(text, last.from, line \o <<NL>>) BY <2>2, LineAt
  <2> HIDE DEF end, line
  <2>4. LineAtPlace(text, last.from, m[1]) BY <2>3 DEF LineAtPlace
  <2>5. c.cmd = m[2].cmd /\ c.args = m[2].args /\ c.next = last.from + Len(line) + 1
    BY <2>1, <2>4 DEF Understood
  <2> QED BY <2>1, <2>3, <2>5 DEF CameTo
<1> QED BY <1>1, SpecInv, PTL

\* The parsers make nothing up: the characters that a command with arguments was read
\* from write that command with those arguments (parser.c:177-287,
\* client/parser.c:146-183).
THEOREM TakenWasWritten == Spec => []TakenAsWritten
<1>1. Inv => TakenAsWritten
  <2> SUFFICES ASSUME Inv PROVE TakenAsWritten OBVIOUS
  <2>1. CASE last.cmd = "none" BY <2>1 DEF TakenAsWritten, WithArguments
  <2>2. ASSUME NEW c, CameTo(c), Took(text, last.from, c, Limit) PROVE TakenAsWritten
    BY <2>2 DEF CameTo, Took, WasWritten, TakenAsWritten
  <2> QED BY <2>1, <2>2, LastTook
<1> QED BY <1>1, SpecInv, PTL

\* A command that is refused takes its whole line with it (cleanup, parser.c:90-94 and
\* client/parser.c:89-93); only what follows the number of a DELAY is left.
THEOREM ResumesAtLines == Spec => []ResumesAtLine
<1>1. Inv => ResumesAtLine
  <2> SUFFICES ASSUME Inv PROVE ResumesAtLine OBVIOUS
  <2>1. CASE place = 1 BY <2>1 DEF ResumesAtLine
  <2>2. ASSUME NEW c, CameTo(c), Took(text, last.from, c, Limit) PROVE ResumesAtLine
    BY <2>2 DEF CameTo, Took, Resumes, ResumesAtLine
  <2> QED BY <2>1, <2>2, LastTook
<1> QED BY <1>1, SpecInv, PTL

\* A command that is taken is no larger than the arrays it is read into
\* (parser.c:22-47, 177-287, client/parser.c:146-183).
THEOREM TakenAlwaysFits == Spec => []TakenFits
<1>1. Inv => TakenFits
  <2> SUFFICES ASSUME Inv PROVE TakenFits OBVIOUS
  <2>1. CASE last.cmd = "none" BY <2>1 DEF TakenFits, WithArguments
  <2>2. ASSUME NEW c, CameTo(c), Took(text, last.from, c, Limit) PROVE TakenFits
    BY <2>2 DEF CameTo, Took, Fits, TakenFits, Limit
  <2> QED BY <2>1, <2>2, LastTook
<1> QED BY <1>1, SpecInv, PTL
=============================================================================
