----------------------------- MODULE SeqLemmas -----------------------------
(***************************************************************************)
(* What Append and RemoveAt do to a sequence, in the form the invariance   *)
(* proofs of the queues of the memory hierarchy need; and induction and    *)
(* recursion over numbers, for the loops that are recursive functions.     *)
(***************************************************************************)
EXTENDS Integers, SequencesExt, SequenceTheorems, WellFoundedInduction, TLAPS

\* Position in s of the element that RemoveAt(s, i) has at position j.
Skip(i, j) == IF j < i THEN j ELSE j + 1

\* Appending keeps every element at its position and adds one at the end.
LEMMA AppendFacts ==
  ASSUME NEW S, NEW s \in Seq(S), NEW e \in S
  PROVE  /\ Append(s, e) \in Seq(S)
         /\ DOMAIN s = 1 .. Len(s) /\ Len(s) \in Nat
         /\ DOMAIN Append(s, e) = 1 .. Len(s) + 1
         /\ \A i \in 1 .. Len(s) : Append(s, e)[i] = s[i]
         /\ Append(s, e)[Len(s) + 1] = e
  OBVIOUS

\* Removing the element of the iterator's node closes the gap and nothing else.
LEMMA RemoveAtFacts ==
  ASSUME NEW S, NEW s \in Seq(S), NEW i \in 1 .. Len(s)
  PROVE  /\ RemoveAt(s, i) \in Seq(S)
         /\ DOMAIN s = 1 .. Len(s) /\ Len(s) \in Nat
         /\ DOMAIN RemoveAt(s, i) = 1 .. Len(s) - 1
         /\ \A j \in 1 .. Len(s) - 1 : /\ Skip(i, j) \in (1 .. Len(s)) \ {i}
                                      /\ RemoveAt(s, i)[j] = s[Skip(i, j)]
         /\ \A k \in (1 .. Len(s)) \ {i} :
              \E j \in 1 .. Len(s) - 1 : Skip(i, j) = k
         /\ \A j, k \in 1 .. Len(s) - 1 : j < k => Skip(i, j) < Skip(i, k)
<1> DEFINE left == SubSeq(s, 1, i - 1)
           right == SubSeq(s, i + 1, Len(s))
<1>1. Len(s) \in Nat /\ DOMAIN s = 1 .. Len(s) /\ \A j \in 1 .. Len(s) : s[j] \in S
  OBVIOUS
<1>2. /\ left \in Seq(S) /\ Len(left) = i - 1
      /\ \A j \in 1 .. i - 1 : left[j] = s[j]
  <2>1. \A j \in 1 .. i - 1 : s[j] \in S
    BY <1>1
  <2>. QED
    BY <1>1, <2>1, SubSeqProperties
<1>3. /\ right \in Seq(S) /\ Len(right) = Len(s) - i
      /\ \A j \in 1 .. Len(s) - i : right[j] = s[i + j]
  <2>1. \A j \in i + 1 .. Len(s) : s[j] \in S
    BY <1>1
  <2>2. /\ right \in Seq(S)
        /\ Len(right) = IF i + 1 <= Len(s) THEN Len(s) - (i + 1) + 1 ELSE 0
        /\ \A j \in 1 .. Len(s) - (i + 1) + 1 : right[j] = s[(i + 1) + j - 1]
    BY <1>1, <2>1, SubSeqProperties
  <2>. HIDE DEF left, right
  <2>3. Len(right) = Len(s) - i
    <3>1. CASE i + 1 <= Len(s)
      BY <1>1, <2>2, <3>1
    <3>2. CASE ~(i + 1 <= Len(s))
      <4>. DEFINE n == Len(s)
      <4>0. n \in Int /\ i \in 1 .. n /\ ~(i + 1 <= n)
        BY <1>1, <3>2
      <4>. HIDE DEF n
      <4>1. i = n /\ n - i = 0
        BY <4>0
      <4>. QED
        BY <2>2, <3>2, <4>1 DEF n
    <3>. QED
      BY <3>1, <3>2
  <2>4. ASSUME NEW j \in 1 .. Len(s) - i
        PROVE  right[j] = s[i + j]
    <3>1. j \in 1 .. Len(s) - (i + 1) + 1 /\ (i + 1) + j - 1 = i + j
      BY <1>1
    <3>. QED
      BY <2>2, <3>1
  <2>. QED
    BY <2>2, <2>3, <2>4
<1>4. /\ RemoveAt(s, i) \in Seq(S) /\ Len(RemoveAt(s, i)) = Len(s) - 1
      /\ \A j \in 1 .. Len(s) - 1 :
           RemoveAt(s, i)[j] = IF j <= i - 1 THEN left[j] ELSE right[j - (i - 1)]
  <2>1. RemoveAt(s, i) = left \o right
    BY DEF RemoveAt
  <2>2. i - 1 + (Len(s) - i) = Len(s) - 1
    BY <1>1
  <2>. HIDE DEF left, right
  <2>3. /\ left \o right \in Seq(S)
        /\ Len(left \o right) = Len(left) + Len(right)
        /\ \A j \in 1 .. Len(left) + Len(right) :
             (left \o right)[j] = IF j <= Len(left) THEN left[j] ELSE right[j - Len(left)]
    BY <1>2, <1>3, ConcatProperties
  <2>. QED
    BY <1>2, <1>3, <2>1, <2>2, <2>3
<1>5. \A j \in 1 .. Len(s) - 1 : RemoveAt(s, i)[j] = s[Skip(i, j)]
  <2>. SUFFICES ASSUME NEW j \in 1 .. Len(s) - 1
                PROVE  RemoveAt(s, i)[j] = s[Skip(i, j)]
    OBVIOUS
  <2>. HIDE DEF left, right
  <2>1. CASE j < i
    BY <1>1, <1>2, <1>4, <2>1 DEF Skip
  <2>2. CASE ~(j < i)
    <3>1. j - (i - 1) \in 1 .. Len(s) - i /\ i + (j - (i - 1)) = j + 1
      BY <1>1, <2>2
    <3>. QED
      BY <1>1, <1>3, <1>4, <2>2, <3>1 DEF Skip
  <2>. QED
    BY <2>1, <2>2
<1>6. \A k \in (1 .. Len(s)) \ {i} : \E j \in 1 .. Len(s) - 1 : Skip(i, j) = k
  <2>. SUFFICES ASSUME NEW k \in (1 .. Len(s)) \ {i}
                PROVE  \E j \in 1 .. Len(s) - 1 : Skip(i, j) = k
    OBVIOUS
  <2>1. CASE k < i
    BY <1>1, <2>1 DEF Skip
  <2>2. CASE k > i
    <3>1. k - 1 \in 1 .. Len(s) - 1 /\ Skip(i, k - 1) = k
      BY <1>1, <2>2 DEF Skip
    <3>. QED
      BY <3>1
  <2>. QED
    BY <1>1, <2>1, <2>2
<1>. QED
  <2>1. DOMAIN RemoveAt(s, i) = 1 .. Len(s) - 1
    BY <1>4
  <2>. QED
    BY <1>1, <1>4, <1>5, <1>6, <2>1 DEF Skip

\* The same facts about the sequence after the step, in terms of its domain.
LEMMA RemovedAt ==
  ASSUME NEW S, NEW s \in Seq(S), NEW i \in DOMAIN s, NEW t, t = RemoveAt(s, i)
  PROVE  /\ t \in Seq(S)
         /\ \A j \in DOMAIN t : Skip(i, j) \in DOMAIN s \ {i} /\ t[j] = s[Skip(i, j)]
         /\ \A k \in DOMAIN s \ {i} : \E j \in DOMAIN t : Skip(i, j) = k
         /\ \A j, k \in DOMAIN t : j # k => Skip(i, j) # Skip(i, k)
<1>1. i \in 1 .. Len(s)
  OBVIOUS
<1>2. /\ RemoveAt(s, i) \in Seq(S)
      /\ DOMAIN s = 1 .. Len(s) /\ Len(s) \in Nat
      /\ DOMAIN RemoveAt(s, i) = 1 .. Len(s) - 1
  BY <1>1, RemoveAtFacts
<1>4. \A j \in 1 .. Len(s) - 1 : Skip(i, j) \in (1 .. Len(s)) \ {i}
  BY <1>1, RemoveAtFacts
<1>5. \A j \in 1 .. Len(s) - 1 : RemoveAt(s, i)[j] = s[Skip(i, j)]
  BY <1>1, RemoveAtFacts
<1>6. \A k \in (1 .. Len(s)) \ {i} : \E j \in 1 .. Len(s) - 1 : Skip(i, j) = k
  BY <1>1, RemoveAtFacts
<1>3. \A j, k \in 1 .. Len(s) - 1 : j # k => Skip(i, j) # Skip(i, k)
  BY <1>1, <1>2 DEF Skip
<1>. QED
  BY <1>2, <1>3, <1>4, <1>5, <1>6

LEMMA Appended ==
  ASSUME NEW S, NEW s \in Seq(S), NEW e \in S, NEW t, t = Append(s, e)
  PROVE  /\ t \in Seq(S)
         /\ DOMAIN t = DOMAIN s \cup {Len(s) + 1} /\ Len(s) + 1 \notin DOMAIN s
         /\ \A i \in DOMAIN s : t[i] = s[i]
         /\ t[Len(s) + 1] = e
<1>1. /\ t \in Seq(S) /\ Len(s) \in Nat
      /\ DOMAIN s = 1 .. Len(s) /\ DOMAIN t = 1 .. Len(s) + 1
      /\ \A i \in 1 .. Len(s) : t[i] = s[i]
      /\ t[Len(s) + 1] = e
  BY AppendFacts
<1>. QED
  BY <1>1
-----------------------------------------------------------------------------
(* Induction and recursion over 0 .. n, for predicates that are sets and   *)
(* steps that are functions.                                               *)

\* A nonempty set of numbers has a least one.
LEMMA Least ==
  ASSUME NEW T, T \subseteq Nat, T # {}
  PROVE  \E x \in T : \A y \in T : x <= y
<1>1. PICK x \in T : \A y \in T : ~(<<y, x>> \in OpToRel(<, Nat))
  BY NatLessThanWellFounded, WFMin
<1>2. ASSUME NEW y \in T PROVE x <= y
  <2>1. ~(y < x)
    BY <1>1 DEF OpToRel
  <2>. QED
    BY <2>1
<1>. QED
  BY <1>2

\* What holds of 0, and of a number if it does of the one before, holds up to n.
LEMMA Induction ==
  ASSUME NEW n \in Nat, NEW T, 0 \in T, \A i \in 0 .. n - 1 : i \in T => i + 1 \in T
  PROVE  0 .. n \subseteq T
<1>. DEFINE bad == (0 .. n) \ T
<1>. SUFFICES ASSUME bad # {} PROVE FALSE
  OBVIOUS
<1>1. PICK m \in bad : \A y \in bad : m <= y
  <2>1. bad \subseteq Nat
    OBVIOUS
  <2>. HIDE DEF bad
  <2>. QED
    BY <2>1, Least
<1>2. m # 0 /\ m - 1 \in 0 .. n - 1 /\ m - 1 \in 0 .. n
  OBVIOUS
<1>3. m - 1 \in T
  BY <1>1, <1>2
<1>. QED
  BY <1>2, <1>3

\* f begins with base and goes on by the given steps, up to m.
Goes(f, S, base, step, m) ==
  /\ f \in [0 .. m -> S] /\ f[0] = base
  /\ \A i \in 0 .. m - 1 : f[i + 1] = step[i][f[i]]

\* f is defined by recursion from base and the given steps, up to n.
Iterates(f, n, base, step) ==
  f = [i \in 0 .. n |-> IF i = 0 THEN base ELSE step[i - 1][f[i - 1]]]

\* There is such a function.
LEMMA Recursion ==
  ASSUME NEW S, NEW base \in S, NEW n \in Nat, NEW step \in [0 .. n - 1 -> [S -> S]]
  PROVE  \E f \in [0 .. n -> S] : Iterates(f, n, base, step)
<1>. DEFINE T == {m \in 0 .. n : \E f : Goes(f, S, base, step, m)}
<1>1. 0 \in T
  <2>1. Goes([i \in 0 .. 0 |-> base], S, base, step, 0)
    BY DEF Goes
  <2>. QED
    BY <2>1
<1>2. ASSUME NEW m \in 0 .. n - 1, m \in T PROVE m + 1 \in T
  <2>1. PICK f : Goes(f, S, base, step, m)
    BY <1>2
  <2>. DEFINE g == [i \in 0 .. m + 1 |-> IF i = m + 1 THEN step[m][f[m]] ELSE f[i]]
  <2>2. f \in [0 .. m -> S] /\ f[0] = base /\ \A i \in 0 .. m - 1 : f[i + 1] = step[i][f[i]]
    BY <2>1 DEF Goes
  <2>3. f[m] \in S /\ step[m][f[m]] \in S
    BY <2>2
  <2>4. g \in [0 .. m + 1 -> S] /\ g[0] = base
    BY <2>2, <2>3
  <2>5. ASSUME NEW i \in 0 .. m + 1 - 1 PROVE g[i + 1] = step[i][g[i]]
    <3>1. CASE i = m
      BY <3>1
    <3>2. CASE i # m
      BY <2>2, <3>2
    <3>. QED
      BY <3>1, <3>2
  <2>6. Goes(g, S, base, step, m + 1)
    <3>. HIDE DEF g
    <3>. QED
      BY <2>4, <2>5 DEF Goes
  <2>. QED
    BY <2>6
<1>3. n \in T
  <2>. HIDE DEF T
  <2>1. 0 .. n \subseteq T
    BY <1>1, <1>2, Induction
  <2>. QED
    BY <2>1
<1>4. PICK f : Goes(f, S, base, step, n)
  BY <1>3
<1>5. f \in [0 .. n -> S] /\ f[0] = base /\ \A i \in 0 .. n - 1 : f[i + 1] = step[i][f[i]]
  BY <1>4 DEF Goes
<1>6. ASSUME NEW i \in 0 .. n PROVE f[i] = IF i = 0 THEN base ELSE step[i - 1][f[i - 1]]
  <2>1. CASE i = 0
    BY <1>5, <2>1
  <2>2. CASE i # 0
    <3>1. i - 1 \in 0 .. n - 1 /\ i - 1 + 1 = i
      BY <2>2
    <3>. QED
      BY <1>5, <2>2, <3>1
  <2>. QED
    BY <2>1, <2>2
<1>7. f = [i \in 0 .. n |-> f[i]]
  BY <1>5
<1>. QED
  <2>1. Iterates(f, n, base, step)
    BY <1>6, <1>7 DEF Iterates
  <2>. QED
    BY <1>5, <2>1
=============================================================================
