--------------------------- MODULE SequenceLemmas ---------------------------
(***************************************************************************)
(* What the sequence operators the specifications use (Append, \o, Tail,   *)
(* RemoveAt, the exchange of two elements) do to the type of a sequence    *)
(* and to the elements it contains.                                        *)
(***************************************************************************)
EXTENDS Integers, SequencesExt, SequenceTheorems, FiniteSetTheorems, WellFoundedInduction,
        TLAPS

\* A put at the back of a queue (BlockingQueue::put).
LEMMA ContainsAppend ==
  ASSUME NEW S, NEW s \in Seq(S), NEW e \in S
  PROVE  /\ Append(s, e) \in Seq(S)
         /\ \A q : Contains(Append(s, e), q) <=> Contains(s, q) \/ q = e
<1>1. /\ Append(s, e) \in Seq(S)
      /\ Len(Append(s, e)) = Len(s) + 1
      /\ \A i \in 1..Len(s) : Append(s, e)[i] = s[i]
      /\ Append(s, e)[Len(s) + 1] = e
      /\ Len(s) \in Nat
  BY AppendProperties, LenProperties
<1> QED BY <1>1 DEF Contains

\* Two sequences one after the other.
LEMMA ContainsConcat ==
  ASSUME NEW S, NEW s \in Seq(S), NEW t \in Seq(S)
  PROVE  /\ s \o t \in Seq(S)
         /\ \A q : Contains(s \o t, q) <=> Contains(s, q) \/ Contains(t, q)
<1>1. /\ s \o t \in Seq(S)
      /\ Len(s \o t) = Len(s) + Len(t)
      /\ \A i \in 1..Len(s) + Len(t) :
           (s \o t)[i] = IF i <= Len(s) THEN s[i] ELSE t[i - Len(s)]
      /\ Len(s) \in Nat /\ Len(t) \in Nat
  BY ConcatProperties, LenProperties
<1>2. ASSUME NEW q, Contains(s \o t, q)
      PROVE  Contains(s, q) \/ Contains(t, q)
  <2>1. PICK i \in 1..Len(s) + Len(t) : (s \o t)[i] = q
    BY <1>1, <1>2 DEF Contains
  <2>2. CASE i <= Len(s)
    BY <1>1, <2>1, <2>2 DEF Contains
  <2>3. CASE ~(i <= Len(s))
    <3>1. i - Len(s) \in 1..Len(t) /\ t[i - Len(s)] = q
      BY <1>1, <2>1, <2>3
    <3> QED BY <3>1 DEF Contains
  <2> QED BY <2>2, <2>3
<1>3. ASSUME NEW q, Contains(s, q)
      PROVE  Contains(s \o t, q)
  <2>1. PICK i \in 1..Len(s) : s[i] = q
    BY <1>3 DEF Contains
  <2>2. i \in 1..Len(s \o t) /\ (s \o t)[i] = q
    BY <1>1, <2>1
  <2> QED BY <2>2 DEF Contains
<1>4. ASSUME NEW q, Contains(t, q)
      PROVE  Contains(s \o t, q)
  <2>1. PICK i \in 1..Len(t) : t[i] = q
    BY <1>4 DEF Contains
  <2>2. i + Len(s) \in 1..Len(s \o t) /\ (s \o t)[i + Len(s)] = q
    BY <1>1, <2>1
  <2> QED BY <2>2 DEF Contains
<1> QED BY <1>1, <1>2, <1>3, <1>4

\* A take from the front (BlockingQueue::take).
LEMMA ContainsTail ==
  ASSUME NEW S, NEW s \in Seq(S), s # <<>>
  PROVE  /\ Tail(s) \in Seq(S)
         /\ Head(s) = s[1] /\ s[1] \in S
         /\ Len(s) \in Nat /\ Len(s) >= 1
         /\ Len(Tail(s)) = Len(s) - 1
         /\ \A i \in 1..Len(Tail(s)) : Tail(s)[i] = s[i + 1]
         /\ \A q : Contains(s, q) <=> q = s[1] \/ Contains(Tail(s), q)
<1>1. /\ Tail(s) \in Seq(S)
      /\ Head(s) = s[1] /\ s[1] \in S
      /\ Len(s) \in Nat /\ Len(s) >= 1
      /\ Len(Tail(s)) = Len(s) - 1
      /\ \A i \in 1..Len(Tail(s)) : Tail(s)[i] = s[i + 1]
  BY HeadTailProperties, LenProperties, EmptySeq
<1>2. ASSUME NEW q, Contains(s, q), q # s[1]
      PROVE  Contains(Tail(s), q)
  <2>1. PICK i \in 1..Len(s) : s[i] = q
    BY <1>2 DEF Contains
  <2>2. i - 1 \in 1..Len(Tail(s)) /\ Tail(s)[i - 1] = q
    BY <1>1, <1>2, <2>1
  <2> QED BY <2>2 DEF Contains
<1>3. ASSUME NEW q, Contains(Tail(s), q)
      PROVE  Contains(s, q)
  <2>1. PICK i \in 1..Len(Tail(s)) : Tail(s)[i] = q
    BY <1>3 DEF Contains
  <2>2. i + 1 \in 1..Len(s) /\ s[i + 1] = q
    BY <1>1, <2>1
  <2> QED BY <2>2 DEF Contains
<1>4. Contains(s, s[1])
  BY <1>1 DEF Contains
<1> QED BY <1>1, <1>2, <1>3, <1>4

\* One element removed from the middle (BlockingQueue::removeIf).
LEMMA ContainsRemoveAt ==
  ASSUME NEW S, NEW s \in Seq(S), NEW i \in 1..Len(s)
  PROVE  /\ RemoveAt(s, i) \in Seq(S)
         /\ \A q : Contains(s, q) => q = s[i] \/ Contains(RemoveAt(s, i), q)
         /\ \A q : Contains(RemoveAt(s, i), q) => Contains(s, q)
<1> DEFINE l == SubSeq(s, 1, i - 1)
           r == SubSeq(s, i + 1, Len(s))
<1>1. /\ Len(s) \in Nat /\ i \in Nat /\ 1 <= i /\ i <= Len(s)
      /\ \A j \in 1..Len(s) : s[j] \in S
  BY LenProperties, ElementOfSeq
<1>2. /\ l \in Seq(S) /\ Len(l) = i - 1
      /\ \A j \in 1..i - 1 : l[j] = s[j]
  <2>1. \A j \in 1..i - 1 : s[j] \in S
    BY <1>1
  <2>2. /\ l \in Seq(S)
        /\ Len(l) = IF 1 <= i - 1 THEN (i - 1) - 1 + 1 ELSE 0
        /\ \A j \in 1..(i - 1) - 1 + 1 : l[j] = s[1 + j - 1]
    BY <1>1, <2>1, SubSeqProperties
  <2> QED BY <1>1, <2>2
<1>3. /\ r \in Seq(S) /\ Len(r) = Len(s) - i
      /\ \A j \in 1..Len(s) - i : r[j] = s[i + j]
  <2>1. \A j \in i + 1..Len(s) : s[j] \in S
    BY <1>1
  <2>2. /\ r \in Seq(S)
        /\ Len(r) = IF i + 1 <= Len(s) THEN Len(s) - (i + 1) + 1 ELSE 0
        /\ \A j \in 1..Len(s) - (i + 1) + 1 : r[j] = s[(i + 1) + j - 1]
    BY <1>1, <2>1, SubSeqProperties
  <2>3. \A j \in 1..Len(s) - i : r[j] = s[i + j]
    BY <1>1, <2>2
  <2> QED BY <1>1, <2>2, <2>3
<1>4. RemoveAt(s, i) = l \o r
  BY DEF RemoveAt
<1> HIDE DEF l, r
<1>4a. /\ l \o r \in Seq(S)
       /\ \A q : Contains(l \o r, q) <=> Contains(l, q) \/ Contains(r, q)
  BY <1>2, <1>3, ContainsConcat
<1>5. ASSUME NEW q, Contains(s, q), q # s[i]
      PROVE  Contains(l, q) \/ Contains(r, q)
  <2>1. PICK j \in 1..Len(s) : s[j] = q
    BY <1>5 DEF Contains
  <2>2. CASE j < i
    <3>1. j \in 1..Len(l) /\ l[j] = q
      BY <1>1, <1>2, <2>1, <2>2
    <3> QED BY <3>1 DEF Contains
  <2>3. CASE j > i
    <3>1. j - i \in 1..Len(r) /\ r[j - i] = s[i + (j - i)] /\ i + (j - i) = j
      BY <1>1, <1>3, <2>1, <2>3
    <3> QED BY <2>1, <3>1 DEF Contains
  <2> QED BY <1>1, <1>5, <2>1, <2>2, <2>3
<1>6. ASSUME NEW q, Contains(l, q)
      PROVE  Contains(s, q)
  <2>1. PICK j \in 1..Len(l) : l[j] = q
    BY <1>6 DEF Contains
  <2>2. j \in 1..Len(s) /\ s[j] = q
    BY <1>1, <1>2, <2>1
  <2> QED BY <2>2 DEF Contains
<1>7. ASSUME NEW q, Contains(r, q)
      PROVE  Contains(s, q)
  <2>1. PICK j \in 1..Len(r) : r[j] = q
    BY <1>7 DEF Contains
  <2>2. i + j \in 1..Len(s) /\ s[i + j] = q
    BY <1>1, <1>3, <2>1
  <2> QED BY <2>2 DEF Contains
<1> QED BY <1>4, <1>4a, <1>5, <1>6, <1>7

\* Two elements exchanged (BlockingQueue::swapToFrontIf).
LEMMA ContainsSwap ==
  ASSUME NEW S, NEW s \in Seq(S), NEW i \in 2..Len(s)
  PROVE  LET t == [s EXCEPT ![1] = s[i], ![i] = s[1]] IN
         t \in Seq(S) /\ \A q : Contains(t, q) <=> Contains(s, q)
<1> DEFINE u == [s EXCEPT ![1] = s[i]]
           t == [u EXCEPT ![i] = s[1]]
<1>1. /\ Len(s) \in Nat /\ i \in 1..Len(s) /\ 1 \in 1..Len(s) /\ i # 1
      /\ s[1] \in S /\ s[i] \in S
  BY LenProperties, ElementOfSeq
<1>2. /\ u \in Seq(S) /\ Len(u) = Len(s)
      /\ \A j \in 1..Len(s) : u[j] = IF j = 1 THEN s[i] ELSE s[j]
  BY <1>1, ExceptSeq
<1>3. /\ t \in Seq(S) /\ Len(t) = Len(s)
      /\ \A j \in 1..Len(s) : t[j] = IF j = i THEN s[1] ELSE u[j]
  <2> HIDE DEF u
  <2> QED BY <1>1, <1>2, ExceptSeq
<1>4. t = [s EXCEPT ![1] = s[i], ![i] = s[1]]
  OBVIOUS
<1>5. \A j \in 1..Len(s) :
        t[j] = IF j = i THEN s[1] ELSE IF j = 1 THEN s[i] ELSE s[j]
  <2> HIDE DEF u, t
  <2> QED BY <1>2, <1>3
<1> HIDE DEF t
<1>6. \A q : Contains(t, q) <=> Contains(s, q)
  BY <1>1, <1>3, <1>5 DEF Contains
<1> QED BY <1>3, <1>4, <1>6

\* The empty sequence contains nothing.
LEMMA ContainsEmpty == \A q : ~Contains(<<>>, q)
BY DEF Contains

\* The set of a sequence's elements.
LEMMA ContainsToSet ==
  ASSUME NEW S, NEW s \in Seq(S)
  PROVE  ToSet(s) \subseteq S /\ \A q : q \in ToSet(s) <=> Contains(s, q)
BY ElementOfSeq, LenProperties DEF ToSet, Contains

\* What is first, and what comes after it, in the sequence of one and another.
LEMMA ConcatHeadTail ==
  ASSUME NEW S, NEW s \in Seq(S), s # <<>>, NEW t \in Seq(S)
  PROVE  s \o t # <<>> /\ Head(s \o t) = Head(s) /\ Tail(s \o t) = Tail(s) \o t
<1> DEFINE u == s \o t
           l == Tail(u)
           r == Tail(s) \o t
<1>1. /\ Len(s) \in Nat \ {0} /\ Len(t) \in Nat
      /\ u \in Seq(S) /\ Len(u) = Len(s) + Len(t)
      /\ \A i \in 1..Len(s) + Len(t) : u[i] = IF i <= Len(s) THEN s[i] ELSE t[i - Len(s)]
  BY ConcatProperties, LenProperties, EmptySeq
<1>2. Tail(s) \in Seq(S) /\ Len(Tail(s)) = Len(s) - 1
      /\ \A i \in 1..Len(s) - 1 : Tail(s)[i] = s[i + 1]
  BY HeadTailProperties
<1>3. u # <<>>
  BY <1>1, EmptySeq
<1>4. l \in Seq(S) /\ Len(l) = Len(s) + Len(t) - 1
      /\ \A i \in 1..Len(l) : l[i] = u[i + 1]
  BY <1>1, <1>3, HeadTailProperties
<1>5. r \in Seq(S) /\ Len(r) = Len(s) - 1 + Len(t)
      /\ \A i \in 1..Len(r) : r[i] = IF i <= Len(s) - 1 THEN Tail(s)[i] ELSE t[i - (Len(s) - 1)]
  BY <1>1, <1>2, ConcatProperties
<1>6. Head(u) = u[1] /\ u[1] = s[1] /\ Head(s) = s[1]
  BY <1>1, <1>3, ContainsTail
<1> HIDE DEF u, l, r
<1>7. Len(l) = Len(r) /\ Len(r) \in Nat
  BY <1>1, <1>4, <1>5
<1>8. ASSUME NEW i \in 1..Len(r)
      PROVE  l[i] = r[i]
  <2>1. i \in Nat /\ l[i] = u[i + 1] /\ i + 1 \in 1..Len(s) + Len(t)
    BY <1>1, <1>4, <1>5
  <2>2. CASE i <= Len(s) - 1
    BY <1>1, <1>2, <1>5, <2>1, <2>2
  <2>3. CASE ~(i <= Len(s) - 1)
    BY <1>1, <1>5, <2>1, <2>3
  <2> QED BY <2>2, <2>3
<1>9. l = r
  BY <1>4, <1>5, <1>7, <1>8, SeqEqual
<1> QED BY <1>3, <1>6, <1>9 DEF u, l, r
-----------------------------------------------------------------------------
(* Sequences in which no element stands twice. *)

\* An empty queue.
LEMMA DistinctEmpty == \A S : <<>> \in Seq(S) /\ IsInjective(<<>>)
<1>1. /\ \A S : <<>> \in Seq(S)
      /\ DOMAIN <<>> = 1..Len(<<>>) /\ Len(<<>>) = 0
  BY EmptySeq, LenProperties
<1>2. DOMAIN <<>> = {}
  BY <1>1
<1> QED BY <1>1, <1>2 DEF IsInjective

\* A put of a new item.
LEMMA DistinctAppend ==
  ASSUME NEW S, NEW s \in Seq(S), NEW e \in S,
         IsInjective(s), \A i \in DOMAIN s : s[i] # e
  PROVE  IsInjective(Append(s, e))
<1>1. /\ Len(s) \in Nat /\ DOMAIN s = 1..Len(s)
      /\ Append(s, e) \in Seq(S) /\ Len(Append(s, e)) = Len(s) + 1
      /\ \A i \in 1..Len(s) : Append(s, e)[i] = s[i]
      /\ Append(s, e)[Len(s) + 1] = e
  BY AppendProperties, LenProperties
<1>2. DOMAIN Append(s, e) = 1..Len(s) + 1
  BY <1>1, LenProperties
<1> QED BY <1>1, <1>2 DEF IsInjective

\* A take from the front.
LEMMA DistinctTail ==
  ASSUME NEW S, NEW s \in Seq(S), s # <<>>, IsInjective(s)
  PROVE  IsInjective(Tail(s))
<1>1. /\ Tail(s) \in Seq(S) /\ Len(s) \in Nat /\ Len(Tail(s)) = Len(s) - 1
      /\ \A i \in 1..Len(Tail(s)) : Tail(s)[i] = s[i + 1]
      /\ DOMAIN s = 1..Len(s)
  BY ContainsTail, LenProperties
<1>2. DOMAIN Tail(s) = 1..Len(s) - 1
  BY <1>1, LenProperties
<1>3. ASSUME NEW i \in DOMAIN Tail(s), NEW j \in DOMAIN Tail(s), Tail(s)[i] = Tail(s)[j]
      PROVE  i = j
  <2>1. /\ i \in 1..Len(Tail(s)) /\ j \in 1..Len(Tail(s))
        /\ i + 1 \in DOMAIN s /\ j + 1 \in DOMAIN s
    BY <1>1, <1>2
  <2>2. s[i + 1] = s[j + 1]
    BY <1>1, <1>3, <2>1
  <2>3. i + 1 = j + 1
    BY <2>1, <2>2 DEF IsInjective
  <2> QED BY <1>2, <2>1, <2>3
<1> QED BY <1>3 DEF IsInjective

\* An item removed from the middle: where each of the others goes.
LEMMA RemoveAtProperties ==
  ASSUME NEW S, NEW s \in Seq(S), NEW i \in 1..Len(s)
  PROVE  /\ RemoveAt(s, i) \in Seq(S)
         /\ Len(RemoveAt(s, i)) = Len(s) - 1
         /\ \A j \in 1..Len(s) - 1 :
              RemoveAt(s, i)[j] = IF j < i THEN s[j] ELSE s[j + 1]
<1> DEFINE l == SubSeq(s, 1, i - 1)
           r == SubSeq(s, i + 1, Len(s))
<1>1. /\ Len(s) \in Nat /\ i \in Nat /\ 1 <= i /\ i <= Len(s)
      /\ \A j \in 1..Len(s) : s[j] \in S
  BY LenProperties, ElementOfSeq
<1>2. /\ l \in Seq(S) /\ Len(l) = i - 1
      /\ \A j \in 1..i - 1 : l[j] = s[j]
  <2>1. \A j \in 1..i - 1 : s[j] \in S
    BY <1>1
  <2>2. /\ l \in Seq(S)
        /\ Len(l) = IF 1 <= i - 1 THEN (i - 1) - 1 + 1 ELSE 0
        /\ \A j \in 1..(i - 1) - 1 + 1 : l[j] = s[1 + j - 1]
    BY <1>1, <2>1, SubSeqProperties
  <2> QED BY <1>1, <2>2
<1>3. /\ r \in Seq(S) /\ Len(r) = Len(s) - i
      /\ \A j \in 1..Len(s) - i : r[j] = s[i + j]
  <2>1. \A j \in i + 1..Len(s) : s[j] \in S
    BY <1>1
  <2>2. /\ r \in Seq(S)
        /\ Len(r) = IF i + 1 <= Len(s) THEN Len(s) - (i + 1) + 1 ELSE 0
        /\ \A j \in 1..Len(s) - (i + 1) + 1 : r[j] = s[(i + 1) + j - 1]
    BY <1>1, <2>1, SubSeqProperties
  <2>3. \A j \in 1..Len(s) - i : r[j] = s[i + j]
    BY <1>1, <2>2
  <2> QED BY <1>1, <2>2, <2>3
<1>4. RemoveAt(s, i) = l \o r
  BY DEF RemoveAt
<1> HIDE DEF l, r
<1>5. /\ l \o r \in Seq(S)
      /\ Len(l \o r) = Len(l) + Len(r)
      /\ \A j \in 1..Len(l) + Len(r) :
           (l \o r)[j] = IF j <= Len(l) THEN l[j] ELSE r[j - Len(l)]
  BY <1>2, <1>3, ConcatProperties
<1>6. ASSUME NEW j \in 1..Len(s) - 1
      PROVE  (l \o r)[j] = IF j < i THEN s[j] ELSE s[j + 1]
  <2>1. CASE j < i
    <3>1. j \in 1..Len(l) + Len(r) /\ j <= Len(l) /\ j \in 1..i - 1
      BY <1>1, <1>2, <1>3, <2>1
    <3> QED BY <1>2, <1>5, <2>1, <3>1
  <2>2. CASE ~(j < i)
    <3>1. /\ j \in 1..Len(l) + Len(r) /\ ~(j <= Len(l))
          /\ j - Len(l) \in 1..Len(s) - i /\ i + (j - Len(l)) = j + 1
      BY <1>1, <1>2, <1>3, <2>2
    <3> QED BY <1>3, <1>5, <2>2, <3>1
  <2> QED BY <2>1, <2>2
<1>7. Len(l) + Len(r) = Len(s) - 1
  BY <1>1, <1>2, <1>3
<1> QED BY <1>4, <1>5, <1>6, <1>7

\* A removal.
LEMMA DistinctRemoveAt ==
  ASSUME NEW S, NEW s \in Seq(S), NEW k \in 1..Len(s), IsInjective(s)
  PROVE  IsInjective(RemoveAt(s, k))
<1> DEFINE t     == RemoveAt(s, k)
           at(j) == IF j < k THEN j ELSE j + 1
<1>1. /\ Len(s) \in Nat /\ DOMAIN s = 1..Len(s) /\ k \in Nat
      /\ t \in Seq(S) /\ Len(t) = Len(s) - 1
      /\ \A j \in 1..Len(s) - 1 : t[j] = IF j < k THEN s[j] ELSE s[j + 1]
  BY RemoveAtProperties, LenProperties
<1>2. DOMAIN t = 1..Len(s) - 1
  BY <1>1, LenProperties
<1> HIDE DEF t
<1>3. ASSUME NEW i \in DOMAIN t, NEW j \in DOMAIN t, t[i] = t[j]
      PROVE  i = j
  <2>1. /\ i \in Nat /\ j \in Nat /\ i \in 1..Len(s) - 1 /\ j \in 1..Len(s) - 1
        /\ at(i) \in DOMAIN s /\ at(j) \in DOMAIN s
    BY <1>1, <1>2
  <2>2. s[at(i)] = s[at(j)]
    BY <1>1, <1>3, <2>1
  <2>3. at(i) = at(j)
    <3> HIDE DEF at
    <3> QED BY <2>1, <2>2 DEF IsInjective
  <2> QED BY <1>1, <2>1, <2>3
<1> QED BY <1>3 DEF IsInjective, t

\* An exchange.
LEMMA DistinctSwap ==
  ASSUME NEW S, NEW s \in Seq(S), NEW k \in 2..Len(s), IsInjective(s)
  PROVE  LET t == [s EXCEPT ![1] = s[k], ![k] = s[1]] IN
         t \in Seq(S) /\ IsInjective(t)
<1> DEFINE t     == [s EXCEPT ![1] = s[k], ![k] = s[1]]
           at(j) == IF j = k THEN 1 ELSE IF j = 1 THEN k ELSE j
<1>1. /\ Len(s) \in Nat /\ DOMAIN s = 1..Len(s) /\ k \in 1..Len(s) /\ 1 \in 1..Len(s)
      /\ t \in Seq(S)
  BY LenProperties, ContainsSwap
<1>2. DOMAIN t = DOMAIN s /\ \A j \in DOMAIN s : t[j] = s[at(j)] /\ at(j) \in DOMAIN s
  BY <1>1
<1>3. \A i, j \in DOMAIN s : at(i) = at(j) => i = j
  BY <1>1
<1> HIDE DEF t, at
<1>4. IsInjective(t)
  BY <1>2, <1>3 DEF IsInjective
<1> QED BY <1>1, <1>4 DEF t

\* What one takes away is no longer there.
LEMMA DistinctTakes ==
  ASSUME NEW S, NEW s \in Seq(S), IsInjective(s)
  PROVE  /\ s # <<>> => ~Contains(Tail(s), s[1])
         /\ \A i \in 1..Len(s) : ~Contains(RemoveAt(s, i), s[i])
<1>1. Len(s) \in Nat /\ DOMAIN s = 1..Len(s)
  BY LenProperties
<1>2. ASSUME s # <<>>, NEW i \in 1..Len(Tail(s)), Tail(s)[i] = s[1]
      PROVE  FALSE
  <2>1. /\ Len(Tail(s)) = Len(s) - 1 /\ Len(s) >= 1
        /\ Tail(s)[i] = s[i + 1]
    BY <1>2, ContainsTail
  <2>2. i \in Nat /\ i + 1 \in DOMAIN s /\ 1 \in DOMAIN s /\ i + 1 # 1
    BY <1>1, <2>1
  <2> QED BY <1>2, <2>1, <2>2 DEF IsInjective
<1>3. ASSUME NEW i \in 1..Len(s), NEW j \in 1..Len(RemoveAt(s, i)), RemoveAt(s, i)[j] = s[i]
      PROVE  FALSE
  <2>1. /\ Len(RemoveAt(s, i)) = Len(s) - 1
        /\ \A k \in 1..Len(s) - 1 : RemoveAt(s, i)[k] = IF k < i THEN s[k] ELSE s[k + 1]
    BY RemoveAtProperties
  <2> DEFINE k == IF j < i THEN j ELSE j + 1
  <2>2. k \in DOMAIN s /\ i \in DOMAIN s /\ k # i
    BY <1>1, <2>1
  <2>3. s[k] = s[i]
    BY <1>1, <1>3, <2>1
  <2> HIDE DEF k
  <2> QED BY <2>2, <2>3 DEF IsInjective
<1> QED BY <1>2, <1>3 DEF Contains

\* One sequence and another, of other elements.
LEMMA DistinctConcat ==
  ASSUME NEW S, NEW s \in Seq(S), NEW t \in Seq(S), IsInjective(s), IsInjective(t),
         \A q \in S : ~(Contains(s, q) /\ Contains(t, q))
  PROVE  IsInjective(s \o t)
<1> DEFINE u == s \o t
<1>1. /\ Len(s) \in Nat /\ Len(t) \in Nat
      /\ DOMAIN s = 1..Len(s) /\ DOMAIN t = 1..Len(t)
      /\ \A i \in 1..Len(s) : s[i] \in S
      /\ u \in Seq(S) /\ Len(u) = Len(s) + Len(t)
      /\ \A i \in 1..Len(s) + Len(t) : u[i] = IF i <= Len(s) THEN s[i] ELSE t[i - Len(s)]
  BY ConcatProperties, LenProperties, ElementOfSeq
<1>2. DOMAIN u = 1..Len(s) + Len(t)
  BY <1>1, LenProperties
<1> HIDE DEF u
<1>3. PICK m \in Nat, n \in Nat : m = Len(s) /\ n = Len(t)
  BY <1>1
<1>4. /\ DOMAIN s = 1..m /\ DOMAIN t = 1..n /\ DOMAIN u = 1..m + n
      /\ \A i \in 1..m + n : u[i] = IF i <= m THEN s[i] ELSE t[i - m]
      /\ \A i \in 1..m, j \in 1..n : s[i] # t[j]
  <2>1. \A i \in 1..m, j \in 1..n : s[i] # t[j]
    BY <1>1, <1>3 DEF Contains
  <2> QED BY <1>1, <1>2, <1>3, <2>1
<1>5. ASSUME NEW i \in 1..m + n, NEW j \in 1..m + n, u[i] = u[j]
      PROVE  i = j
  <2>1. CASE i <= m /\ j <= m
    <3>1. i \in DOMAIN s /\ j \in DOMAIN s /\ s[i] = s[j]
      BY <1>4, <1>5, <2>1
    <3> QED BY <3>1 DEF IsInjective
  <2>2. CASE ~(i <= m) /\ ~(j <= m)
    <3>1. i - m \in DOMAIN t /\ j - m \in DOMAIN t /\ t[i - m] = t[j - m]
      BY <1>4, <1>5, <2>2
    <3>2. i - m = j - m
      BY <3>1 DEF IsInjective
    <3> QED BY <3>2
  <2>3. CASE i <= m /\ ~(j <= m)
    <3>1. i \in 1..m /\ j - m \in 1..n /\ s[i] = t[j - m]
      BY <1>4, <1>5, <2>3
    <3> QED BY <1>4, <3>1
  <2>4. CASE ~(i <= m) /\ j <= m
    <3>1. j \in 1..m /\ i - m \in 1..n /\ s[j] = t[i - m]
      BY <1>4, <1>5, <2>4
    <3> QED BY <1>4, <3>1
  <2> QED BY <2>1, <2>2, <2>3, <2>4
<1> QED BY <1>4, <1>5 DEF IsInjective, u

-----------------------------------------------------------------------------
(* How many elements of a sequence are of a kind. *)

CountIn(s, S) == Cardinality({i \in DOMAIN s : s[i] \in S})

\* None in an empty sequence, none of a kind that it does not contain, and all of
\* them if it contains no other.
LEMMA CountNoneAll ==
  ASSUME NEW T, NEW s \in Seq(T), NEW S
  PROVE  /\ (\A q \in S : ~Contains(s, q)) => CountIn(s, S) = 0
         /\ (\A q : Contains(s, q) => q \in S) => CountIn(s, S) = Len(s)
<1> DEFINE I == {i \in DOMAIN s : s[i] \in S}
<1>1. DOMAIN s = 1..Len(s) /\ Len(s) \in Nat
  BY LenProperties
<1>2. ASSUME \A q \in S : ~Contains(s, q)
      PROVE  I = {}
  BY <1>1, <1>2 DEF Contains
<1>3. ASSUME \A q : Contains(s, q) => q \in S
      PROVE  I = 1..Len(s)
  BY <1>1, <1>3 DEF Contains
<1>4. Cardinality(1..Len(s)) = Len(s)
  <2>1. PICK n \in Nat : n = Len(s)
    BY <1>1
  <2>2. Cardinality(1..n) = IF 1 > n THEN 0 ELSE n - 1 + 1
    <3>1. 1 \in Int /\ n \in Int
      OBVIOUS
    <3> QED BY ONLY <3>1, FS_Interval
  <2>3. Cardinality(1..n) = n
    BY <2>1, <2>2
  <2> QED BY <2>1, <2>3
<1> QED BY <1>2, <1>3, <1>4, FS_EmptySet DEF CountIn

LEMMA CountNat ==
  ASSUME NEW T, NEW s \in Seq(T), NEW S
  PROVE  CountIn(s, S) \in Nat /\ IsFiniteSet({i \in DOMAIN s : s[i] \in S})
<1>1. DOMAIN s = 1..Len(s) /\ Len(s) \in Nat
  BY LenProperties
<1>2. IsFiniteSet(1..Len(s))
  BY <1>1, FS_Interval
<1>3. IsFiniteSet({i \in DOMAIN s : s[i] \in S})
  BY <1>1, <1>2, FS_Subset
<1> QED BY <1>3, FS_CardinalityType DEF CountIn

\* Those of one sequence and those of another.
LEMMA CountConcat ==
  ASSUME NEW T, NEW s \in Seq(T), NEW t \in Seq(T), NEW S
  PROVE  CountIn(s \o t, S) = CountIn(s, S) + CountIn(t, S)
<1> DEFINE u == s \o t
           I == {i \in DOMAIN s : s[i] \in S}
           J == {i \in DOMAIN t : t[i] \in S}
           K == {i \in DOMAIN u : u[i] \in S}
<1>1. /\ u \in Seq(T) /\ Len(u) = Len(s) + Len(t)
      /\ \A i \in 1..Len(s) + Len(t) : u[i] = IF i <= Len(s) THEN s[i] ELSE t[i - Len(s)]
      /\ Len(s) \in Nat /\ Len(t) \in Nat
      /\ DOMAIN s = 1..Len(s) /\ DOMAIN t = 1..Len(t)
  BY ConcatProperties, LenProperties
<1>2. DOMAIN u = 1..Len(s) + Len(t)
  BY <1>1, LenProperties
<1> HIDE DEF u
<1>3. PICK m \in Nat, n \in Nat : m = Len(s) /\ n = Len(t)
  BY <1>1
<1>4. /\ DOMAIN s = 1..m /\ DOMAIN t = 1..n /\ DOMAIN u = 1..m + n
      /\ \A i \in 1..m + n : u[i] = IF i <= m THEN s[i] ELSE t[i - m]
  BY <1>1, <1>2, <1>3
<1> DEFINE M == {i + m : i \in J}
           f == [i \in J |-> i + m]
<1>5. IsFiniteSet(I) /\ IsFiniteSet(J)
  BY CountNat
<1>6. IsFiniteSet(M) /\ Cardinality(M) = Cardinality(J)
  <2>1. f \in Bijection(J, M)
    <3>1. f \in [J -> M]
      OBVIOUS
    <3>2. \A y \in M : \E x \in J : f[x] = y
      OBVIOUS
    <3>3. \A x, y \in J : f[x] = f[y] => x = y
      BY <1>4
    <3> HIDE DEF f, M, J
    <3> QED BY <3>1, <3>2, <3>3 DEF Bijection, Injection, Surjection, IsInjective
  <2> QED BY <1>5, <2>1, FS_Bijection DEF ExistsBijection
<1>7. K = I \union M
  <2>1. ASSUME NEW i \in K
        PROVE  i \in I \union M
    <3>1. CASE i <= m
      BY <1>4, <3>1
    <3>2. CASE ~(i <= m)
      <4>1. i - m \in J /\ i = (i - m) + m
        BY <1>4, <3>2
      <4> QED BY <4>1
    <3> QED BY <3>1, <3>2
  <2>2. ASSUME NEW i \in I
        PROVE  i \in K
    BY <1>4
  <2>3. ASSUME NEW i \in J
        PROVE  i + m \in K
    <3>1. i + m \in 1..m + n /\ ~(i + m <= m) /\ (i + m) - m = i
      BY <1>4
    <3> QED BY <1>4, <3>1
  <2> QED BY <2>1, <2>2, <2>3
<1>8. I \cap M = {}
  BY <1>4
<1>9. Cardinality(I \union M) = Cardinality(I) + Cardinality(M)
  <2>1. Cardinality(I \union M) = Cardinality(I) + Cardinality(M) - Cardinality(I \cap M)
    BY <1>5, <1>6, FS_Union
  <2>2. Cardinality(I \cap M) = 0 /\ Cardinality(I) \in Nat /\ Cardinality(M) \in Nat
    BY <1>5, <1>6, <1>8, FS_EmptySet, FS_CardinalityType
  <2> QED BY <2>1, <2>2
<1> QED BY <1>6, <1>7, <1>9 DEF CountIn, u

-----------------------------------------------------------------------------
(* Bounds. *)

\* The least and the greatest of a set, where one is known.
LEMMA MinIs ==
  ASSUME NEW S \in SUBSET Int, NEW x \in S, \A y \in S : x <= y
  PROVE  Min(S) = x
<1>1. Min(S) \in S /\ \A y \in S : Min(S) <= y
  BY DEF Min
<1>2. x \in Int /\ Min(S) \in Int /\ Min(S) <= x /\ x <= Min(S)
  BY <1>1
<1> QED BY <1>2

LEMMA MaxIs ==
  ASSUME NEW S \in SUBSET Int, NEW x \in S, \A y \in S : y <= x
  PROVE  Max(S) = x
<1>1. Max(S) \in S /\ \A y \in S : Max(S) >= y
  <2>1. \A y \in S : x >= y
    OBVIOUS
  <2> QED BY <2>1 DEF Max
<1>2. x \in Int /\ Max(S) \in Int /\ Max(S) <= x /\ x <= Max(S)
  BY <1>1
<1> QED BY <1>2

\* There is one if the numbers are bounded: the one nearest to the bound.
Smaller == {p \in Nat \X Nat : p[1] < p[2]}

LEMMA MaxOfBounded ==
  ASSUME NEW n \in Nat, NEW S \in SUBSET (0..n), S # {}
  PROVE  Max(S) \in S /\ \A y \in S : y <= Max(S)
<1> DEFINE T == {n - y : y \in S}
<1>1. IsWellFoundedOn(Smaller, Nat)
  BY NatLessThanWellFounded DEF OpToRel, Smaller
<1>2. T \in SUBSET Nat /\ T # {}
  <2>1. \A y \in S : n - y \in Nat
    OBVIOUS
  <2> QED BY <2>1
<1>3. PICK x \in T : \A y \in T : ~(<<y, x>> \in Smaller)
  <2> HIDE DEF T
  <2> QED BY <1>1, <1>2, WFMin
<1>4. PICK z \in S : x = n - z
  OBVIOUS
<1>5. ASSUME NEW y \in S
      PROVE  y <= z
  <2>1. /\ n - y \in T /\ n - y \in Nat /\ x \in Nat
        /\ <<n - y, x>>[1] = n - y /\ <<n - y, x>>[2] = x
    BY <1>4
  <2>2. ~(n - y < x)
    BY <1>3, <2>1 DEF Smaller
  <2> QED BY <1>4, <2>2
<1>6. Max(S) = z
  BY <1>5, MaxIs
<1> QED BY <1>5, <1>6

LEMMA MinOfNaturals ==
  ASSUME NEW S \in SUBSET Nat, S # {}
  PROVE  Min(S) \in S /\ \A y \in S : Min(S) <= y
<1>1. IsWellFoundedOn(Smaller, Nat)
  BY NatLessThanWellFounded DEF OpToRel, Smaller
<1>2. PICK x \in S : \A y \in S : ~(<<y, x>> \in Smaller)
  BY <1>1, WFMin
<1>3. ASSUME NEW y \in S
      PROVE  x <= y
  <2>1. /\ y \in Nat /\ x \in Nat
        /\ <<y, x>>[1] = y /\ <<y, x>>[2] = x
    OBVIOUS
  <2>2. ~(y < x)
    BY <1>2, <2>1 DEF Smaller
  <2> QED BY <2>1, <2>2
<1>4. Min(S) = x
  BY <1>3, MinIs
<1> QED BY <1>3, <1>4

-----------------------------------------------------------------------------
(* Recursion along the numbers up to n, and induction along them. *)

\* A set with 0 in it, and with each number after one that is in it, has them all.
LEMMA InductionUpTo ==
  ASSUME NEW n \in Nat, NEW P, 0 \in P,
         \A i \in 1..n : i - 1 \in P => i \in P
  PROVE  \A i \in 0..n : i \in P
<1> DEFINE Bad == (0..n) \ P
<1>1. SUFFICES ASSUME Bad # {} PROVE FALSE
  OBVIOUS
<1>2. PICK x \in Bad : \A y \in Bad : x <= y
  <2>1. Bad \in SUBSET Nat
    OBVIOUS
  <2> HIDE DEF Bad
  <2> QED BY <1>1, <2>1, MinOfNaturals
<1>3. x \in 1..n /\ x - 1 \in 0..n /\ ~(x <= x - 1)
  BY <1>2
<1>4. x - 1 \in P
  BY <1>2, <1>3
<1> QED BY <1>2, <1>3, <1>4

\* A function is defined by its first value and how each value follows from the
\* one before it.
Iterates(f, S, s0, n, g) ==
  f \in [0..n -> S] /\ f[0] = s0 /\ \A i \in 1..n : f[i] = g[i][f[i - 1]]

LEMMA IterationExists ==
  ASSUME NEW S, NEW s0 \in S, NEW n \in Nat, NEW g \in [1..n -> [S -> S]]
  PROVE  \E f : Iterates(f, S, s0, n, g)
<1> DEFINE Up(m, f) == f[0] = s0 /\ \A i \in 1..m : f[i] = g[i][f[i - 1]]
           P == {m \in 0..n : \E f \in [0..m -> S] : Up(m, f)}
<1>1. 0 \in P
  <2> DEFINE h == [i \in 0..0 |-> s0]
  <2>1. h \in [0..0 -> S] /\ h[0] = s0 /\ 0 \in 0..n
    OBVIOUS
  <2> HIDE DEF h
  <2>2. \A i \in 1..0 : h[i] = g[i][h[i - 1]]
    OBVIOUS
  <2>3. \E f \in [0..0 -> S] : Up(0, f)
    BY <2>1, <2>2
  <2> QED BY <2>1, <2>3
<1>2. ASSUME NEW m \in 1..n, m - 1 \in P
      PROVE  m \in P
  <2>1. PICK f \in [0..m - 1 -> S] : Up(m - 1, f)
    BY <1>2
  <2> DEFINE h == [i \in 0..m |-> IF i = m THEN g[m][f[m - 1]] ELSE f[i]]
  <2>2. m - 1 \in 0..m - 1 /\ f[m - 1] \in S /\ g[m] \in [S -> S]
    BY <2>1
  <2>3. h \in [0..m -> S]
    BY <2>1, <2>2
  <2>4. ASSUME NEW i \in 1..m
        PROVE  h[i] = g[i][h[i - 1]]
    <3>1. CASE i = m
      <4>1. h[i] = g[m][f[m - 1]] /\ m - 1 # m /\ m - 1 \in 0..m
        BY <3>1
      <4>2. h[m - 1] = f[m - 1]
        BY <4>1
      <4> QED BY <3>1, <4>1, <4>2
    <3>2. CASE i # m
      <4>1. i \in 1..m - 1 /\ i - 1 \in 0..m /\ i - 1 # m
        BY <3>2
      <4>2. h[i] = f[i] /\ h[i - 1] = f[i - 1]
        BY <3>2, <4>1
      <4> QED BY <2>1, <4>1, <4>2
    <3> QED BY <3>1, <3>2
  <2>5. h[0] = s0
    BY <2>1
  <2>6. m \in 0..n
    OBVIOUS
  <2> HIDE DEF h
  <2>7. \E e \in [0..m -> S] : Up(m, e)
    BY <2>3, <2>4, <2>5
  <2> QED BY <2>6, <2>7
<1>3. n \in P
  <2> HIDE DEF P
  <2>1. \A i \in 0..n : i \in P
    BY <1>1, <1>2, InductionUpTo
  <2> QED BY <2>1
<1> QED BY <1>3 DEF Iterates

\* What FlattenSeq makes of a sequence of sequences, one after the other.
LEMMA FlattenSteps ==
  ASSUME NEW S, NEW p \in Seq(Seq(S))
  PROVE  \E h \in [0..Len(p) -> Seq(S)] :
           /\ h[0] = <<>> /\ \A i \in 1..Len(p) : h[i] = h[i - 1] \o p[i]
           /\ FlattenSeq(p) = h[Len(p)]
<1> DEFINE n == Len(p)
           T == Seq(S)
           empty == <<>>
           g == [i \in 1..n |-> [r \in T |-> r \o p[i]]]
<1>1. n \in Nat /\ \A i \in 1..n : p[i] \in T
  BY LenProperties, ElementOfSeq
<1>2. empty \in T
  BY EmptySeq
<1>3. g \in [1..n -> [T -> T]]
  BY <1>1, ConcatProperties
<1> HIDE DEF g, n, empty
<1>4. PICK h : Iterates(h, T, empty, n, g)
  <2> HIDE DEF T
  <2> QED BY <1>1, <1>2, <1>3, IterationExists
<1>5. h \in [0..n -> T] /\ h[0] = empty
  BY <1>4 DEF Iterates
<1>6. ASSUME NEW i \in 1..n PROVE h[i] = h[i - 1] \o p[i]
  <2>1. h[i] = g[i][h[i - 1]]
    BY <1>4 DEF Iterates
  <2>2. h[i - 1] \in T
    BY <1>1, <1>5
  <2>3. g[i] = [r \in T |-> r \o p[i]]
    BY DEF g
  <2> HIDE DEF T
  <2> QED BY <2>1, <2>2, <2>3
<1>7. FlattenSeq(p) = h[n]
  <2>1. CASE n = 0
    <3>1. p = <<>>
      BY <2>1, EmptySeq DEF n
    <3> QED BY <1>5, <2>1, <3>1 DEF FlattenSeq, n, empty
  <2>2. CASE n # 0
    <3> DEFINE F(f) == f = [i \in 1..n |-> IF i = 1 THEN p[i] ELSE f[i - 1] \o p[i]]
               f == CHOOSE f : F(f)
               k == [i \in 1..n |-> h[i]]
    <3>1. F(k)
      <4>1. ASSUME NEW i \in 1..n
            PROVE  k[i] = IF i = 1 THEN p[i] ELSE k[i - 1] \o p[i]
        <5>1. CASE i = 1
          <6>1. h[1] = h[0] \o p[1] /\ p[1] \in Seq(S)
            <7>1. 1 \in 1..n /\ 1 - 1 = 0
              BY <1>1, <5>1
            <7> QED BY <1>1, <1>6, <7>1
          <6>2. <<>> \o p[1] = p[1]
            BY <6>1, ConcatEmptySeq
          <6> QED BY <1>5, <5>1, <6>1, <6>2 DEF empty
        <5>2. CASE i # 1
          <6>1. i - 1 \in 1..n
            BY <1>1, <5>2
          <6> QED BY <1>6, <5>2, <6>1
        <5> QED BY <5>1, <5>2
      <4> QED BY <4>1
    <3>2. F(f)
      <4> HIDE DEF F, k
      <4> QED BY <3>1
    <3>3. FlattenSeq(p) = f[n]
      BY <2>2 DEF FlattenSeq, n
    <3> DEFINE P == {i \in 0..n : i = 0 \/ f[i] = h[i]}
    <3>4. ASSUME NEW i \in 1..n
          PROVE  f[i] = IF i = 1 THEN p[i] ELSE f[i - 1] \o p[i]
      <4> HIDE DEF f
      <4> QED BY <3>2
    <3> HIDE DEF f, F
    <3>5. ASSUME NEW i \in 1..n, i - 1 \in P PROVE i \in P
      <4>1. CASE i = 1
        <5>1. f[1] = k[1] /\ k[1] = h[1]
          BY <3>1, <3>4, <4>1 DEF F
        <5> QED BY <1>1, <4>1, <5>1
      <4>2. CASE i # 1
        <5>1. i - 1 # 0 /\ f[i - 1] = h[i - 1]
          BY <1>1, <3>5, <4>2
        <5>2. f[i] = h[i]
          BY <1>6, <3>4, <4>2, <5>1
        <5> QED BY <1>1, <5>2
      <4> QED BY <4>1, <4>2
    <3>6. 0 \in P
      BY <1>1
    <3> HIDE DEF P
    <3>7. n \in P
      <4>1. \A i \in 0..n : i \in P
        BY <1>1, <3>5, <3>6, InductionUpTo
      <4> QED BY <1>1, <4>1
    <3> QED BY <2>2, <3>3, <3>7 DEF P
  <2> QED BY <2>1, <2>2
<1> QED BY <1>5, <1>6, <1>7 DEF n, T, empty
=============================================================================
