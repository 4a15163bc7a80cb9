-------------------------- MODULE QueryObjectProofs --------------------------
(***************************************************************************)
(* Proofs about QueryObject, for every set of queries, transactions and    *)
(* handlers, and any number of executions.  IInv holds one part per kind   *)
(* of bookkeeping, and each part has a section here: how often a sequence  *)
(* has an element, what a step does to the data, the families of staged    *)
(* queries, the references, the running data, the places of an execution,  *)
(* the types, and the handlers.                                            *)
(***************************************************************************)
EXTENDS QueryObject, SequenceLemmas

-----------------------------------------------------------------------------
(* How often a sequence has an element. *)

LEMMA TimesNat ==
  ASSUME NEW S, NEW s \in Seq(S), NEW x
  PROVE  /\ Times(x, s) \in Nat
         /\ Times(x, s) = CountIn(s, {x})
         /\ Times(x, s) = 0 <=> x \notin Range(s)
<1> DEFINE I == {i \in DOMAIN s : s[i] = x}
<1>1. {i \in DOMAIN s : s[i] \in {x}} = I
  OBVIOUS
<1>2. IsFiniteSet(I) /\ Cardinality(I) \in Nat
  BY <1>1, CountNat, FS_CardinalityType
<1>3. I = {} <=> x \notin Range(s)
  BY DEF Range
<1>4. Cardinality(I) = 0 <=> I = {}
  BY <1>2, FS_EmptySet
<1> QED BY <1>1, <1>2, <1>3, <1>4 DEF Times, CountIn

LEMMA TimesEmpty == \A x : Times(x, <<>>) = 0
<1>1. ASSUME NEW x PROVE {i \in DOMAIN <<>> : <<>>[i] = x} = {}
  <2>1. DOMAIN <<>> = 1..Len(<<>>) /\ Len(<<>>) = 0
    BY EmptySeq, LenProperties
  <2> QED BY <2>1
<1> QED BY <1>1, FS_EmptySet DEF Times

LEMMA TimesOne == \A x, y : Times(x, <<y>>) = IF x = y THEN 1 ELSE 0
<1> SUFFICES ASSUME NEW x, NEW y
             PROVE  Times(x, <<y>>) = IF x = y THEN 1 ELSE 0
  OBVIOUS
<1>1. DOMAIN <<y>> = {1} /\ <<y>>[1] = y
  OBVIOUS
<1>2. {i \in DOMAIN <<y>> : <<y>>[i] = x} = IF x = y THEN {1} ELSE {}
  BY <1>1
<1>3. Cardinality({1}) = 1 /\ Cardinality({}) = 0
  BY FS_Singleton, FS_EmptySet
<1> QED BY <1>2, <1>3 DEF Times

LEMMA TimesConcat ==
  ASSUME NEW S, NEW s \in Seq(S), NEW t \in Seq(S), NEW x
  PROVE  Times(x, s \o t) = Times(x, s) + Times(x, t)
<1>1. s \o t \in Seq(S)
  BY ConcatProperties
<1>2. CountIn(s \o t, {x}) = CountIn(s, {x}) + CountIn(t, {x})
  BY CountConcat
<1>3. Times(x, s \o t) = CountIn(s \o t, {x})
  BY <1>1, TimesNat
<1>4. Times(x, s) = CountIn(s, {x}) /\ Times(x, t) = CountIn(t, {x})
  BY TimesNat
<1> QED BY <1>2, <1>3, <1>4

LEMMA TimesAppend ==
  ASSUME NEW S, NEW s \in Seq(S), NEW y \in S, NEW x
  PROVE  /\ Append(s, y) \in Seq(S)
         /\ Times(x, Append(s, y)) = Times(x, s) + (IF x = y THEN 1 ELSE 0)
<1>1. <<y>> \in Seq(S) /\ Append(s, y) = s \o <<y>> /\ Append(s, y) \in Seq(S)
  BY AppendIsConcat, AppendProperties
<1>2. Times(x, s \o <<y>>) = Times(x, s) + Times(x, <<y>>)
  BY <1>1, TimesConcat
<1> QED BY <1>1, <1>2, TimesOne

LEMMA TimesTail ==
  ASSUME NEW S, NEW s \in Seq(S), s # <<>>, NEW x
  PROVE  /\ Head(s) \in S /\ Tail(s) \in Seq(S)
         /\ Times(x, s) = Times(x, Tail(s)) + (IF x = Head(s) THEN 1 ELSE 0)
<1> DEFINE h == <<Head(s)>>
           t == Tail(s)
           u == h \o t
<1>1. /\ Head(s) \in S /\ t \in Seq(S) /\ Len(s) \in Nat /\ Len(s) >= 1
      /\ Head(s) = s[1] /\ Len(t) = Len(s) - 1 /\ \A i \in 1..Len(t) : t[i] = s[i + 1]
  BY ContainsTail
<1>2. h \in Seq(S) /\ Len(h) = 1 /\ h[1] = s[1]
  BY <1>1
<1>3. Times(x, h) = IF x = Head(s) THEN 1 ELSE 0
  BY TimesOne
<1> HIDE DEF h, t
<1>4. /\ u \in Seq(S) /\ Len(u) = Len(h) + Len(t)
      /\ \A i \in 1..Len(h) + Len(t) : u[i] = IF i <= Len(h) THEN h[i] ELSE t[i - Len(h)]
  <2>1. h \in Seq(S) /\ t \in Seq(S)
    BY <1>1, <1>2
  <2> QED BY ONLY <2>1, ConcatProperties
<1>5. ASSUME NEW i \in 1..Len(s) PROVE u[i] = s[i]
  <2>1. CASE i = 1
    BY <1>1, <1>2, <1>4, <2>1
  <2>2. CASE i # 1
    <3>1. i - 1 \in 1..Len(t) /\ (i - 1) + 1 = i /\ ~(i <= 1) /\ i \in 1..Len(h) + Len(t)
      BY <1>1, <1>2, <2>2
    <3> QED BY <1>1, <1>2, <1>4, <3>1
  <2> QED BY <2>1, <2>2
<1>6. Times(x, u) = Times(x, h) + Times(x, t)
  BY <1>1, <1>2, TimesConcat
<1>7. Times(x, h) \in Nat /\ Times(x, t) \in Nat
  BY <1>1, <1>2, TimesNat
<1> HIDE DEF u
<1>8. u = s
  BY <1>1, <1>2, <1>4, <1>5, SeqEqual
<1> QED BY <1>1, <1>3, <1>6, <1>7, <1>8 DEF t

\* Of a sequence less some of its elements.
LEMMA TimesOnly ==
  ASSUME NEW S, NEW s \in Seq(S), NEW D
  PROVE  /\ Only(s, D) \in Seq(S)
         /\ \A x : Times(x, Only(s, D)) = IF x \in D THEN Times(x, s) ELSE 0
<1> DEFINE n == Len(s)
           F(f) == f = [i \in 0..n |->
             IF i = 0 THEN <<>> ELSE IF s[i] \in D THEN Append(f[i - 1], s[i]) ELSE f[i - 1]]
           f == CHOOSE f : F(f)
<1>1. /\ n \in Nat /\ DOMAIN s = 1..n /\ \A i \in 1..n : s[i] \in S
      /\ <<>> \in Seq(S)
  BY LenProperties, ElementOfSeq, EmptySeq
<1> DEFINE g == [i \in 1..n |-> [r \in Seq(S) |-> IF s[i] \in D THEN Append(r, s[i]) ELSE r]]
<1>2. g \in [1..n -> [Seq(S) -> Seq(S)]]
  BY <1>1, AppendProperties
<1> HIDE DEF n
<1>3. PICK h \in [0..n -> Seq(S)] :
        h[0] = <<>> /\ \A i \in 1..n : h[i] = g[i][h[i - 1]]
  <2> DEFINE T == Seq(S)
             empty == <<>>
  <2>1. g \in [1..n -> [T -> T]] /\ empty \in T
    BY <1>1, <1>2
  <2> HIDE DEF g, T, empty
  <2>2. \E h : Iterates(h, T, empty, n, g)
    BY <1>1, <2>1, IterationExists
  <2> QED BY <2>2 DEF Iterates, T, empty
<1>4. F(h)
  <2>1. ASSUME NEW i \in 1..n
        PROVE  h[i] = IF s[i] \in D THEN Append(h[i - 1], s[i]) ELSE h[i - 1]
    <3>1. h[i - 1] \in Seq(S)
      BY <1>1, <1>3
    <3> QED BY <1>3, <3>1
  <2>2. \A i \in 0..n : i # 0 => i \in 1..n
    BY <1>1
  <2>3. \A i \in 0..n : h[i] =
          IF i = 0 THEN <<>> ELSE IF s[i] \in D THEN Append(h[i - 1], s[i]) ELSE h[i - 1]
    BY <1>3, <2>1, <2>2
  <2> HIDE DEF g
  <2> QED BY <1>3, <2>3
<1>5. F(f)
  <2> HIDE DEF F
  <2> QED BY <1>4
<1>6. Only(s, D) = f[n]
  BY DEF Only, n
<1>7. f[0] = <<>> /\ \A i \in 1..n :
        f[i] = IF s[i] \in D THEN Append(f[i - 1], s[i]) ELSE f[i - 1]
  <2> HIDE DEF f
  <2>1. 0 \in 0..n /\ \A i \in 1..n : i \in 0..n /\ i # 0
    BY <1>1
  <2> QED BY <1>5, <2>1
<1> DEFINE pre(i) == SubSeq(s, 1, i)
           P == {i \in 0..n :
             /\ f[i] \in Seq(S) /\ pre(i) \in Seq(S)
             /\ \A x : Times(x, f[i]) = IF x \in D THEN Times(x, pre(i)) ELSE 0}
<1>8. pre(0) = <<>>
  BY SubSeqEmpty
<1>9. ASSUME NEW i \in 1..n, pre(i - 1) \in Seq(S)
      PROVE  pre(i) = Append(pre(i - 1), s[i])
  <2>1. 1 \in 1..Len(s) /\ i \in 1..Len(s)
    BY <1>1 DEF n
  <2>2. pre(i) = pre(i - 1) \o <<s[i]>>
    BY <2>1, SubSeqRecursiveSecond
  <2>3. s[i] \in S
    BY <1>1
  <2> HIDE DEF pre
  <2>4. Append(pre(i - 1), s[i]) = pre(i - 1) \o <<s[i]>>
    BY <1>9, <2>3, AppendIsConcat
  <2> QED BY <2>2, <2>4
<1>10. pre(n) = s
  BY <1>1, SubSeqFull DEF n
<1> HIDE DEF f, F, pre
<1>11. 0 \in P
  <2>1. \A x : Times(x, <<>>) = 0
    BY TimesEmpty
  <2>2. \A x : Times(x, f[0]) = 0 /\ Times(x, pre(0)) = 0
    BY <1>7, <1>8, <2>1, Zenon
  <2>3. f[0] \in Seq(S) /\ pre(0) \in Seq(S)
    BY <1>1, <1>7, <1>8, Zenon
  <2>4. 0 \in 0..n
    BY <1>1
  <2>5. \A x : Times(x, f[0]) = IF x \in D THEN Times(x, pre(0)) ELSE 0
    BY <2>2, Zenon
  <2> QED BY <2>3, <2>4, <2>5, Zenon
<1>12. ASSUME NEW i \in 1..n, i - 1 \in P
       PROVE  i \in P
  <2> DEFINE a == pre(i - 1)
             b == pre(i)
             r == f[i - 1]
  <2>1. r \in Seq(S) /\ a \in Seq(S) /\ s[i] \in S
    BY <1>1, <1>12
  <2>2. b = Append(a, s[i])
    BY <1>9, <2>1
  <2>3. /\ f[i] = IF s[i] \in D THEN Append(r, s[i]) ELSE r
        /\ \A x : Times(x, r) = IF x \in D THEN Times(x, a) ELSE 0
    BY <1>7, <1>12
  <2> HIDE DEF a, b, r
  <2>4. /\ Append(r, s[i]) \in Seq(S)
        /\ \A x : Times(x, Append(r, s[i])) = Times(x, r) + (IF x = s[i] THEN 1 ELSE 0)
    BY <2>1, TimesAppend
  <2>5. /\ Append(a, s[i]) \in Seq(S)
        /\ \A x : Times(x, Append(a, s[i])) = Times(x, a) + (IF x = s[i] THEN 1 ELSE 0)
    BY <2>1, TimesAppend
  <2>6. f[i] \in Seq(S) /\ b \in Seq(S)
    BY <2>1, <2>2, <2>3, <2>4, <2>5
  <2>7. ASSUME NEW x
        PROVE  Times(x, f[i]) = IF x \in D THEN Times(x, b) ELSE 0
    <3>1. Times(x, a) \in Nat
      BY <2>1, TimesNat
    <3> QED BY <2>2, <2>3, <2>4, <2>5, <3>1
  <2> QED BY <1>1, <2>6, <2>7 DEF b
<1>13. n \in P
  <2> HIDE DEF P
  <2>1. \A i \in 0..n : i \in P
    BY <1>1, <1>11, <1>12, InductionUpTo
  <2> QED BY <1>1, <2>1
<1> QED BY <1>6, <1>10, <1>13

\* Each of ds is released once for every time it is in ds.
LEMMA TimesCompleting ==
  ASSUME NEW S, NEW ds \in Seq(S), NEW op, op # "release", NEW d
  PROVE  Times(Step("release", d), Completing(op, ds)) = Times(d, ds)
<1> DEFINE n == Len(ds)
           c == Completing(op, ds)
           I == {j \in DOMAIN ds : ds[j] = d}
           K == {i \in DOMAIN c : c[i] = Step("release", d)}
           f == [j \in I |-> 2 * j]
<1>1. n \in Nat /\ DOMAIN ds = 1..n
  BY LenProperties
<1>2. /\ DOMAIN c = 1..2 * n
      /\ \A i \in 1..2 * n : c[i] = IF i % 2 = 1 THEN Step(op, ds[(i + 1) \div 2])
                                                 ELSE Step("release", ds[i \div 2])
  BY DEF Completing
<1>3. \A o1, o2, x, y : Step(o1, x) = Step(o2, y) <=> o1 = o2 /\ x = y
  BY DEF Step
<1>4. ASSUME NEW i \in K
      PROVE  i \div 2 \in I /\ i = 2 * (i \div 2)
  <2>1. i \in 1..2 * n /\ c[i] = Step("release", d)
    BY <1>2
  <2>2. i % 2 # 1
    BY <1>2, <1>3, <2>1
  <2>3. i = 2 * (i \div 2) /\ i \div 2 \in 1..n
    BY <1>1, <2>1, <2>2
  <2>4. ds[i \div 2] = d
    BY <1>2, <1>3, <2>1, <2>2
  <2> QED BY <1>1, <2>3, <2>4
<1>5. ASSUME NEW j \in I
      PROVE  2 * j \in K
  <2>1. 2 * j \in 1..2 * n /\ (2 * j) % 2 # 1 /\ (2 * j) \div 2 = j
    BY <1>1
  <2> QED BY <1>2, <2>1
<1>6. IsFiniteSet(I)
  <2>1. IsFiniteSet(1..n)
    BY <1>1, FS_Interval
  <2> QED BY <1>1, <2>1, FS_Subset
<1>7. f \in Bijection(I, K)
  <2>1. f \in [I -> K]
    BY <1>5
  <2>2. \A y \in K : \E x \in I : f[x] = y
    BY <1>4
  <2>3. \A x, y \in I : f[x] = f[y] => x = y
    BY <1>1
  <2> HIDE DEF f, I, K
  <2> QED BY <2>1, <2>2, <2>3 DEF Bijection, Injection, Surjection, IsInjective
<1>8. Cardinality(K) = Cardinality(I)
  <2> HIDE DEF f, I, K
  <2> QED BY <1>6, <1>7, FS_Bijection DEF ExistsBijection
<1> QED BY <1>8 DEF Times

\* What wait(true) does to the queue: two elements change places.
LEMMA TimesSwap ==
  ASSUME NEW S, NEW s \in Seq(S), NEW k \in DOMAIN s
  PROVE  LET t == [s EXCEPT ![1] = s[k], ![k] = s[1]] IN
         t \in Seq(S) /\ \A x : Times(x, t) = Times(x, s)
<1> DEFINE n == Len(s)
           t == [s EXCEPT ![1] = s[k], ![k] = s[1]]
           at(i) == IF i = 1 THEN k ELSE IF i = k THEN 1 ELSE i
<1>1. /\ n \in Nat /\ DOMAIN s = 1..n /\ k \in 1..n /\ 1 \in 1..n
      /\ \A i \in 1..n : s[i] \in S
  BY LenProperties, ElementOfSeq
<1>2. DOMAIN t = 1..n
  BY <1>1
<1>3. \A i \in 1..n : t[i] = s[at(i)] /\ at(i) \in 1..n /\ at(at(i)) = i
  BY <1>1
<1>4. t = [i \in 1..n |-> s[at(i)]]
  BY <1>1, <1>2, <1>3
<1> HIDE DEF t, n
<1>5. t \in Seq(S)
  BY <1>1, <1>3, <1>4, SeqDef
<1>6. ASSUME NEW x
      PROVE  Times(x, t) = Times(x, s)
  <2> DEFINE I == {i \in DOMAIN s : s[i] = x}
             K == {i \in DOMAIN t : t[i] = x}
             f == [i \in I |-> at(i)]
  <2>1. \A i \in I : at(i) \in K
    BY <1>1, <1>2, <1>3
  <2>2. \A i \in K : at(i) \in I
    BY <1>1, <1>2, <1>3
  <2>3. IsFiniteSet(I)
    <3>1. IsFiniteSet(1..n)
      BY <1>1, FS_Interval
    <3> QED BY <1>1, <3>1, FS_Subset
  <2>4. f \in Bijection(I, K)
    <3>1. f \in [I -> K]
      BY <2>1
    <3>2. \A y \in K : \E i \in I : f[i] = y
      BY <1>2, <1>3, <2>2
    <3>3. \A i, j \in I : f[i] = f[j] => i = j
      BY <1>1, <1>3
    <3> HIDE DEF f, I, K
    <3> QED BY <3>1, <3>2, <3>3 DEF Bijection, Injection, Surjection, IsInjective
  <2>5. Cardinality(K) = Cardinality(I)
    <3> HIDE DEF f, I, K
    <3> QED BY <2>3, <2>4, FS_Bijection DEF ExistsBijection
  <2> QED BY <2>5 DEF Times
<1> QED BY <1>5, <1>6 DEF t

-----------------------------------------------------------------------------
(* What is added to the running data, and dropped from it. *)

Runs == [Objects -> Seq(Numbers)]

\* Every execution data is of one object.
LEMMA OfTyped ==
  ASSUME TypeOK, NEW d \in Numbers
  PROVE  data[d] \in Datum /\ Of(d) \in Objects
<1>1. data[d] \in Datum
  BY ElementOfSeq, LenProperties DEF TypeOK, Numbers
<1> QED BY <1>1 DEF Datum, Of

LEMMA AddedIs ==
  ASSUME TypeOK, NEW run \in Runs, NEW ds \in Seq(Numbers)
  PROVE  /\ Added(run, ds) \in Runs
         /\ \A o \in Objects : \A x : Times(x, Added(run, ds)[o]) =
              Times(x, run[o]) + (IF x \in Numbers /\ Of(x) = o THEN Times(x, ds) ELSE 0)
<1> DEFINE mine(o) == {d \in Numbers : Of(d) = o}
<1>1. ASSUME NEW o \in Objects
      PROVE  /\ run[o] \in Seq(Numbers) /\ Only(ds, mine(o)) \in Seq(Numbers)
             /\ \A x : Times(x, Only(ds, mine(o))) = IF x \in mine(o) THEN Times(x, ds) ELSE 0
  BY TimesOnly DEF Runs
<1> HIDE DEF mine
<1>2. ASSUME NEW o \in Objects
      PROVE  /\ run[o] \o Only(ds, mine(o)) \in Seq(Numbers)
             /\ \A x : Times(x, run[o] \o Only(ds, mine(o)))
                         = Times(x, run[o]) + Times(x, Only(ds, mine(o)))
  BY <1>1, ConcatProperties, TimesConcat
<1>3. \A o \in Objects : Added(run, ds)[o] = run[o] \o Only(ds, mine(o))
  BY DEF Added, mine
<1>4. Added(run, ds) \in Runs
  BY <1>2 DEF Added, mine, Runs
<1>5. ASSUME NEW o \in Objects, NEW x
      PROVE  Times(x, Added(run, ds)[o]) =
               Times(x, run[o]) + (IF x \in mine(o) THEN Times(x, ds) ELSE 0)
  BY <1>1, <1>2, <1>3
<1> QED BY <1>4, <1>5 DEF mine

\* One is dropped from its object: the front of it, or wherever it is.
LEMMA DroppedIs ==
  ASSUME TypeOK, NEW run \in Runs, NEW d \in Numbers
  PROVE  /\ Dropped(run, d) \in Runs
         /\ \A o \in Objects : \A x :
              /\ Times(x, Dropped(run, d)[o]) <= Times(x, run[o])
              /\ x # d \/ o # Of(d) => Times(x, Dropped(run, d)[o]) = Times(x, run[o])
              /\ x = d /\ o = Of(d) => \/ Times(x, Dropped(run, d)[o]) = 0
                                       \/ Times(x, Dropped(run, d)[o]) < Times(x, run[o])
<1> DEFINE s == run[Of(d)]
           t == IF s # <<>> /\ Head(s) = d THEN Tail(s) ELSE Only(s, Numbers \ {d})
<1>1. Of(d) \in Objects /\ s \in Seq(Numbers)
  BY OfTyped DEF Runs
<1>2. /\ t \in Seq(Numbers)
      /\ \A x : /\ x # d => Times(x, t) = Times(x, s)
                /\ Times(d, t) = 0 \/ Times(d, t) < Times(d, s)
  <2>1. CASE s # <<>> /\ Head(s) = d
    <3>1. t = Tail(s)
      BY <2>1
    <3>2. /\ Tail(s) \in Seq(Numbers)
          /\ \A x : Times(x, s) = Times(x, Tail(s)) + (IF x = d THEN 1 ELSE 0)
      BY <1>1, <2>1, TimesTail
    <3>3. \A x : Times(x, Tail(s)) \in Nat
      BY <3>2, TimesNat
    <3> HIDE DEF s, t
    <3> QED BY <3>1, <3>2, <3>3
  <2>2. CASE ~(s # <<>> /\ Head(s) = d)
    <3>1. t = Only(s, Numbers \ {d})
      BY <2>2
    <3>2. /\ Only(s, Numbers \ {d}) \in Seq(Numbers)
          /\ \A x : Times(x, Only(s, Numbers \ {d})) =
                      IF x \in Numbers \ {d} THEN Times(x, s) ELSE 0
      BY <1>1, TimesOnly
    <3>3. \A x : x \notin Numbers => Times(x, s) = 0
      <4>1. Range(s) \subseteq Numbers
        BY <1>1, ElementOfSeq, LenProperties DEF Range
      <4> QED BY <1>1, <4>1, TimesNat
    <3> HIDE DEF s, t
    <3> QED BY <3>1, <3>2, <3>3
  <2> QED BY <2>1, <2>2
<1>3. \A x : \A o \in Objects : Times(x, run[o]) \in Nat
  BY TimesNat DEF Runs
<1>4. \A x : Times(x, t) \in Nat
  BY <1>2, TimesNat
<1>5. Dropped(run, d) = [run EXCEPT ![Of(d)] = t]
  BY DEF Dropped
<1> HIDE DEF t
<1>6. /\ Dropped(run, d) \in Runs
      /\ \A o \in Objects : Dropped(run, d)[o] = IF o = Of(d) THEN t ELSE run[o]
  BY <1>1, <1>2, <1>5 DEF Runs
<1>7. ASSUME NEW o \in Objects, NEW x
      PROVE  /\ Times(x, Dropped(run, d)[o]) <= Times(x, run[o])
             /\ x # d \/ o # Of(d) => Times(x, Dropped(run, d)[o]) = Times(x, run[o])
             /\ x = d /\ o = Of(d) => \/ Times(x, Dropped(run, d)[o]) = 0
                                      \/ Times(x, Dropped(run, d)[o]) < Times(x, run[o])
  <2>1. CASE o = Of(d)
    <3>1. Times(x, Dropped(run, d)[o]) = Times(x, t) /\ Times(x, run[o]) = Times(x, s)
      BY <1>6, <2>1
    <3>2. Times(x, t) \in Nat /\ Times(x, s) \in Nat
      BY <1>1, <1>3, <1>4
    <3> HIDE DEF s
    <3> QED BY <1>2, <2>1, <3>1, <3>2
  <2>2. CASE o # Of(d)
    <3>1. Dropped(run, d)[o] = run[o] /\ Times(x, run[o]) \in Nat
      BY <1>3, <1>6, <2>2
    <3> QED BY <2>2, <3>1
  <2> QED BY <2>1, <2>2
<1> QED BY <1>6, <1>7

\* And each of ds in turn.
LEMMA DroppedAllIs ==
  ASSUME TypeOK, NEW run \in Runs, NEW ds \in Seq(Numbers)
  PROVE  /\ DroppedAll(run, ds) \in Runs
         /\ \A o \in Objects : \A x :
              /\ Times(x, DroppedAll(run, ds)[o]) <= Times(x, run[o])
              /\ x \notin Range(ds) \/ o # Of(x) =>
                   Times(x, DroppedAll(run, ds)[o]) = Times(x, run[o])
              /\ x \in Range(ds) /\ o = Of(x) =>
                   \/ Times(x, DroppedAll(run, ds)[o]) = 0
                   \/ Times(x, DroppedAll(run, ds)[o]) < Times(x, run[o])
<1> DEFINE n == Len(ds)
           F(f) == f = [i \in 0..n |-> IF i = 0 THEN run ELSE Dropped(f[i - 1], ds[i])]
           f == CHOOSE f : F(f)
           g == [i \in 1..n |-> [r \in Runs |-> Dropped(r, ds[i])]]
<1>1. n \in Nat /\ DOMAIN ds = 1..n /\ \A i \in 1..n : ds[i] \in Numbers
  BY LenProperties, ElementOfSeq
<1>2. DroppedAll(run, ds) = f[n]
  BY DEF DroppedAll
<1> HIDE DEF n
<1>3. g \in [1..n -> [Runs -> Runs]]
  BY <1>1, DroppedIs
<1>4. PICK h \in [0..n -> Runs] : h[0] = run /\ \A i \in 1..n : h[i] = g[i][h[i - 1]]
  <2> HIDE DEF g
  <2>1. \E h : Iterates(h, Runs, run, n, g)
    BY <1>1, <1>3, IterationExists
  <2> QED BY <2>1 DEF Iterates
<1>5. F(h)
  <2>1. ASSUME NEW i \in 1..n
        PROVE  h[i] = Dropped(h[i - 1], ds[i])
    <3>1. h[i - 1] \in Runs
      BY <1>1, <1>4
    <3> QED BY <1>4, <3>1
  <2>2. \A i \in 0..n : i # 0 => i \in 1..n
    BY <1>1
  <2>3. \A i \in 0..n : h[i] = IF i = 0 THEN run ELSE Dropped(h[i - 1], ds[i])
    BY <1>4, <2>1, <2>2
  <2> HIDE DEF g
  <2> QED BY <1>4, <2>3
<1>6. F(f)
  <2> HIDE DEF F
  <2> QED BY <1>5
<1>7. f[0] = run /\ \A i \in 1..n : f[i] = Dropped(f[i - 1], ds[i])
  <2> HIDE DEF f
  <2>1. 0 \in 0..n /\ \A i \in 1..n : i \in 0..n /\ i # 0
    BY <1>1
  <2> QED BY <1>6, <2>1
<1> DEFINE met(x, i) == \E j \in 1..i : ds[j] = x
           P == {i \in 0..n :
             /\ f[i] \in Runs
             /\ \A o \in Objects : \A x :
                  /\ Times(x, f[i][o]) \in Nat
                  /\ Times(x, f[i][o]) <= Times(x, run[o])
                  /\ ~met(x, i) \/ o # Of(x) => Times(x, f[i][o]) = Times(x, run[o])
                  /\ met(x, i) /\ o = Of(x) =>
                       Times(x, f[i][o]) = 0 \/ Times(x, f[i][o]) < Times(x, run[o])}
<1> HIDE DEF f, F, g
<1>8. \A r \in Runs : \A o \in Objects : \A x : Times(x, r[o]) \in Nat
  BY TimesNat DEF Runs
<1>9. 0 \in P
  <2>1. \A x : ~met(x, 0)
    OBVIOUS
  <2>2. 0 \in 0..n /\ f[0] \in Runs /\ f[0] = run
    BY <1>1, <1>7
  <2>3. \A o \in Objects : \A x : Times(x, f[0][o]) = Times(x, run[o])
    BY <2>2
  <2>4. \A o \in Objects : \A x : Times(x, run[o]) \in Nat
    BY <1>8
  <2> HIDE DEF met
  <2> QED BY <2>1, <2>2, <2>3, <2>4
<1>10. ASSUME NEW i \in 1..n, i - 1 \in P
       PROVE  i \in P
  <2> DEFINE r == f[i - 1]
             d == ds[i]
  <2>1. r \in Runs /\ d \in Numbers /\ f[i] = Dropped(r, d)
    BY <1>1, <1>7, <1>10
  <2>2. \A x : met(x, i) <=> met(x, i - 1) \/ x = d
    <3>1. \A j : j \in 1..i <=> j \in 1..i - 1 \/ j = i
      BY <1>1
    <3> QED BY <3>1
  <2>3. \A o \in Objects : \A x :
          /\ Times(x, r[o]) \in Nat
          /\ Times(x, r[o]) <= Times(x, run[o])
          /\ ~met(x, i - 1) \/ o # Of(x) => Times(x, r[o]) = Times(x, run[o])
          /\ met(x, i - 1) /\ o = Of(x) =>
               Times(x, r[o]) = 0 \/ Times(x, r[o]) < Times(x, run[o])
    BY <1>10
  <2> HIDE DEF r, d, met
  <2>4. /\ f[i] \in Runs
        /\ \A o \in Objects : \A x :
             /\ Times(x, f[i][o]) <= Times(x, r[o])
             /\ x # d \/ o # Of(d) => Times(x, f[i][o]) = Times(x, r[o])
             /\ x = d /\ o = Of(d) => Times(x, f[i][o]) = 0 \/ Times(x, f[i][o]) < Times(x, r[o])
    <3> DEFINE e == Dropped(r, d)
    <3>1. /\ e \in Runs
          /\ \A o \in Objects : \A x :
               /\ Times(x, e[o]) <= Times(x, r[o])
               /\ x # d \/ o # Of(d) => Times(x, e[o]) = Times(x, r[o])
               /\ x = d /\ o = Of(d) => Times(x, e[o]) = 0 \/ Times(x, e[o]) < Times(x, r[o])
      BY <2>1, DroppedIs
    <3>2. f[i] = e
      BY <2>1
    <3> HIDE DEF e
    <3> QED BY <3>1, <3>2
  <2>5. ASSUME NEW o \in Objects, NEW x
        PROVE  /\ Times(x, f[i][o]) \in Nat
               /\ Times(x, f[i][o]) <= Times(x, run[o])
               /\ ~met(x, i) \/ o # Of(x) => Times(x, f[i][o]) = Times(x, run[o])
               /\ met(x, i) /\ o = Of(x) =>
                    Times(x, f[i][o]) = 0 \/ Times(x, f[i][o]) < Times(x, run[o])
    <3>1. Times(x, f[i][o]) \in Nat /\ Times(x, r[o]) \in Nat /\ Times(x, run[o]) \in Nat
      BY <1>8, <2>1, <2>4
    <3>2. x # d \/ o # Of(x) => Times(x, f[i][o]) = Times(x, r[o])
      BY <2>4
    <3> QED BY <2>2, <2>3, <2>4, <3>1, <3>2
  <2> QED BY <1>1, <2>4, <2>5
<1>11. n \in P
  <2> HIDE DEF P
  <2>1. \A i \in 0..n : i \in P
    BY <1>1, <1>9, <1>10, InductionUpTo
  <2> QED BY <1>1, <2>1
<1>12. \A x : met(x, n) <=> x \in Range(ds)
  BY <1>1 DEF Range
<1> HIDE DEF met
<1> QED BY <1>2, <1>11, <1>12

-----------------------------------------------------------------------------
(* What a step does to the execution data. *)

LEMMA SeqWider ==
  ASSUME NEW S, NEW T, S \subseteq T, NEW s \in Seq(S)
  PROVE  s \in Seq(T)
<1>1. s = [i \in 1..Len(s) |-> s[i]] /\ Len(s) \in Nat /\ \A i \in 1..Len(s) : s[i] \in T
  BY LenProperties, ElementOfSeq
<1> QED BY <1>1, SeqDef

LEMMA NumbersAre ==
  ASSUME TypeOK
  PROVE  /\ Len(data) \in Nat /\ Numbers = 1..Len(data) /\ 0 \notin Numbers
         /\ Numbers \subseteq Nat /\ IsFiniteSet(Numbers) /\ Len(data) + 1 \notin Numbers
<1>1. Len(data) \in Nat /\ Numbers = 1..Len(data)
  BY LenProperties DEF TypeOK, Numbers
<1>2. IsFiniteSet(1..Len(data))
  BY <1>1, FS_Interval
<1> QED BY <1>1, <1>2

\* What an execution data has for good.
Keeps(d) ==
  data'[d].of = data[d].of /\ data'[d].parts = data[d].parts /\ data'[d].fn = data[d].fn
KeepsPhase(d) == data'[d].phase = data[d].phase

\* Most steps build none, and release none.
Unmoved ==
  /\ data' \in Seq(Datum) /\ Numbers' = Numbers
  /\ \A d \in Numbers : Keeps(d) /\ KeepsPhase(d)

\* A table of changed data is one of data.
LEMMA Changed ==
  ASSUME TypeOK, NEW D, D = [d \in Numbers |-> D[d]], \A d \in Numbers : D[d] \in Datum
  PROVE  D \in Seq(Datum) /\ Len(D) = Len(data) /\ DOMAIN D = Numbers
<1>1. Len(data) \in Nat /\ Numbers = 1..Len(data)
  BY NumbersAre
<1>2. D = [d \in 1..Len(data) |-> D[d]] /\ D \in Seq(Datum)
  BY <1>1, SeqDef
<1> QED BY <1>1, <1>2, LenProperties

LEMMA FirstIs ==
  ASSUME TypeOK, NEW ds
  PROVE  /\ First(ds) \in Seq(Datum) /\ Len(First(ds)) = Len(data) /\ DOMAIN First(ds) = Numbers
         /\ \A d \in Numbers :
              LET e == First(ds)[d] IN
              /\ e.of = data[d].of /\ e.parts = data[d].parts /\ e.fn = data[d].fn
              /\ e.phase = data[d].phase /\ e.heard = data[d].heard /\ e.status = data[d].status
              /\ d \notin Range(ds) => e.first = data[d].first
<1>1. \A d \in Numbers : data[d] \in Datum
  BY OfTyped
<1>2. \A d \in Numbers : First(ds)[d] =
        IF d \in Range(ds) /\ ~started[Of(d)] THEN [data[d] EXCEPT !.first = TRUE] ELSE data[d]
  BY DEF First
<1>3. \A d \in Numbers : First(ds)[d] \in Datum
  BY <1>1, <1>2 DEF Datum
<1>4. First(ds) = [d \in Numbers |-> First(ds)[d]]
  BY DEF First
<1>5. First(ds) \in Seq(Datum) /\ Len(First(ds)) = Len(data) /\ DOMAIN First(ds) = Numbers
  BY <1>3, <1>4, Changed
<1>6. ASSUME NEW d \in Numbers
      PROVE  LET e == First(ds)[d] IN
              /\ e.of = data[d].of /\ e.parts = data[d].parts /\ e.fn = data[d].fn
              /\ e.phase = data[d].phase /\ e.heard = data[d].heard /\ e.status = data[d].status
              /\ d \notin Range(ds) => e.first = data[d].first
  BY <1>1, <1>2 DEF Datum
<1> QED BY <1>5, <1>6

\* One more.
LEMMA Grown ==
  ASSUME TypeOK, NEW base \in Seq(Datum), Len(base) = Len(data), NEW e \in Datum,
         data' = Append(base, e)
  PROVE  /\ data' \in Seq(Datum)
         /\ Numbers' = Numbers \union {Len(data) + 1}
         /\ \A d \in Numbers : data'[d] = base[d]
         /\ data'[Len(data) + 1] = e
<1>1. Len(data) \in Nat /\ Numbers = 1..Len(data)
  BY NumbersAre
<1>2. /\ data' \in Seq(Datum) /\ Len(data') = Len(data) + 1
      /\ \A d \in 1..Len(data) : data'[d] = base[d]
      /\ data'[Len(data) + 1] = e
  BY AppendProperties
<1>3. DOMAIN data' = 1..Len(data) + 1
  BY <1>2, LenProperties
<1> QED BY <1>1, <1>2, <1>3 DEF Numbers

\* The steps that neither build an execution data nor release one.
Unmoving ==
  \/ \E o \in Objects :
       \/ \E f \in Functions : SetHandler(o, f)
       \/ StartRefused(o) \/ Abort(o)
       \/ \E swap \in BOOLEAN : Wait(o, swap)
  \/ \E t \in Transactions : ClearQueries(t)
  \/ Disconnect \/ Shutdown \/ ThinkHook
  \/ Await \/ Think \/ Report \/ Return \/ Clear
  \/ Take \/ \E c \in Numbers : BeginChild(c)
  \/ \E s \in {"COMPLETE", "ABORTED"} : Finish(s)
  \/ UNCHANGED vars

LEMMA Moves ==
  [Next]_vars =>
    \/ Unmoving
    \/ \E t \in Transactions, q \in Queries : AddQuery(t, q)
    \/ \E o \in Objects : Start(o)
    \/ Release
BY DEF Next, Unmoving

\* A shutdown, like a think(), is for no one execution.
USE DEF Bare

\* The frame on top of the stack.
LEMMA TopTyped ==
  ASSUME TypeOK, NEW op, At(op)
  PROVE  /\ todo # <<>> /\ Head(todo) \in Frame /\ Head(todo).op = op
         /\ Head(todo) = Step(op, Head(todo).data)
         /\ op \notin Bare => Head(todo).data \in Numbers
         /\ op = "clear" => Of(Head(todo).data) \in Transactions
<1>1. todo # <<>> /\ Head(todo).op = op /\ todo \in Seq(Frame)
  BY DEF At, TypeOK
<1>2. Head(todo) = todo[1] /\ 1 \in DOMAIN todo /\ Head(todo) \in Frame
  BY <1>1, ContainsTail, LenProperties
<1>3. Head(todo) = Step(op, Head(todo).data)
  BY <1>1, <1>2 DEF Frame, Step
<1> QED BY <1>1, <1>2, <1>3 DEF TypeOK

LEMMA HandlerTyped ==
  ASSUME TypeOK, NEW d \in Numbers
  PROVE  Handler(d) \in Functions \union {"none"}
<1>1. data[d] \in Datum /\ Of(d) \in Objects
  BY OfTyped
<1> QED BY <1>1 DEF Handler, TypeOK, Datum

\* What the steps write into an execution data that is there.
LEMMA Written ==
  ASSUME NEW e \in Datum, NEW f,
         \/ f = e
         \/ \E s \in {"RUNNING", "COMPLETE", "ABORTED"} :
              f = [e EXCEPT !.status = s] \/ f = [e EXCEPT !.status = s, !.over = TRUE]
         \/ \E h \in Functions \union {"none"} : f = [e EXCEPT !.heard = h]
  PROVE  /\ f \in Datum
         /\ f.of = e.of /\ f.parts = e.parts /\ f.fn = e.fn /\ f.phase = e.phase
         /\ f.first = e.first
BY DEF Datum

LEMMA UnmovedBy ==
  ASSUME TypeOK, Unmoving
  PROVE  Unmoved
<1>1. data \in Seq(Datum) /\ \A d \in Numbers : data[d] \in Datum
  BY OfTyped DEF TypeOK
<1>2. CASE UNCHANGED data
  BY <1>1, <1>2 DEF Unmoved, Keeps, KeepsPhase, Numbers
<1>3. ASSUME data' = [d \in Numbers |-> data'[d]],
             \A d \in Numbers : data'[d] \in Datum /\ Keeps(d) /\ KeepsPhase(d)
      PROVE  Unmoved
  <2>1. data' \in Seq(Datum) /\ DOMAIN data' = Numbers
    BY <1>3, Changed
  <2> QED BY <1>3, <2>1 DEF Unmoved, Numbers
<1>4. ASSUME NEW o \in Objects, StartRefused(o)
      PROVE  Unmoved
  <2>1. data' = First(Children(o))
    BY <1>4 DEF StartRefused
  <2> QED BY <2>1, FirstIs DEF Unmoved, Keeps, KeepsPhase, Numbers
<1>5. ASSUME NEW ds, data' = AbortedData(ds)
      PROVE  Unmoved
  <2>1. \A d \in Numbers : data'[d] =
          IF d \in Range(ds) THEN [data[d] EXCEPT !.status = "ABORTED", !.over = TRUE] ELSE data[d]
    BY <1>5 DEF AbortedData
  <2>2. data' = [d \in Numbers |-> data'[d]]
    BY <1>5 DEF AbortedData
  <2>3. ASSUME NEW d \in Numbers
        PROVE  data'[d] \in Datum /\ Keeps(d) /\ KeepsPhase(d)
    <3> DEFINE e == data[d]
               f == data'[d]
    <3>1. e \in Datum /\ (\/ f = e
                         \/ \E s1 \in {"RUNNING", "COMPLETE", "ABORTED"} :
                              \/ f = [e EXCEPT !.status = s1]
                              \/ f = [e EXCEPT !.status = s1, !.over = TRUE])
      BY <1>1, <2>1
    <3> HIDE DEF e, f
    <3>2. /\ f \in Datum
          /\ f.of = e.of /\ f.parts = e.parts /\ f.fn = e.fn /\ f.phase = e.phase
      BY <3>1, Written
    <3> QED BY <3>2 DEF e, f, Keeps, KeepsPhase
  <2> QED BY <1>3, <2>2, <2>3
<1>6. CASE Report
  <2> DEFINE d == Head(todo).data
  <2>1. d \in Numbers
    BY <1>6, TopTyped DEF Report
  <2>2. data' = [data EXCEPT ![d].heard = Handler(d)] /\ Handler(d) \in Functions \union {"none"}
    BY <1>6, <2>1, HandlerTyped DEF Report
  <2>3. \A e \in Numbers : data'[e] =
          IF e = d THEN [data[e] EXCEPT !.heard = Handler(d)] ELSE data[e]
    BY <2>2 DEF Numbers
  <2>4. data' = [e \in Numbers |-> data'[e]]
    BY <2>2 DEF Numbers
  <2> HIDE DEF d
  <2>5. ASSUME NEW c \in Numbers
        PROVE  data'[c] \in Datum /\ Keeps(c) /\ KeepsPhase(c)
    <3> DEFINE e == data[c]
               f == data'[c]
    <3>1. e \in Datum /\ (f = e \/ \E h \in Functions \union {"none"} : f = [e EXCEPT !.heard = h])
      BY <1>1, <2>2, <2>3
    <3> HIDE DEF e, f
    <3>2. /\ f \in Datum
          /\ f.of = e.of /\ f.parts = e.parts /\ f.fn = e.fn /\ f.phase = e.phase
      BY <3>1, Written
    <3> QED BY <3>2 DEF e, f, Keeps, KeepsPhase
  <2> QED BY <1>3, <2>4, <2>5
<1>7. ASSUME NEW c, data' = [data EXCEPT ![c].status = "RUNNING"]
      PROVE  Unmoved
  <2>1. data' = [d \in Numbers |-> data'[d]]
    BY <1>7 DEF Numbers
  <2>2. \A d \in Numbers : data'[d] =
          IF d = c THEN [data[d] EXCEPT !.status = "RUNNING"] ELSE data[d]
    BY <1>7 DEF Numbers
  <2>3. ASSUME NEW d \in Numbers
        PROVE  data'[d] \in Datum /\ Keeps(d) /\ KeepsPhase(d)
    <3> DEFINE e == data[d]
               f == data'[d]
    <3>1. e \in Datum /\ (\/ f = e
                         \/ \E s1 \in {"RUNNING", "COMPLETE", "ABORTED"} :
                              \/ f = [e EXCEPT !.status = s1]
                              \/ f = [e EXCEPT !.status = s1, !.over = TRUE])
      BY <1>1, <2>2
    <3> HIDE DEF e, f
    <3>2. /\ f \in Datum
          /\ f.of = e.of /\ f.parts = e.parts /\ f.fn = e.fn /\ f.phase = e.phase
      BY <3>1, Written
    <3> QED BY <3>2 DEF e, f, Keeps, KeepsPhase
  <2> QED BY <1>3, <2>1, <2>3
<1>8. ASSUME NEW s \in {"COMPLETE", "ABORTED"}, Finish(s)
      PROVE  Unmoved
  <2>1. data' = [d \in Numbers |-> data'[d]]
    BY <1>8 DEF Finish
  <2>2. \A d \in Numbers : data'[d] =
          IF InHand(d) THEN [data[d] EXCEPT !.status = s, !.over = TRUE] ELSE data[d]
    BY <1>8 DEF Finish
  <2>3. ASSUME NEW d \in Numbers
        PROVE  data'[d] \in Datum /\ Keeps(d) /\ KeepsPhase(d)
    <3> DEFINE e == data[d]
               f == data'[d]
    <3>1. e \in Datum /\ (\/ f = e
                         \/ \E s1 \in {"RUNNING", "COMPLETE", "ABORTED"} :
                              \/ f = [e EXCEPT !.status = s1]
                              \/ f = [e EXCEPT !.status = s1, !.over = TRUE])
      BY <1>1, <2>2
    <3> HIDE DEF e, f
    <3>2. /\ f \in Datum
          /\ f.of = e.of /\ f.parts = e.parts /\ f.fn = e.fn /\ f.phase = e.phase
      BY <3>1, Written
    <3> QED BY <3>2 DEF e, f, Keeps, KeepsPhase
  <2> QED BY <1>3, <2>1, <2>3
<1>9. CASE (\E o \in Objects : Abort(o)) \/ Disconnect \/ (Shutdown /\ ~closed)
  BY <1>5, <1>9 DEF Abort, Disconnect, Shutdown
<1>10. CASE Take \/ \E c \in Numbers : BeginChild(c)
  BY <1>7, <1>10 DEF Take, BeginChild
<1> QED BY <1>2, <1>4, <1>6, <1>8, <1>9, <1>10
        DEF Unmoving, SetHandler, Wait, ClearQueries, Shutdown, ThinkHook, Await, Think, Return,
            Clear, vars

-----------------------------------------------------------------------------
(* Families. *)

LEMMA RangeTyped ==
  ASSUME NEW S, NEW s \in Seq(S)
  PROVE  Range(s) \subseteq S
BY ElementOfSeq, LenProperties DEF Range

LEMMA RangeEmpty == Range(<<>>) = {}
<1>1. DOMAIN <<>> = 1..Len(<<>>) /\ Len(<<>>) = 0
  BY EmptySeq, LenProperties
<1> QED BY <1>1 DEF Range

LEMMA RangeAppend ==
  ASSUME NEW S, NEW s \in Seq(S), NEW y \in S
  PROVE  Range(Append(s, y)) = Range(s) \union {y}
<1>1. /\ Len(s) \in Nat /\ DOMAIN s = 1..Len(s) /\ DOMAIN Append(s, y) = 1..Len(s) + 1
      /\ \A i \in 1..Len(s) : Append(s, y)[i] = s[i]
      /\ Append(s, y)[Len(s) + 1] = y
  BY AppendProperties, LenProperties
<1> QED BY <1>1 DEF Range

\* What is staged, and what a transaction took along.
LEMMA StagedTyped ==
  ASSUME TypeOK
  PROVE  /\ \A t \in Transactions :
              /\ staged[t] \in Seq(Numbers)
              /\ \A d \in Range(staged[t]) : d \in Numbers /\ Of(d) \in Queries
         /\ \A p \in Numbers :
              /\ Parts(p) \in Seq(Numbers) /\ Parts(p) \in Seq(Nat)
              /\ \A d \in Range(Parts(p)) : d \in Numbers /\ Of(d) \in Queries
<1> DEFINE S == {d \in Numbers : Of(d) \in Queries}
<1>1. S \subseteq Numbers /\ Numbers \subseteq Nat /\ S \subseteq Nat
  BY NumbersAre
<1>2. \A t \in Transactions : staged[t] \in Seq(S)
  BY DEF TypeOK
<1>3. \A p \in Numbers : Parts(p) \in Seq(S)
  BY DEF TypeOK
<1>4. \A s \in Seq(S) : /\ s \in Seq(Numbers) /\ s \in Seq(Nat) /\ Range(s) \subseteq S
  BY <1>1, SeqWider, RangeTyped
<1>5. \A s \in Seq(S) : \A d \in Range(s) : d \in Numbers /\ Of(d) \in Queries
  BY <1>4
<1> HIDE DEF S
<1> QED BY <1>2, <1>3, <1>4, <1>5

LEMMA ChildrenTyped ==
  ASSUME TypeOK, NEW o \in Objects
  PROVE  /\ Children(o) \in Seq(Numbers) /\ Children(o) \in Seq(Nat)
         /\ \A d \in Range(Children(o)) :
              /\ o \in Transactions /\ d \in Range(staged[o])
              /\ d \in Numbers /\ Of(d) \in Queries
         /\ o \in Transactions => Children(o) = staged[o]
<1>1. CASE o \in Transactions
  <2>1. Children(o) = staged[o]
    BY <1>1 DEF Children
  <2>2. Numbers \subseteq Nat
    BY NumbersAre
  <2> QED BY <1>1, <2>1, <2>2, StagedTyped, SeqWider
<1>2. CASE o \notin Transactions
  <2>1. Children(o) = <<>>
    BY <1>2 DEF Children
  <2> QED BY <1>2, <2>1, RangeEmpty, EmptySeq
<1> QED BY <1>1, <1>2

\* They stay what they are as long as nothing is staged or started.
LEMMA FamiliesKept ==
  ASSUME TypeOK, Families, Numbers' = Numbers,
         \A d \in Numbers : Keeps(d) /\ (IsStaged(d)' <=> IsStaged(d)),
         UNCHANGED started,
         \A t \in Transactions : staged'[t] = staged[t] \/ staged'[t] = <<>>
  PROVE  Families'
<1>1. \A d \in Numbers : Of(d)' = Of(d) /\ Parts(d)' = Parts(d)
  BY DEF Keeps, Of, Parts
<1>2. \A t \in Transactions : \A d \in Range(staged'[t]) :
        staged'[t] = staged[t] /\ d \in Range(staged[t])
  BY RangeEmpty
<1>3. ASSUME NEW t \in Transactions, NEW d \in Range(staged'[t])
      PROVE  /\ IsStaged(d)' /\ Times(d, staged'[t]) <= 1
             /\ \A u \in Transactions : d \in Range(staged'[u]) => t = u
  <2>1. d \in Numbers /\ staged'[t] = staged[t] /\ d \in Range(staged[t])
    BY <1>2, <1>3, StagedTyped
  <2>2. /\ IsStaged(d) /\ Times(d, staged[t]) <= 1
        /\ \A u \in Transactions : d \in Range(staged[u]) => t = u
    BY <2>1 DEF Families
  <2> QED BY <1>2, <2>1, <2>2
<1>4. ASSUME NEW p \in Numbers, NEW d \in Range(Parts(p))
      PROVE  /\ IsStaged(d)' /\ Times(d, Parts(p)) <= 1 /\ Of(p) \in Transactions
             /\ \A t \in Transactions : d \in Range(staged'[t]) => t = Of(p)
             /\ \A r \in Numbers : d \in Range(Parts(r)) => r = p
  <2>1. d \in Numbers
    BY StagedTyped
  <2>2. /\ IsStaged(d) /\ Times(d, Parts(p)) <= 1 /\ Of(p) \in Transactions
        /\ \A t \in Transactions : d \in Range(staged[t]) => t = Of(p)
        /\ \A r \in Numbers : d \in Range(Parts(r)) => r = p
    BY DEF Families
  <2> QED BY <1>2, <2>1, <2>2
<1>5. \A d \in Numbers : IF IsStaged(d)' THEN Of(d) \in Queries ELSE started'[Of(d)]
  BY DEF Families
<1>6. \A p \in Numbers : \A d \in Range(Parts(p)') :
        /\ IsStaged(d)' /\ Times(d, Parts(p)') <= 1 /\ Of(p)' \in Transactions
        /\ \A t \in Transactions : d \in Range(staged'[t]) => t = Of(p)'
        /\ \A r \in Numbers : d \in Range(Parts(r)') => r = p
  BY <1>1, <1>4
<1>7. \A d \in Numbers : IF IsStaged(d)' THEN Of(d)' \in Queries ELSE started'[Of(d)']
  BY <1>1, <1>5
<1> QED BY <1>3, <1>6, <1>7 DEF Families

\* addQuery() stages a new one.
LEMMA FamiliesAdded ==
  ASSUME TypeOK, Families, NEW t \in Transactions, NEW q \in Queries, AddQuery(t, q)
  PROVE  /\ Families'
         /\ Numbers' = Numbers \union {Len(data) + 1} /\ data' \in Seq(Datum)
         /\ \A d \in Numbers : data'[d] = data[d]
         /\ data'[Len(data) + 1].of = q /\ data'[Len(data) + 1].phase = "staged"
         /\ data'[Len(data) + 1].parts = <<>>
         /\ \A u \in Transactions : staged'[u] =
              IF u = t THEN Append(staged[u], Len(data) + 1) ELSE staged[u]
<1> DEFINE e == New(q, "staged", FALSE, "none", <<>>)
<1>1. /\ e \in Datum /\ e.of = q /\ e.phase = "staged" /\ e.parts = <<>>
  <2>1. q \in Objects /\ <<>> \in Seq(Nat) /\ "none" \in Functions \union {"none"}
        /\ "staged" \in {"staged", "accepted"} /\ FALSE \in BOOLEAN
    BY EmptySeq DEF Objects
  <2> QED BY <2>1 DEF New, Datum
<1> PICK n : n = Len(data) + 1
  OBVIOUS
<1>2. data' = Append(data, e)
  BY DEF AddQuery
<1>3. data \in Seq(Datum)
  BY DEF TypeOK
<1> HIDE DEF e
<1>4. /\ data' \in Seq(Datum) /\ Numbers' = Numbers \union {n}
      /\ \A d \in Numbers : data'[d] = data[d]
      /\ data'[n] = e
  BY <1>1, <1>2, <1>3, Grown
<1>5. n \notin Numbers /\ n \in Nat
  BY NumbersAre
<1>6. UNCHANGED started /\ \A u \in Transactions : staged'[u] =
        IF u = t THEN Append(staged[u], n) ELSE staged[u]
  BY DEF AddQuery, TypeOK, object
<1>7. \A u \in Transactions : staged[u] \in Seq(Nat)
  BY StagedTyped, SeqWider, NumbersAre
<1>8. \A u \in Transactions :
        /\ Range(staged'[u]) = IF u = t THEN Range(staged[u]) \union {n} ELSE Range(staged[u])
        /\ \A d : Times(d, staged'[u]) =
                    Times(d, staged[u]) + (IF u = t /\ d = n THEN 1 ELSE 0)
  <2>1. ASSUME NEW u \in Transactions
        PROVE  /\ Range(Append(staged[u], n)) = Range(staged[u]) \union {n}
               /\ \A d : Times(d, Append(staged[u], n)) =
                           Times(d, staged[u]) + (IF d = n THEN 1 ELSE 0)
               /\ \A d : Times(d, staged[u]) \in Nat
    <3>1. n \in Nat /\ staged[u] \in Seq(Nat)
      BY <1>5, <1>7
    <3>2. Range(Append(staged[u], n)) = Range(staged[u]) \union {n}
      BY <3>1, RangeAppend
    <3>3. \A d : Times(d, Append(staged[u], n)) =
                    Times(d, staged[u]) + (IF d = n THEN 1 ELSE 0)
      BY <3>1, TimesAppend
    <3>4. \A d : Times(d, staged[u]) \in Nat
      BY <3>1, TimesNat
    <3> QED BY <3>2, <3>3, <3>4
  <2>2. ASSUME NEW u \in Transactions
        PROVE  /\ Range(staged'[u]) = IF u = t THEN Range(staged[u]) \union {n}
                                                ELSE Range(staged[u])
               /\ \A d : Times(d, staged'[u]) =
                           Times(d, staged[u]) + (IF u = t /\ d = n THEN 1 ELSE 0)
    <3>1. CASE u = t
      <4>1. staged'[u] = Append(staged[u], n)
        BY <1>6, <3>1
      <4> QED BY <2>1, <3>1, <4>1
    <3>2. CASE u # t
      <4>1. staged'[u] = staged[u]
        BY <1>6, <3>2
      <4> QED BY <2>1, <3>2, <4>1
    <3> QED BY <3>1, <3>2
  <2> QED BY <2>2
<1>9. \A u \in Transactions : n \notin Range(staged[u]) /\ Times(n, staged[u]) = 0
  BY <1>5, <1>7, StagedTyped, TimesNat
<1>10. /\ \A d \in Numbers : /\ Of(d)' = Of(d) /\ Parts(d)' = Parts(d)
                             /\ IsStaged(d)' <=> IsStaged(d)
       /\ Of(n)' = q /\ Parts(n)' = <<>> /\ IsStaged(n)'
  BY <1>1, <1>4 DEF Of, Parts, IsStaged
<1>11. ASSUME NEW u \in Transactions, NEW d \in Range(staged'[u])
       PROVE  /\ IsStaged(d)' /\ Times(d, staged'[u]) <= 1
              /\ \A v \in Transactions : d \in Range(staged'[v]) => u = v
  <2>1. CASE d = n
    <3>1. u = t
      BY <1>8, <1>9, <2>1
    <3>2. Times(n, staged'[t]) = Times(n, staged[t]) + 1 /\ Times(n, staged[t]) = 0
      BY <1>8, <1>9
    <3>3. \A v \in Transactions : n \in Range(staged'[v]) => v = t
      BY <1>8, <1>9
    <3> QED BY <1>10, <2>1, <3>1, <3>2, <3>3
  <2>2. CASE d # n
    <3>1. d \in Range(staged[u]) /\ d \in Numbers
      BY <1>8, <2>2, StagedTyped
    <3>2. /\ IsStaged(d) /\ Times(d, staged[u]) <= 1
          /\ \A v \in Transactions : d \in Range(staged[v]) => u = v
      BY <3>1 DEF Families
    <3>3. Times(d, staged'[u]) = Times(d, staged[u])
      <4>1. Times(d, staged[u]) \in Nat
        BY <1>7, TimesNat
      <4>2. Times(d, staged'[u]) = Times(d, staged[u]) + (IF u = t /\ d = n THEN 1 ELSE 0)
        BY <1>8
      <4> QED BY <2>2, <4>1, <4>2
    <3> QED BY <1>8, <1>10, <2>2, <3>1, <3>2, <3>3
  <2> QED BY <2>1, <2>2
<1>12. ASSUME NEW p \in Numbers, NEW d \in Range(Parts(p))
       PROVE  /\ IsStaged(d)' /\ Times(d, Parts(p)) <= 1 /\ Of(p) \in Transactions
              /\ \A u \in Transactions : d \in Range(staged'[u]) => u = Of(p)
              /\ \A r \in Numbers : d \in Range(Parts(r)) => r = p
  <2>1. d \in Numbers /\ d # n
    BY <1>5, StagedTyped
  <2>2. /\ IsStaged(d) /\ Times(d, Parts(p)) <= 1 /\ Of(p) \in Transactions
        /\ \A u \in Transactions : d \in Range(staged[u]) => u = Of(p)
        /\ \A r \in Numbers : d \in Range(Parts(r)) => r = p
    BY DEF Families
  <2> QED BY <1>8, <1>10, <2>1, <2>2
<1>13. \A d \in Numbers' : IF IsStaged(d)' THEN Of(d)' \in Queries ELSE started'[Of(d)']
  BY <1>4, <1>6, <1>10 DEF Families
<1>14. \A p \in Numbers' : \A d \in Range(Parts(p)') : p \in Numbers /\ d \in Range(Parts(p))
  BY <1>4, <1>10, RangeEmpty
<1>15. Families'
  <2>1. \A p \in Numbers' : \A d \in Range(Parts(p)') :
          /\ IsStaged(d)' /\ Times(d, Parts(p)') <= 1 /\ Of(p)' \in Transactions
          /\ \A u \in Transactions : d \in Range(staged'[u]) => u = Of(p)'
          /\ \A r \in Numbers' : d \in Range(Parts(r)') => r = p
    BY <1>10, <1>12, <1>14
  <2> QED BY <1>11, <1>13, <2>1 DEF Families
<1> QED BY <1>1, <1>4, <1>6, <1>15

\* What start() builds, and that its children are nobody else's.
LEMMA StartedData ==
  ASSUME TypeOK, NEW o \in Objects, Start(o)
  PROVE  /\ data' \in Seq(Datum) /\ Numbers' = Numbers \union {Len(data) + 1}
         /\ \A d \in Numbers :
              /\ Keeps(d) /\ KeepsPhase(d) /\ data'[d].heard = data[d].heard
              /\ d \notin Range(Children(o)) => data'[d].first = data[d].first
         /\ LET e == data'[Len(data) + 1] IN
            /\ e.of = o /\ e.phase = "accepted" /\ e.parts = Children(o) /\ e.fn = handler[o]
            /\ e.first = ~started[o] /\ e.heard = "none"
         /\ started' = [started EXCEPT ![o] = TRUE] /\ UNCHANGED staged
         /\ o \in Transactions => ~started[o]
<1> DEFINE ds == Children(o)
           e == New(o, "accepted", ~started[o], handler[o], ds)
<1>1. /\ e \in Datum /\ e.of = o /\ e.phase = "accepted" /\ e.parts = ds /\ e.fn = handler[o]
      /\ e.first = ~started[o] /\ e.heard = "none"
  <2>1. started[o] \in BOOLEAN /\ handler[o] \in Functions \union {"none"}
    BY DEF TypeOK
  <2>2. ds \in Seq(Nat)
    BY ChildrenTyped
  <2> HIDE DEF ds
  <2> QED BY <2>1, <2>2 DEF New, Datum
<1>2. /\ data' = Append(First(ds), e)
      /\ started' = [started EXCEPT ![o] = TRUE] /\ UNCHANGED staged
      /\ o \in Transactions => ~started[o]
  BY DEF Start, Starting, OneShot
<1> HIDE DEF e, ds
<1>3. /\ First(ds) \in Seq(Datum) /\ Len(First(ds)) = Len(data)
      /\ \A d \in Numbers :
           LET f == First(ds)[d] IN
           /\ f.of = data[d].of /\ f.parts = data[d].parts /\ f.fn = data[d].fn
           /\ f.phase = data[d].phase /\ f.heard = data[d].heard
           /\ d \notin Range(ds) => f.first = data[d].first
  BY FirstIs
<1>4. /\ data' \in Seq(Datum) /\ Numbers' = Numbers \union {Len(data) + 1}
      /\ \A d \in Numbers : data'[d] = First(ds)[d]
      /\ data'[Len(data) + 1] = e
  BY <1>1, <1>2, <1>3, Grown
<1>5. \A d \in Numbers :
        /\ Keeps(d) /\ KeepsPhase(d) /\ data'[d].heard = data[d].heard
        /\ d \notin Range(ds) => data'[d].first = data[d].first
  BY <1>3, <1>4 DEF Keeps, KeepsPhase
<1> QED BY <1>1, <1>2, <1>4, <1>5 DEF ds

\* The children of one that was not started are in no other's parts.
LEMMA ChildrenFree ==
  ASSUME TypeOK, Families, NEW o \in Objects, o \in Transactions => ~started[o],
         NEW d \in Range(Children(o))
  PROVE  \A p \in Numbers : d \notin Range(Parts(p))
<1> SUFFICES ASSUME NEW p \in Numbers, d \in Range(Parts(p))
             PROVE  FALSE
  OBVIOUS
<1>1. o \in Transactions /\ d \in Range(staged[o])
  BY ChildrenTyped
<1>2. o = Of(p)
  BY <1>1 DEF Families
<1>3. ~IsStaged(p)
  BY <1>1, <1>2, ObjectsAssumption DEF Families
<1> QED BY <1>1, <1>2, <1>3 DEF Families

LEMMA FamiliesStarted ==
  ASSUME TypeOK, Families, NEW o \in Objects, Start(o)
  PROVE  Families'
<1> DEFINE ds == Children(o)
<1> PICK n : n = Len(data) + 1
  OBVIOUS
<1>1. /\ Numbers' = Numbers \union {n} /\ n \notin Numbers
      /\ started' = [started EXCEPT ![o] = TRUE] /\ UNCHANGED staged
      /\ o \in Transactions => ~started[o]
  BY StartedData, NumbersAre
<1>2. /\ \A d \in Numbers : Of(d)' = Of(d) /\ Parts(d)' = Parts(d) /\ (IsStaged(d)' <=> IsStaged(d))
      /\ Of(n)' = o /\ Parts(n)' = ds /\ ~IsStaged(n)'
  BY StartedData DEF Keeps, KeepsPhase, Of, Parts, IsStaged
<1>3. \A d \in Range(ds) : /\ o \in Transactions /\ d \in Range(staged[o]) /\ d \in Numbers
                           /\ ds = staged[o]
  BY ChildrenTyped
<1>4. \A d \in Range(ds) : \A p \in Numbers : d \notin Range(Parts(p))
  BY <1>1, ChildrenFree
<1> HIDE DEF ds
<1>5. ASSUME NEW t \in Transactions, NEW d \in Range(staged[t])
      PROVE  /\ IsStaged(d)' /\ Times(d, staged[t]) <= 1
             /\ \A u \in Transactions : d \in Range(staged[u]) => t = u
  <2>1. d \in Numbers
    BY StagedTyped
  <2> QED BY <1>2, <2>1 DEF Families
<1>6. ASSUME NEW p \in Numbers', NEW d \in Range(Parts(p)')
      PROVE  /\ IsStaged(d)' /\ Times(d, Parts(p)') <= 1 /\ Of(p)' \in Transactions
             /\ \A t \in Transactions : d \in Range(staged[t]) => t = Of(p)'
             /\ \A r \in Numbers' : d \in Range(Parts(r)') => r = p
  <2>1. CASE p \in Numbers
    <3>1. d \in Range(Parts(p)) /\ d \in Numbers
      BY <1>2, <2>1, StagedTyped
    <3>2. /\ IsStaged(d) /\ Times(d, Parts(p)) <= 1 /\ Of(p) \in Transactions
          /\ \A t \in Transactions : d \in Range(staged[t]) => t = Of(p)
          /\ \A r \in Numbers : d \in Range(Parts(r)) => r = p
      BY <2>1, <3>1 DEF Families
    <3>3. d \notin Range(ds)
      BY <1>4, <2>1, <3>1
    <3>4. \A r \in Numbers' : d \in Range(Parts(r)') => r = p
      BY <1>1, <1>2, <3>2, <3>3
    <3> QED BY <1>2, <2>1, <3>1, <3>2, <3>4
  <2>2. CASE p = n
    <3>1. d \in Range(ds) /\ o \in Transactions /\ d \in Range(staged[o]) /\ d \in Numbers
      BY <1>2, <1>3, <2>2
    <3>2. /\ IsStaged(d) /\ Times(d, staged[o]) <= 1
          /\ \A t \in Transactions : d \in Range(staged[t]) => o = t
      BY <3>1 DEF Families
    <3>3. \A r \in Numbers' : d \in Range(Parts(r)') => r = n
      BY <1>1, <1>2, <1>4, <3>1
    <3>4. Parts(p)' = staged[o] /\ Of(p)' = o
      BY <1>2, <1>3, <2>2, <3>1
    <3> QED BY <1>2, <2>2, <3>1, <3>2, <3>3, <3>4
  <2> QED BY <1>1, <2>1, <2>2
<1>7. \A d \in Numbers' : IF IsStaged(d)' THEN Of(d)' \in Queries ELSE started'[Of(d)']
  <2>1. started \in [Objects -> BOOLEAN]
    BY DEF TypeOK
  <2>2. \A u \in Objects : started[u] \/ u = o => started'[u]
    BY <1>1, <2>1
  <2>3. \A d \in Numbers : /\ Of(d) \in Objects
                           /\ IF IsStaged(d) THEN Of(d) \in Queries ELSE started[Of(d)]
    BY OfTyped DEF Families
  <2> QED BY <1>1, <1>2, <2>2, <2>3
<1> QED BY <1>1, <1>5, <1>6, <1>7 DEF Families

\* What is released was under way, and so is not staged.
LEMMA ReleasedData ==
  ASSUME TypeOK, Placed, Release, NEW c, c = Head(todo).data
  PROVE  /\ c \in Numbers /\ UnderWay(c) /\ At("release")
         /\ data' \in Seq(Datum) /\ Numbers' = Numbers
         /\ \A d \in Numbers :
              /\ Keeps(d) /\ (d # c => KeepsPhase(d)) /\ (IsStaged(d)' <=> IsStaged(d))
              /\ data'[d].heard = data[d].heard /\ data'[d].first = data[d].first
         /\ data'[c].phase = "released"
<1>1. At("release") /\ data' = [data EXCEPT ![c].phase = "released"]
  BY DEF Release
<1>2. /\ c \in Numbers /\ todo # <<>> /\ Head(todo) = Step("release", c)
      /\ todo \in Seq(Frame)
  <2>1. todo # <<>> /\ Head(todo) = Step("release", c) /\ c \in Numbers
    BY <1>1, TopTyped
  <2> QED BY <2>1 DEF TypeOK
<1>3. UnderWay(c)
  <2>1. /\ Times(Step("release", c), todo) = Times(Step("release", c), Tail(todo)) + 1
        /\ Tail(todo) \in Seq(Frame)
    BY <1>2, TimesTail
  <2>2. /\ Times(Step("release", c), Tail(todo)) \in Nat
        /\ Times(c, queue) \in Nat /\ Times(c, finished) \in Nat
    BY <2>1, TimesNat DEF TypeOK
  <2>3. Places(c) >= 1
    BY <2>1, <2>2 DEF Places
  <2> QED BY <1>2, <2>2, <2>1, <2>3 DEF Placed, Places
<1>4. \A d \in Numbers : data'[d] = IF d = c THEN [data[d] EXCEPT !.phase = "released"] ELSE data[d]
  BY <1>1 DEF Numbers
<1>5. data' = [d \in Numbers |-> data'[d]]
  BY <1>1 DEF Numbers
<1>6. ASSUME NEW d \in Numbers
      PROVE  /\ data'[d] \in Datum
             /\ Keeps(d) /\ (d # c => KeepsPhase(d)) /\ (IsStaged(d)' <=> IsStaged(d))
             /\ data'[d].heard = data[d].heard /\ data'[d].first = data[d].first
             /\ d = c => data'[d].phase = "released"
  <2>1. data[d] \in Datum
    BY OfTyped
  <2>2. CASE d = c
    <3> DEFINE e == data[d]
               f == data'[d]
    <3>1. e \in Datum /\ f = [e EXCEPT !.phase = "released"] /\ e.phase = "accepted"
      BY <1>3, <1>4, <2>1, <2>2 DEF UnderWay
    <3> HIDE DEF e, f
    <3>2. /\ f \in Datum /\ f.of = e.of /\ f.parts = e.parts /\ f.fn = e.fn
          /\ f.heard = e.heard /\ f.first = e.first /\ f.phase = "released"
      BY <3>1 DEF Datum
    <3> QED BY <2>2, <3>1, <3>2 DEF e, f, Keeps, IsStaged
  <2>3. CASE d # c
    BY <1>4, <2>1, <2>3 DEF Keeps, KeepsPhase, IsStaged
  <2> QED BY <2>2, <2>3
<1>7. data' \in Seq(Datum) /\ DOMAIN data' = Numbers
  BY <1>5, <1>6, Changed
<1> QED BY <1>1, <1>2, <1>3, <1>6, <1>7 DEF Numbers

LEMMA FamiliesPreserved ==
  ASSUME TypeOK, Placed, Families, [Next]_vars
  PROVE  Families'
<1>1. CASE Unmoving
  <2>1. /\ Numbers' = Numbers
        /\ \A d \in Numbers : Keeps(d) /\ (IsStaged(d)' <=> IsStaged(d))
    BY <1>1, UnmovedBy DEF Unmoved, KeepsPhase, IsStaged
  <2>2. UNCHANGED started
    BY <1>1 DEF Unmoving, SetHandler, StartRefused, Abort, Wait, ClearQueries, Disconnect, Shutdown,
       ThinkHook, Await, Think, Report, Return, Clear, Take, BeginChild, Finish, vars, object
  <2>3. \A t \in Transactions : staged'[t] = staged[t] \/ staged'[t] = <<>>
    <3>1. CASE UNCHANGED staged
      BY <3>1
    <3>2. ASSUME NEW u, Cleared(u)
          PROVE  \A t \in Transactions : staged'[t] = staged[t] \/ staged'[t] = <<>>
      BY <3>2 DEF Cleared, Clearing, TypeOK
    <3> QED BY <1>1, <3>1, <3>2 DEF Unmoving, SetHandler, StartRefused, Abort, Wait,
          ClearQueries, Disconnect, Shutdown, ThinkHook, Await, Think, Report, Return, Clear, Take,
          BeginChild, Finish, vars
  <2> QED BY <2>1, <2>2, <2>3, FamiliesKept
<1>2. CASE Release
  <2>1. /\ Numbers' = Numbers
        /\ \A d \in Numbers : Keeps(d) /\ (IsStaged(d)' <=> IsStaged(d))
    BY <1>2, ReleasedData
  <2>2. UNCHANGED <<started, staged>>
    BY <1>2 DEF Release
  <2> QED BY <2>1, <2>2, FamiliesKept
<1> QED BY <1>1, <1>2, Moves, FamiliesAdded, FamiliesStarted

-----------------------------------------------------------------------------
(* The references. *)

\* A sequence without repetition has as many elements as places.
LEMMA RangeSize ==
  ASSUME NEW S, NEW s \in Seq(S), \A x \in Range(s) : Times(x, s) <= 1
  PROVE  IsFiniteSet(Range(s)) /\ Cardinality(Range(s)) = Len(s)
<1> DEFINE n == Len(s)
           f == [i \in 1..n |-> s[i]]
<1>1. n \in Nat /\ DOMAIN s = 1..n
  BY LenProperties
<1>2. IsFiniteSet(1..n) /\ Cardinality(1..n) = n
  BY <1>1, FS_Interval
<1>3. ASSUME NEW i \in 1..n, NEW j \in 1..n, s[i] = s[j]
      PROVE  i = j
  <2> DEFINE I == {k \in DOMAIN s : s[k] = s[i]}
  <2>1. IsFiniteSet(I) /\ i \in I /\ j \in I
    BY <1>1, <1>2, <1>3, FS_Subset
  <2>2. Cardinality(I) <= 1
    BY <1>1 DEF Range, Times
  <2>3. Cardinality(I \ {i}) = Cardinality(I) - 1 /\ IsFiniteSet(I \ {i})
    BY <2>1, FS_RemoveElement
  <2>4. Cardinality(I \ {i}) \in Nat /\ (Cardinality(I \ {i}) = 0 <=> I \ {i} = {})
    BY <2>3, FS_EmptySet, FS_CardinalityType
  <2>5. Cardinality(I) \in Nat
    BY <2>1, FS_CardinalityType
  <2> HIDE DEF I
  <2> QED BY <2>1, <2>2, <2>3, <2>4, <2>5
<1>4. f \in Bijection(1..n, Range(s))
  <2>1. f \in [1..n -> Range(s)]
    BY <1>1 DEF Range
  <2>2. \A y \in Range(s) : \E i \in 1..n : f[i] = y
    BY <1>1 DEF Range
  <2>3. \A i, j \in 1..n : f[i] = f[j] => i = j
    BY <1>3
  <2> HIDE DEF f, n
  <2> QED BY <2>1, <2>2, <2>3 DEF Bijection, Injection, Surjection, IsInjective
<1> HIDE DEF f
<1> QED BY <1>2, <1>4, FS_Bijection DEF ExistsBijection

\* What they count.
Accepted   == {d \in Numbers : UnderWay(d)}
WithHandler == {d \in Numbers : HasHandler(d)}

LEMMA CountedSets ==
  ASSUME TypeOK
  PROVE  /\ IsFiniteSet(StagedNow) /\ IsFiniteSet(Accepted) /\ IsFiniteSet(WithHandler)
         /\ Cardinality(StagedNow) \in Nat /\ Cardinality(Accepted) \in Nat
         /\ Cardinality(WithHandler) \in Nat
         /\ Counted <=> refs = Cardinality(StagedNow) + Cardinality(Accepted)
                               + Cardinality(WithHandler)
<1>1. IsFiniteSet(Numbers)
  BY NumbersAre
<1>2. IsFiniteSet(StagedNow) /\ IsFiniteSet(Accepted) /\ IsFiniteSet(WithHandler)
  BY <1>1, FS_Subset DEF StagedNow, Accepted, WithHandler
<1> QED BY <1>2, FS_CardinalityType DEF Counted, Accepted, WithHandler

\* They stay what they are as long as nothing is built, started or released.
LEMMA CountedKept ==
  ASSUME TypeOK, Unmoved
  PROVE  /\ Accepted' = Accepted /\ WithHandler' = WithHandler
         /\ UNCHANGED staged => StagedNow' = StagedNow
BY DEF Unmoved, Keeps, KeepsPhase, Accepted, WithHandler, HasHandler, UnderWay, StagedNow

\* clearAddedQueries frees the reference of each query it takes from the transaction.
LEMMA CountedCleared ==
  ASSUME TypeOK, Families, Unmoved, NEW t \in Transactions, Cleared(t)
  PROVE  /\ Cardinality(StagedNow') = Cardinality(StagedNow) - Len(staged[t])
         /\ refs' = refs - Len(staged[t])
<1> DEFINE R == Range(staged[t])
<1>1. staged' = [staged EXCEPT ![t] = <<>>] /\ refs' = refs - Len(staged[t])
  BY DEF Cleared, Clearing
<1>2. staged \in [Transactions -> Seq({d \in Numbers : Of(d) \in Queries})]
  BY DEF TypeOK
<1>3. \A u \in Transactions : staged'[u] = IF u = t THEN <<>> ELSE staged[u]
  BY <1>1, <1>2
<1>4. R \subseteq StagedNow
  BY StagedTyped DEF StagedNow
<1>5. \A u \in Transactions : \A d \in Range(staged[u]) : d \in R => u = t
  BY DEF Families
<1> HIDE DEF R
<1>6. \A d : (\E u \in Transactions : d \in Range(staged'[u]))
                <=> (\E u \in Transactions : d \in Range(staged[u])) /\ d \notin R
  BY <1>3, <1>5, RangeEmpty DEF R
<1>7. StagedNow' = StagedNow \ R
  BY <1>6 DEF StagedNow, Unmoved
<1>8. IsFiniteSet(R) /\ Cardinality(R) = Len(staged[t])
  <2>1. staged[t] \in Seq(Numbers) /\ \A d \in Range(staged[t]) : Times(d, staged[t]) <= 1
    BY StagedTyped DEF Families
  <2> QED BY <2>1, RangeSize DEF R
<1>9. IsFiniteSet(StagedNow)
  BY CountedSets
<1>10. Cardinality(StagedNow \ R) = Cardinality(StagedNow) - Cardinality(StagedNow \cap R)
  BY <1>9, FS_Difference
<1>11. StagedNow \cap R = R
  BY <1>4
<1> QED BY <1>1, <1>7, <1>8, <1>10, <1>11

\* There are as many references after a step as it leaves reasons for.
Balanced ==
  /\ refs' = Cardinality(StagedNow') + Cardinality(Accepted') + Cardinality(WithHandler')
  /\ refs' \in Nat

LEMMA CountedPreserved ==
  ASSUME TypeOK, Placed, Families, Counted, [Next]_vars
  PROVE  Counted' /\ refs' \in Nat
<1> PICK S, A, H, r : S = StagedNow /\ A = Accepted /\ H = WithHandler /\ r = refs
  OBVIOUS
<1>1. /\ IsFiniteSet(S) /\ IsFiniteSet(A) /\ IsFiniteSet(H)
      /\ Cardinality(S) \in Nat /\ Cardinality(A) \in Nat /\ Cardinality(H) \in Nat
      /\ r = Cardinality(S) + Cardinality(A) + Cardinality(H)
  BY CountedSets
<1>2. SUFFICES Balanced
  BY DEF Counted, Accepted, WithHandler, Balanced
<1> PICK n : n = Len(data) + 1
  OBVIOUS
<1>3. n \notin Numbers /\ n \notin S /\ n \notin A /\ n \notin H
  BY NumbersAre DEF StagedNow, Accepted, WithHandler
<1>4. CASE Unmoving
  <2>1. Unmoved
    BY <1>4, UnmovedBy
  <2>2. Accepted' = A /\ WithHandler' = H /\ (UNCHANGED staged => StagedNow' = S)
    BY <2>1, CountedKept
  <2>3. CASE UNCHANGED <<staged, refs>>
    <3>1. StagedNow' = S /\ refs' = r
      BY <2>2, <2>3
    <3> QED BY <1>1, <2>2, <3>1 DEF Balanced
  <2>4. ASSUME NEW t \in Transactions, Cleared(t)
        PROVE  Balanced
    <3>1. /\ Cardinality(StagedNow') = Cardinality(S) - Len(staged[t])
          /\ refs' = r - Len(staged[t])
      BY <2>1, <2>4, CountedCleared
    <3>2. IsFiniteSet(StagedNow')
      <4>1. IsFiniteSet(Numbers) /\ StagedNow' \subseteq Numbers
        BY <2>1, NumbersAre DEF Unmoved, StagedNow
      <4> QED BY <4>1, FS_Subset
    <3>3. Cardinality(StagedNow') \in Nat
      BY <3>2, FS_CardinalityType
    <3>4. Len(staged[t]) \in Nat
      BY StagedTyped, LenProperties
    <3> QED BY <1>1, <2>2, <3>1, <3>3, <3>4 DEF Balanced
  <2>5. Clear => \E t \in Transactions : Cleared(t)
    BY TopTyped DEF Clear
  <2>6. UNCHANGED <<staged, refs>> \/ \E t \in Transactions : Cleared(t)
    <3> HIDE DEF Cleared
    <3> QED BY <1>4, <2>5
            DEF Unmoving, SetHandler, StartRefused, Abort, Wait, ClearQueries, Disconnect, Shutdown,
                ThinkHook, Await, Think, Report, Return, Take, BeginChild, Finish, vars
  <2> QED BY <2>3, <2>4, <2>6
<1>5. ASSUME NEW t \in Transactions, NEW q \in Queries, AddQuery(t, q)
      PROVE  Balanced
  <2>1. /\ Numbers' = Numbers \union {n}
        /\ \A d \in Numbers : data'[d] = data[d]
        /\ data'[n].phase = "staged"
        /\ \A u \in Transactions : staged'[u] = IF u = t THEN Append(staged[u], n) ELSE staged[u]
    BY <1>5, FamiliesAdded
  <2>2. Accepted' = A /\ WithHandler' = H
    BY <2>1 DEF Accepted, WithHandler, HasHandler, UnderWay
  <2>3. \A u \in Transactions : Range(staged'[u]) =
          IF u = t THEN Range(staged[u]) \union {n} ELSE Range(staged[u])
    <3>1. \A u \in Transactions : staged[u] \in Seq(Nat) /\ n \in Nat
      BY StagedTyped, SeqWider, NumbersAre
    <3>2. \A u \in Transactions : Range(Append(staged[u], n)) = Range(staged[u]) \union {n}
      BY <3>1, RangeAppend
    <3> QED BY <2>1, <3>2
  <2>4. StagedNow' = S \union {n}
    <3>1. \A d : (\E u \in Transactions : d \in Range(staged'[u]))
                   <=> (\E u \in Transactions : d \in Range(staged[u])) \/ d = n
      BY <2>3
    <3>2. \A u \in Transactions : Range(staged[u]) \subseteq Numbers
      BY StagedTyped
    <3> QED BY <2>1, <3>1, <3>2 DEF StagedNow
  <2>5. refs' = r + 1
    BY <1>5 DEF AddQuery
  <2>6. Cardinality(S \union {n}) = Cardinality(S) + 1
    BY <1>1, <1>3, FS_AddElement
  <2> QED BY <1>1, <2>2, <2>4, <2>5, <2>6 DEF Balanced
<1>6. ASSUME NEW o \in Objects, Start(o)
      PROVE  Balanced
  <2>1. /\ Numbers' = Numbers \union {n} /\ UNCHANGED staged
        /\ \A d \in Numbers : Keeps(d) /\ KeepsPhase(d)
        /\ data'[n].phase = "accepted" /\ data'[n].fn = handler[o]
    BY <1>6, StartedData
  <2>2. Accepted' = A \union {n}
    BY <2>1 DEF Accepted, UnderWay, KeepsPhase
  <2>3. WithHandler' = IF handler[o] = "none" THEN H ELSE H \union {n}
    BY <2>1 DEF WithHandler, HasHandler, UnderWay, KeepsPhase, Keeps
  <2>4. StagedNow' = S
    <3>1. \A u \in Transactions : Range(staged[u]) \subseteq Numbers
      BY StagedTyped
    <3> QED BY <2>1, <3>1 DEF StagedNow
  <2>5. refs' = r + (IF handler[o] = "none" THEN 1 ELSE 2)
    BY <1>6 DEF Start, Starting, Held
  <2>6. Cardinality(A \union {n}) = Cardinality(A) + 1 /\ Cardinality(H \union {n}) = Cardinality(H) + 1
    BY <1>1, <1>3, FS_AddElement
  <2> QED BY <1>1, <2>2, <2>3, <2>4, <2>5, <2>6 DEF Balanced
<1>7. ASSUME Release
      PROVE  Balanced
  <2> PICK c : c = Head(todo).data
    OBVIOUS
  <2>1. /\ c \in Numbers /\ UnderWay(c) /\ Numbers' = Numbers
        /\ \A d \in Numbers : Keeps(d) /\ (d # c => KeepsPhase(d))
        /\ data'[c].phase = "released"
    BY <1>7, ReleasedData
  <2>2. Accepted' = A \ {c} /\ c \in A
    BY <2>1 DEF Accepted, UnderWay, KeepsPhase
  <2>3. WithHandler' = H \ {c} /\ (c \in H <=> data[c].fn # "none")
    BY <2>1 DEF WithHandler, HasHandler, UnderWay, KeepsPhase, Keeps
  <2>4. StagedNow' = S
    BY <1>7, <2>1 DEF StagedNow, Release
  <2>5. refs' = r - (IF c \in H THEN 2 ELSE 1)
    BY <1>7, <2>3 DEF Release, Held
  <2>6. Cardinality(A \ {c}) = Cardinality(A) - 1 /\ IsFiniteSet(A \ {c})
    BY <1>1, <2>2, FS_RemoveElement
  <2>7. /\ Cardinality(H \ {c}) = IF c \in H THEN Cardinality(H) - 1 ELSE Cardinality(H)
        /\ IsFiniteSet(H \ {c})
    BY <1>1, FS_RemoveElement
  <2>8. Cardinality(A \ {c}) \in Nat /\ Cardinality(H \ {c}) \in Nat
    BY <2>6, <2>7, FS_CardinalityType
  <2>9. refs' = Cardinality(S) + Cardinality(A \ {c}) + Cardinality(H \ {c}) /\ refs' \in Nat
    <3>1. CASE c \in H
      <4>1. refs' = r - 2 /\ Cardinality(H \ {c}) = Cardinality(H) - 1
        BY <2>5, <2>7, <3>1
      <4> QED BY ONLY <1>1, <2>6, <2>8, <4>1
    <3>2. CASE c \notin H
      <4>1. refs' = r - 1 /\ Cardinality(H \ {c}) = Cardinality(H)
        BY <2>5, <2>7, <3>2
      <4> QED BY ONLY <1>1, <2>6, <2>8, <4>1
    <3> QED BY <3>1, <3>2
  <2> QED BY <2>2, <2>3, <2>4, <2>9 DEF Balanced
<1> QED BY <1>4, <1>5, <1>6, <1>7, Moves

-----------------------------------------------------------------------------
(* The running data. *)

\* An element is in a sequence if it is there at least once.
LEMMA RunsTimes ==
  ASSUME TypeOK, NEW run \in Runs, NEW o \in Objects
  PROVE  /\ Range(run[o]) \subseteq Numbers
         /\ \A x : Times(x, run[o]) \in Nat /\ (x \in Range(run[o]) <=> Times(x, run[o]) >= 1)
<1>1. run[o] \in Seq(Numbers)
  BY DEF Runs
<1>2. \A x : Times(x, run[o]) \in Nat /\ (Times(x, run[o]) = 0 <=> x \notin Range(run[o]))
  BY <1>1, TimesNat
<1> QED BY <1>1, <1>2, RangeTyped

LEMMA RunningTyped ==
  ASSUME TypeOK
  PROVE  running \in Runs
BY DEF TypeOK, Runs

\* It stays what it is as long as it is not written and nothing is released.
LEMMA RunningKept ==
  ASSUME TypeOK, Unmoved, UNCHANGED running, again \subseteq again',
         Entries, RunningIsTrue, ChildrenAreRunning
  PROVE  Entries' /\ RunningIsTrue' /\ ChildrenAreRunning'
<1>1. \A d \in Numbers : Of(d)' = Of(d) /\ Parts(d)' = Parts(d) /\ (UnderWay(d)' <=> UnderWay(d))
  BY DEF Unmoved, Keeps, KeepsPhase, Of, Parts, UnderWay
<1>2. \A o \in Objects : Range(running[o]) \subseteq Numbers
  BY RunsTimes, RunningTyped
<1>3. \A p \in Numbers : \A i \in DOMAIN Parts(p) : Parts(p)[i] \in Numbers
  BY StagedTyped DEF Range
<1>4. Numbers' = Numbers /\ running' = running
  BY DEF Unmoved
<1>5. Entries'
  BY <1>1, <1>2, <1>4 DEF Entries
<1>6. RunningIsTrue'
  BY <1>1, <1>2, <1>4 DEF RunningIsTrue
<1>7. ChildrenAreRunning'
  BY <1>1, <1>3, <1>4 DEF ChildrenAreRunning
<1> QED BY <1>5, <1>6, <1>7

\* What start() builds of the children it gives back when it throws: nothing is
\* gained, and what is lost is lost to a transaction that is in again.
LEMMA RunningRefused ==
  ASSUME TypeOK, Families, NEW o \in Objects, StartRefused(o), Unmoved,
         Entries, RunningIsTrue, ChildrenAreRunning
  PROVE  running' \in Runs /\ Entries' /\ RunningIsTrue' /\ ChildrenAreRunning'
<1> DEFINE ds == Children(o)
           mid == Added(running, ds)
<1>1. running \in Runs
  BY RunningTyped
<1>2. ds \in Seq(Numbers)
  BY ChildrenTyped
<1>3. /\ mid \in Runs
      /\ \A u \in Objects : \A x : Times(x, mid[u]) =
           Times(x, running[u]) + (IF x \in Numbers /\ Of(x) = u THEN Times(x, ds) ELSE 0)
  BY <1>1, <1>2, AddedIs
<1>4. running' = DroppedAll(mid, ds) /\ again' = IF OneShot(o) THEN again \union {o} ELSE again
  BY DEF StartRefused
<1> HIDE DEF mid, ds
<1>5. /\ running' \in Runs
      /\ \A u \in Objects : \A x :
           /\ Times(x, running'[u]) <= Times(x, mid[u])
           /\ x \notin Range(ds) \/ u # Of(x) => Times(x, running'[u]) = Times(x, mid[u])
           /\ x \in Range(ds) /\ u = Of(x) =>
                Times(x, running'[u]) = 0 \/ Times(x, running'[u]) < Times(x, mid[u])
  BY <1>2, <1>3, <1>4, DroppedAllIs
<1>6. /\ \A u \in Objects : \A x : /\ Times(x, running[u]) \in Nat /\ Times(x, running'[u]) \in Nat
                                   /\ x \in Range(running[u]) <=> Times(x, running[u]) >= 1
                                   /\ x \in Range(running'[u]) <=> Times(x, running'[u]) >= 1
      /\ \A u \in Objects : Range(running[u]) \subseteq Numbers /\ Range(running'[u]) \subseteq Numbers
  BY <1>1, <1>5, RunsTimes
<1>7. /\ \A x : Times(x, ds) \in Nat /\ (Times(x, ds) = 0 <=> x \notin Range(ds))
      /\ \A x \in Range(ds) : /\ o \in Transactions /\ x \in Range(staged[o]) /\ x \in Numbers
                              /\ IsStaged(x) /\ Times(x, ds) <= 1
  <2>1. \A x \in Range(ds) : o \in Transactions /\ x \in Range(staged[o]) /\ x \in Numbers
                             /\ ds = staged[o]
    BY ChildrenTyped DEF ds
  <2>2. \A x : Times(x, ds) \in Nat /\ (Times(x, ds) = 0 <=> x \notin Range(ds))
    BY <1>2, TimesNat
  <2> QED BY <2>1, <2>2 DEF Families
<1>8. ASSUME NEW u \in Objects, NEW x
      PROVE  /\ Times(x, running'[u]) = Times(x, running[u])
                \/ (x \in Range(ds) /\ u = Of(x) /\ Times(x, running'[u]) <= Times(x, running[u]))
  <2>1. CASE x \in Range(ds) /\ u = Of(x)
    <3>1. Times(x, mid[u]) = Times(x, running[u]) + Times(x, ds) /\ Times(x, ds) <= 1
      BY <1>3, <1>7, <2>1
    <3>2. Times(x, running'[u]) = 0 \/ Times(x, running'[u]) < Times(x, mid[u])
      BY <1>5, <2>1
    <3> QED BY <1>6, <1>7, <2>1, <3>1, <3>2
  <2>2. CASE ~(x \in Range(ds) /\ u = Of(x))
    <3>1. Times(x, running'[u]) = Times(x, mid[u])
      BY <1>5, <2>2
    <3>2. Times(x, mid[u]) = Times(x, running[u])
          + (IF x \in Numbers /\ Of(x) = u THEN Times(x, ds) ELSE 0)
      BY <1>3
    <3>3. Times(x, mid[u]) = Times(x, running[u]) + 0
      <4>1. CASE x \in Numbers /\ Of(x) = u
        <5>1. Times(x, ds) = 0
          BY <1>7, <2>2, <4>1
        <5> QED BY <3>2, <4>1, <5>1
      <4>2. CASE ~(x \in Numbers /\ Of(x) = u)
        BY <3>2, <4>2
      <4> QED BY <4>1, <4>2
    <3> QED BY <1>6, <3>1, <3>3
  <2> QED BY <2>1, <2>2
<1>9. \A u \in Objects : Range(running'[u]) \subseteq Range(running[u])
  BY <1>6, <1>8
<1>10. /\ Numbers' = Numbers
       /\ \A d \in Numbers : Of(d)' = Of(d) /\ Parts(d)' = Parts(d) /\ (UnderWay(d)' <=> UnderWay(d))
  BY DEF Unmoved, Keeps, KeepsPhase, Of, Parts, UnderWay
<1>11. Entries'
  <2>1. ASSUME NEW u \in Objects, NEW d \in Range(running'[u])
        PROVE  Of(d) = u /\ Times(d, running'[u]) <= 1 /\ d \in Numbers
    <3>1. d \in Range(running[u]) /\ d \in Numbers
      BY <1>6, <1>9
    <3>2. Of(d) = u /\ Times(d, running[u]) <= 1
      BY <3>1 DEF Entries
    <3> QED BY <1>6, <1>8, <3>1, <3>2
  <2> QED BY <1>10, <2>1 DEF Entries
<1>12. RunningIsTrue'
  <2>1. ASSUME NEW u \in Objects, NEW d \in Numbers, Of(d) = u, UnderWay(d)
        PROVE  Times(d, running'[u]) = 1
    <3>1. Times(d, running[u]) = 1
      BY <2>1 DEF RunningIsTrue
    <3>2. d \notin Range(ds)
      BY <1>7, <2>1 DEF IsStaged, UnderWay
    <3> QED BY <1>8, <3>1, <3>2
  <2>2. ASSUME NEW u \in Objects, NEW d \in Range(running'[u])
        PROVE  /\ d \in Numbers
               /\ UnderWay(d) \/ \E t \in Numbers : UnderWay(t) /\ d \in Range(Parts(t))
    BY <1>6, <1>9 DEF RunningIsTrue
  <2> QED BY <1>10, <2>1, <2>2 DEF RunningIsTrue
<1>13. ChildrenAreRunning'
  <2>1. ASSUME NEW t \in Numbers, UnderWay(t), Of(t) \notin again', NEW i \in DOMAIN Parts(t)
        PROVE  Parts(t)[i] \in Range(running'[Of(Parts(t)[i])]) /\ Parts(t)[i] \in Numbers
    <3> DEFINE c == Parts(t)[i]
    <3>1. c \in Range(Parts(t)) /\ c \in Numbers
      BY StagedTyped DEF Range
    <3>2. c \in Range(running[Of(c)])
      BY <1>4, <2>1 DEF ChildrenAreRunning
    <3>3. c \notin Range(ds)
      <4> SUFFICES ASSUME c \in Range(ds)
                   PROVE  FALSE
        OBVIOUS
      <4>1. o = Of(t)
        BY <1>7, <3>1 DEF Families
      <4>2. started[Of(t)]
        BY <2>1 DEF Families, IsStaged, UnderWay
      <4>3. o \in Transactions
        BY <1>7
      <4> QED BY <1>4, <2>1, <4>1, <4>2, <4>3 DEF OneShot
    <3>4. Of(c) \in Objects
      BY <3>1, OfTyped
    <3> HIDE DEF c
    <3>5. Times(c, running'[Of(c)]) = Times(c, running[Of(c)])
      BY <1>8, <3>3, <3>4
    <3> QED BY <1>6, <3>1, <3>2, <3>4, <3>5 DEF c
  <2> QED BY <1>10, <2>1 DEF ChildrenAreRunning
<1> QED BY <1>5, <1>11, <1>12, <1>13

\* finishLuaQueryData takes the data and its children from their objects, each of
\* which has it once.
LEMMA RunningReleased ==
  ASSUME TypeOK, Placed, Families, Release, Entries, RunningIsTrue, ChildrenAreRunning
  PROVE  running' \in Runs /\ Entries' /\ RunningIsTrue' /\ ChildrenAreRunning'
<1> PICK c : c = Head(todo).data
  OBVIOUS
<1> DEFINE ds == Parts(c)
           mid == DroppedAll(running, ds)
<1>1. /\ c \in Numbers /\ UnderWay(c) /\ Numbers' = Numbers
      /\ \A d \in Numbers : Keeps(d) /\ (d # c => KeepsPhase(d))
      /\ data'[c].phase = "released"
  BY ReleasedData
<1>2. /\ \A d \in Numbers : /\ Of(d)' = Of(d) /\ Parts(d)' = Parts(d)
                            /\ UnderWay(d)' <=> UnderWay(d) /\ d # c
  BY <1>1 DEF Keeps, KeepsPhase, Of, Parts, UnderWay
<1>3. running \in Runs /\ ds \in Seq(Numbers)
  BY <1>1, RunningTyped, StagedTyped
<1>4. running' = Dropped(mid, c) /\ again' = again
  BY DEF Release
<1>5. /\ mid \in Runs
      /\ \A u \in Objects : \A x :
           /\ Times(x, mid[u]) <= Times(x, running[u])
           /\ x \notin Range(ds) \/ u # Of(x) => Times(x, mid[u]) = Times(x, running[u])
           /\ x \in Range(ds) /\ u = Of(x) =>
                Times(x, mid[u]) = 0 \/ Times(x, mid[u]) < Times(x, running[u])
  BY <1>3, DroppedAllIs
<1> HIDE DEF mid, ds
<1>6. /\ running' \in Runs
      /\ \A u \in Objects : \A x :
           /\ Times(x, running'[u]) <= Times(x, mid[u])
           /\ x # c \/ u # Of(c) => Times(x, running'[u]) = Times(x, mid[u])
           /\ x = c /\ u = Of(c) =>
                Times(x, running'[u]) = 0 \/ Times(x, running'[u]) < Times(x, mid[u])
  <2> DEFINE e == Dropped(mid, c)
  <2>1. /\ e \in Runs
        /\ \A u \in Objects : \A x :
             /\ Times(x, e[u]) <= Times(x, mid[u])
             /\ x # c \/ u # Of(c) => Times(x, e[u]) = Times(x, mid[u])
             /\ x = c /\ u = Of(c) => Times(x, e[u]) = 0 \/ Times(x, e[u]) < Times(x, mid[u])
    BY <1>1, <1>5, DroppedIs
  <2>2. running' = e
    BY <1>4
  <2> HIDE DEF e
  <2> QED BY <2>1, <2>2
<1>7. /\ \A u \in Objects : \A x : /\ Times(x, running[u]) \in Nat /\ Times(x, running'[u]) \in Nat
                                   /\ Times(x, mid[u]) \in Nat
                                   /\ x \in Range(running[u]) <=> Times(x, running[u]) >= 1
                                   /\ x \in Range(running'[u]) <=> Times(x, running'[u]) >= 1
      /\ \A u \in Objects : Range(running[u]) \subseteq Numbers /\ Range(running'[u]) \subseteq Numbers
  BY <1>3, <1>5, <1>6, RunsTimes
<1>8. ASSUME NEW u \in Objects, NEW d, Of(d) = u, d # c, d \notin Range(ds)
      PROVE  Times(d, running'[u]) = Times(d, running[u])
  BY <1>5, <1>6, <1>8
<1>9. ASSUME NEW u \in Objects, NEW d \in Range(running'[u])
      PROVE  /\ d \in Numbers /\ d \in Range(running[u]) /\ Of(d) = u /\ Times(d, running'[u]) <= 1
             /\ d # c /\ d \notin Range(ds)
  <2>1. Times(d, running'[u]) <= Times(d, mid[u]) /\ Times(d, mid[u]) <= Times(d, running[u])
    BY <1>5, <1>6
  <2>2. d \in Range(running[u]) /\ d \in Numbers
    BY <1>7, <2>1
  <2>3. Of(d) = u /\ Times(d, running[u]) <= 1
    BY <2>2 DEF Entries
  <2>4. Times(d, running'[u]) >= 1
    BY <1>7
  <2>5. d # c
    BY <1>6, <1>7, <2>1, <2>3, <2>4
  <2>6. d \notin Range(ds)
    BY <1>5, <1>7, <2>1, <2>3, <2>4
  <2> QED BY <1>7, <2>1, <2>2, <2>3, <2>5, <2>6
<1>10. Entries'
  BY <1>2, <1>9 DEF Entries
<1>11. RunningIsTrue'
  <2>1. ASSUME NEW u \in Objects, NEW d \in Numbers, Of(d) = u, UnderWay(d), d # c
        PROVE  Times(d, running'[u]) = 1
    <3>1. Times(d, running[u]) = 1
      BY <2>1 DEF RunningIsTrue
    <3>2. d \notin Range(ds)
      BY <1>1, <2>1 DEF Families, IsStaged, UnderWay, ds
    <3> QED BY <1>8, <2>1, <3>1, <3>2
  <2>2. ASSUME NEW u \in Objects, NEW d \in Range(running'[u])
        PROVE  /\ d \in Numbers
               /\ \/ UnderWay(d) /\ d # c
                  \/ \E t \in Numbers : UnderWay(t) /\ t # c /\ d \in Range(Parts(t))
    <3>1. UnderWay(d) \/ \E t \in Numbers : UnderWay(t) /\ d \in Range(Parts(t))
      BY <1>9 DEF RunningIsTrue
    <3> QED BY <1>9, <3>1 DEF ds
  <2> QED BY <1>1, <1>2, <2>1, <2>2 DEF RunningIsTrue
<1>12. ChildrenAreRunning'
  <2>1. ASSUME NEW t \in Numbers, UnderWay(t), t # c, Of(t) \notin again, NEW i \in DOMAIN Parts(t)
        PROVE  Parts(t)[i] \in Range(running'[Of(Parts(t)[i])]) /\ Parts(t)[i] \in Numbers
    <3> DEFINE e == Parts(t)[i]
    <3>1. e \in Range(Parts(t)) /\ e \in Numbers
      BY StagedTyped DEF Range
    <3>2. e \in Range(running[Of(e)])
      BY <2>1 DEF ChildrenAreRunning
    <3>3. e \notin Range(ds) /\ IsStaged(e)
      BY <1>1, <2>1, <3>1 DEF Families, ds
    <3>4. e # c
      BY <1>1, <3>3 DEF IsStaged, UnderWay
    <3>5. Of(e) \in Objects
      BY <3>1, OfTyped
    <3> HIDE DEF e
    <3>6. Times(e, running'[Of(e)]) = Times(e, running[Of(e)])
      BY <1>8, <3>3, <3>4, <3>5
    <3> QED BY <1>7, <3>1, <3>2, <3>5, <3>6 DEF e
  <2> QED BY <1>1, <1>2, <1>4, <2>1 DEF ChildrenAreRunning
<1> QED BY <1>6, <1>10, <1>11, <1>12

\* start() adds the new data to its object, and each child to its own.
LEMMA RunningStarted ==
  ASSUME TypeOK, Families, NEW o \in Objects, Start(o),
         Entries, RunningIsTrue, ChildrenAreRunning
  PROVE  /\ running' \in [Objects -> Seq(Numbers')]
         /\ Entries' /\ RunningIsTrue' /\ ChildrenAreRunning'
<1> PICK n : n = Len(data) + 1
  OBVIOUS
<1> DEFINE ds == Children(o)
           mid == Added(running, ds)
<1>1. /\ Numbers' = Numbers \union {n} /\ n \notin Numbers
      /\ o \in Transactions => ~started[o]
      /\ \A d \in Numbers : Keeps(d) /\ KeepsPhase(d)
      /\ data'[n].of = o /\ data'[n].phase = "accepted" /\ data'[n].parts = ds
  BY StartedData, NumbersAre
<1>2. running' = [mid EXCEPT ![o] = Append(@, n)] /\ again' = again
  BY DEF Start, Starting
<1>3. running \in Runs /\ ds \in Seq(Numbers)
  BY RunningTyped, ChildrenTyped
<1>4. /\ mid \in Runs
      /\ \A u \in Objects : \A x : Times(x, mid[u]) =
           Times(x, running[u]) + (IF x \in Numbers /\ Of(x) = u THEN Times(x, ds) ELSE 0)
  BY <1>3, AddedIs
<1>5. /\ \A x : Times(x, ds) \in Nat /\ (Times(x, ds) = 0 <=> x \notin Range(ds))
      /\ \A x \in Range(ds) : x \in Numbers /\ IsStaged(x) /\ Times(x, ds) <= 1
  <2>1. \A x \in Range(ds) : o \in Transactions /\ x \in Range(staged[o]) /\ x \in Numbers
                             /\ ds = staged[o]
    BY ChildrenTyped
  <2>2. \A x : Times(x, ds) \in Nat /\ (Times(x, ds) = 0 <=> x \notin Range(ds))
    BY <1>3, TimesNat
  <2> HIDE DEF ds
  <2> QED BY <2>1, <2>2 DEF Families
<1>6. \A d \in Range(ds) : \A p \in Numbers : d \notin Range(Parts(p))
  BY <1>1, ChildrenFree
<1> HIDE DEF mid, ds
<1>7. /\ running' \in [Objects -> Seq(Numbers')]
      /\ \A u \in Objects : running'[u] = IF u = o THEN Append(mid[u], n) ELSE mid[u]
  <2>1. \A u \in Objects : mid[u] \in Seq(Numbers') /\ n \in Numbers'
    BY <1>1, <1>4, SeqWider DEF Runs
  <2>2. \A u \in Objects : Append(mid[u], n) \in Seq(Numbers')
    BY <2>1, AppendProperties
  <2>3. mid = [u \in Objects |-> mid[u]]
    BY <1>4 DEF Runs
  <2> QED BY <1>2, <2>1, <2>2, <2>3
<1>8. \A u \in Objects : \A x : Times(x, running'[u]) =
        Times(x, mid[u]) + (IF u = o /\ x = n THEN 1 ELSE 0)
  <2>1. ASSUME NEW u \in Objects, NEW x
        PROVE  Times(x, running'[u]) = Times(x, mid[u]) + (IF u = o /\ x = n THEN 1 ELSE 0)
    <3>1. mid[u] \in Seq(Numbers') /\ n \in Numbers'
      BY <1>1, <1>4, SeqWider DEF Runs
    <3>2. Times(x, Append(mid[u], n)) = Times(x, mid[u]) + (IF x = n THEN 1 ELSE 0)
      BY <3>1, TimesAppend
    <3>3. Times(x, mid[u]) \in Nat
      BY <3>1, TimesNat
    <3>4. CASE u = o
      BY <1>7, <3>2, <3>4
    <3>5. CASE u # o
      BY <1>7, <3>3, <3>5
    <3> QED BY <3>4, <3>5
  <2> QED BY <2>1
<1>9. \A u \in Objects : \A x : /\ Times(x, running[u]) \in Nat
                                /\ x \in Range(running[u]) <=> Times(x, running[u]) >= 1
                                /\ x \in Range(running'[u]) <=> Times(x, running'[u]) >= 1
                                /\ x \in Range(running[u]) => x \in Numbers
                                /\ x \in Range(running'[u]) => x \in Numbers'
                                /\ Times(x, running'[u]) \in Nat
  <2>1. \A u \in Objects : running'[u] \in Seq(Numbers')
    BY <1>7
  <2>2. \A u \in Objects : /\ \A x : Times(x, running'[u]) \in Nat
                           /\ \A x : Times(x, running'[u]) = 0 <=> x \notin Range(running'[u])
                           /\ Range(running'[u]) \subseteq Numbers'
    BY <2>1, TimesNat, RangeTyped
  <2>3. \A u \in Objects : /\ Range(running[u]) \subseteq Numbers
                           /\ \A x : /\ Times(x, running[u]) \in Nat
                                     /\ x \in Range(running[u]) <=> Times(x, running[u]) >= 1
    BY <1>3, RunsTimes
  <2>4. ASSUME NEW u \in Objects, NEW x
        PROVE  x \in Range(running'[u]) <=> Times(x, running'[u]) >= 1
    <3>1. /\ Times(x, running'[u]) \in Nat
          /\ Times(x, running'[u]) = 0 <=> x \notin Range(running'[u])
      BY <2>2
    <3> QED BY <3>1
  <2> QED BY <2>2, <2>3, <2>4
<1>10. ASSUME NEW u \in Objects, NEW x \in Numbers
       PROVE  /\ Times(x, running'[u]) =
                   Times(x, running[u]) + (IF Of(x) = u THEN Times(x, ds) ELSE 0)
              /\ Times(x, running'[u]) >= Times(x, running[u])
  <2>1. Times(x, running'[u]) = Times(x, mid[u]) + 0
    BY <1>1, <1>8
  <2>2. Times(x, mid[u]) = Times(x, running[u]) + (IF Of(x) = u THEN Times(x, ds) ELSE 0)
    BY <1>4
  <2> QED BY <1>5, <1>9, <2>1, <2>2
<1>11. ASSUME NEW u \in Objects
       PROVE  Times(n, running'[u]) = IF u = o THEN 1 ELSE 0
  <2>1. Times(n, mid[u]) = Times(n, running[u]) + 0
    BY <1>1, <1>4
  <2>2. Times(n, running[u]) = 0
    BY <1>1, <1>9
  <2> QED BY <1>8, <2>1, <2>2
<1>12. /\ \A d \in Numbers : /\ Of(d)' = Of(d) /\ Parts(d)' = Parts(d)
                             /\ UnderWay(d)' <=> UnderWay(d)
       /\ Of(n)' = o /\ Parts(n)' = ds /\ UnderWay(n)'
  BY <1>1 DEF Keeps, KeepsPhase, Of, Parts, UnderWay
<1>13. ASSUME NEW d \in Range(ds), NEW u \in Objects
       PROVE  Times(d, running[u]) = 0
  <2>1. d \in Numbers /\ IsStaged(d)
    BY <1>5
  <2>2. d \notin Range(running[u])
    BY <1>6, <2>1 DEF RunningIsTrue, IsStaged, UnderWay
  <2> QED BY <1>9, <2>2
<1>14. Entries'
  <2>1. ASSUME NEW u \in Objects, NEW d \in Range(running'[u]), d \in Numbers
        PROVE  Of(d) = u /\ Times(d, running'[u]) <= 1
    <3>1. CASE d \in Range(ds)
      <4>1. Times(d, running[u]) = 0 /\ Times(d, ds) <= 1
        BY <1>5, <1>13, <3>1
      <4> QED BY <1>5, <1>9, <1>10, <2>1, <4>1
    <3>2. CASE d \notin Range(ds)
      <4>1. Times(d, ds) = 0
        BY <1>5, <3>2
      <4>2. Times(d, running'[u]) = Times(d, running[u])
        BY <1>9, <1>10, <2>1, <4>1
      <4>3. d \in Range(running[u])
        BY <1>9, <4>2
      <4> QED BY <4>2, <4>3 DEF Entries
    <3> QED BY <3>1, <3>2
  <2>2. ASSUME NEW u \in Objects, n \in Range(running'[u])
        PROVE  u = o /\ Times(n, running'[u]) <= 1
    <3>1. Times(n, running'[u]) >= 1
      BY <1>9, <2>2
    <3>2. Times(n, running'[u]) = IF u = o THEN 1 ELSE 0
      BY <1>11
    <3> QED BY <3>1, <3>2
  <2>3. \A u \in Objects : \A d \in Range(running'[u]) : d \in Numbers \/ d = n
    BY <1>1, <1>9
  <2> QED BY <1>12, <2>1, <2>2, <2>3 DEF Entries
<1>15. RunningIsTrue'
  <2>1. ASSUME NEW d \in Numbers, UnderWay(d)
        PROVE  Times(d, running'[Of(d)]) = 1
    <3>1. Of(d) \in Objects
      BY OfTyped
    <3>2. Times(d, running[Of(d)]) = 1
      BY <2>1, <3>1 DEF RunningIsTrue
    <3>3. Times(d, ds) = 0
      BY <1>5, <2>1 DEF IsStaged, UnderWay
    <3> QED BY <1>10, <3>1, <3>2, <3>3
  <2>2. ASSUME NEW u \in Objects, NEW d \in Range(running'[u]), d # n
        PROVE  /\ d \in Numbers
               /\ \/ UnderWay(d) \/ \E t \in Numbers : UnderWay(t) /\ d \in Range(Parts(t))
                  \/ d \in Range(ds)
    <3>1. d \in Numbers
      BY <1>1, <1>9, <2>2
    <3>2. ASSUME d \notin Range(ds)
          PROVE  d \in Range(running[u])
      <4>1. Times(d, ds) = 0
        BY <1>5, <3>2
      <4>2. Times(d, running'[u]) = Times(d, running[u])
        BY <1>9, <1>10, <3>1, <4>1
      <4> QED BY <1>9, <4>2
    <3> QED BY <3>1, <3>2 DEF RunningIsTrue
  <2>3. Times(n, running'[o]) = 1
    BY <1>11
  <2> QED BY <1>1, <1>12, <2>1, <2>2, <2>3 DEF RunningIsTrue
<1>16. ChildrenAreRunning'
  <2>1. ASSUME NEW d \in Range(ds)
        PROVE  d \in Range(running'[Of(d)]) /\ d \in Numbers
    <3>1. d \in Numbers /\ Of(d) \in Objects
      BY <1>5, OfTyped
    <3>2. Times(d, running'[Of(d)]) = Times(d, running[Of(d)]) + Times(d, ds)
      BY <1>10, <3>1
    <3>3. Times(d, running[Of(d)]) \in Nat /\ Times(d, ds) \in Nat /\ Times(d, ds) # 0
      BY <1>5, <1>9, <3>1
    <3>4. Times(d, running'[Of(d)]) >= 1
      BY <3>2, <3>3
    <3> QED BY <1>9, <3>1, <3>4
  <2>2. ASSUME NEW t \in Numbers, UnderWay(t), Of(t) \notin again, NEW i \in DOMAIN Parts(t)
        PROVE  Parts(t)[i] \in Range(running'[Of(Parts(t)[i])]) /\ Parts(t)[i] \in Numbers
    <3> DEFINE c == Parts(t)[i]
    <3>1. c \in Numbers /\ Of(c) \in Objects
      BY StagedTyped, OfTyped DEF Range
    <3>2. c \in Range(running[Of(c)])
      BY <2>2 DEF ChildrenAreRunning
    <3> HIDE DEF c
    <3> QED BY <1>9, <1>10, <3>1, <3>2 DEF c
  <2>3. \A i \in DOMAIN ds : ds[i] \in Range(ds)
    BY DEF Range
  <2> QED BY <1>1, <1>2, <1>12, <2>1, <2>2, <2>3 DEF ChildrenAreRunning
<1> QED BY <1>7, <1>14, <1>15, <1>16

\* A query that is staged has no running data of its own yet.
LEMMA RunningAdded ==
  ASSUME TypeOK, Families, NEW t \in Transactions, NEW q \in Queries, AddQuery(t, q),
         Entries, RunningIsTrue, ChildrenAreRunning
  PROVE  /\ running' \in [Objects -> Seq(Numbers')]
         /\ Entries' /\ RunningIsTrue' /\ ChildrenAreRunning'
<1> PICK n : n = Len(data) + 1
  OBVIOUS
<1>1. /\ Numbers' = Numbers \union {n} /\ n \notin Numbers
      /\ \A d \in Numbers : data'[d] = data[d]
      /\ data'[n].phase = "staged"
  BY FamiliesAdded, NumbersAre
<1>2. /\ \A d \in Numbers : /\ Of(d)' = Of(d) /\ Parts(d)' = Parts(d)
                            /\ UnderWay(d)' <=> UnderWay(d)
      /\ ~UnderWay(n)'
  BY <1>1 DEF Of, Parts, UnderWay
<1>3. running' = running /\ again' = again
  BY DEF AddQuery, object
<1>4. /\ running \in Runs
      /\ \A o \in Objects : Range(running[o]) \subseteq Numbers
  BY RunsTimes, RunningTyped
<1>5. running' \in [Objects -> Seq(Numbers')]
  <2>1. \A o \in Objects : running[o] \in Seq(Numbers')
    BY <1>1, <1>4, SeqWider DEF Runs
  <2> QED BY <1>3, <1>4, <2>1 DEF Runs
<1>6. Entries'
  BY <1>2, <1>3, <1>4 DEF Entries
<1>7. RunningIsTrue'
  <2>1. \A d \in Numbers' : UnderWay(d)' => d \in Numbers /\ UnderWay(d)
    BY <1>1, <1>2
  <2>2. \A d \in Numbers : UnderWay(d) => d \in Numbers' /\ UnderWay(d)'
    BY <1>1, <1>2
  <2>3. ASSUME NEW o \in Objects, NEW d \in Range(running'[o])
        PROVE  UnderWay(d)' \/ \E p \in Numbers' : UnderWay(p)' /\ d \in Range(Parts(p)')
    <3>1. d \in Numbers /\ d \in Range(running[o])
      BY <1>3, <1>4
    <3>2. UnderWay(d) \/ \E p \in Numbers : UnderWay(p) /\ d \in Range(Parts(p))
      BY <3>1 DEF RunningIsTrue
    <3> QED BY <1>2, <2>2, <3>1, <3>2
  <2>4. \A o \in Objects : \A d \in Numbers' :
          Of(d)' = o /\ UnderWay(d)' => Times(d, running'[o]) = 1
    BY <1>2, <1>3, <2>1 DEF RunningIsTrue
  <2> QED BY <2>3, <2>4 DEF RunningIsTrue
<1>8. ChildrenAreRunning'
  <2>1. ASSUME NEW p \in Numbers', UnderWay(p)', Of(p)' \notin again'
        PROVE  \A i \in DOMAIN Parts(p)' : Parts(p)'[i] \in Range(running'[Of(Parts(p)[i])'])
    <3>1. p \in Numbers /\ UnderWay(p) /\ Of(p) \notin again /\ Parts(p)' = Parts(p)
      BY <1>1, <1>2, <1>3, <2>1
    <3>2. \A i \in DOMAIN Parts(p) : Parts(p)[i] \in Numbers
      BY <3>1, StagedTyped DEF Range
    <3>3. \A i \in DOMAIN Parts(p) : Of(Parts(p)[i])' = Of(Parts(p)[i])
      BY <1>1, <3>1, <3>2 DEF Of, Parts
    <3> QED BY <1>3, <3>1, <3>3 DEF ChildrenAreRunning
  <2> QED BY <2>1 DEF ChildrenAreRunning
<1> QED BY <1>5, <1>6, <1>7, <1>8

LEMMA RunningPreserved ==
  ASSUME TypeOK, Placed, Families, [Next]_vars, Entries, RunningIsTrue, ChildrenAreRunning
  PROVE  /\ running' \in [Objects -> Seq(Numbers')]
         /\ Entries' /\ RunningIsTrue' /\ ChildrenAreRunning'
<1>1. CASE Unmoving
  <2>1. Unmoved /\ Numbers' = Numbers
    BY <1>1, UnmovedBy DEF Unmoved
  <2>2. (UNCHANGED running /\ UNCHANGED again) \/ \E o \in Objects : StartRefused(o)
    <3> HIDE DEF StartRefused
    <3> QED BY <1>1
            DEF Unmoving, SetHandler, Abort, Wait, ClearQueries, Disconnect, Shutdown, ThinkHook, Await,
                Think, Report, Return, Clear, Take, BeginChild, Finish, vars, object
  <2>3. CASE UNCHANGED running /\ UNCHANGED again
    <3>1. running' \in [Objects -> Seq(Numbers')]
      BY <2>1, <2>3, RunningTyped DEF Runs
    <3> QED BY <2>1, <2>3, <3>1, RunningKept
  <2>4. ASSUME NEW o \in Objects, StartRefused(o)
        PROVE  /\ running' \in [Objects -> Seq(Numbers')]
               /\ Entries' /\ RunningIsTrue' /\ ChildrenAreRunning'
    BY <2>1, <2>4, RunningRefused DEF Runs
  <2> QED BY <2>2, <2>3, <2>4
<1>2. CASE Release
  <2>1. Numbers' = Numbers
    BY <1>2, ReleasedData
  <2> QED BY <1>2, <2>1, RunningReleased DEF Runs
<1> QED BY <1>1, <1>2, Moves, RunningAdded, RunningStarted

-----------------------------------------------------------------------------
(* The places of an execution. *)

Frames ==
  {f \in Frame : /\ f.op \notin Bare => f.data \in Numbers
                 /\ f.op = "clear" => Of(f.data) \in Transactions}

\* The stack of the Lua thread, as a sequence of these.
LEMMA StackTyped ==
  ASSUME TypeOK
  PROVE  todo \in Seq(Frames)
<1>1. todo \in Seq(Frame)
  BY DEF TypeOK
<1>2. \A i \in 1..Len(todo) : todo[i] \in Frame
  BY <1>1, ElementOfSeq
<1>3. \A i \in 1..Len(todo) : todo[i] \in Frames
  BY <1>1, <1>2, LenProperties DEF TypeOK, Frames
<1>4. todo = [i \in 1..Len(todo) |-> todo[i]] /\ Len(todo) \in Nat
  BY <1>1, LenProperties
<1> QED BY <1>3, <1>4, SeqDef

\* How often d is about to be released.
Freed(d) == Times(Step("release", d), todo)

LEMMA Placing ==
  ASSUME TypeOK
  PROVE  /\ \A d : /\ Times(d, queue) \in Nat /\ Times(d, finished) \in Nat /\ Freed(d) \in Nat
                   /\ Places(d) = Times(d, queue) + (IF active = d THEN 1 ELSE 0)
                                  + Times(d, finished) + Freed(d)
         /\ queue \in Seq(Numbers) /\ finished \in Seq(Numbers)
<1>1. queue \in Seq(Numbers) /\ finished \in Seq(Numbers) /\ todo \in Seq(Frame)
  BY DEF TypeOK
<1> QED BY <1>1, TimesNat DEF Places, Freed

\* Frames put on the stack,
LEMMA Called ==
  ASSUME TypeOK, NEW s \in Seq(Frames), todo' = s \o todo
  PROVE  /\ todo' \in Seq(Frames)
         /\ \A d : Freed(d)' = Times(Step("release", d), s) + Freed(d)
BY StackTyped, ConcatProperties, TimesConcat DEF Freed

\* and in the place of the one on top.
LEMMA Replaced ==
  ASSUME TypeOK, NEW op, At(op), NEW s \in Seq(Frames), Then(s)
  PROVE  /\ todo' \in Seq(Frames)
         /\ \A d : Freed(d)' + (IF op = "release" /\ Head(todo).data = d THEN 1 ELSE 0)
                     = Times(Step("release", d), s) + Freed(d)
<1>1. todo \in Seq(Frames) /\ todo # <<>> /\ Head(todo) = Step(op, Head(todo).data)
  BY StackTyped, TopTyped
<1>2. todo' = s \o Tail(todo)
  BY DEF Then
<1>3. Tail(todo) \in Seq(Frames)
  BY <1>1, TimesTail
<1>4. todo' \in Seq(Frames)
  BY <1>2, <1>3, ConcatProperties
<1>5. ASSUME NEW d
      PROVE  Freed(d)' + (IF op = "release" /\ Head(todo).data = d THEN 1 ELSE 0)
               = Times(Step("release", d), s) + Freed(d)
  <2>1. Freed(d)' = Times(Step("release", d), s) + Times(Step("release", d), Tail(todo))
    BY <1>2, <1>3, TimesConcat DEF Freed
  <2>2. Freed(d) = Times(Step("release", d), Tail(todo))
                   + (IF Step("release", d) = Head(todo) THEN 1 ELSE 0)
    BY <1>1, TimesTail DEF Freed
  <2>3. Step("release", d) = Head(todo) <=> op = "release" /\ Head(todo).data = d
    BY <1>1 DEF Step
  <2>4. Times(Step("release", d), Tail(todo)) \in Nat /\ Times(Step("release", d), s) \in Nat
    BY <1>3, TimesNat
  <2> HIDE DEF Freed
  <2> QED BY <2>1, <2>2, <2>3, <2>4
<1> QED BY <1>4, <1>5

LEMMA NoneReleased ==
  ASSUME NEW S, NEW s \in Seq(S), \A x \in Range(s) : x.op # "release", NEW d
  PROVE  Times(Step("release", d), s) = 0
<1>1. Step("release", d).op = "release"
  BY DEF Step
<1> QED BY <1>1, TimesNat

LEMMA CompletingTyped ==
  ASSUME TypeOK, NEW ds \in Seq(Numbers), NEW op \in {"report", "aborted"}
  PROVE  Completing(op, ds) \in Seq(Frames)
<1> DEFINE n == Len(ds)
           c == Completing(op, ds)
<1>1. n \in Nat /\ \A i \in 1..n : ds[i] \in Numbers
  BY LenProperties, ElementOfSeq
<1>2. \A d \in Numbers : Step(op, d) \in Frames /\ Step("release", d) \in Frames
  BY NumbersAre DEF Step, Frames, Frame
<1>3. ASSUME NEW i \in 1..2 * n
      PROVE  c[i] \in Frames
  <2>1. CASE i % 2 = 1
    <3>1. (i + 1) \div 2 \in 1..n
      BY <1>1, <2>1
    <3>2. c[i] = Step(op, ds[(i + 1) \div 2])
      BY <2>1 DEF Completing
    <3> QED BY <1>1, <1>2, <3>1, <3>2
  <2>2. CASE i % 2 # 1
    <3>1. i \div 2 \in 1..n
      BY <1>1, <2>2
    <3>2. c[i] = Step("release", ds[i \div 2])
      BY <2>2 DEF Completing
    <3> QED BY <1>1, <1>2, <3>1, <3>2
  <2> QED BY <2>1, <2>2
<1>4. c = [i \in 1..2 * n |-> c[i]] /\ 2 * n \in Nat
  BY <1>1 DEF Completing
<1> HIDE DEF c, n
<1> QED BY <1>3, <1>4, SeqDef DEF c

\* A step that brings no execution to a place where it was not.
Steady ==
  /\ queue' \in Seq(Numbers) /\ finished' \in Seq(Numbers) /\ active' \in Numbers \union {0}
  /\ todo' \in Seq(Frames)
  /\ \A d \in Numbers : Places(d)' <= Places(d)

\* Steps that leave the worker alone.
LEMMA SteadyStack ==
  ASSUME TypeOK, UNCHANGED <<queue, active, finished>>, todo' \in Seq(Frames),
         \A d \in Numbers : Freed(d)' <= Freed(d)
  PROVE  Steady
<1>1. queue' = queue /\ active' = active /\ finished' = finished
  OBVIOUS
<1>2. active \in Numbers \union {0}
  BY DEF TypeOK
<1>3. ASSUME NEW d \in Numbers
      PROVE  Places(d)' <= Places(d)
  <2>1. Places(d)' = Times(d, queue) + (IF active = d THEN 1 ELSE 0) + Times(d, finished) + Freed(d)'
    BY <1>1 DEF Places, Freed
  <2>2. Freed(d)' \in Nat
    BY TimesNat DEF Freed
  <2> HIDE DEF Freed
  <2> QED BY <2>1, <2>2, Placing
<1> QED BY <1>1, <1>2, <1>3, Placing DEF Steady

\* A step of the Lua thread that puts no release on the stack.
LEMMA SteadyThen ==
  ASSUME TypeOK, NEW op, At(op), NEW s \in Seq(Frames), Then(s),
         \A x \in Range(s) : x.op # "release", UNCHANGED <<queue, active, finished>>
  PROVE  Steady
<1>1. todo' \in Seq(Frames)
  BY Replaced
<1>2. ASSUME NEW d \in Numbers
      PROVE  Freed(d)' <= Freed(d)
  <2>1. Freed(d)' + (IF op = "release" /\ Head(todo).data = d THEN 1 ELSE 0)
          = Times(Step("release", d), s) + Freed(d)
    BY Replaced
  <2>2. Times(Step("release", d), s) = 0
    BY NoneReleased
  <2>3. Freed(d)' \in Nat /\ Freed(d) \in Nat
    BY <1>1, Placing, TimesNat DEF Freed
  <2> HIDE DEF Freed
  <2> QED BY <2>1, <2>2, <2>3
<1> QED BY <1>1, <1>2, SteadyStack

\* query:abort() takes executions from the queue to release them.
LEMMA SteadyAbort ==
  ASSUME TypeOK, Entries, NEW o \in Objects, Abort(o)
  PROVE  Steady
<1> DEFINE queued == Only(running[o], Range(queue))
           s == Completing("aborted", queued)
           rest == Only(queue, Numbers \ Range(queued))
<1>1. /\ todo' = s \o todo /\ queue' = rest
      /\ active' = active /\ finished' = finished
  BY DEF Abort, Call
<1>2. running[o] \in Seq(Numbers) /\ queue \in Seq(Numbers) /\ active \in Numbers \union {0}
  BY DEF TypeOK
<1>3. /\ queued \in Seq(Numbers)
      /\ \A d : Times(d, queued) = IF d \in Range(queue) THEN Times(d, running[o]) ELSE 0
  BY <1>2, TimesOnly
<1>4. /\ rest \in Seq(Numbers)
      /\ \A d : Times(d, rest) = IF d \in Numbers \ Range(queued) THEN Times(d, queue) ELSE 0
  BY <1>2, TimesOnly
<1> HIDE DEF queued, rest
<1>5. /\ s \in Seq(Frames)
      /\ \A d : Times(Step("release", d), s) = Times(d, queued)
  BY <1>3, CompletingTyped, TimesCompleting
<1> HIDE DEF s
<1>6. todo' \in Seq(Frames) /\ \A d : Freed(d)' = Times(d, queued) + Freed(d)
  BY <1>1, <1>5, Called
<1>7. ASSUME NEW d \in Numbers
      PROVE  Times(d, rest) + Times(d, queued) <= Times(d, queue)
  <2>1. /\ Times(d, queued) \in Nat /\ Times(d, running[o]) \in Nat /\ Times(d, queue) \in Nat
        /\ Times(d, queued) = 0 <=> d \notin Range(queued)
        /\ Times(d, queue) = 0 <=> d \notin Range(queue)
        /\ Times(d, running[o]) = 0 <=> d \notin Range(running[o])
    BY <1>2, <1>3, TimesNat
  <2>2. d \in Range(running[o]) => Times(d, running[o]) <= 1
    BY DEF Entries
  <2>3. CASE d \in Range(queued)
    BY <1>3, <1>4, <2>1, <2>2, <2>3
  <2>4. CASE d \notin Range(queued)
    <3>1. Times(d, rest) = Times(d, queue) /\ Times(d, queued) = 0
      BY <1>4, <2>1, <2>4
    <3> QED BY <2>1, <3>1
  <2> QED BY <2>3, <2>4
<1>8. ASSUME NEW d \in Numbers
      PROVE  Places(d)' <= Places(d)
  <2>1. Places(d)' = Times(d, rest) + (IF active = d THEN 1 ELSE 0) + Times(d, finished) + Freed(d)'
    BY <1>1 DEF Places, Freed
  <2>2. Times(d, rest) \in Nat /\ Times(d, queued) \in Nat
    BY <1>3, <1>4, TimesNat
  <2> QED BY <1>6, <1>7, <2>1, <2>2, Placing
<1> QED BY <1>1, <1>2, <1>4, <1>6, <1>8, Placing DEF Steady

\* db:disconnect() takes all of them.
LEMMA SteadyDisconnect ==
  ASSUME TypeOK, Disconnect
  PROVE  Steady
<1> DEFINE c == Completing("aborted", queue)
           e == <<Step("shutdown", 0)>>
           s == c \o e
<1>1. todo' = s \o todo /\ queue' = <<>> /\ active' = active /\ finished' = finished
  BY DEF Disconnect, Call
<1>2. queue \in Seq(Numbers) /\ active \in Numbers \union {0} /\ <<>> \in Seq(Numbers)
  BY EmptySeq DEF TypeOK
<1>3. /\ c \in Seq(Frames)
      /\ \A d : Times(Step("release", d), c) = Times(d, queue)
  BY <1>2, CompletingTyped, TimesCompleting
<1>4. e \in Seq(Frames) /\ \A d : Times(Step("release", d), e) = 0
  <2>1. Step("shutdown", 0) \in Frames /\ Step("shutdown", 0).op = "shutdown"
    BY DEF Step, Frames, Frame
  <2>2. e \in Seq(Frames) /\ \A x \in Range(e) : x.op # "release"
    BY <2>1 DEF Range
  <2> HIDE DEF e
  <2> QED BY <2>2, NoneReleased
<1> HIDE DEF c, e
<1>5. s \in Seq(Frames) /\ \A d : Times(Step("release", d), s) = Times(d, queue)
  <2>1. s \in Seq(Frames)
    BY <1>3, <1>4, ConcatProperties
  <2>2. \A d : Times(d, queue) \in Nat
    BY <1>2, TimesNat
  <2>3. \A d : Times(Step("release", d), s) = Times(d, queue) + 0
    BY <1>3, <1>4, TimesConcat
  <2> QED BY <2>1, <2>2, <2>3
<1> HIDE DEF s
<1>6. todo' \in Seq(Frames) /\ \A d : Freed(d)' = Times(d, queue) + Freed(d)
  BY <1>1, <1>5, Called
<1>7. ASSUME NEW d \in Numbers
      PROVE  Places(d)' <= Places(d)
  <2>1. Places(d)' = 0 + (IF active = d THEN 1 ELSE 0) + Times(d, finished) + Freed(d)'
    BY <1>1, TimesEmpty DEF Places, Freed
  <2> QED BY <1>6, <2>1, Placing
<1> QED BY <1>1, <1>2, <1>6, <1>7, Placing DEF Steady

\* shutdown() hands what is queued to think().
LEMMA SteadyShutdown ==
  ASSUME TypeOK, Shutdown
  PROVE  Steady
<1>1. At("shutdown") /\ Then(<<>>) /\ active' = active
  BY DEF Shutdown
<1>2. <<>> \in Seq(Frames) /\ \A x \in Range(<<>>) : x.op # "release"
  BY EmptySeq, RangeEmpty
<1>3. CASE closed
  <2>1. UNCHANGED <<queue, active, finished>>
    BY <1>3 DEF Shutdown
  <2> QED BY <1>1, <1>2, <2>1, SteadyThen
<1>4. CASE ~closed
  <2>1. queue' = <<>> /\ finished' = finished \o queue
    BY <1>4 DEF Shutdown
  <2>2. /\ queue \in Seq(Numbers) /\ finished \in Seq(Numbers) /\ <<>> \in Seq(Numbers)
        /\ active \in Numbers \union {0}
    BY EmptySeq DEF TypeOK
  <2>3. finished \o queue \in Seq(Numbers)
    BY <2>2, ConcatProperties
  <2>4. todo' \in Seq(Frames)
    BY <1>1, <1>2, Replaced
  <2>5. ASSUME NEW d \in Numbers
        PROVE  Places(d)' <= Places(d)
    <3>1. Freed(d)' + 0 = 0 + Freed(d)
      <4>1. Freed(d)' + (IF "shutdown" = "release" /\ Head(todo).data = d THEN 1 ELSE 0)
              = Times(Step("release", d), <<>>) + Freed(d)
        BY <1>1, <1>2, Replaced
      <4>2. Times(Step("release", d), <<>>) = 0
        BY TimesEmpty
      <4> HIDE DEF Freed
      <4> QED BY <4>1, <4>2
    <3>2. Times(d, finished \o queue) = Times(d, finished) + Times(d, queue)
      BY <2>2, TimesConcat
    <3>3. Places(d)' = 0 + (IF active = d THEN 1 ELSE 0) + Times(d, finished \o queue) + Freed(d)'
      BY <1>1, <2>1, TimesEmpty DEF Places, Freed
    <3>4. Freed(d)' \in Nat
      BY <2>4, TimesNat DEF Freed
    <3> HIDE DEF Freed
    <3> QED BY <3>1, <3>2, <3>3, <3>4, Placing
  <2> QED BY <1>1, <2>1, <2>2, <2>3, <2>4, <2>5 DEF Steady
<1> QED BY <1>3, <1>4

\* think() takes what is finished.
LEMMA SteadyThink ==
  ASSUME TypeOK, Think
  PROVE  Steady
<1> DEFINE s == Completing("report", finished)
<1>1. At("think") /\ Then(s) /\ finished' = <<>> /\ queue' = queue /\ active' = active
  BY DEF Think
<1>2. /\ finished \in Seq(Numbers) /\ queue \in Seq(Numbers) /\ active \in Numbers \union {0}
      /\ <<>> \in Seq(Numbers)
  BY EmptySeq DEF TypeOK
<1>3. /\ s \in Seq(Frames)
      /\ \A d : Times(Step("release", d), s) = Times(d, finished)
  BY <1>2, CompletingTyped, TimesCompleting
<1> HIDE DEF s
<1>4. todo' \in Seq(Frames) /\ \A d : Freed(d)' + 0 = Times(d, finished) + Freed(d)
  BY <1>1, <1>3, Replaced
<1>5. ASSUME NEW d \in Numbers
      PROVE  Places(d)' <= Places(d)
  <2>1. Places(d)' = Times(d, queue) + (IF active = d THEN 1 ELSE 0) + 0 + Freed(d)'
    BY <1>1, TimesEmpty DEF Places, Freed
  <2>2. Freed(d)' \in Nat
    BY <1>4, TimesNat DEF Freed
  <2> HIDE DEF Freed
  <2> QED BY <1>4, <2>1, <2>2, Placing
<1> QED BY <1>1, <1>2, <1>4, <1>5, Placing DEF Steady

\* wait(true) may exchange two of the queue.
LEMMA SteadyWait ==
  ASSUME TypeOK, NEW o \in Objects, NEW swap \in BOOLEAN, Wait(o, swap)
  PROVE  Steady
<1> PICK d : d = Last(running[o])
  OBVIOUS
<1> DEFINE s == <<Step("await", d), Step("think", 0)>>
<1>1. /\ running[o] # <<>> /\ todo' = s \o todo /\ active' = active /\ finished' = finished
      /\ queue' = IF swap /\ d \in Range(queue)
                  THEN LET i == CHOOSE i \in DOMAIN queue : queue[i] = d
                       IN  [queue EXCEPT ![1] = d, ![i] = queue[1]]
                  ELSE queue
  BY DEF Wait, Call
<1>2. d \in Numbers
  <2>1. running[o] \in Seq(Numbers)
    BY DEF TypeOK
  <2>2. Len(running[o]) \in 1..Len(running[o])
    BY <1>1, <2>1, EmptySeq, LenProperties
  <2> QED BY <2>1, <2>2, ElementOfSeq DEF Last
<1>3. s \in Seq(Frames) /\ \A x \in Range(s) : x.op # "release"
  <2>1. Step("await", d) \in Frames /\ Step("think", 0) \in Frames
    BY <1>2, NumbersAre DEF Step, Frames, Frame
  <2>2. Step("await", d).op = "await" /\ Step("think", 0).op = "think"
    BY DEF Step
  <2> QED BY <2>1, <2>2 DEF Range
<1>4. queue \in Seq(Numbers) /\ active \in Numbers \union {0}
  BY DEF TypeOK
<1>5. queue' \in Seq(Numbers) /\ \A x : Times(x, queue') = Times(x, queue)
  <2>1. CASE swap /\ d \in Range(queue)
    <3> DEFINE i == CHOOSE i \in DOMAIN queue : queue[i] = d
    <3>1. i \in DOMAIN queue /\ queue[i] = d
      BY <2>1 DEF Range
    <3>2. queue' = [queue EXCEPT ![1] = d, ![i] = queue[1]]
      BY <1>1, <2>1
    <3> HIDE DEF i
    <3>3. queue' = [queue EXCEPT ![1] = queue[i], ![i] = queue[1]]
      BY <3>1, <3>2
    <3> DEFINE t == [queue EXCEPT ![1] = queue[i], ![i] = queue[1]]
    <3>4. t \in Seq(Numbers) /\ \A x : Times(x, t) = Times(x, queue)
      BY <1>4, <3>1, TimesSwap
    <3> HIDE DEF t
    <3> QED BY <3>3, <3>4 DEF t
  <2>2. CASE ~(swap /\ d \in Range(queue))
    BY <1>1, <1>4, <2>2
  <2> QED BY <2>1, <2>2
<1> HIDE DEF s
<1>6. todo' \in Seq(Frames) /\ \A x : Freed(x)' = 0 + Freed(x)
  BY <1>1, <1>3, Called, NoneReleased
<1>7. ASSUME NEW x \in Numbers
      PROVE  Places(x)' <= Places(x)
  <2>1. Places(x)' = Times(x, queue) + (IF active = x THEN 1 ELSE 0) + Times(x, finished) + Freed(x)'
    BY <1>1, <1>5 DEF Places, Freed
  <2>2. Freed(x)' = 0 + Freed(x)
    BY <1>6
  <2> HIDE DEF Freed
  <2> QED BY <2>1, <2>2, Placing
<1> QED BY <1>1, <1>4, <1>5, <1>6, <1>7, Placing DEF Steady

\* take(): from the queue to the worker.
LEMMA SteadyTake ==
  ASSUME TypeOK, Take
  PROVE  Steady
<1>1. /\ active = 0 /\ queue # <<>> /\ active' = Head(queue) /\ queue' = Tail(queue)
      /\ finished' = finished /\ todo' = todo
  BY DEF Take
<1>2. /\ Head(queue) \in Numbers /\ Tail(queue) \in Seq(Numbers)
      /\ \A d : Times(d, queue) = Times(d, Tail(queue)) + (IF d = Head(queue) THEN 1 ELSE 0)
  BY <1>1, Placing, TimesTail
<1>3. ASSUME NEW d \in Numbers
      PROVE  Places(d)' <= Places(d)
  <2>1. Places(d)' = Times(d, Tail(queue)) + (IF Head(queue) = d THEN 1 ELSE 0)
                     + Times(d, finished) + Freed(d)
    BY <1>1 DEF Places, Freed
  <2>2. Times(d, Tail(queue)) \in Nat
    BY <1>2, TimesNat
  <2>3. d # 0
    BY NumbersAre
  <2> QED BY <1>1, <1>2, <2>1, <2>2, <2>3, Placing
<1> QED BY <1>1, <1>2, <1>3, Placing, StackTyped DEF Steady

\* From the worker to what is finished.
LEMMA SteadyFinish ==
  ASSUME TypeOK, NEW status, Finish(status)
  PROVE  Steady
<1>1. /\ active # 0 /\ finished' = Append(finished, active) /\ active' = 0
      /\ queue' = queue /\ todo' = todo
  BY DEF Finish
<1>2. active \in Numbers
  BY <1>1 DEF TypeOK
<1>3. /\ Append(finished, active) \in Seq(Numbers)
      /\ \A d : Times(d, Append(finished, active)) =
                  Times(d, finished) + (IF d = active THEN 1 ELSE 0)
  BY <1>2, Placing, TimesAppend
<1>4. ASSUME NEW d \in Numbers
      PROVE  Places(d)' <= Places(d)
  <2>1. Places(d)' = Times(d, queue) + (IF 0 = d THEN 1 ELSE 0)
                     + Times(d, Append(finished, active)) + Freed(d)
    BY <1>1 DEF Places, Freed
  <2>2. d # 0
    BY NumbersAre
  <2> QED BY <1>3, <2>1, <2>2, Placing
<1> QED BY <1>1, <1>3, <1>4, Placing, StackTyped DEF Steady

\* runCallback: the callback and the clearing come before the release that is
\* there already.
LEMMA SteadyReport ==
  ASSUME TypeOK, Report
  PROVE  Steady
<1> PICK d : d = Head(todo).data
  OBVIOUS
<1> DEFINE call  == IF Handler(d) = "none" THEN <<>> ELSE <<Step("callback", d)>>
           clear == IF Of(d) \in Transactions THEN <<Step("clear", d)>> ELSE <<>>
<1>1. /\ At("report") \/ At("aborted")
      /\ Then(call \o clear) /\ UNCHANGED <<queue, active, finished>>
  BY DEF Report, worker
<1>2. d \in Numbers
  BY <1>1, TopTyped
<1>3. /\ Step("callback", d) \in Frames
      /\ Of(d) \in Transactions => Step("clear", d) \in Frames
      /\ Step("callback", d).op = "callback" /\ Step("clear", d).op = "clear"
  BY <1>2, NumbersAre DEF Step, Frames, Frame
<1>4. call \in Seq(Frames) /\ \A x \in Range(call) : x.op # "release"
  BY <1>3, EmptySeq, RangeEmpty DEF Range
<1>5. clear \in Seq(Frames) /\ \A x \in Range(clear) : x.op # "release"
  BY <1>3, EmptySeq, RangeEmpty DEF Range
<1> HIDE DEF call, clear
<1>6. call \o clear \in Seq(Frames)
  BY <1>4, <1>5, ConcatProperties
<1>7. Range(call \o clear) \subseteq Range(call) \union Range(clear)
  <2>1. \A q : Contains(call \o clear, q) <=> Contains(call, q) \/ Contains(clear, q)
    BY <1>4, <1>5, ContainsConcat
  <2>2. \A s \in Seq(Frames) : \A q : q \in Range(s) <=> Contains(s, q)
    BY LenProperties DEF Contains, Range
  <2> QED BY <1>4, <1>5, <1>6, <2>1, <2>2
<1>8. \A x \in Range(call \o clear) : x.op # "release"
  BY <1>4, <1>5, <1>7
<1> DEFINE s == call \o clear
<1>9. s \in Seq(Frames) /\ (\A x \in Range(s) : x.op # "release") /\ Then(s)
  BY <1>1, <1>6, <1>8
<1> HIDE DEF s
<1> QED BY <1>1, <1>9, SteadyThen

LEMMA SteadyUnmoving ==
  ASSUME TypeOK, Entries, Unmoving
  PROVE  Steady
<1>1. <<>> \in Seq(Frames) /\ \A x \in Range(<<>>) : x.op # "release"
  BY EmptySeq, RangeEmpty
<1>2. CASE Await
  BY <1>1, <1>2, SteadyThen DEF Await, worker
<1>3. CASE Return
  BY <1>1, <1>3, SteadyThen DEF Return, worker
<1>4. CASE Clear
  BY <1>1, <1>4, SteadyThen DEF Clear, worker
<1>5. CASE UNCHANGED <<worker, todo>>
  <2>1. UNCHANGED <<queue, active, finished>> /\ todo' \in Seq(Frames)
    BY <1>5, StackTyped DEF worker
  <2>2. \A d \in Numbers : Freed(d)' <= Freed(d)
    <3>1. \A d \in Numbers : Freed(d)' = Freed(d)
      BY <1>5 DEF Freed
    <3> QED BY <3>1, Placing
  <2> QED BY <2>1, <2>2, SteadyStack
<1>6. CASE ThinkHook
  <2>1. UNCHANGED <<queue, active, finished>> /\ todo' = <<Step("think", 0)>>
    BY <1>6 DEF ThinkHook, worker
  <2>2. Step("think", 0) \in Frames /\ Step("think", 0).op = "think"
    BY DEF Step, Frames, Frame
  <2>3. todo' \in Seq(Frames) /\ \A x \in Range(todo') : x.op # "release"
    BY <2>1, <2>2 DEF Range
  <2>4. \A d \in Numbers : Freed(d)' <= Freed(d)
    <3>1. \A d \in Numbers : Freed(d)' = 0
      BY <2>3, NoneReleased DEF Freed
    <3> QED BY <3>1, Placing
  <2> QED BY <2>1, <2>3, <2>4, SteadyStack
<1> QED BY <1>2, <1>3, <1>4, <1>5, <1>6, SteadyAbort, SteadyDisconnect, SteadyShutdown,
           SteadyThink, SteadyWait, SteadyTake, SteadyFinish, SteadyReport
        DEF Unmoving, SetHandler, StartRefused, ClearQueries, BeginChild, vars

\* A frame stays well typed, as no data goes away or changes its object.
LEMMA FramesGrow ==
  ASSUME Numbers \subseteq Numbers', \A d \in Numbers : data'[d].of = data[d].of
  PROVE  Frames \subseteq Frames'
BY DEF Frames, Of

\* What the worker and the stack hold after a step.
Holding ==
  /\ queue' \in Seq(Numbers') /\ finished' \in Seq(Numbers') /\ active' \in Numbers' \union {0}
  /\ todo' \in Seq(Frames')

LEMMA StackKept ==
  ASSUME Numbers \subseteq Numbers', \A d \in Numbers : data'[d].of = data[d].of,
         queue' \in Seq(Numbers'), finished' \in Seq(Numbers), active' \in Numbers \union {0},
         todo' \in Seq(Frames)
  PROVE  Holding
<1>1. Frames \subseteq Frames'
  BY FramesGrow
<1>2. finished' \in Seq(Numbers') /\ todo' \in Seq(Frames')
  BY <1>1, SeqWider
<1> QED BY <1>2 DEF Holding

\* What is not built yet is in none of the places.
LEMMA Nowhere ==
  ASSUME TypeOK, NEW n, n \notin Numbers, n # 0
  PROVE  Places(n) = 0
<1>1. Times(n, queue) = 0 /\ Times(n, finished) = 0
  <2>1. Range(queue) \subseteq Numbers /\ Range(finished) \subseteq Numbers
    BY Placing, RangeTyped
  <2> QED BY <2>1, Placing, TimesNat
<1>2. Freed(n) = 0
  <2>1. Range(todo) \subseteq Frames
    BY StackTyped, RangeTyped
  <2>2. Step("release", n) \notin Frames
    BY DEF Step, Frames
  <2> QED BY <2>1, <2>2, StackTyped, TimesNat DEF Freed
<1>3. active # n
  BY DEF TypeOK
<1> QED BY <1>1, <1>2, <1>3, Placing

LEMMA PlacedPreserved ==
  ASSUME TypeOK, Placed, Families, Entries, [Next]_vars
  PROVE  Placed' /\ Holding
<1>1. CASE Unmoving
  <2>1. Unmoved /\ Numbers' = Numbers
    BY <1>1, UnmovedBy DEF Unmoved
  <2>2. \A d \in Numbers : data'[d].of = data[d].of /\ (UnderWay(d)' <=> UnderWay(d))
    BY <2>1 DEF Unmoved, Keeps, KeepsPhase, UnderWay
  <2>3. Steady
    BY <1>1, SteadyUnmoving
  <2>4. Holding
    BY <2>1, <2>2, <2>3, StackKept DEF Steady
  <2>5. ASSUME NEW d \in Numbers
        PROVE  Places(d)' <= IF UnderWay(d)' THEN 1 ELSE 0
    <3>1. Places(d)' <= Places(d) /\ Places(d) <= IF UnderWay(d) THEN 1 ELSE 0
      BY <2>3 DEF Steady, Placed
    <3>2. Places(d) \in Nat
      BY Placing
    <3>3. Places(d)' \in Nat
      <4>1. /\ Times(d, queue') \in Nat /\ Times(d, finished') \in Nat
            /\ Times(Step("release", d), todo') \in Nat
        BY <2>3, TimesNat DEF Steady
      <4> QED BY <4>1 DEF Places
    <3> QED BY <2>2, <3>1, <3>2, <3>3
  <2> QED BY <2>1, <2>4, <2>5 DEF Placed
<1>2. ASSUME NEW t \in Transactions, NEW q \in Queries, AddQuery(t, q)
      PROVE  Placed' /\ Holding
  <2> PICK n : n = Len(data) + 1
    OBVIOUS
  <2>1. /\ Numbers' = Numbers \union {n} /\ n \notin Numbers /\ n # 0
        /\ \A d \in Numbers : data'[d] = data[d]
        /\ data'[n].phase = "staged"
    BY <1>2, FamiliesAdded, NumbersAre
  <2>2. UNCHANGED <<queue, active, finished, todo>>
    BY <1>2 DEF AddQuery, worker
  <2>3. Holding
    <3>1. queue' \in Seq(Numbers')
      BY <2>1, <2>2, Placing, SeqWider
    <3>2. active \in Numbers \union {0}
      BY DEF TypeOK
    <3> QED BY <2>1, <2>2, <3>1, <3>2, Placing, StackTyped, StackKept
  <2>4. \A d : Places(d)' = Places(d)
    BY <2>2 DEF Places
  <2>5. Places(n) = 0
    BY <2>1, Nowhere
  <2>6. \A d \in Numbers : UnderWay(d)' <=> UnderWay(d)
    BY <2>1 DEF UnderWay
  <2>7. ~UnderWay(n)'
    BY <2>1 DEF UnderWay
  <2> QED BY <2>1, <2>3, <2>4, <2>5, <2>6, <2>7 DEF Placed
<1>3. ASSUME NEW o \in Objects, Start(o)
      PROVE  Placed' /\ Holding
  <2> PICK n : n = Len(data) + 1
    OBVIOUS
  <2>1. /\ Numbers' = Numbers \union {n} /\ n \notin Numbers
        /\ \A d \in Numbers : Keeps(d) /\ KeepsPhase(d)
        /\ data'[n].phase = "accepted" /\ n # 0
    BY <1>3, StartedData, NumbersAre
  <2>2. queue' = Append(queue, n) /\ UNCHANGED <<active, finished, todo>>
    BY <1>3 DEF Start, Starting
  <2>3. queue \in Seq(Numbers') /\ n \in Numbers'
    BY <2>1, Placing, SeqWider
  <2>4. /\ queue' \in Seq(Numbers')
        /\ \A d : Times(d, queue') = Times(d, queue) + (IF d = n THEN 1 ELSE 0)
    BY <2>2, <2>3, TimesAppend
  <2>5. Holding
    <3>1. active \in Numbers \union {0}
      BY DEF TypeOK
    <3>2. \A d \in Numbers : data'[d].of = data[d].of
      BY <2>1 DEF Keeps
    <3> QED BY <2>1, <2>2, <2>4, <3>1, <3>2, Placing, StackTyped, StackKept
  <2>6. \A d : Places(d)' = Places(d) + (IF d = n THEN 1 ELSE 0)
    <3>1. ASSUME NEW d
          PROVE  Places(d)' = Places(d) + (IF d = n THEN 1 ELSE 0)
      <4>1. Places(d)' = Times(d, queue') + (IF active = d THEN 1 ELSE 0)
                         + Times(d, finished) + Freed(d)
        BY <2>2 DEF Places, Freed
      <4>2. Times(d, queue') = Times(d, queue) + (IF d = n THEN 1 ELSE 0)
        BY <2>4
      <4>3. /\ Times(d, queue) \in Nat /\ Times(d, finished) \in Nat /\ Freed(d) \in Nat
            /\ Places(d) = Times(d, queue) + (IF active = d THEN 1 ELSE 0)
                           + Times(d, finished) + Freed(d)
        BY Placing
      <4> HIDE DEF Places, Freed
      <4>4. CASE d = n
        BY ONLY <4>1, <4>2, <4>3, <4>4
      <4>5. CASE d # n
        BY ONLY <4>1, <4>2, <4>3, <4>5
      <4> QED BY <4>4, <4>5
    <3> QED BY <3>1
  <2>7. Places(n) = 0
    BY <2>1, Nowhere
  <2>8. \A d \in Numbers : UnderWay(d)' <=> UnderWay(d)
    BY <2>1 DEF UnderWay, KeepsPhase
  <2>9. UnderWay(n)'
    BY <2>1 DEF UnderWay
  <2>10. Places(n)' = 1
    BY <2>6, <2>7
  <2>11. ASSUME NEW d \in Numbers
         PROVE  Places(d)' <= IF UnderWay(d)' THEN 1 ELSE 0
    <3>1. Places(d)' = Places(d)
      BY <2>1, <2>6, Placing
    <3> QED BY <2>8, <3>1 DEF Placed
  <2> QED BY <2>1, <2>5, <2>9, <2>10, <2>11 DEF Placed
<1>4. CASE Release
  <2> PICK c : c = Head(todo).data
    OBVIOUS
  <2>1. /\ c \in Numbers /\ UnderWay(c) /\ Numbers' = Numbers /\ At("release")
        /\ \A d \in Numbers : Keeps(d) /\ (d # c => KeepsPhase(d))
    BY <1>4, ReleasedData
  <2>2. Then(<<>>) /\ UNCHANGED <<queue, active, finished>>
    BY <1>4 DEF Release, worker
  <2>3. /\ todo' \in Seq(Frames)
        /\ \A d : Freed(d)' + (IF c = d THEN 1 ELSE 0) = 0 + Freed(d)
    <3>1. <<>> \in Seq(Frames) /\ \A d : Times(Step("release", d), <<>>) = 0
      BY EmptySeq, TimesEmpty
    <3> DEFINE s == <<>>
    <3>2. s \in Seq(Frames) /\ Then(s)
      BY <2>2, <3>1
    <3>3. /\ todo' \in Seq(Frames)
          /\ \A d : Freed(d)' + (IF "release" = "release" /\ Head(todo).data = d THEN 1 ELSE 0)
                      = Times(Step("release", d), s) + Freed(d)
      BY <2>1, <3>2, Replaced
    <3> QED BY <3>1, <3>3
  <2>4. Holding
    <3>1. active \in Numbers \union {0}
      BY DEF TypeOK
    <3>2. \A d \in Numbers : data'[d].of = data[d].of
      BY <2>1 DEF Keeps
    <3> QED BY <2>1, <2>2, <2>3, <3>1, <3>2, Placing, StackKept
  <2>5. ASSUME NEW d \in Numbers
        PROVE  Places(d)' <= IF UnderWay(d)' THEN 1 ELSE 0
    <3>1. Places(d)' = Times(d, queue) + (IF active = d THEN 1 ELSE 0)
                       + Times(d, finished) + Freed(d)'
      BY <2>2 DEF Places, Freed
    <3>2. Freed(d)' \in Nat
      BY <2>3, TimesNat DEF Freed
    <3>3. Freed(d)' + (IF c = d THEN 1 ELSE 0) = 0 + Freed(d)
      BY <2>3
    <3>4. Places(d) <= IF UnderWay(d) THEN 1 ELSE 0
      BY DEF Placed
    <3>5. d # c => (UnderWay(d)' <=> UnderWay(d))
      BY <2>1 DEF UnderWay, KeepsPhase
    <3> HIDE DEF Freed, Places, UnderWay
    <3> QED BY <2>1, <3>1, <3>2, <3>3, <3>4, <3>5, Placing
  <2> QED BY <2>1, <2>4, <2>5 DEF Placed
<1> QED BY <1>1, <1>2, <1>3, <1>4, Moves

-----------------------------------------------------------------------------
(* Types. *)

\* No data goes away, and none changes its object or its parts.
LEMMA DataGrows ==
  ASSUME TypeOK, Placed, Families, [Next]_vars
  PROVE  /\ data' \in Seq(Datum) /\ Numbers \subseteq Numbers'
         /\ \A d \in Numbers : Of(d)' = Of(d) /\ Parts(d)' = Parts(d)
<1>1. CASE Unmoving
  BY <1>1, UnmovedBy DEF Unmoved, Keeps, Of, Parts
<1>2. ASSUME NEW t \in Transactions, NEW q \in Queries, AddQuery(t, q)
      PROVE  /\ data' \in Seq(Datum) /\ Numbers \subseteq Numbers'
             /\ \A d \in Numbers : Of(d)' = Of(d) /\ Parts(d)' = Parts(d)
  BY <1>2, FamiliesAdded DEF Of, Parts
<1>3. ASSUME NEW o \in Objects, Start(o)
      PROVE  /\ data' \in Seq(Datum) /\ Numbers \subseteq Numbers'
             /\ \A d \in Numbers : Of(d)' = Of(d) /\ Parts(d)' = Parts(d)
  BY <1>3, StartedData DEF Keeps, Of, Parts
<1>4. CASE Release
  BY <1>4, ReleasedData DEF Keeps, Of, Parts
<1> QED BY <1>1, <1>2, <1>3, <1>4, Moves

Kids == {d \in Numbers : Of(d) \in Queries}

\* What is staged, and what a new transaction takes along, is data of queries.
LEMMA KidsTyped ==
  ASSUME TypeOK, Placed, Families, [Next]_vars
  PROVE  /\ \A d \in Numbers' : Parts(d)' \in Seq(Kids')
         /\ staged' \in [Transactions -> Seq(Kids')]
<1>1. /\ Numbers \subseteq Numbers'
      /\ \A d \in Numbers : Of(d)' = Of(d) /\ Parts(d)' = Parts(d)
  BY DataGrows
<1>2. Kids \subseteq Kids'
  BY <1>1 DEF Kids
<1>3. /\ \A d \in Numbers : Parts(d) \in Seq(Kids)
      /\ staged \in [Transactions -> Seq(Kids)]
  BY DEF TypeOK, Kids
<1>4. /\ \A d \in Numbers : Parts(d) \in Seq(Kids')
      /\ \A t \in Transactions : staged[t] \in Seq(Kids')
      /\ staged \in [Transactions -> Seq(Kids')]
  <2>1. \A s \in Seq(Kids) : s \in Seq(Kids')
    BY <1>2, SeqWider
  <2>2. \A t \in Transactions : staged[t] \in Seq(Kids')
    BY <1>3, <2>1
  <2> QED BY <1>3, <2>1, <2>2
<1>5. <<>> \in Seq(Kids')
  BY EmptySeq
<1> HIDE DEF Kids
<1>6. CASE Unmoving
  <2>1. Numbers' = Numbers
    BY <1>6, UnmovedBy DEF Unmoved
  <2>2. CASE UNCHANGED staged
    BY <1>1, <1>4, <2>1, <2>2
  <2>3. ASSUME NEW t, Cleared(t)
        PROVE  staged' \in [Transactions -> Seq(Kids')]
    <3>1. staged' = [staged EXCEPT ![t] = <<>>]
      BY <2>3 DEF Cleared, Clearing
    <3> QED BY <1>4, <1>5, <3>1
  <2>4. UNCHANGED staged \/ \E t : Cleared(t)
    <3> HIDE DEF Cleared
    <3> QED BY <1>6
            DEF Unmoving, SetHandler, StartRefused, Abort, Wait, ClearQueries, Disconnect, Shutdown,
                ThinkHook, Await, Think, Report, Return, Clear, Take, BeginChild, Finish, vars
  <2> QED BY <1>1, <1>4, <2>1, <2>2, <2>3, <2>4
<1>7. ASSUME NEW t \in Transactions, NEW q \in Queries, AddQuery(t, q)
      PROVE  /\ \A d \in Numbers' : Parts(d)' \in Seq(Kids')
             /\ staged' \in [Transactions -> Seq(Kids')]
  <2> PICK n : n = Len(data) + 1
    OBVIOUS
  <2>1. /\ Numbers' = Numbers \union {n} /\ data'[n].of = q /\ data'[n].parts = <<>>
    BY <1>7, FamiliesAdded
  <2>2. Parts(n)' \in Seq(Kids') /\ n \in Kids'
    BY <1>5, <2>1 DEF Parts, Of, Kids
  <2>3. Append(staged[t], n) \in Seq(Kids')
    BY <1>4, <2>2, AppendProperties
  <2>4. staged' = [staged EXCEPT ![t] = Append(staged[t], n)]
    BY <1>7 DEF AddQuery
  <2> QED BY <1>1, <1>4, <2>1, <2>2, <2>3, <2>4
<1>8. ASSUME NEW o \in Objects, Start(o)
      PROVE  /\ \A d \in Numbers' : Parts(d)' \in Seq(Kids')
             /\ staged' \in [Transactions -> Seq(Kids')]
  <2> PICK n : n = Len(data) + 1
    OBVIOUS
  <2>1. Numbers' = Numbers \union {n} /\ data'[n].parts = Children(o) /\ UNCHANGED staged
    BY <1>8, StartedData
  <2>2. Children(o) \in Seq(Kids')
    BY <1>4, <1>5 DEF Children
  <2>3. Parts(n)' = Children(o)
    BY <2>1 DEF Parts
  <2> QED BY <1>1, <1>4, <2>1, <2>2, <2>3
<1>9. CASE Release
  <2>1. Numbers' = Numbers /\ UNCHANGED staged
    BY <1>9, ReleasedData DEF Release
  <2> QED BY <1>1, <1>4, <2>1
<1> QED BY <1>6, <1>7, <1>8, <1>9, Moves

\* The last of some data that are of one object.
Latest(c, o, d) ==
  /\ Of(c) = o
  /\ \A i, j \in DOMAIN Parts(d) : Parts(d)[i] = c /\ Of(Parts(d)[j]) = o => j <= i

LEMMA LastOf ==
  ASSUME TypeOK, Families, NEW d \in Numbers, NEW M, M = {} \/ M = {d}, NEW o \in Objects,
         \E c \in M \union Range(Parts(d)) : Of(c) = o
  PROVE  \E c \in M \union Range(Parts(d)) : Latest(c, o, d)
<1> DEFINE s == Parts(d)
           n == Len(s)
           I == {j \in 1..n : Of(s[j]) = o}
<1>1. /\ s \in Seq(Nat) /\ DOMAIN s = 1..n /\ n \in Nat
      /\ \A c \in Range(s) : /\ Of(c) \in Queries /\ Of(d) \in Transactions
                             /\ Times(c, s) <= 1
  BY StagedTyped, LenProperties DEF Families
<1>2. CASE I = {}
  <2>1. \A j \in DOMAIN s : Of(s[j]) # o
    BY <1>1, <1>2
  <2> QED BY <2>1 DEF Latest
<1>3. CASE I # {}
  <2>1. I \in SUBSET (0..n)
    BY <1>1
  <2> DEFINE m == Max(I)
  <2>2. m \in I /\ \A y \in I : y <= m
    BY <1>1, <1>3, <2>1, MaxOfBounded
  <2> HIDE DEF m
  <2>3. s[m] \in Range(s) /\ Of(s[m]) = o /\ m \in 1..n
    BY <1>1, <2>2 DEF Range
  <2>4. ASSUME NEW i \in DOMAIN s, s[i] = s[m]
        PROVE  i = m
    <3> DEFINE K == {k \in DOMAIN s : s[k] = s[m]}
    <3>1. IsFiniteSet(K) /\ i \in K /\ m \in K
      <4>1. IsFiniteSet(1..n)
        BY <1>1, FS_Interval
      <4> QED BY <1>1, <2>3, <2>4, <4>1, FS_Subset
    <3>2. Cardinality(K) <= 1
      BY <1>1, <2>3 DEF Times
    <3> HIDE DEF K
    <3>3. Cardinality(K \ {m}) = Cardinality(K) - 1 /\ IsFiniteSet(K \ {m})
      BY <3>1, FS_RemoveElement
    <3>4. /\ Cardinality(K \ {m}) \in Nat /\ Cardinality(K) \in Nat
          /\ Cardinality(K \ {m}) = 0 <=> K \ {m} = {}
      BY <3>1, <3>3, FS_EmptySet, FS_CardinalityType
    <3> QED BY <3>1, <3>2, <3>3, <3>4
  <2>5. \A i, j \in DOMAIN s : s[i] = s[m] /\ Of(s[j]) = o => j <= i
    BY <1>1, <2>2, <2>4
  <2> QED BY <2>3, <2>5 DEF Latest
<1> QED BY <1>2, <1>3

LEMMA CallbackDataTyped ==
  ASSUME TypeOK, Families, Report
  PROVE  callbackData' \in [Objects -> Numbers \union {0}]
<1> PICK d : d = Head(todo).data
  OBVIOUS
<1> PICK M : M = IF At("report") THEN {d} ELSE {}
  OBVIOUS
<1>1. d \in Numbers
  BY TopTyped DEF Report
<1>2. callbackData' = [o \in Objects |->
        IF \E c \in M \union Range(Parts(d)) : Of(c) = o
        THEN CHOOSE c \in M \union Range(Parts(d)) : Latest(c, o, d)
        ELSE callbackData[o]]
  BY DEF Report, Latest
<1>3. M \union Range(Parts(d)) \subseteq Numbers
  BY <1>1, StagedTyped
<1>4. ASSUME NEW o \in Objects, \E c \in M \union Range(Parts(d)) : Of(c) = o
      PROVE  (CHOOSE c \in M \union Range(Parts(d)) : Latest(c, o, d)) \in M \union Range(Parts(d))
  <2>1. \E c \in M \union Range(Parts(d)) : Latest(c, o, d)
    <3>1. M = {} \/ M = {d}
      OBVIOUS
    <3> QED BY <1>1, <1>4, <3>1, LastOf
  <2> QED BY <2>1
<1>5. \A o \in Objects : callbackData[o] \in Numbers \union {0}
  BY DEF TypeOK
<1> QED BY <1>2, <1>3, <1>4, <1>5

\* What an object and the worker keep beside the data.
LEMMA FlagsTyped ==
  ASSUME TypeOK, [Next]_vars
  PROVE  /\ started' \in [Objects -> BOOLEAN]
         /\ handler' \in [Objects -> Functions \union {"none"}]
         /\ {cancelled', closed'} \subseteq BOOLEAN
         /\ again' \subseteq Transactions
         /\ Report \/ UNCHANGED callbackData
<1>1. /\ started \in [Objects -> BOOLEAN]
      /\ handler \in [Objects -> Functions \union {"none"}]
      /\ cancelled \in BOOLEAN /\ closed \in BOOLEAN /\ again \subseteq Transactions
  BY DEF TypeOK
<1>2. CASE UNCHANGED <<started, handler, cancelled, closed, again, callbackData>>
  BY <1>1, <1>2
<1>3. CASE UNCHANGED <<started, handler, cancelled, closed, again>> /\ Report
  BY <1>1, <1>3
<1>4. ASSUME NEW o \in Objects, NEW f \in Functions, SetHandler(o, f)
      PROVE  /\ UNCHANGED <<started, cancelled, closed, again, callbackData>>
             /\ handler' \in [Objects -> Functions \union {"none"}]
  BY <1>1, <1>4 DEF SetHandler, object, worker
<1>5. ASSUME NEW o \in Objects, Start(o)
      PROVE  /\ UNCHANGED <<handler, cancelled, closed, again, callbackData>>
             /\ started' \in [Objects -> BOOLEAN]
  BY <1>1, <1>5 DEF Start, Starting
<1>6. ASSUME NEW o \in Objects, StartRefused(o)
      PROVE  /\ UNCHANGED <<started, handler, cancelled, closed, callbackData>>
             /\ again' \subseteq Transactions
  BY <1>1, <1>6 DEF StartRefused, OneShot, worker
<1>7. ASSUME NEW o \in Objects, Abort(o)
      PROVE  /\ UNCHANGED <<started, handler, closed, again, callbackData>>
             /\ cancelled' \in BOOLEAN
  <2> PICK p : p = \E d \in Range(running[o]) : InHand(d) /\ data[d].status = "RUNNING"
    OBVIOUS
  <2>1. cancelled' = (cancelled \/ p) /\ UNCHANGED <<started, handler, closed, again, callbackData>>
    BY <1>7 DEF Abort, object
  <2> QED BY <2>1
<1>8. CASE Disconnect \/ Shutdown
  <2>1. CASE Disconnect
    <3>1. UNCHANGED <<started, handler, closed, again, callbackData>> /\ cancelled' \in BOOLEAN
      BY <2>1 DEF Disconnect, object
    <3> QED BY <1>1, <3>1
  <2>2. CASE Shutdown
    <3>1. UNCHANGED <<started, handler, again, callbackData>> /\ closed' = TRUE
      BY <2>2 DEF Shutdown, object
    <3>2. cancelled' = cancelled \/ cancelled' \in BOOLEAN
      BY <2>2 DEF Shutdown
    <3> QED BY <1>1, <3>1, <3>2
  <2> QED BY <1>8, <2>1, <2>2
<1>9. ASSUME NEW status, Finish(status)
      PROVE  /\ UNCHANGED <<started, handler, closed, again, callbackData>>
             /\ cancelled' \in BOOLEAN
  BY <1>9 DEF Finish, object
<1> QED BY <1>1, <1>2, <1>3, <1>4, <1>5, <1>6, <1>7, <1>8, <1>9
        DEF Next, AddQuery, ClearQueries, Wait, ThinkHook, Await, Think, Report, Return, Clear,
            Release, Take, BeginChild, object, worker, vars

LEMMA TypePreserved ==
  ASSUME TypeOK, Placed, Families, Entries, RunningIsTrue, ChildrenAreRunning, Counted,
         [Next]_vars
  PROVE  TypeOK'
<1>1. /\ data' \in Seq(Datum) /\ Numbers \subseteq Numbers'
      /\ \A d \in Numbers' : Parts(d)' \in Seq(Kids')
      /\ staged' \in [Transactions -> Seq(Kids')]
  BY DataGrows, KidsTyped
<1>2. running' \in [Objects -> Seq(Numbers')]
  BY RunningPreserved
<1>3. refs' \in Nat
  BY CountedPreserved
<1>4. Holding
  BY PlacedPreserved
<1>5. callbackData' \in [Objects -> Numbers' \union {0}]
  <2>1. callbackData' \in [Objects -> Numbers \union {0}]
    BY FlagsTyped, CallbackDataTyped DEF TypeOK
  <2> QED BY <1>1, <2>1
<1>6. /\ todo' \in Seq(Frame)
      /\ \A i \in DOMAIN todo' : todo'[i].op \notin Bare => todo'[i].data \in Numbers'
      /\ \A i \in DOMAIN todo' : todo'[i].op = "clear" => data'[todo'[i].data].of \in Transactions
  <2>1. todo' \in Seq(Frames')
    BY <1>4 DEF Holding
  <2>2. \A i \in DOMAIN todo' : todo'[i] \in Frames'
    BY <2>1, ElementOfSeq, LenProperties
  <2>3. Frames' \subseteq Frame
    BY DEF Frames
  <2>4. todo' \in Seq(Frame)
    BY <2>1, <2>3, SeqWider
  <2>5. \A f \in Frames' :
          /\ f.op \notin Bare => f.data \in Numbers'
          /\ f.op = "clear" => data'[f.data].of \in Transactions
    BY DEF Frames, Of
  <2> QED BY <2>2, <2>4, <2>5
<1>7. /\ started' \in [Objects -> BOOLEAN]
      /\ handler' \in [Objects -> Functions \union {"none"}]
      /\ {cancelled', closed'} \subseteq BOOLEAN
      /\ again' \subseteq Transactions
  BY FlagsTyped
<1> QED BY <1>1, <1>2, <1>3, <1>4, <1>5, <1>6, <1>7 DEF TypeOK, Holding, Kids, Of

-----------------------------------------------------------------------------
(* Handlers that are looked for late. *)

\* A step writes whether a data is the first of its object only while it is staged,
\* and which handler it had only when it reports.
LEMMA Marks ==
  ASSUME TypeOK, Families, Unmoving, NEW e \in Numbers
  PROVE  /\ ~IsStaged(e) => data'[e].first = data[e].first
         /\ \/ data'[e].heard = data[e].heard
            \/ data'[e].heard = Handler(e)
<1>1. data[e] \in Datum
  BY OfTyped
<1>2. CASE UNCHANGED data
  BY <1>2
<1>3. ASSUME NEW o \in Objects, StartRefused(o)
      PROVE  /\ ~IsStaged(e) => data'[e].first = data[e].first
             /\ data'[e].heard = data[e].heard
  <2>1. data' = First(Children(o))
    BY <1>3 DEF StartRefused
  <2>2. IsStaged(e) \/ e \notin Range(Children(o))
    BY ChildrenTyped DEF Families
  <2> HIDE DEF IsStaged
  <2> QED BY <2>1, <2>2, FirstIs
<1>4. ASSUME NEW ds, data' = AbortedData(ds)
      PROVE  data'[e].first = data[e].first /\ data'[e].heard = data[e].heard
  <2>1. data'[e] =
          IF e \in Range(ds) THEN [data[e] EXCEPT !.status = "ABORTED", !.over = TRUE] ELSE data[e]
    BY <1>4 DEF AbortedData
  <2> QED BY <1>1, <2>1 DEF Datum
<1>5. CASE Report
  <2> PICK d : d = Head(todo).data
    OBVIOUS
  <2>1. data' = [data EXCEPT ![d].heard = Handler(d)]
    BY <1>5 DEF Report
  <2>2. data'[e] = IF e = d THEN [data[e] EXCEPT !.heard = Handler(d)] ELSE data[e]
    BY <2>1 DEF Numbers
  <2> HIDE DEF Handler
  <2> QED BY <1>1, <2>2 DEF Datum
<1>6. ASSUME NEW c, data' = [data EXCEPT ![c].status = "RUNNING"]
      PROVE  data'[e].first = data[e].first /\ data'[e].heard = data[e].heard
  <2>1. data'[e] = IF e = c THEN [data[e] EXCEPT !.status = "RUNNING"] ELSE data[e]
    BY <1>6 DEF Numbers
  <2> QED BY <1>1, <2>1 DEF Datum
<1>7. ASSUME NEW s \in {"COMPLETE", "ABORTED"}, Finish(s)
      PROVE  data'[e].first = data[e].first /\ data'[e].heard = data[e].heard
  <2>1. data'[e] = IF InHand(e) THEN [data[e] EXCEPT !.status = s, !.over = TRUE] ELSE data[e]
    BY <1>7 DEF Finish
  <2> QED BY <1>1, <2>1 DEF Datum
<1>8. CASE (\E o \in Objects : Abort(o)) \/ Disconnect \/ (Shutdown /\ ~closed)
  BY <1>4, <1>8 DEF Abort, Disconnect, Shutdown
<1>9. CASE Take \/ \E c \in Numbers : BeginChild(c)
  BY <1>6, <1>9 DEF Take, BeginChild
<1> QED BY <1>2, <1>3, <1>5, <1>7, <1>8, <1>9
        DEF Unmoving, SetHandler, Wait, ClearQueries, Shutdown, ThinkHook, Await, Think, Return,
            Clear, vars

LEMMA FirstPreserved ==
  ASSUME TypeOK, Placed, Families, OnlyTheFirst, LateHandlerOnce, [Next]_vars
  PROVE  OnlyTheFirst' /\ LateHandlerOnce'
<1> DEFINE Late(e) == data[e].heard = data[e].fn \/ data[e].heard = "none"
<1>1. ASSUME NEW d \in Numbers, NEW e \in Numbers,
             Of(d) = Of(e), d < e, ~IsStaged(d), ~IsStaged(e)
      PROVE  /\ ~data[e].first /\ Late(e)
             /\ Handler(e) = data[e].fn
  <2>1. ~data[e].first /\ Late(e)
    BY <1>1 DEF OnlyTheFirst, LateHandlerOnce, IsStaged
  <2> QED BY <2>1 DEF Handler
<1>2. ASSUME Numbers' = Numbers,
             \A e \in Numbers : /\ Keeps(e) /\ (IsStaged(e)' <=> IsStaged(e))
                                /\ ~IsStaged(e) => data'[e].first = data[e].first
                                /\ data'[e].heard = data[e].heard \/ data'[e].heard = Handler(e)
      PROVE  OnlyTheFirst' /\ LateHandlerOnce'
  <2>1. ASSUME NEW d \in Numbers, NEW e \in Numbers, Of(d)' = Of(e)', d < e,
               ~IsStaged(d)', ~IsStaged(e)'
        PROVE  ~data'[e].first /\ Late(e)'
    <3>1. Of(d) = Of(e) /\ ~IsStaged(d) /\ ~IsStaged(e) /\ data'[e].fn = data[e].fn
      BY <1>2, <2>1 DEF Keeps, Of
    <3>2. ~data[e].first /\ Late(e) /\ Handler(e) = data[e].fn
      BY <1>1, <2>1, <3>1
    <3> HIDE DEF Handler
    <3> QED BY <1>2, <3>1, <3>2
  <2> QED BY <1>2, <2>1 DEF OnlyTheFirst, LateHandlerOnce, IsStaged
<1>3. CASE Unmoving
  <2>1. /\ Numbers' = Numbers
        /\ \A e \in Numbers : Keeps(e) /\ (IsStaged(e)' <=> IsStaged(e))
    BY <1>3, UnmovedBy DEF Unmoved, KeepsPhase, IsStaged
  <2> QED BY <1>2, <1>3, <2>1, Marks
<1>4. CASE Release
  BY <1>2, <1>4, ReleasedData
<1>5. ASSUME NEW n, n = Len(data) + 1, Numbers' = Numbers \union {n},
             \A e \in Numbers : /\ Keeps(e) /\ (IsStaged(e)' <=> IsStaged(e))
                                /\ ~IsStaged(e) => data'[e].first = data[e].first
                                /\ data'[e].heard = data[e].heard,
             \/ IsStaged(n)'
             \/ /\ data'[n].heard = "none"
                /\ \A d \in Numbers : Of(d) = data'[n].of /\ ~IsStaged(d) => ~data'[n].first
      PROVE  OnlyTheFirst' /\ LateHandlerOnce'
  <2>1. /\ \A d \in Numbers : ~(n < d) /\ d # n
        /\ ~(n < n)
    BY <1>5, NumbersAre
  <2>2. ASSUME NEW d \in Numbers, NEW e \in Numbers, Of(d)' = Of(e)', d < e,
               ~IsStaged(d)', ~IsStaged(e)'
        PROVE  ~data'[e].first /\ Late(e)'
    <3>1. /\ Of(d) = Of(e) /\ ~IsStaged(d) /\ ~IsStaged(e) /\ data'[e].fn = data[e].fn
          /\ data'[e].heard = data[e].heard /\ data'[e].first = data[e].first
      BY <1>5, <2>2 DEF Keeps, Of
    <3>2. ~data[e].first /\ Late(e)
      BY <1>1, <2>2, <3>1
    <3> QED BY <3>1, <3>2
  <2>3. ASSUME NEW d \in Numbers, Of(d)' = Of(n)', ~IsStaged(d)', ~IsStaged(n)'
        PROVE  ~data'[n].first /\ Late(n)'
    <3>1. Of(d) = data'[n].of /\ ~IsStaged(d)
      BY <1>5, <2>3 DEF Keeps, Of
    <3> QED BY <1>5, <2>3, <3>1
  <2>4. ASSUME NEW d \in Numbers', NEW e \in Numbers', Of(d)' = Of(e)', d < e,
               ~IsStaged(d)', ~IsStaged(e)'
        PROVE  ~data'[e].first /\ Late(e)'
    BY <1>5, <2>1, <2>2, <2>3, <2>4
  <2> QED BY <2>4 DEF OnlyTheFirst, LateHandlerOnce, IsStaged
<1>6. ASSUME NEW t \in Transactions, NEW q \in Queries, AddQuery(t, q)
      PROVE  OnlyTheFirst' /\ LateHandlerOnce'
  <2> PICK n : n = Len(data) + 1
    OBVIOUS
  <2>1. /\ Numbers' = Numbers \union {n} /\ IsStaged(n)'
        /\ \A e \in Numbers : data'[e] = data[e]
    BY <1>6, FamiliesAdded DEF IsStaged
  <2>2. \A e \in Numbers : /\ Keeps(e) /\ (IsStaged(e)' <=> IsStaged(e))
                           /\ data'[e].first = data[e].first /\ data'[e].heard = data[e].heard
    BY <2>1 DEF Keeps, IsStaged
  <2> QED BY <1>5, <2>1, <2>2
<1>7. ASSUME NEW o \in Objects, Start(o)
      PROVE  OnlyTheFirst' /\ LateHandlerOnce'
  <2> PICK n : n = Len(data) + 1
    OBVIOUS
  <2>1. /\ Numbers' = Numbers \union {n}
        /\ \A e \in Numbers : /\ Keeps(e) /\ KeepsPhase(e) /\ data'[e].heard = data[e].heard
                              /\ e \notin Range(Children(o)) => data'[e].first = data[e].first
        /\ data'[n].of = o /\ data'[n].first = ~started[o] /\ data'[n].heard = "none"
    BY <1>7, StartedData
  <2>2. \A e \in Range(Children(o)) : IsStaged(e)
    BY ChildrenTyped DEF Families
  <2>3. \A e \in Numbers : IsStaged(e)' <=> IsStaged(e)
    BY <2>1 DEF KeepsPhase, IsStaged
  <2>4. \A d \in Numbers : Of(d) = o /\ ~IsStaged(d) => ~data'[n].first
    BY <2>1 DEF Families
  <2> QED BY <1>5, <2>1, <2>2, <2>3, <2>4
<1> QED BY <1>3, <1>4, <1>6, <1>7, Moves

-----------------------------------------------------------------------------
(* The theorems. *)

LEMMA InitHolds == Init => IInv
<1> SUFFICES ASSUME Init PROVE IInv
  OBVIOUS
<1>1. data = <<>> /\ Numbers = {}
  <2>1. DOMAIN <<>> = 1..Len(<<>>) /\ Len(<<>>) = 0
    BY EmptySeq, LenProperties
  <2> QED BY <2>1 DEF Init, Numbers
<1>2. \A S : <<>> \in Seq(S)
  BY EmptySeq
<1>3. \A o \in Objects : running[o] = <<>>
  BY DEF Init
<1>4. \A t \in Transactions : staged[t] = <<>>
  BY DEF Init
<1>5. DOMAIN <<>> = {} /\ Range(<<>>) = {}
  <2>1. DOMAIN <<>> = 1..Len(<<>>) /\ Len(<<>>) = 0
    BY EmptySeq, LenProperties
  <2> QED BY <2>1, RangeEmpty
<1>6. TypeOK
  <2>1. data \in Seq(Datum) /\ todo \in Seq(Frame) /\ queue \in Seq(Numbers)
        /\ finished \in Seq(Numbers)
    BY <1>2 DEF Init
  <2>2. running \in [Objects -> Seq(Numbers)]
    BY <1>2 DEF Init
  <2>3. staged \in [Transactions -> Seq({d \in Numbers : Of(d) \in Queries})]
    BY <1>2 DEF Init
  <2>4. /\ started \in [Objects -> BOOLEAN]
        /\ callbackData \in [Objects -> Numbers \union {0}]
        /\ handler \in [Objects -> Functions \union {"none"}]
        /\ refs \in Nat /\ active \in Numbers \union {0}
        /\ {cancelled, closed} \subseteq BOOLEAN /\ again \subseteq Transactions
    BY DEF Init
  <2>5. DOMAIN todo = {}
    BY <1>5 DEF Init
  <2> QED BY <1>1, <2>1, <2>2, <2>3, <2>4, <2>5 DEF TypeOK
<1>7. Placed /\ OnlyTheFirst /\ LateHandlerOnce /\ ChildrenAreRunning
  BY <1>1 DEF Placed, OnlyTheFirst, LateHandlerOnce, ChildrenAreRunning
<1>8. Families
  BY <1>1, <1>4, <1>5 DEF Families
<1>9. Entries /\ RunningIsTrue
  BY <1>1, <1>3, <1>5 DEF Entries, RunningIsTrue
<1>10. Counted
  <2>1. StagedNow = {} /\ Accepted = {} /\ WithHandler = {}
    BY <1>1 DEF StagedNow, Accepted, WithHandler
  <2>2. refs = 0
    BY DEF Init
  <2> QED BY <1>6, <2>1, <2>2, CountedSets, FS_EmptySet
<1> QED BY <1>6, <1>7, <1>8, <1>9, <1>10 DEF IInv

LEMMA Inductive == IInv /\ [Next]_vars => IInv'
<1> SUFFICES ASSUME IInv, [Next]_vars PROVE IInv'
  OBVIOUS
<1>1. /\ TypeOK /\ Placed /\ Families /\ Entries /\ RunningIsTrue /\ ChildrenAreRunning
      /\ Counted /\ OnlyTheFirst /\ LateHandlerOnce
  BY DEF IInv
<1>2. TypeOK'
  BY <1>1, TypePreserved
<1>3. Families'
  BY <1>1, FamiliesPreserved
<1>4. Placed'
  BY <1>1, PlacedPreserved
<1>5. Entries' /\ RunningIsTrue' /\ ChildrenAreRunning'
  BY <1>1, RunningPreserved
<1>6. Counted'
  BY <1>1, CountedPreserved
<1>7. OnlyTheFirst' /\ LateHandlerOnce'
  BY <1>1, FirstPreserved
<1> QED BY <1>2, <1>3, <1>4, <1>5, <1>6, <1>7 DEF IInv

\* The bookkeeping of query objects agrees with where their executions are, after
\* any calls of the API, any steps of the worker and any nesting of callbacks.
THEOREM Invariance == Spec => []IInv
BY InitHolds, Inductive, PTL DEF Spec

\* Every variable keeps its type: what the running data, the queue and the stack
\* name is there, and only a transaction is cleared.
THEOREM TypeCorrect == Spec => []TypeOK
<1>1. IInv => TypeOK
  BY DEF IInv
<1> QED BY <1>1, Invariance, PTL

\* The running data of an object is what abort(), wait() and isRunning() have to
\* go by, in whatever order its executions end.
THEOREM RunningStaysTrue == Spec => []RunningIsTrue
<1>1. IInv => RunningIsTrue
  BY DEF IInv
<1> QED BY <1>1, Invariance, PTL

\* The children of a transaction under way are in the running data of their
\* objects, unless a second start() of it was refused.
THEOREM ChildrenStayRunning == Spec => []ChildrenAreRunning
<1>1. IInv => ChildrenAreRunning
  BY DEF IInv
<1> QED BY <1>1, Invariance, PTL

\* When nothing is under way, the only references left are those of staged queries.
THEOREM NoReferenceLeaks == Spec => []NothingLeaks
<1>1. IInv => NothingLeaks
  <2> SUFFICES ASSUME TypeOK, Counted, \A d \in Numbers : ~UnderWay(d)
               PROVE  refs = Cardinality(StagedNow)
    BY DEF IInv, NothingLeaks
  <2>1. Accepted = {} /\ WithHandler = {}
    BY DEF Accepted, WithHandler, HasHandler
  <2> QED BY <2>1, CountedSets, FS_EmptySet
<1> QED BY <1>1, Invariance, PTL

\* A handler that is set after start() serves the first execution only.
THEOREM LateHandlersServeOnce == Spec => []LateHandlerOnce
<1>1. IInv => LateHandlerOnce
  BY DEF IInv
<1> QED BY <1>1, Invariance, PTL

=============================================================================
