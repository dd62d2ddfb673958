----------------------------- MODULE ValueProofs ----------------------------
(***************************************************************************)
(* What is read of a stream and what is written to it, for values of every *)
(* content: a constructor makes again what it has made, what Encode wrote  *)
(* Decode reads back, what Decode returns can be stored, and values that are *)
(* encoded alike are the same.                                             *)
(*                                                                         *)
(* The library states induction with an operator for the formula, which the *)
(* provers cannot instantiate.  Here it is on the least element of a set of *)
(* counterexamples, and a recursive function is known by its equation, of  *)
(* which it is proved to be the solution.                                  *)
(***************************************************************************)
EXTENDS Values, SequenceTheorems, WellFoundedInduction, TLAPS

-----------------------------------------------------------------------------
(* Induction, on a set of counterexamples.                                 *)

\* A set of natural numbers that is not empty has a least element.
LEMMA LeastNatural ==
    ASSUME NEW S, S \subseteq Nat, S # {}
    PROVE  \E m \in S : \A n \in S : m <= n
<1>1. PICK x \in S : \A y \in S : ~(<<y, x>> \in OpToRel(<, Nat))
  BY NatLessThanWellFounded, WFMin
<1>2. ASSUME NEW y \in S PROVE x <= y
  <2>1. ~(y < x)
    BY <1>1 DEF OpToRel
  <2> QED
    BY <2>1
<1> QED
  BY <1>2

\* A set that has zero, and a number up to N if it has the one before.
Inductive(S, N) == 0 \in S /\ \A n \in 1..N : n - 1 \in S => n \in S

\* Such a set has every number up to N.
LEMMA UpTo ==
    ASSUME NEW N \in Nat, NEW S, Inductive(S, N)
    PROVE  N \in S /\ \A n \in 0..N : n \in S
<1> DEFINE bad == {n \in 0..N : n \notin S}
<1>1. CASE bad = {}
  BY <1>1
<1>2. CASE bad # {}
  <2>1. PICK m \in bad : \A n \in bad : m <= n
    <3>1. bad \subseteq Nat
      OBVIOUS
    <3> HIDE DEF bad
    <3> QED
      BY <1>2, <3>1, LeastNatural
  <2>2. m \in 1..N
    BY <2>1 DEF Inductive
  <2>3. m - 1 \in 0..N /\ m - 1 \notin bad
    BY <2>1, <2>2
  <2> QED
    BY <2>1, <2>2, <2>3 DEF Inductive
<1> QED
  BY <1>1, <1>2

-----------------------------------------------------------------------------
(* Readings, and readers called one after the other.                       *)

\* A successful reading determines its value and what is left.
LEMMA GotIsOne ==
    ASSUME NEW v, NEW l, NEW w, NEW m, Got(v, l) = Got(w, m)
    PROVE  v = w /\ l = m
<1>1. Got(v, l).value = Got(w, m).value /\ Got(v, l).rest = Got(w, m).rest
  OBVIOUS
<1>2. Got(v, l).value = v /\ Got(v, l).rest = l /\ Got(w, m).value = w /\ Got(w, m).rest = m
  BY DEF Got
<1> QED
  BY <1>1, <1>2

\* One reader more.
LEMMA OneMore ==
    ASSUME NEW s, NEW left, NEW reader
    PROVE  /\ AndThen(Fail, reader) = Fail
           /\ reader[left] = Fail => AndThen(Got(s, left), reader) = Fail
           /\ \A v, l : reader[left] = Got(v, l) =>
                  AndThen(Got(s, left), reader) = Got(Append(s, v), l)
<1>1. Fail.ok = FALSE
  BY DEF Fail
<1>2. AndThen(Fail, reader) = Fail
  BY <1>1 DEF AndThen, Then
<1>3. AndThen(Got(s, left), reader) =
         Then(reader[left], LAMBDA v, l : Got(Append(s, v), l))
  BY Zenon DEF AndThen, Then, Got
<1>4. ASSUME reader[left] = Fail PROVE AndThen(Got(s, left), reader) = Fail
  BY <1>1, <1>3, <1>4 DEF Then
<1>5. ASSUME NEW v, NEW l, reader[left] = Got(v, l)
      PROVE  AndThen(Got(s, left), reader) = Got(Append(s, v), l)
  <2>1. Then(Got(v, l), LAMBDA x, y : Got(Append(s, x), y)) = Got(Append(s, v), l)
    BY DEF Then, Got
  <2> QED
    BY <1>3, <1>5, <2>1
<1> QED
  BY <1>2, <1>4, <1>5

\* The readings before, between and after the readers.
Reads(h, in, readers) ==
    /\ h[0] = Got(<<>>, in)
    /\ \A n \in 1..Len(readers) : h[n] = AndThen(h[n - 1], readers[n])

\* ReadAll is the last of the readings it goes through: its recursion, solved once.
LEMMA ReadAllSolved ==
    ASSUME NEW in, NEW readers, Len(readers) \in Nat
    PROVE  \E h : Reads(h, in, readers) /\ ReadAll(in, readers) = h[Len(readers)]
<1> DEFINE N == Len(readers)
           Nth(h, n) == IF n = 0 THEN Got(<<>>, in) ELSE AndThen(h[n - 1], readers[n])
           Solves(h) == h = [n \in 0..N |-> Nth(h, n)]
           S == {m \in 0..N : \E h : h = [n \in 0..m |-> Nth(h, n)]}
<1>1. 0 \in S
  <2> DEFINE h == [n \in 0..0 |-> Got(<<>>, in)]
  <2>1. h = [n \in 0..0 |-> Nth(h, n)]
    OBVIOUS
  <2>2. \E k : k = [n \in 0..0 |-> Nth(k, n)]
    <3> HIDE DEF h, Nth
    <3> QED
      BY <2>1
  <2> QED
    BY <2>2
<1>2. ASSUME NEW m \in 1..N, m - 1 \in S PROVE m \in S
  <2>1. PICK g : g = [n \in 0..(m - 1) |-> Nth(g, n)]
    BY <1>2
  <2> DEFINE h == [n \in 0..m |-> IF n = m THEN AndThen(g[m - 1], readers[m]) ELSE g[n]]
  <2>2. ASSUME NEW n \in 0..m PROVE h[n] = Nth(h, n)
    <3>1. CASE n = m
      <4>1. h[m - 1] = g[m - 1] /\ h[m] = AndThen(g[m - 1], readers[m])
        OBVIOUS
      <4> HIDE DEF h
      <4> QED
        BY <3>1, <4>1
    <3>2. CASE n = 0
      <4>1. h[0] = g[0] /\ g[0] = Nth(g, 0)
        BY <2>1
      <4> QED
        BY <3>2, <4>1
    <3>3. CASE n \in 1..(m - 1)
      <4>1. h[n] = g[n] /\ h[n - 1] = g[n - 1] /\ g[n] = Nth(g, n)
        BY <2>1, <3>3
      <4> HIDE DEF h
      <4> QED
        BY <3>3, <4>1
    <3> QED
      BY <3>1, <3>2, <3>3
  <2>3. h = [n \in 0..m |-> Nth(h, n)]
    <3>1. h = [n \in 0..m |-> h[n]]
      OBVIOUS
    <3> HIDE DEF h, Nth
    <3> QED
      BY <2>2, <3>1
  <2>4. \E k : k = [n \in 0..m |-> Nth(k, n)]
    <3> HIDE DEF h, Nth
    <3> QED
      BY <2>3
  <2>5. m \in 0..N
    BY <1>2
  <2> HIDE DEF Nth
  <2> QED
    BY <2>4, <2>5
<1>3. N \in S
  <2>1. N \in Nat
    OBVIOUS
  <2> HIDE DEF S, N
  <2>2. Inductive(S, N)
    BY <1>1, <1>2 DEF Inductive
  <2> QED
    BY <2>1, <2>2, UpTo
<1>4. \E h : Solves(h)
  BY <1>3
<1> DEFINE c == CHOOSE h : Solves(h)
<1>5. Solves(c)
  BY <1>4, Zenon
<1>6. ReadAll(in, readers) = c[N]
  BY Zenon DEF ReadAll
<1>7. c[0] = Got(<<>>, in) /\ \A n \in 1..N : c[n] = AndThen(c[n - 1], readers[n])
  <2> HIDE DEF c
  <2> QED
    BY <1>5
<1>8. Reads(c, in, readers)
  <2> HIDE DEF c
  <2> QED
    BY <1>7 DEF Reads
<1> QED
  <2> HIDE DEF c
  <2> QED
    BY <1>6, <1>8

\* Each reader takes one value off.
TakesOff(readers, values, rest) ==
    /\ Len(readers) = Len(values)
    /\ \A n \in 1..Len(values) : readers[n][rest[n - 1]] = Got(values[n], rest[n])

\* Then together they take all.
LEMMA ReadAllReads ==
    ASSUME NEW V, NEW values \in Seq(V), NEW readers, NEW rest, TakesOff(readers, values, rest)
    PROVE  ReadAll(rest[0], readers) = Got(values, rest[Len(values)])
<1> DEFINE N == Len(values)
<1>0. N \in Nat /\ Len(readers) = N
  BY DEF TakesOff
<1>1. PICK h : Reads(h, rest[0], readers) /\ ReadAll(rest[0], readers) = h[Len(readers)]
  BY <1>0, ReadAllSolved
<1> DEFINE S == {n \in 0..N : h[n] = Got(SubSeq(values, 1, n), rest[n])}
<1>2. 0 \in S
  <2>1. SubSeq(values, 1, 0) = <<>>
    OBVIOUS
  <2>2. h[0] = Got(SubSeq(values, 1, 0), rest[0])
    BY <1>1, <2>1 DEF Reads
  <2> HIDE DEF N
  <2> QED
    BY <1>0, <2>2
<1>3. ASSUME NEW n \in 1..N, n - 1 \in S PROVE n \in S
  <2>1. h[n - 1] = Got(SubSeq(values, 1, n - 1), rest[n - 1])
    BY <1>3
  <2>2. readers[n][rest[n - 1]] = Got(values[n], rest[n])
    BY DEF TakesOff
  <2>3. h[n] = Got(Append(SubSeq(values, 1, n - 1), values[n]), rest[n])
    <3>1. h[n] = AndThen(h[n - 1], readers[n])
      BY <1>0, <1>1 DEF Reads
    <3> QED
      BY <2>1, <2>2, <3>1, OneMore
  <2>4. Append(SubSeq(values, 1, n - 1), values[n]) = SubSeq(values, 1, n)
    <3>1. n \in 1..Len(values)
      OBVIOUS
    <3>2. SubSeq(values, 1, n) = SubSeq(values, 1, n - 1) \o <<values[n]>>
      BY <3>1, SubSeqRecursiveSecond
    <3>3. SubSeq(values, 1, n - 1) \in Seq(V) /\ values[n] \in V
      BY <3>1, SubSeqProperties
    <3> HIDE DEF N
    <3> QED
      BY <3>2, <3>3, AppendIsConcat
  <2> DEFINE now == h[n]
  <2>5. now = Got(SubSeq(values, 1, n), rest[n])
    BY <2>3, <2>4
  <2>6. n \in 0..N
    OBVIOUS
  <2> QED
    BY <2>5, <2>6
<1>4. h[N] = Got(SubSeq(values, 1, N), rest[N])
  <2> HIDE DEF S, N
  <2>1. Inductive(S, N)
    BY <1>2, <1>3 DEF Inductive
  <2>2. N \in S
    BY <1>0, <2>1, UpTo
  <2> QED
    BY <2>2 DEF S
<1> QED
  BY <1>0, <1>1, <1>4, SubSeqFull

\* What readers may return.
ReadingOf(X) == {Fail} \cup {Got(value, left) : value \in X, left \in Stream}

\* A reading fails, or has a value and leaves a stream.
LEMMA Readings ==
    ASSUME NEW X, NEW r \in ReadingOf(X)
    PROVE  r = Fail \/ \E value \in X, left \in Stream : r = Got(value, left)
BY DEF ReadingOf

\* Failures and values with what is left are readings.
LEMMA IsReading ==
    ASSUME NEW X
    PROVE  /\ Fail \in ReadingOf(X)
           /\ \A value \in X, left \in Stream : Got(value, left) \in ReadingOf(X)
BY DEF ReadingOf

\* A reader that reads members of X.
ReaderOf(reader, X) == \A in \in Stream : reader[in] \in ReadingOf(X)

\* The sequences whose members are of these sets.
Each(sets, X) == {s \in Seq(X) : Len(s) = Len(sets) /\ \A n \in 1..Len(sets) : s[n] \in sets[n]}

\* Readers of the given sets, one each.
ReadersOf(readers, sets, X) ==
    /\ Len(sets) \in Nat /\ Len(readers) = Len(sets)
    /\ \A n \in 1..Len(sets) : sets[n] \subseteq X /\ ReaderOf(readers[n], sets[n])

\* What readers return together, if each returns a member of its set.
LEMMA ReadAllTyped ==
    ASSUME NEW in \in Stream, NEW readers, NEW sets, NEW X, ReadersOf(readers, sets, X)
    PROVE  ReadAll(in, readers) \in ReadingOf(Each(sets, X))
<1> DEFINE N == Len(sets)
           Upto(m) == {s \in Seq(X) : Len(s) = m /\ \A n \in 1..m : s[n] \in sets[n]}
<1>0. N \in Nat /\ Len(readers) = N
  BY DEF ReadersOf
<1>1. PICK h : Reads(h, in, readers) /\ ReadAll(in, readers) = h[Len(readers)]
  BY <1>0, ReadAllSolved
<1> DEFINE S == {n \in 0..N : h[n] \in ReadingOf(Upto(n))}
<1>2. 0 \in S
  <2>1. <<>> \in Upto(0)
    OBVIOUS
  <2>2. h[0] = Got(<<>>, in)
    BY <1>1 DEF Reads
  <2> HIDE DEF Upto, N
  <2> QED
    BY <1>0, <2>1, <2>2, IsReading
<1>3. ASSUME NEW n \in 1..N, n - 1 \in S PROVE n \in S
  <2>1. h[n - 1] \in ReadingOf(Upto(n - 1)) /\ h[n] = AndThen(h[n - 1], readers[n])
    BY <1>0, <1>1, <1>3 DEF Reads
  <2>2. ReaderOf(readers[n], sets[n]) /\ sets[n] \subseteq X
    BY DEF ReadersOf
  <2>3. CASE h[n - 1] = Fail
    <3>1. h[n] = Fail
      BY <2>1, <2>3, OneMore
    <3>2. h[n] \in ReadingOf(Upto(n))
      BY <3>1, IsReading
    <3> QED
      BY <3>2
  <2>4. ASSUME NEW s \in Upto(n - 1), NEW left \in Stream, h[n - 1] = Got(s, left)
        PROVE  h[n] \in ReadingOf(Upto(n))
    <3>1. readers[n][left] \in ReadingOf(sets[n])
      BY <2>2 DEF ReaderOf
    <3>2. CASE readers[n][left] = Fail
      <4>1. h[n] = Fail
        BY <2>1, <2>4, <3>2, OneMore
      <4> QED
        BY <4>1, IsReading
    <3>3. ASSUME NEW v \in sets[n], NEW l \in Stream, readers[n][left] = Got(v, l)
          PROVE  h[n] \in ReadingOf(Upto(n))
      <4>1. h[n] = Got(Append(s, v), l)
        BY <2>1, <2>4, <3>3, OneMore
      <4>2. Append(s, v) \in Upto(n)
        <5>1. /\ s \in Seq(X) /\ Len(s) = n - 1 /\ v \in X
              /\ \A i \in 1..(n - 1) : s[i] \in sets[i]
          BY <2>2
        <5>2. /\ Append(s, v) \in Seq(X) /\ Len(Append(s, v)) = n
              /\ \A i \in 1..(n - 1) : Append(s, v)[i] = s[i]
              /\ Append(s, v)[n] = v
          BY <5>1, AppendProperties
        <5> DEFINE t == Append(s, v)
        <5>3. ASSUME NEW i \in 1..n PROVE t[i] \in sets[i]
          <6> HIDE DEF t
          <6>1. i \in 1..(n - 1) \/ i = n
            OBVIOUS
          <6> QED
            BY <5>1, <5>2, <6>1 DEF t
        <5> QED
          BY <5>2, <5>3
      <4> HIDE DEF Upto
      <4> QED
        BY <4>1, <4>2, IsReading
    <3> HIDE DEF Upto
    <3> QED
      BY <3>1, <3>2, <3>3, Readings
  <2>5. h[n] \in ReadingOf(Upto(n)) /\ n \in 0..N
    <3>1. n \in 0..N
      OBVIOUS
    <3> HIDE DEF Upto, S
    <3> QED
      BY <2>1, <2>3, <2>4, <3>1, Readings, OneMore, IsReading
  <2> QED
    BY <2>5
<1>4. h[N] \in ReadingOf(Upto(N))
  <2> HIDE DEF S, N
  <2>1. Inductive(S, N)
    BY <1>2, <1>3 DEF Inductive
  <2>2. N \in S
    BY <1>0, <2>1, UpTo
  <2> QED
    BY <2>2 DEF S
<1>5. Upto(N) = Each(sets, X)
  BY DEF Each
<1> QED
  <2> HIDE DEF Upto
  <2> QED
    BY <1>0, <1>1, <1>4, <1>5

-----------------------------------------------------------------------------
(* Sorted sequences.                                                       *)

\* The two laws of a strict order, of a relation R on S.
IsTransitive(R, S) ==
    \A a, b, c \in S : <<a, b>> \in R /\ <<b, c>> \in R => <<a, c>> \in R

\* The second of them.
IsIrreflexive(R, S) == \A a \in S : <<a, a>> \notin R

\* A sequence each item of which follows the one before it in R.
Rising(s, R) == \A i \in 2..Len(s) : <<s[i - 1], s[i]>> \in R

\* Neighbours in order are everyone in order.
LEMMA RisingThroughout ==
    ASSUME NEW S, NEW R, IsTransitive(R, S), NEW s \in Seq(S), Rising(s, R)
    PROVE  \A i, j \in 1..Len(s) : i < j => <<s[i], s[j]>> \in R
<1> DEFINE N == Len(s)
           T == {m \in 0..N : \A i \in 1..m : i < m => <<s[i], s[m]>> \in R}
<1>0. N \in Nat /\ \A i \in 1..N : s[i] \in S
  OBVIOUS
<1>1. 0 \in T
  BY <1>0
<1>2. ASSUME NEW m \in 1..N, m - 1 \in T PROVE m \in T
  <2>1. ASSUME NEW i \in 1..m, i < m PROVE <<s[i], s[m]>> \in R
    <3>1. <<s[m - 1], s[m]>> \in R
      BY <1>0, <2>1 DEF Rising
    <3>2. CASE i = m - 1
      BY <3>1, <3>2
    <3>3. CASE i < m - 1
      <4>1. <<s[i], s[m - 1]>> \in R
        BY <1>0, <1>2, <2>1, <3>3
      <4>2. s[i] \in S /\ s[m - 1] \in S /\ s[m] \in S
        BY <1>0, <2>1
      <4> QED
        BY <3>1, <4>1, <4>2 DEF IsTransitive
    <3> QED
      BY <1>0, <2>1, <3>2, <3>3
  <2> QED
    BY <1>0, <2>1
<1>3. \A m \in 0..N : m \in T
  <2> HIDE DEF T, N
  <2>1. Inductive(T, N)
    BY <1>1, <1>2 DEF Inductive
  <2> QED
    BY <1>0, <2>1, UpTo
<1>4. ASSUME NEW i \in 1..N, NEW j \in 1..N, i < j PROVE <<s[i], s[j]>> \in R
  <2>1. j \in T
    BY <1>0, <1>3
  <2>2. i \in 1..j
    BY <1>0, <1>4
  <2> QED
    BY <1>4, <2>1, <2>2
<1> QED
  BY <1>4

\* A function that preserves the order of the numbers up to N is the identity.
LEMMA RisingIsIdentity ==
    ASSUME NEW N \in Nat, NEW p \in [1..N -> 1..N],
           \A i, j \in 1..N : i < j => p[i] < p[j]
    PROVE  \A i \in 1..N : p[i] = i
<1> DEFINE T == {m \in 0..N : \A i \in 1..N : i = m => p[i] >= i}
           U == {m \in 0..N : \A i \in 1..N : i = N + 1 - m => p[i] <= i}
<1>0. \A i \in 1..N : p[i] \in 1..N
  OBVIOUS
<1>1. 0 \in T /\ 0 \in U
  OBVIOUS
<1>2. ASSUME NEW m \in 1..N, m - 1 \in T PROVE m \in T
  <2>1. p[m] >= m
    <3>1. CASE m = 1
      BY <1>0, <3>1
    <3>2. CASE m > 1
      <4>1. p[m - 1] >= m - 1 /\ p[m - 1] < p[m]
        BY <1>2, <3>2
      <4>2. p[m - 1] \in Nat /\ p[m] \in Nat
        BY <1>0, <3>2
      <4> QED
        BY <4>1, <4>2
    <3> QED
      BY <3>1, <3>2
  <2> QED
    BY <2>1
<1>3. ASSUME NEW m \in 1..N, m - 1 \in U PROVE m \in U
  <2> DEFINE i == N + 1 - m
  <2>1. i \in 1..N
    OBVIOUS
  <2>2. p[i] <= i
    <3>1. CASE m = 1
      BY <1>0, <3>1
    <3>2. CASE m > 1
      <4>0. i + 1 \in 1..N /\ i + 1 = N + 1 - (m - 1)
        BY <3>2
      <4>1. p[i + 1] <= i + 1 /\ p[i] < p[i + 1]
        BY <1>3, <2>1, <4>0
      <4>2. p[i] \in Nat /\ p[i + 1] \in Nat
        BY <1>0, <2>1, <4>0
      <4> HIDE DEF i
      <4> QED
        BY <2>1, <4>1, <4>2
    <3> QED
      BY <3>1, <3>2
  <2> QED
    BY <2>2
<1>4. (\A m \in 0..N : m \in T) /\ (\A m \in 0..N : m \in U)
  <2> HIDE DEF T, U
  <2>1. Inductive(T, N) /\ Inductive(U, N)
    BY <1>1, <1>2, <1>3 DEF Inductive
  <2> QED
    BY <2>1, UpTo
<1>5. ASSUME NEW i \in 1..N PROVE p[i] = i
  <2>1. i \in T
    BY <1>4
  <2>2. N + 1 - i \in 0..N /\ N + 1 - (N + 1 - i) = i
    OBVIOUS
  <2>3. N + 1 - i \in U
    BY <1>4, <2>2
  <2>4. p[i] >= i
    BY <2>1
  <2>5. p[i] <= i
    BY <2>2, <2>3
  <2> QED
    BY <1>0, <2>4, <2>5
<1> QED
  BY <1>5

\* There is one way to sort: what is sorted already stays as it is.
LEMMA SortedOnce ==
    ASSUME NEW S, NEW R, IsTransitive(R, S), IsIrreflexive(R, S),
           NEW s \in Seq(S), Rising(s, R),
           NEW order \in Arrangements(s), Rising(order, R)
    PROVE  order = s
<1> DEFINE N == Len(s)
<1>0. N \in Nat /\ DOMAIN s = 1..N /\ \A i \in 1..N : s[i] \in S
  OBVIOUS
<1>1. PICK p \in Bijection(1..N, 1..N) : order = [i \in 1..N |-> s[p[i]]]
  BY <1>0 DEF Arrangements
<1>2. p \in [1..N -> 1..N]
  BY <1>1 DEF Bijection, Injection
<1>3. /\ order \in Seq(S) /\ Len(order) = N
      /\ \A i \in 1..N : order[i] = s[p[i]] /\ p[i] \in 1..N
  <2>1. \A i \in 1..N : p[i] \in 1..N
    BY <1>2
  <2>2. \A i \in 1..N : s[p[i]] \in S
    BY <1>0, <2>1
  <2> DEFINE f == [i \in 1..N |-> s[p[i]]]
  <2>3. f \in Seq(S) /\ Len(f) = N
    <3> HIDE DEF N
    <3> QED
      BY <1>0, <2>2
  <2>4. \A i \in 1..N : f[i] = s[p[i]]
    OBVIOUS
  <2> HIDE DEF f
  <2> QED
    BY <1>1, <2>1, <2>3, <2>4 DEF f
<1>4. ASSUME NEW i \in 1..N, NEW j \in 1..N, i < j PROVE p[i] < p[j]
  <2>1. <<s[p[i]], s[p[j]]>> \in R
    BY <1>3, <1>4, RisingThroughout
  <2>2. CASE p[i] = p[j]
    BY <1>0, <1>3, <2>1, <2>2 DEF IsIrreflexive
  <2>3. CASE p[j] < p[i]
    <3>1. <<s[p[j]], s[p[i]]>> \in R
      BY <1>3, <2>3, RisingThroughout
    <3>2. s[p[i]] \in S /\ s[p[j]] \in S
      BY <1>0, <1>3
    <3>3. <<s[p[i]], s[p[i]]>> \in R
      BY <2>1, <3>1, <3>2 DEF IsTransitive
    <3> QED
      BY <3>2, <3>3 DEF IsIrreflexive
  <2> QED
    BY <1>3, <2>2, <2>3
<1>5. \A i \in 1..N : p[i] = i
  <2> HIDE DEF N
  <2> QED
    BY <1>0, <1>2, <1>4, RisingIsIdentity
<1>6. \A i \in 1..Len(s) : order[i] = s[i]
  BY <1>3, <1>5
<1> QED
  BY <1>3, <1>6, SeqEqual

\* The order of the members of a value, as a relation.
OrderOf(kind, S) == {pair \in S \X S : MemberLess(kind, pair[1], pair[2])}

\* StrictlySorted says that each member follows the one before it in the order of the kind.
LEMMA SortedIsRising ==
    ASSUME NEW v, NEW S, v.members \in Seq(S)
    PROVE  StrictlySorted(v) <=> Rising(v.members, OrderOf(v.kind, S))
<1> DEFINE s == v.members
<1>1. \A i \in 2..Len(s) : s[i - 1] \in S /\ s[i] \in S
  <2>1. s \in Seq(S)
    OBVIOUS
  <2> HIDE DEF s
  <2> QED
    BY <2>1
<1>2. \A a, b \in S : <<a, b>> \in OrderOf(v.kind, S) <=> MemberLess(v.kind, a, b)
  BY DEF OrderOf
<1> HIDE DEF s
<1> QED
  BY <1>1, <1>2 DEF StrictlySorted, Rising, s

\* The members of a kind are in a strict order.
IsOrder(kind, S) == IsTransitive(OrderOf(kind, S), S) /\ IsIrreflexive(OrderOf(kind, S), S)

\* The sequences in another order have the same members.
LEMMA Rearranged ==
    ASSUME NEW S, NEW s \in Seq(S), NEW order \in Arrangements(s)
    PROVE  /\ order \in Seq(S) /\ Len(order) = Len(s)
           /\ \A i \in 1..Len(s) : \E j \in 1..Len(s) : order[i] = s[j]
<1> DEFINE N == Len(s)
<1>0. N \in Nat /\ DOMAIN s = 1..N /\ \A i \in 1..N : s[i] \in S
  OBVIOUS
<1>1. PICK p \in Bijection(1..N, 1..N) : order = [i \in 1..N |-> s[p[i]]]
  BY <1>0 DEF Arrangements
<1>2. \A i \in 1..N : p[i] \in 1..N
  BY <1>1 DEF Bijection, Injection
<1>3. \A i \in 1..N : s[p[i]] \in S
  BY <1>0, <1>2
<1> DEFINE f == [i \in 1..N |-> s[p[i]]]
<1>4. f \in Seq(S) /\ Len(f) = N
  <2> HIDE DEF N
  <2> QED
    BY <1>0, <1>3
<1>5. \A i \in 1..N : f[i] = s[p[i]]
  OBVIOUS
<1> HIDE DEF f
<1> QED
  BY <1>1, <1>2, <1>4, <1>5 DEF f

\* A sequence is an arrangement of itself.
LEMMA ArrangedAlready ==
    ASSUME NEW S, NEW s \in Seq(S)
    PROVE  s \in Arrangements(s)
<1> DEFINE N == Len(s)
           p == [i \in 1..N |-> i]
<1>0. DOMAIN s = 1..N
  OBVIOUS
<1>1. p \in Bijection(1..N, 1..N)
  BY DEF Bijection, Injection, Surjection, IsInjective
<1>2. s = [i \in 1..N |-> s[p[i]]]
  OBVIOUS
<1> HIDE DEF p, N
<1> QED
  BY <1>0, <1>1, <1>2 DEF Arrangements

\* What Arranged returns: the members in another order, and sorted.
LEMMA ArrangedMade ==
    ASSUME NEW v, NEW S, v.members \in Seq(S), Arranged(v).ok
    PROVE  \E order \in Arrangements(v.members) :
              /\ Arranged(v) = Made(TRUE, [v EXCEPT !.members = order])
              /\ StrictlySorted([v EXCEPT !.members = order])
<1> DEFINE sorted == {w \in {[v EXCEPT !.members = order] : order \in Arrangements(v.members)} :
                         StrictlySorted(w)}
           chosen == CHOOSE w \in sorted : TRUE
<1>1. Arranged(v) = IF sorted = {} THEN Fail ELSE Made(TRUE, chosen)
  BY Zenon DEF Arranged
<1>2. Fail.ok = FALSE
  BY DEF Fail
<1>3. sorted # {}
  BY <1>1, <1>2
<1>4. chosen \in sorted
  BY <1>3
<1>5. PICK order \in Arrangements(v.members) :
         chosen = [v EXCEPT !.members = order] /\ StrictlySorted(chosen)
  <2> HIDE DEF chosen
  <2> QED
    BY <1>4
<1> HIDE DEF chosen, sorted
<1> QED
  BY <1>1, <1>3, <1>5

\* What is sorted is returned as it is.
LEMMA ArrangedStays ==
    ASSUME NEW v, NEW S, v.members \in Seq(S), IsOrder(v.kind, S), StrictlySorted(v),
           v = [v EXCEPT !.members = v.members],
           \A order : [v EXCEPT !.members = order].members = order
                     /\ [v EXCEPT !.members = order].kind = v.kind
    PROVE  Arranged(v) = Made(TRUE, v)
<1> DEFINE With(order) == [v EXCEPT !.members = order]
           sorted == {w \in {With(order) : order \in Arrangements(v.members)} :
                         StrictlySorted(w)}
           chosen == CHOOSE w \in sorted : TRUE
<1>1. Arranged(v) = IF sorted = {} THEN Fail ELSE Made(TRUE, chosen)
  BY Zenon DEF Arranged
<1>2. v \in sorted
  BY ArrangedAlready
<1>3. chosen \in sorted
  BY <1>2
<1>4. PICK order \in Arrangements(v.members) : chosen = With(order) /\ StrictlySorted(chosen)
  <2> HIDE DEF chosen, With
  <2> QED
    BY <1>3
<1>5. Rising(v.members, OrderOf(v.kind, S))
  BY SortedIsRising
<1>6. With(order).members = order /\ With(order).kind = v.kind
  OBVIOUS
<1> HIDE DEF With, chosen, sorted
<1>7. Rising(order, OrderOf(v.kind, S))
  <2>1. order \in Seq(S)
    BY Rearranged
  <2>2. With(order).members \in Seq(S) /\ StrictlySorted(With(order))
    BY <1>4, <1>6, <2>1
  <2> QED
    BY <1>6, <2>2, SortedIsRising
<1>8. order = v.members
  BY <1>5, <1>7, SortedOnce DEF IsOrder
<1> QED
  BY <1>1, <1>2, <1>4, <1>8 DEF With

\* Numbers are in a strict order.
LEMMA NumberOrder ==
    ASSUME NEW kind, kind \notin {"TupleSet", "Record"}, NEW S, S \subseteq Int
    PROVE  IsOrder(kind, S)
<1>1. \A a, b \in S : MemberLess(kind, a, b) <=> a < b
  BY DEF MemberLess
<1>2. \A a, b \in S : <<a, b>> \in OrderOf(kind, S) <=> a < b
  BY <1>1 DEF OrderOf
<1> QED
  BY <1>2 DEF IsOrder, IsTransitive, IsIrreflexive

\* The fields of a record are in a strict order, that of their names.
LEMMA FieldOrder == IsOrder("Record", NamedScalar)
<1>1. \A a, b \in NamedScalar : MemberLess("Record", a, b) <=> a.name < b.name
  BY DEF MemberLess, FieldLess
<1>2. \A a, b \in NamedScalar :
         <<a, b>> \in OrderOf("Record", NamedScalar) <=> a.name < b.name
  BY <1>1 DEF OrderOf
<1>3. \A a \in NamedScalar : a.name \in Int
  BY EncodingAssumption DEF NamedScalar, Unsigned
<1>4. IsTransitive(OrderOf("Record", NamedScalar), NamedScalar)
  BY <1>2, <1>3 DEF IsTransitive
<1>5. IsIrreflexive(OrderOf("Record", NamedScalar), NamedScalar)
  BY <1>2, <1>3 DEF IsIrreflexive
<1> QED
  BY <1>4, <1>5 DEF IsOrder

\* The first place where two scalars differ decides.
LEMMA ScalarOrder ==
    ASSUME NEW a \in Seq(Int), NEW b \in Seq(Int), NEW c \in Seq(Int)
    PROVE  /\ ~ScalarLess(a, a)
           /\ ScalarLess(a, b) /\ ScalarLess(b, c) => ScalarLess(a, c)
<1>1. ~ScalarLess(a, a)
  BY DEF ScalarLess, Lexicographic, Smaller
<1>2. ASSUME ScalarLess(a, b), ScalarLess(b, c) PROVE ScalarLess(a, c)
  <2>1. PICK i \in DOMAIN b : /\ \A k \in 1..(i - 1) : k \in DOMAIN a /\ a[k] = b[k]
                              /\ i \in DOMAIN a => a[i] < b[i]
    BY <1>2 DEF ScalarLess, Lexicographic, Smaller
  <2>2. PICK j \in DOMAIN c : /\ \A k \in 1..(j - 1) : k \in DOMAIN b /\ b[k] = c[k]
                              /\ j \in DOMAIN b => b[j] < c[j]
    BY <1>2 DEF ScalarLess, Lexicographic, Smaller
  <2>3. /\ DOMAIN a = 1..Len(a) /\ DOMAIN b = 1..Len(b) /\ DOMAIN c = 1..Len(c)
        /\ \A k \in DOMAIN a : a[k] \in Int
        /\ \A k \in DOMAIN b : b[k] \in Int
        /\ \A k \in DOMAIN c : c[k] \in Int
    OBVIOUS
  <2>4. i \in Nat \ {0} /\ j \in Nat \ {0}
    BY <2>3
  <2> SUFFICES \E m \in DOMAIN c : /\ \A k \in 1..(m - 1) : k \in DOMAIN a /\ a[k] = c[k]
                                   /\ m \in DOMAIN a => a[m] < c[m]
    BY DEF ScalarLess, Lexicographic, Smaller
  <2>5. CASE i < j
    <3>1. i \in DOMAIN c /\ b[i] = c[i]
      <4>1. i \in DOMAIN c
        BY <2>3, <2>4, <2>5
      <4>2. i \in 1..(j - 1)
        BY <2>4, <2>5
      <4> QED
        BY <2>2, <4>1, <4>2
    <3>2. \A k \in 1..(i - 1) : k \in DOMAIN a /\ a[k] = c[k]
      BY <2>1, <2>2, <2>3, <2>4, <2>5
    <3> QED
      BY <2>1, <3>1, <3>2
  <2>6. CASE j < i
    <3>1. j \in DOMAIN a /\ j \in DOMAIN b /\ a[j] = b[j]
      BY <2>1, <2>3, <2>4, <2>6
    <3>2. \A k \in 1..(j - 1) : k \in DOMAIN a /\ a[k] = c[k]
      BY <2>1, <2>2, <2>3, <2>4, <2>6
    <3> QED
      BY <2>2, <3>1, <3>2
  <2>7. CASE i = j
    <3>1. \A k \in 1..(i - 1) : k \in DOMAIN a /\ a[k] = c[k]
      BY <2>1, <2>2, <2>3, <2>4, <2>7
    <3>2. i \in DOMAIN a => a[i] < c[i]
      BY <2>1, <2>2, <2>3, <2>7
    <3> QED
      BY <2>2, <2>7, <3>1, <3>2
  <2> QED
    BY <2>4, <2>5, <2>6, <2>7
<1> QED
  BY <1>1, <1>2

\* The five forms of a scalar: its kind and the payload of that kind.
LEMMA ScalarForms ==
    ASSUME NEW scalar \in Scalar
    PROVE  \/ \E x \in Bit : scalar = <<0, x>>
           \/ \E x \in Signed : scalar = <<1, x>>
           \/ \E x \in Unsigned : scalar = <<2, x>>
           \/ \E x \in Name, y \in Unsigned : scalar = <<3, x, y>>
           \/ \E x \in Unsigned \ {EmptyText} : scalar = <<4, x>>
<1>1. ASSUME scalar \in {0} \X Bit PROVE \E x \in Bit : scalar = <<0, x>>
  BY <1>1
<1>2. ASSUME scalar \in {1} \X Signed PROVE \E x \in Signed : scalar = <<1, x>>
  BY <1>2
<1>3. ASSUME scalar \in {2} \X Unsigned PROVE \E x \in Unsigned : scalar = <<2, x>>
  BY <1>3
<1>4. ASSUME scalar \in {3} \X Name \X Unsigned
      PROVE  \E x \in Name, y \in Unsigned : scalar = <<3, x, y>>
  BY <1>4
<1>5. ASSUME scalar \in {4} \X (Unsigned \ {EmptyText})
      PROVE  \E x \in Unsigned \ {EmptyText} : scalar = <<4, x>>
  BY <1>5
<1> QED
  BY <1>1, <1>2, <1>3, <1>4, <1>5 DEF Scalar

\* Every token of a scalar is an integer.
LEMMA Tokens == Bit \subseteq Int /\ Signed \subseteq Int /\ Unsigned \subseteq Int /\ Name \subseteq Int
BY EncodingAssumption DEF Bit, Signed, Unsigned, Name, ReadableText

\* A scalar is a sequence of tokens.
LEMMA ScalarIsSequence ==
    ASSUME NEW scalar \in Scalar
    PROVE  scalar \in Seq(Int)
<1>1. ASSUME NEW x \in Int, NEW k \in Int PROVE <<k, x>> \in Seq(Int)
  OBVIOUS
<1>2. ASSUME NEW x \in Int, NEW y \in Int, NEW k \in Int PROVE <<k, x, y>> \in Seq(Int)
  OBVIOUS
<1>3. CASE \E x \in Bit : scalar = <<0, x>>
  BY <1>1, <1>3, Tokens
<1>4. CASE \E x \in Signed : scalar = <<1, x>>
  BY <1>1, <1>4, Tokens
<1>5. CASE \E x \in Unsigned : scalar = <<2, x>>
  BY <1>1, <1>5, Tokens
<1>6. CASE \E x \in Name, y \in Unsigned : scalar = <<3, x, y>>
  BY <1>2, <1>6, Tokens
<1>7. CASE \E x \in Unsigned \ {EmptyText} : scalar = <<4, x>>
  BY <1>1, <1>7, Tokens
<1> QED
  BY <1>3, <1>4, <1>5, <1>6, <1>7, ScalarForms, Zenon

\* Tuples are in a strict order: by length, then by the first scalar in which they differ.
LEMMA TupleOrder ==
    ASSUME NEW a \in Seq(Scalar), NEW b \in Seq(Scalar), NEW c \in Seq(Scalar)
    PROVE  /\ ~TupleLess(a, a)
           /\ TupleLess(a, b) /\ TupleLess(b, c) => TupleLess(a, c)
<1>0. /\ DOMAIN a = 1..Len(a) /\ DOMAIN b = 1..Len(b) /\ DOMAIN c = 1..Len(c)
      /\ \A k \in DOMAIN a : a[k] \in Seq(Int)
      /\ \A k \in DOMAIN b : b[k] \in Seq(Int)
      /\ \A k \in DOMAIN c : c[k] \in Seq(Int)
  <2>1. /\ DOMAIN a = 1..Len(a) /\ DOMAIN b = 1..Len(b) /\ DOMAIN c = 1..Len(c)
        /\ \A k \in DOMAIN a : a[k] \in Scalar
        /\ \A k \in DOMAIN b : b[k] \in Scalar
        /\ \A k \in DOMAIN c : c[k] \in Scalar
    OBVIOUS
  <2> QED
    BY <2>1, ScalarIsSequence
<1>1. ~TupleLess(a, a)
  BY <1>0, ScalarOrder DEF TupleLess, Lexicographic
<1>2. ASSUME TupleLess(a, b), TupleLess(b, c) PROVE TupleLess(a, c)
  <2>1. PICK i \in DOMAIN b : /\ \A k \in 1..(i - 1) : k \in DOMAIN a /\ a[k] = b[k]
                              /\ i \in DOMAIN a => ScalarLess(a[i], b[i])
    BY <1>2 DEF TupleLess, Lexicographic
  <2>2. PICK j \in DOMAIN c : /\ \A k \in 1..(j - 1) : k \in DOMAIN b /\ b[k] = c[k]
                              /\ j \in DOMAIN b => ScalarLess(b[j], c[j])
    BY <1>2 DEF TupleLess, Lexicographic
  <2>4. i \in Nat \ {0} /\ j \in Nat \ {0}
    BY <1>0
  <2> SUFFICES \E m \in DOMAIN c : /\ \A k \in 1..(m - 1) : k \in DOMAIN a /\ a[k] = c[k]
                                   /\ m \in DOMAIN a => ScalarLess(a[m], c[m])
    BY DEF TupleLess, Lexicographic
  <2>5. CASE i < j
    <3>1. i \in DOMAIN c /\ b[i] = c[i]
      <4>1. i \in DOMAIN c
        BY <1>0, <2>4, <2>5
      <4>2. i \in 1..(j - 1)
        BY <2>4, <2>5
      <4> QED
        BY <2>2, <4>1, <4>2
    <3>2. \A k \in 1..(i - 1) : k \in DOMAIN a /\ a[k] = c[k]
      BY <1>0, <2>1, <2>2, <2>4, <2>5
    <3> QED
      BY <2>1, <3>1, <3>2
  <2>6. CASE j < i
    <3>1. j \in DOMAIN a /\ j \in DOMAIN b /\ a[j] = b[j]
      BY <1>0, <2>1, <2>4, <2>6
    <3>2. \A k \in 1..(j - 1) : k \in DOMAIN a /\ a[k] = c[k]
      BY <1>0, <2>1, <2>2, <2>4, <2>6
    <3> QED
      BY <2>2, <3>1, <3>2
  <2>7. CASE i = j
    <3>1. \A k \in 1..(i - 1) : k \in DOMAIN a /\ a[k] = c[k]
      BY <1>0, <2>1, <2>2, <2>4, <2>7
    <3>2. i \in DOMAIN a => ScalarLess(a[i], c[i])
      BY <1>0, <2>1, <2>2, <2>7, ScalarOrder
    <3> QED
      BY <2>2, <2>7, <3>1, <3>2
  <2> QED
    BY <2>4, <2>5, <2>6, <2>7
<1> QED
  BY <1>1, <1>2

\* The members of a tuple set are in a strict order.
LEMMA TupleSetOrder == IsOrder("TupleSet", Seq(Scalar))
<1> DEFINE S == Seq(Scalar)
<1>1. \A a, b \in S : <<a, b>> \in OrderOf("TupleSet", S) <=> TupleLess(a, b)
  <2> HIDE DEF S
  <2> QED
    BY DEF OrderOf, MemberLess
<1>2. /\ \A a \in S : ~TupleLess(a, a)
      /\ \A a, b, c \in S : TupleLess(a, b) /\ TupleLess(b, c) => TupleLess(a, c)
  BY TupleOrder
<1> HIDE DEF S
<1>3. IsOrder("TupleSet", S)
  BY <1>1, <1>2 DEF IsOrder, IsTransitive, IsIrreflexive
<1> QED
  BY <1>3 DEF S

-----------------------------------------------------------------------------
(* What a constructor has made it makes again.                             *)

\* A record with members and a kind.
HasMembers(v) ==
    /\ v = [v EXCEPT !.members = v.members]
    /\ \A order : /\ [v EXCEPT !.members = order].members = order
                  /\ [v EXCEPT !.members = order].kind = v.kind

\* A value w made of v is given, and the same when it is constructed again.
Stays(v, w) ==
    /\ w.kind = v.kind /\ Given(w) /\ Canonical(w)
    /\ Construct(v) = Made(TRUE, w) /\ Construct(w) = Made(TRUE, w)

\* The value that Arranged returns it returns again.
LEMMA ArrangedAgain ==
    ASSUME NEW v, NEW S, v.members \in Seq(S), IsOrder(v.kind, S), HasMembers(v),
           \A order : HasMembers([v EXCEPT !.members = order]),
           Arranged(v).ok
    PROVE  \E order \in Arrangements(v.members) :
              LET w == [v EXCEPT !.members = order]
              IN  /\ Arranged(v) = Made(TRUE, w) /\ Arranged(w) = Made(TRUE, w)
                  /\ StrictlySorted(w)
<1>1. PICK order \in Arrangements(v.members) :
              /\ Arranged(v) = Made(TRUE, [v EXCEPT !.members = order])
              /\ StrictlySorted([v EXCEPT !.members = order])
  BY ArrangedMade
<1> DEFINE w == [v EXCEPT !.members = order]
<1>2. w.members = order /\ w.kind = v.kind /\ HasMembers(w)
  BY DEF HasMembers
<1>3. order \in Seq(S)
  BY Rearranged
<1>4. StrictlySorted(w) /\ Arranged(v) = Made(TRUE, w)
  BY <1>1
<1>5. Arranged(w) = Made(TRUE, w)
  <2> HIDE DEF w
  <2>1. w.members \in Seq(S) /\ IsOrder(w.kind, S)
    BY <1>2, <1>3
  <2> QED
    BY <1>2, <1>4, <2>1, ArrangedStays DEF HasMembers
<1> QED
  BY <1>4, <1>5

\* What is used of a sequence: its length, its domain and where its items are.
LEMMA SeqFacts ==
    ASSUME NEW S, NEW s \in Seq(S)
    PROVE  /\ Len(s) \in Nat /\ DOMAIN s = 1..Len(s)
           /\ \A i \in 1..Len(s) : s[i] \in S
OBVIOUS

\* A construction that succeeds met its condition.
LEMMA IfMade ==
    ASSUME NEW condition \in BOOLEAN, NEW made, If(condition, made).ok
    PROVE  condition /\ If(condition, made) = made /\ made.ok
BY DEF If, Fail

\* Legal members of a value, in any order, are what its constructor asks for.
ConstructsBy(v, S, L) ==
    /\ L \subseteq Seq(S)
    /\ \A s \in L : Arrangements(s) \subseteq L
    /\ HasMembers(v) /\ \A order : HasMembers([v EXCEPT !.members = order])
    /\ \A order \in Seq(S) :
          Construct([v EXCEPT !.members = order])
              = If(order \in L, Arranged([v EXCEPT !.members = order]))

\* An order is one on fewer members.
LEMMA OrderOnFewer ==
    ASSUME NEW kind, NEW S, NEW T, T \subseteq S, IsOrder(kind, S)
    PROVE  IsOrder(kind, T)
<1>1. \A a, b \in S : <<a, b>> \in OrderOf(kind, S) <=> MemberLess(kind, a, b)
  BY DEF OrderOf
<1>2. \A a, b \in T : <<a, b>> \in OrderOf(kind, T) <=> MemberLess(kind, a, b)
  BY DEF OrderOf
<1>3. IsTransitive(OrderOf(kind, T), T)
  BY <1>1, <1>2 DEF IsOrder, IsTransitive
<1>4. IsIrreflexive(OrderOf(kind, T), T)
  BY <1>1, <1>2 DEF IsOrder, IsIrreflexive
<1> QED
  BY <1>3, <1>4 DEF IsOrder

\* The constructor of a set, given what it has made, makes the same.
LEMMA SetStays ==
    ASSUME NEW v, NEW S, v.members \in Seq(S), IsOrder(v.kind, S),
           NEW L, ConstructsBy(v, S, L), Construct(v).ok
    PROVE  \E order \in L :
              LET w == [v EXCEPT !.members = order]
              IN  /\ Construct(v) = Made(TRUE, w) /\ Construct(w) = Made(TRUE, w)
                  /\ StrictlySorted(w) /\ w.members = order /\ w.kind = v.kind
<1> DEFINE With(order) == [v EXCEPT !.members = order]
<1>0. /\ HasMembers(v) /\ \A order : HasMembers([v EXCEPT !.members = order])
      /\ \A order : With(order).members = order /\ With(order).kind = v.kind
      /\ v = With(v.members)
  BY DEF HasMembers, ConstructsBy
<1>1. \A order \in Seq(S) : Construct(With(order)) = If(order \in L, Arranged(With(order)))
  BY DEF ConstructsBy
<1>2. v.members \in L /\ Construct(v) = Arranged(v) /\ Arranged(v).ok
  <2> HIDE DEF With
  <2>1. Construct(v) = If(v.members \in L, Arranged(v))
    BY <1>0, <1>1
  <2> QED
    BY <2>1 DEF If, Fail
<1>3. PICK order \in Arrangements(v.members) :
         /\ Arranged(v) = Made(TRUE, With(order)) /\ Arranged(With(order)) = Made(TRUE, With(order))
         /\ StrictlySorted(With(order))
  BY <1>0, <1>2, ArrangedAgain
<1>4. order \in L /\ order \in Seq(S)
  BY <1>2 DEF ConstructsBy
<1>5. Construct(With(order)) = Made(TRUE, With(order))
  <2> HIDE DEF With
  <2> QED
    BY <1>1, <1>3, <1>4 DEF If
<1> QED
  BY <1>0, <1>2, <1>3, <1>4, <1>5

\* An arrangement, index by index.
LEMMA ArrangedMembers ==
    ASSUME NEW S, NEW s \in Seq(S), NEW order \in Arrangements(s)
    PROVE  /\ order \in Seq(S) /\ Len(order) = Len(s)
           /\ DOMAIN order = DOMAIN s /\ DOMAIN s = 1..Len(s) /\ Len(s) \in Nat
           /\ \A i \in DOMAIN order : order[i] \in S /\ \E j \in DOMAIN s : order[i] = s[j]
<1>1. /\ order \in Seq(S) /\ Len(order) = Len(s)
      /\ \A i \in 1..Len(s) : \E j \in 1..Len(s) : order[i] = s[j]
  BY Rearranged
<1>2. /\ Len(s) \in Nat /\ DOMAIN s = 1..Len(s) /\ DOMAIN order = 1..Len(s)
      /\ \A i \in 1..Len(s) : order[i] \in S
  BY <1>1, SeqFacts
<1> QED
  BY <1>1, <1>2

\* A numeric set that a constructor has made is one it makes again.
LEMMA NumericSetStays ==
    ASSUME NEW u \in Nat, NEW m \in Seq(Nat), NEW v,
           v = [kind |-> "NumericSet", unit |-> u, members |-> m], Construct(v).ok
    PROVE  \E w : Stays(v, w)
<1> DEFINE With(order) == [kind |-> "NumericSet", unit |-> u, members |-> order]
           Legal(order) == /\ u \in QuantityUnit
                           /\ Sized(order, MaxCardinality)
                           /\ \A i \in DOMAIN order : order[i] <= MaxQuantity
           L == {order \in Seq(Nat) : Legal(order)}
<1>0. /\ \A order : [v EXCEPT !.members = order] = With(order)
      /\ HasMembers(v) /\ \A order : HasMembers([v EXCEPT !.members = order])
      /\ v.kind = "NumericSet" /\ v.members = m
  <2>1. \A order : [v EXCEPT !.members = order] = With(order) /\ HasMembers(With(order))
    BY DEF HasMembers
  <2>2. v = With(m) /\ v.kind = "NumericSet" /\ v.members = m
    OBVIOUS
  <2> HIDE DEF With
  <2> QED
    BY <2>1, <2>2
<1>1. ASSUME NEW order \in Seq(Nat)
      PROVE Construct(With(order)) = If(order \in L, Arranged(With(order)))
  <2>1. Construct(With(order)) = If(Legal(order), Arranged(With(order)))
    BY DEF Construct
  <2>2. Legal(order) <=> order \in L
    OBVIOUS
  <2> HIDE DEF L, Legal, With
  <2> QED
    BY <2>1, <2>2 DEF If
<1>2. ASSUME NEW s \in L, NEW order \in Arrangements(s) PROVE order \in L
  BY ArrangedMembers DEF Sized
<1>3. ConstructsBy(v, Nat, L)
  <2>1. L \subseteq Seq(Nat) /\ \A s \in L : Arrangements(s) \subseteq L
    BY <1>2
  <2> HIDE DEF L, With
  <2> QED
    BY <1>0, <1>1, <1>2, <2>1 DEF ConstructsBy
<1>4. PICK order \in L : /\ Construct(v) = Made(TRUE, With(order))
                         /\ Construct(With(order)) = Made(TRUE, With(order))
                         /\ StrictlySorted(With(order))
  <2>1. IsOrder("NumericSet", Nat)
    BY NumberOrder
  <2> HIDE DEF L, With
  <2>2. \E order \in L :
           LET w == [v EXCEPT !.members = order]
           IN  /\ Construct(v) = Made(TRUE, w) /\ Construct(w) = Made(TRUE, w)
               /\ StrictlySorted(w) /\ w.members = order /\ w.kind = v.kind
    BY <1>0, <1>3, <2>1, SetStays
  <2> QED
    BY <1>0, <2>2
<1>5. Given(With(order)) /\ Canonical(With(order)) /\ With(order).kind = v.kind
  BY <1>0, <1>4 DEF Given, Canonical, Kinds, ToSet
<1> QED
  BY <1>4, <1>5 DEF Stays

\* The same of a protocol set.
LEMMA ProtocolSetStays ==
    ASSUME NEW m \in Seq(Nat), NEW v,
           v = [kind |-> "ProtocolSet", members |-> m], Construct(v).ok
    PROVE  \E w : Stays(v, w)
<1> DEFINE With(order) == [kind |-> "ProtocolSet", members |-> order]
           Legal(order) == /\ Sized(order, MaxProtocols)
                           /\ \A i \in DOMAIN order : order[i] \in 1..MaxProtocol
           L == {order \in Seq(Nat) : Legal(order)}
<1>0. /\ \A order : [v EXCEPT !.members = order] = With(order)
      /\ HasMembers(v) /\ \A order : HasMembers([v EXCEPT !.members = order])
      /\ v.kind = "ProtocolSet" /\ v.members = m
  <2>1. \A order : [v EXCEPT !.members = order] = With(order) /\ HasMembers(With(order))
    BY DEF HasMembers
  <2>2. v = With(m) /\ v.kind = "ProtocolSet" /\ v.members = m
    OBVIOUS
  <2> HIDE DEF With
  <2> QED
    BY <2>1, <2>2
<1>1. ASSUME NEW order \in Seq(Nat)
      PROVE Construct(With(order)) = If(order \in L, Arranged(With(order)))
  <2>1. Construct(With(order)) = If(Legal(order), Arranged(With(order)))
    BY DEF Construct
  <2>2. Legal(order) <=> order \in L
    OBVIOUS
  <2> HIDE DEF L, Legal, With
  <2> QED
    BY <2>1, <2>2 DEF If
<1>2. ASSUME NEW s \in L, NEW order \in Arrangements(s) PROVE order \in L
  BY ArrangedMembers DEF Sized
<1>3. ConstructsBy(v, Nat, L)
  <2>1. L \subseteq Seq(Nat) /\ \A s \in L : Arrangements(s) \subseteq L
    BY <1>2
  <2> HIDE DEF L, With
  <2> QED
    BY <1>0, <1>1, <1>2, <2>1 DEF ConstructsBy
<1>4. PICK order \in L : /\ Construct(v) = Made(TRUE, With(order))
                         /\ Construct(With(order)) = Made(TRUE, With(order))
                         /\ StrictlySorted(With(order))
  <2>1. IsOrder("ProtocolSet", Nat)
    BY NumberOrder
  <2> HIDE DEF L, With
  <2>2. \E order \in L :
           LET w == [v EXCEPT !.members = order]
           IN  /\ Construct(v) = Made(TRUE, w) /\ Construct(w) = Made(TRUE, w)
               /\ StrictlySorted(w) /\ w.members = order /\ w.kind = v.kind
    BY <1>0, <1>3, <2>1, SetStays
  <2> QED
    BY <1>0, <2>2
<1>5. Given(With(order)) /\ Canonical(With(order)) /\ With(order).kind = v.kind
  BY <1>0, <1>4 DEF Given, Canonical, Kinds, ToSet
<1> QED
  BY <1>4, <1>5 DEF Stays

\* The same of an enumeration set.
LEMMA EnumSetStays ==
    ASSUME NEW d \in Unsigned, NEW m \in Seq(Unsigned), NEW v,
           v = [kind |-> "EnumSet", domain |-> d, members |-> m], Construct(v).ok
    PROVE  \E w : Stays(v, w)
<1> DEFINE With(order) == [kind |-> "EnumSet", domain |-> d, members |-> order]
           Legal(order) == d \in Name /\ Sized(order, MaxCardinality)
           L == {order \in Seq(Unsigned) : Legal(order)}
<1>0. /\ \A order : [v EXCEPT !.members = order] = With(order)
      /\ HasMembers(v) /\ \A order : HasMembers([v EXCEPT !.members = order])
      /\ v.kind = "EnumSet" /\ v.members = m
  <2>1. \A order : [v EXCEPT !.members = order] = With(order) /\ HasMembers(With(order))
    BY DEF HasMembers
  <2>2. v = With(m) /\ v.kind = "EnumSet" /\ v.members = m
    OBVIOUS
  <2> HIDE DEF With
  <2> QED
    BY <2>1, <2>2
<1>1. ASSUME NEW order \in Seq(Unsigned)
      PROVE Construct(With(order)) = If(order \in L, Arranged(With(order)))
  <2>1. Construct(With(order)) = If(Legal(order), Arranged(With(order)))
    BY DEF Construct
  <2>2. Legal(order) <=> order \in L
    OBVIOUS
  <2> HIDE DEF L, Legal, With
  <2> QED
    BY <2>1, <2>2 DEF If
<1>2. ASSUME NEW s \in L, NEW order \in Arrangements(s) PROVE order \in L
  BY ArrangedMembers DEF Sized
<1>3. ConstructsBy(v, Unsigned, L)
  <2>1. L \subseteq Seq(Unsigned) /\ \A s \in L : Arrangements(s) \subseteq L
    BY <1>2
  <2> HIDE DEF L, With
  <2> QED
    BY <1>0, <1>1, <1>2, <2>1 DEF ConstructsBy
<1>4. PICK order \in L : /\ Construct(v) = Made(TRUE, With(order))
                         /\ Construct(With(order)) = Made(TRUE, With(order))
                         /\ StrictlySorted(With(order))
  <2>1. IsOrder("EnumSet", Unsigned)
    BY NumberOrder, EncodingAssumption DEF Unsigned
  <2> HIDE DEF L, With
  <2>2. \E order \in L :
           LET w == [v EXCEPT !.members = order]
           IN  /\ Construct(v) = Made(TRUE, w) /\ Construct(w) = Made(TRUE, w)
               /\ StrictlySorted(w) /\ w.members = order /\ w.kind = v.kind
    BY <1>0, <1>3, <2>1, SetStays
  <2> QED
    BY <1>0, <2>2
<1>5. Given(With(order)) /\ Canonical(With(order)) /\ With(order).kind = v.kind
  BY <1>0, <1>4 DEF Given, Canonical, Kinds, ToSet
<1> QED
  BY <1>4, <1>5 DEF Stays

\* The same of a record, and its fields are those it was given.
LEMMA RecordStays ==
    ASSUME NEW S, S \subseteq NamedScalar, NEW m \in Seq(S), NEW v,
           v = [kind |-> "Record", members |-> m], Construct(v).ok
    PROVE  \E w : Stays(v, w) /\ w.members \in Seq(S)
<1> DEFINE With(order) == [kind |-> "Record", members |-> order]
           Legal(order) == /\ Sized(order, MaxFields)
                           /\ \A i \in DOMAIN order : order[i].name \in Name
           L == {order \in Seq(S) : Legal(order)}
<1>0. /\ \A order : [v EXCEPT !.members = order] = With(order)
      /\ HasMembers(v) /\ \A order : HasMembers([v EXCEPT !.members = order])
      /\ v.kind = "Record" /\ v.members = m
  <2>1. \A order : [v EXCEPT !.members = order] = With(order) /\ HasMembers(With(order))
    BY DEF HasMembers
  <2>2. v = With(m) /\ v.kind = "Record" /\ v.members = m
    OBVIOUS
  <2> HIDE DEF With
  <2> QED
    BY <2>1, <2>2
<1>1. ASSUME NEW order \in Seq(S)
      PROVE Construct(With(order)) = If(order \in L, Arranged(With(order)))
  <2>1. Construct(With(order)) = If(Legal(order), Arranged(With(order)))
    BY DEF Construct
  <2>2. Legal(order) <=> order \in L
    OBVIOUS
  <2> HIDE DEF L, Legal, With
  <2> QED
    BY <2>1, <2>2 DEF If
<1>2. ASSUME NEW s \in L, NEW order \in Arrangements(s) PROVE order \in L
  BY ArrangedMembers DEF Sized
<1>3. ConstructsBy(v, S, L)
  <2>1. L \subseteq Seq(S) /\ \A s \in L : Arrangements(s) \subseteq L
    BY <1>2
  <2> HIDE DEF L, With
  <2> QED
    BY <1>0, <1>1, <1>2, <2>1 DEF ConstructsBy
<1>4. PICK order \in L : /\ Construct(v) = Made(TRUE, With(order))
                         /\ Construct(With(order)) = Made(TRUE, With(order))
                         /\ StrictlySorted(With(order))
  <2>1. IsOrder("Record", S)
    BY FieldOrder, OrderOnFewer
  <2> HIDE DEF L, With
  <2>2. \E order \in L :
           LET w == [v EXCEPT !.members = order]
           IN  /\ Construct(v) = Made(TRUE, w) /\ Construct(w) = Made(TRUE, w)
               /\ StrictlySorted(w) /\ w.members = order /\ w.kind = v.kind
    BY <1>0, <1>3, <2>1, SetStays
  <2> QED
    BY <1>0, <2>2
<1>5. Given(With(order)) /\ Canonical(With(order)) /\ With(order).kind = v.kind
  BY <1>0, <1>4 DEF Given, Canonical, Kinds, ToSet
<1>6. Stays(v, With(order))
  <2> HIDE DEF With
  <2> QED
    BY <1>4, <1>5 DEF Stays
<1>7. With(order).members \in Seq(S)
  OBVIOUS
<1> HIDE DEF With
<1> QED
  BY <1>6, <1>7

\* The same of a tuple set, and its tuples are those it was given.
LEMMA TupleSetStays ==
    ASSUME NEW S, S \subseteq Seq(Scalar), NEW m \in Seq(S), NEW v,
           v = [kind |-> "TupleSet", members |-> m], Construct(v).ok
    PROVE  \E w : Stays(v, w) /\ w.members \in Seq(S)
<1> DEFINE With(order) == [kind |-> "TupleSet", members |-> order]
           Legal(order) == /\ Sized(order, MaxTuples)
                           /\ OneArity(order) /\ IsArity(Len(order[1]))
           L == {order \in Seq(S) : Legal(order)}
<1>0. /\ \A order : [v EXCEPT !.members = order] = With(order)
      /\ HasMembers(v) /\ \A order : HasMembers([v EXCEPT !.members = order])
      /\ v.kind = "TupleSet" /\ v.members = m
  <2>1. \A order : [v EXCEPT !.members = order] = With(order) /\ HasMembers(With(order))
    BY DEF HasMembers
  <2>2. v = With(m) /\ v.kind = "TupleSet" /\ v.members = m
    OBVIOUS
  <2> HIDE DEF With
  <2> QED
    BY <2>1, <2>2
<1>1. ASSUME NEW order \in Seq(S)
      PROVE Construct(With(order)) = If(order \in L, Arranged(With(order)))
  <2>1. Construct(With(order)) = If(Legal(order), Arranged(With(order)))
    BY DEF Construct
  <2>2. Legal(order) <=> order \in L
    OBVIOUS
  <2> HIDE DEF L, Legal, With
  <2> QED
    BY <2>1, <2>2 DEF If
<1>2. ASSUME NEW s \in L, NEW order \in Arrangements(s) PROVE order \in L
  <2>1. /\ s \in Seq(S) /\ Legal(s)
        /\ order \in Seq(S) /\ Len(order) = Len(s)
        /\ DOMAIN order = 1..Len(s) /\ DOMAIN s = 1..Len(s)
        /\ \A i \in DOMAIN order : \E j \in DOMAIN s : order[i] = s[j]
    BY ArrangedMembers
  <2>2. \A i \in DOMAIN order : Len(order[i]) = Len(s[1])
    BY <2>1 DEF OneArity
  <2>3. 1 \in DOMAIN order
    BY <2>1 DEF Sized
  <2>4. Legal(order)
    BY <2>1, <2>2, <2>3 DEF Sized, OneArity
  <2> QED
    BY <2>1, <2>4
<1>3. ConstructsBy(v, S, L)
  <2>1. L \subseteq Seq(S) /\ \A s \in L : Arrangements(s) \subseteq L
    BY <1>2
  <2> HIDE DEF L, With
  <2> QED
    BY <1>0, <1>1, <1>2, <2>1 DEF ConstructsBy
<1>4. PICK order \in L : /\ Construct(v) = Made(TRUE, With(order))
                         /\ Construct(With(order)) = Made(TRUE, With(order))
                         /\ StrictlySorted(With(order))
  <2>1. IsOrder("TupleSet", S)
    BY TupleSetOrder, OrderOnFewer
  <2> HIDE DEF L, With
  <2>2. \E order \in L :
           LET w == [v EXCEPT !.members = order]
           IN  /\ Construct(v) = Made(TRUE, w) /\ Construct(w) = Made(TRUE, w)
               /\ StrictlySorted(w) /\ w.members = order /\ w.kind = v.kind
    BY <1>0, <1>3, <2>1, SetStays
  <2> QED
    BY <1>0, <2>2
<1>5. Given(With(order)) /\ Canonical(With(order)) /\ With(order).kind = v.kind
  BY <1>0, <1>4 DEF Given, Canonical, Kinds, ToSet
<1>6. Stays(v, With(order))
  <2> HIDE DEF With
  <2> QED
    BY <1>4, <1>5 DEF Stays
<1>7. With(order).members \in Seq(S)
  OBVIOUS
<1> HIDE DEF With
<1> QED
  BY <1>6, <1>7

\* The kinds whose constructors sort their members.
SetKinds == {"NumericSet", "ProtocolSet", "EnumSet", "Record", "TupleSet"}

\* The kinds of the values that are given to a constructor.
LEMMA GivenKinds ==
    ASSUME NEW v, Given(v)
    PROVE  v.kind \in {"Absent", "Boolean", "Integer", "Quantity", "Enumeration", "BitSet",
                       "NumericSet", "NumericRange", "VersionInterval", "ProtocolSet", "Tuple",
                       "TupleSet", "Record", "Opaque", "EnumSet"}
<1>1. v.kind \in ToSet(Kinds)
  BY DEF Given
<1>2. PICK i \in 1..15 : v.kind = Kinds[i]
  BY <1>1 DEF ToSet, Kinds
<1> QED
  BY <1>2 DEF Kinds

\* A construction that succeeds met its condition, where nothing is built.
LEMMA MadeOnlyIf ==
    ASSUME NEW c \in BOOLEAN, NEW v, NEW made, made = Made(c, v), made.ok
    PROVE  c
BY DEF Made

\* What a constructor asks for, besides the order of the members.
Demands(v) ==
    /\ v.kind = "Quantity" =>
          v.unit \in QuantityUnit /\ v.quantity <= MaxQuantity
    /\ v.kind = "Enumeration" =>
          v.domain \in Name
    /\ v.kind = "BitSet" =>
          v.bits \in 1..MaxBits /\ ClearAbove(v.bits, v.words)
    /\ v.kind = "NumericRange" =>
          v.unit \in QuantityUnit /\ v.minimum <= v.maximum /\ v.maximum <= MaxQuantity
    /\ v.kind = "VersionInterval" =>
          v.minimum # <<>> /\ v.maximum # <<>> /\ Ordered(v)
    /\ v.kind = "Tuple" =>
          IsArity(Len(v.elements))
    /\ v.kind = "Opaque" =>
          v.encoding \in Name
    /\ v.kind = "NumericSet" =>
          /\ v.unit \in QuantityUnit
          /\ Sized(v.members, MaxCardinality)
          /\ \A i \in DOMAIN v.members : v.members[i] <= MaxQuantity
    /\ v.kind = "ProtocolSet" =>
          /\ Sized(v.members, MaxProtocols)
          /\ \A i \in DOMAIN v.members : v.members[i] \in 1..MaxProtocol
    /\ v.kind = "TupleSet" =>
          /\ Sized(v.members, MaxTuples)
          /\ OneArity(v.members) /\ IsArity(Len(v.members[1]))
    /\ v.kind = "Record" =>
          /\ Sized(v.members, MaxFields)
          /\ \A i \in DOMAIN v.members : v.members[i].name \in Name
    /\ v.kind = "EnumSet" =>
          v.domain \in Name /\ Sized(v.members, MaxCardinality)

\* A value that is constructed met what its constructor asks of it.
LEMMA ConstructDemands ==
    ASSUME NEW v, Construct(v).ok
    PROVE  Demands(v)
<1>1. ASSUME v.kind = "Quantity"
      PROVE  v.unit \in QuantityUnit /\ v.quantity <= MaxQuantity
  <2> DEFINE c == v.unit \in QuantityUnit /\ v.quantity <= MaxQuantity
  <2>1. Construct(v) = Made(c, v)
    BY <1>1, Zenon DEF Construct
  <2>2. c \in BOOLEAN
    OBVIOUS
  <2> HIDE DEF c
  <2>3. c
    BY <2>1, <2>2, MadeOnlyIf
  <2> QED
    BY <2>3 DEF c
<1>2. ASSUME v.kind = "Enumeration"
      PROVE  v.domain \in Name
  <2> DEFINE c == v.domain \in Name
  <2>1. Construct(v) = Made(c, v)
    BY <1>2, Zenon DEF Construct
  <2>2. c \in BOOLEAN
    OBVIOUS
  <2> HIDE DEF c
  <2>3. c
    BY <2>1, <2>2, MadeOnlyIf
  <2> QED
    BY <2>3 DEF c
<1>3. ASSUME v.kind = "BitSet"
      PROVE  v.bits \in 1..MaxBits /\ ClearAbove(v.bits, v.words)
  <2> DEFINE c == v.bits \in 1..MaxBits /\ ClearAbove(v.bits, v.words)
  <2>1. Construct(v) = Made(c, v)
    BY <1>3, Zenon DEF Construct
  <2>2. c \in BOOLEAN
    OBVIOUS
  <2> HIDE DEF c
  <2>3. c
    BY <2>1, <2>2, MadeOnlyIf
  <2> QED
    BY <2>3 DEF c
<1>4. ASSUME v.kind = "NumericRange"
      PROVE  v.unit \in QuantityUnit /\ v.minimum <= v.maximum /\ v.maximum <= MaxQuantity
  <2> DEFINE c == v.unit \in QuantityUnit /\ v.minimum <= v.maximum /\ v.maximum <= MaxQuantity
  <2>1. Construct(v) = Made(c, v)
    BY <1>4, Zenon DEF Construct
  <2>2. c \in BOOLEAN
    OBVIOUS
  <2> HIDE DEF c
  <2>3. c
    BY <2>1, <2>2, MadeOnlyIf
  <2> QED
    BY <2>3 DEF c
<1>5. ASSUME v.kind = "VersionInterval"
      PROVE  v.minimum # <<>> /\ v.maximum # <<>> /\ Ordered(v)
  <2> DEFINE c == v.minimum # <<>> /\ v.maximum # <<>> /\ Ordered(v)
  <2>1. Construct(v) = Made(c, v)
    BY <1>5, Zenon DEF Construct
  <2>2. c \in BOOLEAN
    OBVIOUS
  <2> HIDE DEF c
  <2>3. c
    BY <2>1, <2>2, MadeOnlyIf
  <2> QED
    BY <2>3 DEF c
<1>6. ASSUME v.kind = "Tuple"
      PROVE  IsArity(Len(v.elements))
  <2> DEFINE c == IsArity(Len(v.elements))
  <2>1. Construct(v) = Made(c, v)
    BY <1>6, Zenon DEF Construct
  <2>2. c \in BOOLEAN
    BY DEF IsArity
  <2> HIDE DEF c
  <2>3. c
    BY <2>1, <2>2, MadeOnlyIf
  <2> QED
    BY <2>3 DEF c
<1>7. ASSUME v.kind = "Opaque"
      PROVE  v.encoding \in Name
  <2> DEFINE c == v.encoding \in Name
  <2>1. Construct(v) = Made(c, v)
    BY <1>7, Zenon DEF Construct
  <2>2. c \in BOOLEAN
    OBVIOUS
  <2> HIDE DEF c
  <2>3. c
    BY <2>1, <2>2, MadeOnlyIf
  <2> QED
    BY <2>3 DEF c
<1>8. ASSUME v.kind = "NumericSet"
      PROVE  /\ v.unit \in QuantityUnit
             /\ Sized(v.members, MaxCardinality)
             /\ \A i \in DOMAIN v.members : v.members[i] <= MaxQuantity
  <2> DEFINE c == /\ v.unit \in QuantityUnit
                 /\ Sized(v.members, MaxCardinality)
                 /\ \A i \in DOMAIN v.members : v.members[i] <= MaxQuantity
  <2>1. Construct(v) = If(c, Arranged(v))
    BY <1>8, Zenon DEF Construct
  <2>2. c \in BOOLEAN
    OBVIOUS
  <2> HIDE DEF c
  <2>3. c
    BY <2>1, <2>2, IfMade
  <2> QED
    BY <2>3 DEF c
<1>9. ASSUME v.kind = "ProtocolSet"
      PROVE  /\ Sized(v.members, MaxProtocols)
             /\ \A i \in DOMAIN v.members : v.members[i] \in 1..MaxProtocol
  <2> DEFINE c == /\ Sized(v.members, MaxProtocols)
                 /\ \A i \in DOMAIN v.members : v.members[i] \in 1..MaxProtocol
  <2>1. Construct(v) = If(c, Arranged(v))
    BY <1>9, Zenon DEF Construct
  <2>2. c \in BOOLEAN
    OBVIOUS
  <2> HIDE DEF c
  <2>3. c
    BY <2>1, <2>2, IfMade
  <2> QED
    BY <2>3 DEF c
<1>10. ASSUME v.kind = "TupleSet"
      PROVE  /\ Sized(v.members, MaxTuples)
             /\ OneArity(v.members) /\ IsArity(Len(v.members[1]))
  <2> DEFINE c == /\ Sized(v.members, MaxTuples)
                 /\ OneArity(v.members) /\ IsArity(Len(v.members[1]))
  <2>1. Construct(v) = If(c, Arranged(v))
    BY <1>10, Zenon DEF Construct
  <2>2. c \in BOOLEAN
    OBVIOUS
  <2> HIDE DEF c
  <2>3. c
    BY <2>1, <2>2, IfMade
  <2> QED
    BY <2>3 DEF c
<1>11. ASSUME v.kind = "Record"
      PROVE  /\ Sized(v.members, MaxFields)
             /\ \A i \in DOMAIN v.members : v.members[i].name \in Name
  <2> DEFINE c == /\ Sized(v.members, MaxFields)
                 /\ \A i \in DOMAIN v.members : v.members[i].name \in Name
  <2>1. Construct(v) = If(c, Arranged(v))
    BY <1>11, Zenon DEF Construct
  <2>2. c \in BOOLEAN
    OBVIOUS
  <2> HIDE DEF c
  <2>3. c
    BY <2>1, <2>2, IfMade
  <2> QED
    BY <2>3 DEF c
<1>12. ASSUME v.kind = "EnumSet"
      PROVE  v.domain \in Name /\ Sized(v.members, MaxCardinality)
  <2> DEFINE c == v.domain \in Name /\ Sized(v.members, MaxCardinality)
  <2>1. Construct(v) = If(c, Arranged(v))
    BY <1>12, Zenon DEF Construct
  <2>2. c \in BOOLEAN
    OBVIOUS
  <2> HIDE DEF c
  <2>3. c
    BY <2>1, <2>2, IfMade
  <2> QED
    BY <2>3 DEF c
<1> QED
  BY <1>1, <1>2, <1>3, <1>4, <1>5, <1>6, <1>7, <1>8, <1>9, <1>10, <1>11, <1>12, Zenon DEF Demands

\* A constructor that sorts nothing returns what it was given.
LEMMA OthersStay ==
    ASSUME NEW v, Given(v), v.kind \notin SetKinds, Construct(v).ok
    PROVE  Stays(v, v)
<1>1. Construct(v) = Made(TRUE, v)
  BY GivenKinds DEF Construct, Made, SetKinds
<1>2. Demands(v)
  BY ConstructDemands
<1>3. ASSUME v.kind = "Absent" PROVE Canonical(v)
  BY <1>3, Zenon DEF Canonical
<1>4. ASSUME v.kind = "Boolean" PROVE Canonical(v)
  BY <1>4, Zenon DEF Canonical
<1>5. ASSUME v.kind = "Integer" PROVE Canonical(v)
  BY <1>5, Zenon DEF Canonical
<1>6. ASSUME v.kind = "Quantity" PROVE Canonical(v)
  BY <1>2, <1>6, Zenon DEF Canonical, Demands
<1>7. ASSUME v.kind = "Enumeration" PROVE Canonical(v)
  BY <1>2, <1>7, Zenon DEF Canonical, Demands
<1>8. ASSUME v.kind = "BitSet" PROVE Canonical(v)
  BY <1>2, <1>8, Zenon DEF Canonical, Demands
<1>9. ASSUME v.kind = "NumericRange" PROVE Canonical(v)
  BY <1>2, <1>9, Zenon DEF Canonical, Demands
<1>10. ASSUME v.kind = "VersionInterval" PROVE Canonical(v)
  BY <1>2, <1>10, Zenon DEF Canonical, Demands
<1>11. ASSUME v.kind = "Tuple" PROVE Canonical(v)
  BY <1>2, <1>11, Zenon DEF Canonical, Demands
<1>12. ASSUME v.kind = "Opaque" PROVE Canonical(v)
  <2>1. v.encoding \in Name
    BY <1>2, <1>12, Zenon DEF Demands
  <2>2. v.encoding # EmptyText
    BY <2>1 DEF Name, ReadableText, EmptyText
  <2> QED
    BY <1>12, <2>2, Zenon DEF Canonical
<1>13. Canonical(v)
  BY <1>3, <1>4, <1>5, <1>6, <1>7, <1>8, <1>9, <1>10, <1>11, <1>12, GivenKinds DEF SetKinds
<1> QED
  BY <1>1, <1>13 DEF Stays

\* What a constructor makes of a value that can be given to it is canonical,
\* and it makes the same of that again.
LEMMA ConstructStays ==
    ASSUME NEW v, Given(v), Construct(v).ok
    PROVE  \E w : Stays(v, w)
<1>1. CASE v.kind \notin SetKinds
  BY <1>1, OthersStay
<1>2. CASE v.kind = "NumericSet"
  <2>1. v \in [kind : {"NumericSet"}, unit : Nat, members : Seq(Nat)]
    BY <1>2 DEF Given
  <2>2. v = [kind |-> "NumericSet", unit |-> v.unit, members |-> v.members]
    BY <2>1
  <2> QED
    BY <2>1, <2>2, NumericSetStays
<1>3. CASE v.kind = "ProtocolSet"
  <2>1. v \in [kind : {"ProtocolSet"}, members : Seq(Nat)]
    BY <1>3 DEF Given
  <2>2. v = [kind |-> "ProtocolSet", members |-> v.members]
    BY <2>1
  <2> QED
    BY <2>1, <2>2, ProtocolSetStays
<1>4. CASE v.kind = "EnumSet"
  <2>1. v \in [kind : {"EnumSet"}, domain : Unsigned, members : Seq(Unsigned)]
    BY <1>4 DEF Given
  <2>2. v = [kind |-> "EnumSet", domain |-> v.domain, members |-> v.members]
    BY <2>1
  <2> QED
    BY <2>1, <2>2, EnumSetStays
<1>5. CASE v.kind = "Record"
  <2>1. v \in [kind : {"Record"}, members : Seq(NamedScalar)]
    BY <1>5 DEF Given
  <2>2. v = [kind |-> "Record", members |-> v.members]
    BY <2>1
  <2> QED
    BY <2>1, <2>2, RecordStays
<1>6. CASE v.kind = "TupleSet"
  <2>1. v \in [kind : {"TupleSet"}, members : Seq(Seq(Scalar))]
    BY <1>6 DEF Given
  <2>2. v = [kind |-> "TupleSet", members |-> v.members]
    BY <2>1
  <2> QED
    BY <2>1, <2>2, TupleSetStays
<1> QED
  BY <1>1, <1>2, <1>3, <1>4, <1>5, <1>6 DEF SetKinds

-----------------------------------------------------------------------------
(* The bounds a requirement reads from a numeric value.                    *)

\* The first member of a numeric set is its least, the last its largest.
LEMMA EndsAreBounds ==
    ASSUME NEW m \in Seq(Nat), NEW v, v.kind = "NumericSet", v.members = m, StrictlySorted(v),
           Sized(m, MaxCardinality), NEW quantity, Contains(m, quantity)
    PROVE  Head(m) <= quantity /\ quantity <= Last(m)
<1>1. Rising(m, OrderOf("NumericSet", Nat)) /\ IsTransitive(OrderOf("NumericSet", Nat), Nat)
  BY SortedIsRising, NumberOrder DEF IsOrder
<1>2. \A i, j \in 1..Len(m) : i < j => <<m[i], m[j]>> \in OrderOf("NumericSet", Nat)
  BY <1>1, RisingThroughout
<1>3. \A i, j \in 1..Len(m) : i < j => m[i] < m[j]
  BY <1>2 DEF OrderOf, MemberLess
<1>4. /\ Len(m) \in Nat \ {0} /\ \A i \in 1..Len(m) : m[i] \in Nat
      /\ Head(m) = m[1] /\ Last(m) = m[Len(m)]
  BY DEF Sized, Last
<1>5. PICK i \in 1..Len(m) : quantity = m[i]
  BY DEF Contains
<1> QED
  BY <1>3, <1>4, <1>5

-----------------------------------------------------------------------------
(* Items that are written one after the other, and read again.             *)

\* The first parts together.
Together(h, parts) ==
    /\ h[1] = parts[1]
    /\ \A n \in 2..Len(parts) : h[n] = h[n - 1] \o parts[n]

\* FlattenSeq is the last of the concatenations it goes through: its recursion, solved once.
LEMMA FlattenSolved ==
    ASSUME NEW parts, Len(parts) \in Nat \ {0}
    PROVE  \E h : Together(h, parts) /\ FlattenSeq(parts) = h[Len(parts)]
<1> DEFINE N == Len(parts)
           Nth(h, n) == IF n = 1 THEN parts[n] ELSE h[n - 1] \o parts[n]
           Solves(h) == h = [n \in 1..N |-> Nth(h, n)]
           S == {m \in 0..N : \E h : h = [n \in 1..m |-> Nth(h, n)]}
<1>1. 0 \in S
  <2> DEFINE h == [n \in 1..0 |-> parts[n]]
  <2>1. h = [n \in 1..0 |-> Nth(h, n)]
    <3> HIDE DEF Nth
    <3> QED
      OBVIOUS
  <2>2. \E k : k = [n \in 1..0 |-> Nth(k, n)]
    <3> HIDE DEF h, Nth
    <3> QED
      BY <2>1
  <2>3. 0 \in 0..N
    OBVIOUS
  <2> HIDE DEF Nth, N
  <2> QED
    BY <2>2, <2>3
<1>2. ASSUME NEW m \in 1..N, m - 1 \in S PROVE m \in S
  <2>1. PICK g : g = [n \in 1..(m - 1) |-> Nth(g, n)]
    BY <1>2
  <2> DEFINE Next1 == IF m = 1 THEN parts[1] ELSE g[m - 1] \o parts[m]
             h == [n \in 1..m |-> IF n = m THEN Next1 ELSE g[n]]
  <2>2. ASSUME NEW n \in 1..m PROVE h[n] = Nth(h, n)
    <3>1. CASE n = m
      <4>1. h[m] = Next1 /\ (m # 1 => h[m - 1] = g[m - 1])
        OBVIOUS
      <4> HIDE DEF h
      <4> QED
        BY <3>1, <4>1
    <3>2. CASE n \in 1..(m - 1)
      <4>1. h[n] = g[n] /\ (n # 1 => h[n - 1] = g[n - 1])
        BY <3>2
      <4>2. g[n] = Nth(g, n)
        <5> HIDE DEF Nth
        <5> QED
          BY <2>1, <3>2
      <4> HIDE DEF h
      <4> QED
        BY <3>2, <4>1, <4>2
    <3> QED
      BY <3>1, <3>2
  <2>3. h = [n \in 1..m |-> Nth(h, n)]
    <3>1. h = [n \in 1..m |-> h[n]]
      OBVIOUS
    <3> HIDE DEF h, Nth
    <3> QED
      BY <2>2, <3>1
  <2>4. \E k : k = [n \in 1..m |-> Nth(k, n)]
    <3> HIDE DEF h, Nth
    <3> QED
      BY <2>3
  <2>5. m \in 0..N
    BY <1>2
  <2> HIDE DEF Nth
  <2> QED
    BY <2>4, <2>5
<1>3. N \in S
  <2>1. N \in Nat
    OBVIOUS
  <2> HIDE DEF S, N
  <2>2. Inductive(S, N)
    BY <1>1, <1>2 DEF Inductive
  <2> QED
    BY <2>1, <2>2, UpTo
<1>4. \E h : Solves(h)
  BY <1>3
<1> DEFINE c == CHOOSE h : Solves(h)
<1>5. Solves(c)
  BY <1>4, Zenon
<1>6. FlattenSeq(parts) = c[N]
  <2>1. Len(parts) # 0
    OBVIOUS
  <2> QED
    BY <2>1, Zenon DEF FlattenSeq
<1>7. Together(c, parts)
  <2>1. c[1] = parts[1] /\ \A n \in 2..N : c[n] = c[n - 1] \o parts[n]
    <3>1. \A n \in 1..N : c[n] = Nth(c, n)
      <4> HIDE DEF c, Nth
      <4> QED
        BY <1>5
    <3>2. 1 \in 1..N /\ \A n \in 2..N : n \in 1..N /\ n # 1
      OBVIOUS
    <3> HIDE DEF c
    <3> QED
      BY <3>1, <3>2
  <2> HIDE DEF c
  <2> QED
    BY <2>1 DEF Together
<1> QED
  <2> HIDE DEF c
  <2> QED
    BY <1>6, <1>7

\* What is left of the parts, and what follows them, before each of them.
Unrolls(left, parts, n, whole, rest) ==
    /\ left \in [0..n -> Stream] /\ left[0] = whole /\ left[n] = rest
    /\ \A k \in 1..n : left[k - 1] = parts[k] \o left[k]

\* Streams are closed under concatenation, and the empty one adds nothing.
LEMMA Joins ==
    ASSUME NEW a \in Stream, NEW b \in Stream
    PROVE  /\ a \o b \in Stream /\ <<>> \in Stream
           /\ a \o <<>> = a /\ <<>> \o a = a
BY DEF Stream

\* Concatenation of streams is associative.
LEMMA Associates ==
    ASSUME NEW a \in Stream, NEW b \in Stream, NEW c \in Stream
    PROVE  (a \o b) \o c = a \o (b \o c)
BY DEF Stream

\* One part more at the end.
LEMMA UnrollsMore ==
    ASSUME NEW parts \in Seq(Stream), NEW n \in 0..Len(parts), NEW whole \in Stream,
           NEW left, Unrolls(left, parts, n, whole, <<>>), NEW rest \in Stream
    PROVE  \E more : Unrolls(more, parts, n, whole \o rest, rest)
<1> DEFINE more == [k \in 0..n |-> left[k] \o rest]
<1>1. /\ left \in [0..n -> Stream] /\ left[0] = whole /\ left[n] = <<>>
      /\ \A k \in 1..n : left[k - 1] = parts[k] \o left[k]
  BY DEF Unrolls
<1>2. n \in Nat /\ n <= Len(parts) /\ \A k \in 1..Len(parts) : parts[k] \in Stream
  OBVIOUS
<1>3. \A k \in 0..n : left[k] \in Stream /\ left[k] \o rest \in Stream
  BY <1>1, Joins
<1>4. more \in [0..n -> Stream]
  BY <1>3
<1>5. more[0] = whole \o rest /\ more[n] = rest
  <2>1. 0 \in 0..n /\ n \in 0..n
    BY <1>2
  <2>2. <<>> \o rest = rest
    BY Joins
  <2> QED
    BY <1>1, <2>1, <2>2
<1>6. ASSUME NEW k \in 1..n PROVE more[k - 1] = parts[k] \o more[k]
  <2>1. k \in 0..n /\ k - 1 \in 0..n /\ k \in 1..Len(parts)
    BY <1>2
  <2>2. more[k - 1] = (parts[k] \o left[k]) \o rest /\ more[k] = left[k] \o rest
    BY <1>1, <2>1
  <2>3. parts[k] \in Stream /\ left[k] \in Stream
    BY <1>2, <1>3, <2>1
  <2>4. (parts[k] \o left[k]) \o rest = parts[k] \o (left[k] \o rest)
    BY <2>3, Associates
  <2> HIDE DEF more
  <2> QED
    BY <2>2, <2>4
<1> HIDE DEF more
<1> QED
  BY <1>4, <1>5, <1>6 DEF Unrolls

\* Streams that are written one after the other come off one after the other.
LEMMA FlattenUnrolls ==
    ASSUME NEW parts \in Seq(Stream), NEW rest \in Stream
    PROVE  /\ FlattenSeq(parts) \in Stream
           /\ \E left : Unrolls(left, parts, Len(parts), FlattenSeq(parts) \o rest, rest)
<1> DEFINE N == Len(parts)
<1>0. N \in Nat /\ \A n \in 1..N : parts[n] \in Stream
  OBVIOUS
<1>1. CASE N = 0
  <2>1. FlattenSeq(parts) = <<>>
    BY <1>1 DEF FlattenSeq
  <2>2. <<>> \in Stream /\ <<>> \o rest = rest
    BY Joins
  <2> DEFINE left == [k \in 0..0 |-> rest]
  <2>3. Unrolls(left, parts, 0, rest, rest)
    BY DEF Unrolls
  <2> HIDE DEF left
  <2> QED
    BY <1>1, <2>1, <2>2, <2>3
<1>2. CASE N # 0
  <2>1. PICK h : Together(h, parts) /\ FlattenSeq(parts) = h[N]
    BY <1>0, <1>2, FlattenSolved
  <2> DEFINE Cut(n) == h[n] \in Stream /\ \E left : Unrolls(left, parts, n, h[n], <<>>)
             S == {n \in 0..N : n = 0 \/ Cut(n)}
  <2>2. 0 \in S
    BY <1>0
  <2>3. ASSUME NEW n \in 1..N, n - 1 \in S PROVE n \in S
    <3>1. CASE n = 1
      <4>1. h[1] = parts[1] /\ parts[1] \in Stream
        BY <1>0, <2>1, <3>1 DEF Together
      <4> DEFINE left == [k \in 0..1 |-> IF k = 0 THEN parts[1] ELSE <<>>]
      <4>2. left[0] = parts[1] /\ left[1] = <<>> /\ left \in [0..1 -> Stream]
        BY <4>1, Joins
      <4>3. parts[1] \o <<>> = parts[1]
        BY <4>1, Joins
      <4> HIDE DEF left
      <4>4. Unrolls(left, parts, 1, h[1], <<>>)
        <5>1. \A k \in 1..1 : k = 1 /\ k - 1 = 0
          OBVIOUS
        <5> QED
          BY <4>1, <4>2, <4>3, <5>1 DEF Unrolls
      <4>5. Cut(1)
        BY <4>1, <4>4
      <4> HIDE DEF Cut
      <4> QED
        BY <3>1, <4>5
    <3>2. CASE n > 1
      <4>1. Cut(n - 1) /\ h[n] = h[n - 1] \o parts[n] /\ parts[n] \in Stream
        <5>1. n \in 2..N /\ n - 1 # 0 /\ n \in 1..N
          BY <3>2
        <5>2. Cut(n - 1)
          <6> HIDE DEF Cut
          <6> QED
            BY <2>3, <5>1
        <5> HIDE DEF Cut
        <5> QED
          BY <1>0, <2>1, <5>1, <5>2 DEF Together
      <4>2. PICK left : Unrolls(left, parts, n - 1, h[n - 1], <<>>)
        BY <4>1
      <4>3. PICK more : Unrolls(more, parts, n - 1, h[n], parts[n])
        BY <4>1, <4>2, UnrollsMore
      <4> DEFINE all == [k \in 0..n |-> IF k = n THEN <<>> ELSE more[k]]
      <4>4. Unrolls(all, parts, n, h[n], <<>>)
        <5>1. /\ more \in [0..(n - 1) -> Stream] /\ more[0] = h[n] /\ more[n - 1] = parts[n]
              /\ \A k \in 1..(n - 1) : more[k - 1] = parts[k] \o more[k]
          BY <4>3 DEF Unrolls
        <5>2. all \in [0..n -> Stream] /\ all[0] = h[n] /\ all[n] = <<>>
          <6>1. \A k \in 0..n : k = n \/ k \in 0..(n - 1)
            OBVIOUS
          <6>2. \A k \in 0..n : all[k] \in Stream
            BY <5>1, <6>1, Joins
          <6>3. all[0] = more[0] /\ all[n] = <<>>
            BY <3>2
          <6>4. all = [k \in 0..n |-> all[k]]
            OBVIOUS
          <6> HIDE DEF all
          <6> QED
            BY <5>1, <6>2, <6>3, <6>4
        <5>3. ASSUME NEW k \in 1..n PROVE all[k - 1] = parts[k] \o all[k]
          <6>1. CASE k = n
            <7>1. all[k - 1] = parts[n] /\ all[k] = <<>>
              BY <5>1, <6>1
            <7>2. parts[n] \o <<>> = parts[n]
              BY <4>1, Joins
            <7> HIDE DEF all
            <7> QED
              BY <6>1, <7>1, <7>2
          <6>2. CASE k # n
            <7>1. all[k - 1] = more[k - 1] /\ all[k] = more[k] /\ k \in 1..(n - 1)
              BY <6>2
            <7> HIDE DEF all
            <7> QED
              BY <5>1, <7>1
          <6> QED
            BY <6>1, <6>2
        <5> HIDE DEF all
        <5> QED
          BY <5>2, <5>3 DEF Unrolls
      <4>5. h[n] \in Stream
        BY <4>1, Joins
      <4> HIDE DEF all
      <4>6. Cut(n)
        BY <4>4, <4>5
      <4> HIDE DEF Cut
      <4> QED
        BY <4>6
    <3> QED
      BY <3>1, <3>2
  <2>4. Cut(N)
    <3> HIDE DEF S, N
    <3>1. Inductive(S, N)
      BY <2>2, <2>3 DEF Inductive
    <3>2. N \in S
      BY <1>0, <3>1, UpTo
    <3> QED
      BY <1>2, <3>2 DEF S
  <2> DEFINE w == h[N]
  <2>5. PICK left : Unrolls(left, parts, N, w, <<>>)
    BY <2>4
  <2>6. w \in Stream /\ N \in Nat
    BY <1>0, <2>4
  <2> QED
    BY <2>1, <2>5, <2>6, UnrollsMore
<1> QED
  BY <1>1, <1>2

\* The three fields of a successful reading.
LEMMA GotIs ==
    ASSUME NEW reading, NEW value, NEW left, reading = Got(value, left)
    PROVE  reading.ok = TRUE /\ reading.value = value /\ reading.rest = left
BY DEF Got

\* A token that is legal is read.
LEMMA FieldReads ==
    ASSUME NEW legal, NEW t \in legal, t \in Int, NEW rest \in Stream
    PROVE  /\ Field(<<t>> \o rest, legal) = Got(t, rest)
           /\ FieldOf(legal)[<<t>> \o rest] = Got(t, rest)
           /\ <<t>> \o rest \in Stream
<1>1. <<t>> \in Seq(Int) /\ <<t>> \o rest \in Stream
  BY DEF Stream
<1> DEFINE in == <<t>> \o rest
<1>2. in # <<>> /\ Head(in) = t /\ Tail(in) = rest
  BY DEF Stream
<1> HIDE DEF in
<1>3. in \in Stream
  BY <1>1 DEF in
<1>4. Field(in, legal) = Got(t, rest)
  BY <1>2 DEF Field
<1>5. FieldOf(legal)[in] = Field(in, legal)
  BY <1>3 DEF FieldOf
<1> QED
  BY <1>3, <1>4, <1>5 DEF in

\* A reader takes a part off, whatever follows it.
ReadsPart(reader, part, value) == \A r \in Stream : reader[part \o r] = Got(value, r)

\* Each reader reads the value of its own part.
EachReads(readers, parts, values) ==
    /\ Len(readers) = Len(values)
    /\ \A n \in 1..Len(values) : ReadsPart(readers[n], parts[n], values[n])

\* Parts that are written one after the other are read by their readers in order.
LEMMA PartsRead ==
    ASSUME NEW V, NEW values \in Seq(V), NEW readers, NEW parts, NEW whole, NEW rest,
           NEW left, Unrolls(left, parts, Len(values), whole, rest),
           EachReads(readers, parts, values)
    PROVE  ReadAll(whole, readers) = Got(values, rest)
<1> DEFINE N == Len(values)
<1>0. N \in Nat
  OBVIOUS
<1>1. /\ left \in [0..N -> Stream] /\ left[0] = whole /\ left[N] = rest
      /\ \A k \in 1..N : left[k - 1] = parts[k] \o left[k]
  BY DEF Unrolls
<1>2. TakesOff(readers, values, left)
  <2>1. ASSUME NEW n \in 1..N PROVE readers[n][left[n - 1]] = Got(values[n], left[n])
    <3>1. left[n] \in Stream
      BY <1>0, <1>1
    <3>2. ReadsPart(readers[n], parts[n], values[n])
      BY DEF EachReads
    <3>3. readers[n][parts[n] \o left[n]] = Got(values[n], left[n])
      BY <3>1, <3>2 DEF ReadsPart
    <3> QED
      BY <1>1, <3>3
  <2>2. Len(readers) = N
    BY DEF EachReads
  <2> HIDE DEF N
  <2> QED
    BY <2>1, <2>2 DEF TakesOff, N
<1>3. ReadAll(left[0], readers) = Got(values, left[Len(values)])
  BY <1>2, ReadAllReads
<1> QED
  BY <1>1, <1>3

\* The same reader for each of the parts.
LEMMA ItemsRead ==
    ASSUME NEW V, NEW values \in Seq(V), NEW parts \in Seq(Stream), Len(parts) = Len(values),
           NEW reader, \A n \in 1..Len(values) : ReadsPart(reader, parts[n], values[n]),
           NEW max, Len(values) \in 0..max, NEW rest \in Stream
    PROVE  Counted(Listed(parts) \o rest, max, reader) = Got(values, rest)
<1> DEFINE N == Len(values)
           whole == FlattenSeq(parts) \o rest
           readers == [i \in 1..N |-> reader]
<1>1. FlattenSeq(parts) \in Stream
      /\ \E left : Unrolls(left, parts, N, whole, rest)
  BY FlattenUnrolls
<1>2. EachReads(readers, parts, values)
  <2>1. Len(readers) = N /\ \A n \in 1..N : readers[n] = reader
    OBVIOUS
  <2> HIDE DEF readers
  <2> QED
    BY <2>1 DEF EachReads
<1>3. ReadAll(whole, readers) = Got(values, rest)
  <2> HIDE DEF whole, readers
  <2> QED
    BY <1>1, <1>2, PartsRead
<1>4. Listed(parts) \o rest = <<N>> \o whole
  <2>1. <<N>> \in Stream
    BY DEF Stream
  <2>2. (<<N>> \o FlattenSeq(parts)) \o rest = <<N>> \o (FlattenSeq(parts) \o rest)
    BY <1>1, <2>1, Associates
  <2> QED
    BY <2>2 DEF Listed
<1>5. Field(<<N>> \o whole, 0..max) = Got(N, whole)
  <2>1. whole \in Stream /\ N \in Int
    BY <1>1, Joins
  <2> HIDE DEF whole
  <2> QED
    BY <2>1, FieldReads
<1>6. Counted(Listed(parts) \o rest, max, reader) = ReadAll(whole, readers)
  <2> HIDE DEF whole
  <2>1. Counted(<<N>> \o whole, max, reader) = ReadAll(whole, readers)
    <3> DEFINE reading == Field(<<N>> \o whole, 0..max)
    <3> HIDE DEF N
    <3>1. reading.ok = TRUE /\ reading.value = N /\ reading.rest = whole
      <4> HIDE DEF reading
      <4>1. reading = Got(N, whole)
        BY <1>5 DEF reading
      <4> QED
        BY <4>1 DEF Got
    <3> QED
      BY <3>1, Zenon DEF Counted, Then
  <2> QED
    BY <1>4, <2>1
<1> QED
  BY <1>3, <1>6

\* Tokens as parts of their own.
LEMMA TokensUnroll ==
    ASSUME NEW tokens \in Stream, NEW rest \in Stream
    PROVE  \E left : Unrolls(left, [i \in 1..Len(tokens) |-> <<tokens[i]>>], Len(tokens),
                             tokens \o rest, rest)
<1> DEFINE N == Len(tokens)
           parts == [i \in 1..N |-> <<tokens[i]>>]
           left == [k \in 0..N |-> SubSeq(tokens, k + 1, N) \o rest]
<1>0. N \in Nat /\ tokens \in Seq(Int) /\ \A k \in 1..N : tokens[k] \in Int
  BY DEF Stream
<1>1. \A k \in 0..N : SubSeq(tokens, k + 1, N) \in Stream
  BY <1>0 DEF Stream
<1>2. left \in [0..N -> Stream]
  BY <1>1, Joins
<1>3. left[0] = tokens \o rest /\ left[N] = rest
  <2>1. SubSeq(tokens, 1, N) = tokens
    BY <1>0, SubSeqFull
  <2>2. SubSeq(tokens, N + 1, N) = <<>>
    BY <1>0
  <2>3. <<>> \o rest = rest
    BY Joins
  <2>4. left[0] = SubSeq(tokens, 1, N) \o rest /\ left[N] = SubSeq(tokens, N + 1, N) \o rest
    BY <1>0
  <2> HIDE DEF left
  <2> QED
    BY <2>1, <2>2, <2>3, <2>4
<1>4. ASSUME NEW k \in 1..N PROVE left[k - 1] = parts[k] \o left[k]
  <2>1. left[k - 1] = SubSeq(tokens, k, N) \o rest /\ left[k] = SubSeq(tokens, k + 1, N) \o rest
    <3>1. k \in 0..N /\ k - 1 \in 0..N /\ (k - 1) + 1 = k
      BY <1>0
    <3> HIDE DEF N
    <3> QED
      BY <3>1
  <2>2. SubSeq(tokens, k, N) = <<tokens[k]>> \o SubSeq(tokens, k + 1, N)
    BY <1>0, SubSeqRecursiveFirst
  <2>3. <<tokens[k]>> \in Stream /\ SubSeq(tokens, k + 1, N) \in Stream
    BY <1>0, <1>1 DEF Stream
  <2>4. (<<tokens[k]>> \o SubSeq(tokens, k + 1, N)) \o rest
            = <<tokens[k]>> \o (SubSeq(tokens, k + 1, N) \o rest)
    BY <2>3, Associates
  <2>5. parts[k] = <<tokens[k]>>
    OBVIOUS
  <2> HIDE DEF left, parts
  <2> QED
    BY <2>1, <2>2, <2>4, <2>5
<1> HIDE DEF left, parts, N
<1>5. Unrolls(left, parts, N, tokens \o rest, rest)
  BY <1>2, <1>3, <1>4 DEF Unrolls
<1> QED
  BY <1>5 DEF parts, N

\* Fields of several sets.
Fit(tokens, legal) ==
    /\ DOMAIN legal = 1..Len(tokens) /\ Len(legal) = Len(tokens)
    /\ \A n \in 1..Len(tokens) : tokens[n] \in legal[n]

\* Tokens that fit their fields are read by them.
LEMMA FieldsRead ==
    ASSUME NEW tokens \in Stream, NEW legal, Fit(tokens, legal), NEW rest \in Stream
    PROVE  Fields(tokens \o rest, legal) = Got(tokens, rest)
<1> DEFINE N == Len(tokens)
           parts == [i \in 1..N |-> <<tokens[i]>>]
           readers == [i \in 1..N |-> FieldOf(legal[i])]
<1>0. N \in Nat /\ tokens \in Seq(Int) /\ \A k \in 1..N : tokens[k] \in Int
  BY DEF Stream
<1>1. PICK left : Unrolls(left, parts, N, tokens \o rest, rest)
  BY TokensUnroll
<1>2. EachReads(readers, parts, tokens)
  <2>1. Len(readers) = N /\ \A n \in 1..N : readers[n] = FieldOf(legal[n])
    BY <1>0
  <2>2. ASSUME NEW n \in 1..N PROVE ReadsPart(readers[n], parts[n], tokens[n])
    <3>1. ASSUME NEW r \in Stream PROVE FieldOf(legal[n])[<<tokens[n]>> \o r] = Got(tokens[n], r)
      <4>1. tokens[n] \in legal[n] /\ tokens[n] \in Int
        BY <1>0 DEF Fit
      <4> QED
        BY <4>1, FieldReads
    <3>2. readers[n] = FieldOf(legal[n]) /\ parts[n] = <<tokens[n]>>
      BY <2>1
    <3> HIDE DEF readers, parts
    <3> QED
      BY <3>1, <3>2 DEF ReadsPart
  <2> HIDE DEF readers, parts
  <2> QED
    BY <2>1, <2>2 DEF EachReads
<1>3. ReadAll(tokens \o rest, readers) = Got(tokens, rest)
  <2> HIDE DEF readers, parts
  <2> QED
    BY <1>0, <1>1, <1>2, PartsRead
<1>4. Fields(tokens \o rest, legal) = ReadAll(tokens \o rest, readers)
  BY DEF Fields, Fit
<1> QED
  BY <1>3, <1>4

\* A counted sequence of fields.
LEMMA ListedFieldsRead ==
    ASSUME NEW legal, legal \subseteq Int, NEW tokens \in Seq(legal),
           NEW max, Len(tokens) \in 0..max, NEW rest \in Stream
    PROVE  Counted(ListedFields(tokens) \o rest, max, FieldOf(legal)) = Got(tokens, rest)
<1> DEFINE N == Len(tokens)
           each == [i \in 1..N |-> legal]
           whole == tokens \o rest
<1>0. N \in Nat /\ tokens \in Stream /\ N \in Int /\ \A i \in 1..N : tokens[i] \in legal
  <2>1. N \in Nat /\ N \in Int /\ \A i \in 1..N : tokens[i] \in legal
    OBVIOUS
  <2>2. tokens = [i \in 1..N |-> tokens[i]] /\ \A i \in 1..N : tokens[i] \in Int
    BY <2>1
  <2>3. tokens \in Seq(Int)
    BY <2>1, <2>2
  <2> QED
    BY <2>1, <2>3 DEF Stream
<1>1. Fit(tokens, each)
  <2>1. DOMAIN each = 1..N /\ Len(each) = N /\ \A i \in 1..N : each[i] = legal
    BY <1>0
  <2> HIDE DEF each
  <2> QED
    BY <1>0, <2>1 DEF Fit
<1>2. Fields(whole, each) = Got(tokens, rest)
  <2> HIDE DEF each
  <2> QED
    BY <1>0, <1>1, FieldsRead
<1>3. Fields(whole, each) = ReadAll(whole, [i \in 1..N |-> FieldOf(legal)])
  <2>1. DOMAIN each = 1..N /\ \A i \in 1..N : each[i] = legal
    OBVIOUS
  <2> HIDE DEF each, whole, N
  <2> QED
    BY <2>1 DEF Fields
<1>4. ListedFields(tokens) \o rest = <<N>> \o whole
  <2>1. <<N>> \in Stream
    BY <1>0 DEF Stream
  <2>2. (<<N>> \o tokens) \o rest = <<N>> \o (tokens \o rest)
    BY <1>0, <2>1, Associates
  <2> QED
    BY <2>2 DEF ListedFields
<1>5. Field(<<N>> \o whole, 0..max) = Got(N, whole)
  <2>1. whole \in Stream
    BY <1>0, Joins
  <2> HIDE DEF whole
  <2> QED
    BY <1>0, <2>1, FieldReads
<1>6. Counted(<<N>> \o whole, max, FieldOf(legal))
          = ReadAll(whole, [i \in 1..N |-> FieldOf(legal)])
  <2> DEFINE reading == Field(<<N>> \o whole, 0..max)
  <2>1. reading.ok = TRUE /\ reading.value = N /\ reading.rest = whole
    BY <1>5, GotIs
  <2> HIDE DEF N, whole
  <2> QED
    BY <2>1, Zenon DEF Counted, Then
<1> QED
  BY <1>2, <1>3, <1>4, <1>6

-----------------------------------------------------------------------------
(* Decode reads back what Encode has written.                              *)

\* A sequence of integers is a stream.
LEMMA StreamOf ==
    ASSUME NEW S, S \subseteq Int, NEW s \in Seq(S)
    PROVE  s \in Stream
<1>1. Len(s) \in Nat /\ s = [i \in 1..Len(s) |-> s[i]] /\ \A i \in 1..Len(s) : s[i] \in Int
  OBVIOUS
<1>2. s \in Seq(Int)
  BY <1>1
<1> QED
  BY <1>2 DEF Stream

\* One token fits one field.
LEMMA Single ==
    ASSUME NEW x, NEW S, x \in S
    PROVE  Fit(<<x>>, <<S>>)
BY DEF Fit

\* Two tokens fit two fields.
LEMMA Double ==
    ASSUME NEW x, NEW y, NEW S, NEW T, x \in S, y \in T
    PROVE  Fit(<<x, y>>, <<S, T>>)
BY DEF Fit

\* A scalar of its kind and its payload.
IsScalarOf(scalar, kind, payload) ==
    /\ kind \in 0..4 /\ payload \in Stream /\ Fit(payload, Payload(kind))
    /\ scalar = <<kind>> \o payload

\* What follows the kind of a scalar, for each kind.
LEMMA PayloadOf ==
    /\ Payload(0) = <<Bit>> /\ Payload(1) = <<(-MaxInteger)..MaxInteger>>
    /\ Payload(2) = <<0..MaxQuantity>> /\ Payload(3) = <<Name, Unsigned>>
    /\ Payload(4) = <<ReadableText>>
<1>1. Payload(0) = <<Bit>>
  BY DEF Payload
<1>2. Payload(1) = <<(-MaxInteger)..MaxInteger>>
  BY DEF Payload
<1>3. Payload(2) = <<0..MaxQuantity>>
  BY DEF Payload
<1>4. Payload(3) = <<Name, Unsigned>>
  BY DEF Payload
<1>5. Payload(4) = <<ReadableText>>
  BY DEF Payload
<1> QED
  BY <1>1, <1>2, <1>3, <1>4, <1>5

\* A scalar of one kind is read back.
LEMMA ScalarParts ==
    ASSUME NEW scalar, NEW kind, NEW payload, IsScalarOf(scalar, kind, payload)
    PROVE  ReadsPart(DecodeScalar, scalar, scalar)
<1>0. /\ kind \in 0..4 /\ payload \in Stream /\ Fit(payload, Payload(kind))
      /\ scalar = <<kind>> \o payload /\ kind \in Int
  BY DEF IsScalarOf
<1>1. ASSUME NEW r \in Stream
      PROVE  DecodeScalar[scalar \o r] = Got(scalar, r)
  <2> DEFINE in == <<kind>> \o (payload \o r)
             reading == Field(in, 0..4)
             fields == Fields(payload \o r, Payload(kind))
  <2>1. <<kind>> \in Stream /\ payload \o r \in Stream
    BY <1>0, Joins DEF Stream
  <2>2. scalar \o r = in
    BY <1>0, <2>1, Associates
  <2>3. reading = Got(kind, payload \o r) /\ in \in Stream
    BY <1>0, <2>1, FieldReads
  <2>4. fields = Got(payload, r)
    BY <1>0, FieldsRead
  <2>5. reading.ok = TRUE /\ reading.value = kind /\ reading.rest = payload \o r
    <3> HIDE DEF reading
    <3> QED
      BY <2>3 DEF Got
  <2>6. fields.ok = TRUE /\ fields.value = payload /\ fields.rest = r
    <3> HIDE DEF fields
    <3> QED
      BY <2>4 DEF Got
  <2> HIDE DEF in
  <2>7. DecodeScalar[in] = Got(<<kind>> \o payload, r)
    BY <2>3, <2>5, <2>6, Zenon DEF DecodeScalar, Then
  <2> QED
    BY <1>0, <2>2, <2>7
<1> QED
  BY <1>1 DEF ReadsPart

\* A scalar that the decoder reads.
LEMMA ScalarReads ==
    ASSUME NEW scalar \in Scalar, ~Unreadable(scalar)
    PROVE  ReadsPart(DecodeScalar, scalar, scalar)
<1>0. Bit \subseteq Int /\ Signed \subseteq Int /\ Unsigned \subseteq Int /\ Name \subseteq Int
  BY Tokens
<1>1. \A x \in Int : <<x>> \in Stream
  BY DEF Stream
<1>2. \A x, y \in Int : <<x, y>> \in Stream
  BY DEF Stream
<1>3. CASE \E x \in Bit : scalar = <<0, x>>
  <2>1. PICK x \in Bit : scalar = <<0, x>>
    BY <1>3
  <2>2. IsScalarOf(scalar, 0, <<x>>)
    BY <1>0, <1>1, <2>1, Single, PayloadOf DEF IsScalarOf
  <2> QED
    BY <2>2, ScalarParts
<1>4. CASE \E x \in Signed : scalar = <<1, x>>
  <2>1. PICK x \in Signed : scalar = <<1, x>>
    BY <1>4
  <2>2. x \in (-MaxInteger)..MaxInteger
    BY <2>1 DEF Unreadable
  <2>3. IsScalarOf(scalar, 1, <<x>>)
    <3>1. Fit(<<x>>, <<(-MaxInteger)..MaxInteger>>)
      BY <2>2, Single
    <3>2. Fit(<<x>>, Payload(1))
      BY <3>1, PayloadOf
    <3> QED
      BY <1>0, <1>1, <2>1, <3>2 DEF IsScalarOf
  <2> QED
    BY <2>3, ScalarParts
<1>5. CASE \E x \in Unsigned : scalar = <<2, x>>
  <2>1. PICK x \in Unsigned : scalar = <<2, x>>
    BY <1>5
  <2>2. x \in 0..MaxQuantity
    BY <2>1, ValuesAssumption, EncodingAssumption DEF Unreadable, Unsigned
  <2>3. IsScalarOf(scalar, 2, <<x>>)
    <3>1. Fit(<<x>>, <<0..MaxQuantity>>)
      BY <2>2, Single
    <3>2. Fit(<<x>>, Payload(2))
      BY <3>1, PayloadOf
    <3> QED
      BY <1>0, <1>1, <2>1, <3>2 DEF IsScalarOf
  <2> QED
    BY <2>3, ScalarParts
<1>6. CASE \E x \in Name, y \in Unsigned : scalar = <<3, x, y>>
  <2>1. PICK x \in Name, y \in Unsigned : scalar = <<3, x, y>>
    BY <1>6
  <2>2. IsScalarOf(scalar, 3, <<x, y>>)
    BY <1>0, <1>2, <2>1, Double, PayloadOf DEF IsScalarOf
  <2> QED
    BY <2>2, ScalarParts
<1>7. CASE \E x \in Unsigned \ {EmptyText} : scalar = <<4, x>>
  <2>1. PICK x \in Unsigned \ {EmptyText} : scalar = <<4, x>>
    BY <1>7
  <2>2. x \in ReadableText
    BY <2>1 DEF Unreadable
  <2>3. IsScalarOf(scalar, 4, <<x>>)
    BY <1>0, <1>1, <2>1, <2>2, Single, PayloadOf DEF IsScalarOf
  <2> QED
    BY <2>3, ScalarParts
<1> QED
  BY <1>3, <1>4, <1>5, <1>6, <1>7, ScalarForms, Zenon

\* A tuple every scalar of which the decoder accepts.
Readable(tuple) == \A i \in DOMAIN tuple : ~Unreadable(tuple[i])

\* The scalars of a tuple are streams.
LEMMA TupleIsStreams ==
    ASSUME NEW t \in Seq(Scalar)
    PROVE  /\ t \in Seq(Stream) /\ \A i \in DOMAIN t : t[i] \in Scalar
           /\ DOMAIN t = 1..Len(t) /\ Len(t) \in Nat
<1>1. Len(t) \in Nat /\ DOMAIN t = 1..Len(t) /\ \A i \in 1..Len(t) : t[i] \in Scalar
  BY SeqFacts
<1>2. \A i \in 1..Len(t) : t[i] \in Stream
  BY <1>1, ScalarIsSequence DEF Stream
<1>3. t \in Seq(Stream)
  <2>1. t = [i \in 1..Len(t) |-> t[i]]
    OBVIOUS
  <2> QED
    BY <1>1, <1>2, <2>1
<1> QED
  BY <1>1, <1>3

\* A readable tuple is read back.
LEMMA TupleReads ==
    ASSUME NEW t \in Seq(Scalar), IsArity(Len(t)), Readable(t)
    PROVE  ReadsPart(DecodeTuple, EncodeTuple(t), t) /\ EncodeTuple(t) \in Stream
<1> DEFINE N == Len(t)
<1>0. /\ t \in Seq(Stream) /\ \A i \in 1..N : t[i] \in Scalar /\ ~Unreadable(t[i])
      /\ N \in Nat /\ N \in 2..MaxArity
  BY TupleIsStreams DEF Readable, IsArity
<1>1. FlattenSeq(t) \in Stream /\ <<N>> \in Stream /\ EncodeTuple(t) = <<N>> \o FlattenSeq(t)
  <2>1. FlattenSeq(t) \in Stream
    <3>1. <<>> \in Stream
      BY DEF Stream
    <3> QED
      BY <1>0, <3>1, FlattenUnrolls
  <2> QED
    BY <1>0, <2>1 DEF EncodeTuple, Listed, Stream
<1>2. \A n \in 1..N : ReadsPart(DecodeScalar, t[n], t[n])
  BY <1>0, ScalarReads
<1>3. ASSUME NEW r \in Stream
      PROVE  DecodeTuple[EncodeTuple(t) \o r] = Got(t, r)
  <2> DEFINE in == EncodeTuple(t) \o r
             reading == Field(in, 2..MaxArity)
  <2>1. in = <<N>> \o (FlattenSeq(t) \o r) /\ FlattenSeq(t) \o r \in Stream
    BY <1>1, Associates, Joins
  <2>2. reading = Got(N, FlattenSeq(t) \o r) /\ in \in Stream
    <3> DEFINE after == FlattenSeq(t) \o r
    <3>1. N \in 2..MaxArity /\ N \in Int /\ after \in Stream
      BY <1>0, <2>1
    <3> HIDE DEF N, after
    <3>2. Field(<<N>> \o after, 2..MaxArity) = Got(N, after) /\ <<N>> \o after \in Stream
      BY <3>1, FieldReads
    <3> QED
      BY <2>1, <3>2 DEF N, after
  <2>3. reading.ok = TRUE
    <3> HIDE DEF reading
    <3> QED
      BY <2>2 DEF Got
  <2>4. Counted(in, MaxArity, DecodeScalar) = Got(t, r)
    <3>1. N \in 0..MaxArity
      BY <1>0
    <3>2. Counted(Listed(t) \o r, MaxArity, DecodeScalar) = Got(t, r)
      BY <1>0, <1>2, <3>1, ItemsRead
    <3> QED
      BY <3>2 DEF EncodeTuple
  <2> HIDE DEF in
  <2>5. DecodeTuple[in] = Counted(in, MaxArity, DecodeScalar)
    BY <2>2, <2>3, Zenon DEF DecodeTuple, Then
  <2> QED
    BY <2>4, <2>5 DEF in
<1> QED
  BY <1>1, <1>3, Joins DEF ReadsPart

\* A readable field of a record is read back.
LEMMA NamedReads ==
    ASSUME NEW f \in NamedScalar, f.name \in Name, ~Unreadable(f.scalar)
    PROVE  ReadsPart(DecodeField, EncodeField(f), f) /\ EncodeField(f) \in Stream
<1>1. f.scalar \in Scalar /\ f = [name |-> f.name, scalar |-> f.scalar]
  BY DEF NamedScalar
<1>2. f.scalar \in Stream /\ <<f.name>> \in Stream /\ f.name \in Int
  BY <1>1, ScalarIsSequence, Tokens DEF Stream
<1>3. f.name \in Unsigned \ {ControlText}
  BY EncodingAssumption DEF Name, ReadableText, Unsigned, ControlText
<1>4. ASSUME NEW r \in Stream
      PROVE  DecodeField[EncodeField(f) \o r] = Got(f, r)
  <2> DEFINE in == EncodeField(f) \o r
             reading == Text(in)
             scalar == DecodeScalar[f.scalar \o r]
  <2>1. in = <<f.name>> \o (f.scalar \o r) /\ f.scalar \o r \in Stream
    <3>1. (<<f.name>> \o f.scalar) \o r = <<f.name>> \o (f.scalar \o r)
      BY <1>2, Associates
    <3>2. f.scalar \o r \in Stream
      BY <1>2, Joins
    <3> QED
      BY <3>1, <3>2 DEF EncodeField
  <2>2. reading = Got(f.name, f.scalar \o r) /\ in \in Stream
    <3> DEFINE after == f.scalar \o r
               n == f.name
    <3>1. n \in Unsigned \ {ControlText} /\ n \in Int /\ after \in Stream
      BY <1>2, <1>3, <2>1
    <3> HIDE DEF n, after
    <3>2. Text(<<n>> \o after) = Got(n, after) /\ <<n>> \o after \in Stream
      BY <3>1, FieldReads DEF Text
    <3> QED
      BY <2>1, <3>2 DEF n, after
  <2>3. scalar = Got(f.scalar, r)
    BY <1>1, ScalarReads DEF ReadsPart
  <2>4. reading.ok = TRUE /\ reading.value = f.name /\ reading.rest = f.scalar \o r
    <3> HIDE DEF reading
    <3> QED
      BY <2>2 DEF Got
  <2>5. scalar.ok = TRUE /\ scalar.value = f.scalar /\ scalar.rest = r
    <3> HIDE DEF scalar
    <3> QED
      BY <2>3 DEF Got
  <2> HIDE DEF in
  <2>6. DecodeField[in] = Got([name |-> f.name, scalar |-> f.scalar], r)
    BY <2>2, <2>4, <2>5, Zenon DEF DecodeField, Then
  <2> QED
    BY <1>1, <2>6 DEF in
<1>5. EncodeField(f) \in Stream
  BY <1>2, Joins DEF EncodeField
<1> QED
  BY <1>4, <1>5 DEF ReadsPart

\* The tag of a kind is its place in the list of kinds.
LEMMA TagOf ==
    ASSUME NEW i \in 1..15
    PROVE  Tag(Kinds[i]) = i - 1
<1>1. DOMAIN Kinds = 1..15 /\ \A j, k \in 1..15 : Kinds[j] = Kinds[k] => j = k
  BY DEF Kinds
<1> DEFINE c == CHOOSE j \in DOMAIN Kinds : Kinds[j] = Kinds[i]
<1>2. c \in 1..15 /\ Kinds[c] = Kinds[i]
  <2> HIDE DEF Kinds
  <2> QED
    BY <1>1
<1>3. c = i
  <2> HIDE DEF c
  <2> QED
    BY <1>1, <1>2
<1>4. Tag(Kinds[i]) = c - 1
  BY Zenon DEF Tag
<1> QED
  BY <1>3, <1>4

\* What follows the tag is read as the value.
ReadsBody(v, body) ==
    /\ Encode(v) = <<Tag(v.kind)>> \o body /\ body \in Stream
    /\ \A r \in Stream : DecodeBody(v.kind, body \o r) = Got(v, r)

\* Decode takes the encoding of the value off.
ReadsBack(v) ==
    /\ Encode(v) \in Stream /\ Head(Encode(v)) = Tag(v.kind)
    /\ \A r \in Stream : Decode(Encode(v) \o r) = Got(v, r)

\* A value whose body reads back reads back: its tag selects the body it was written with.
LEMMA BodyReads ==
    ASSUME NEW v, NEW i \in 1..15, v.kind = Kinds[i], NEW body, ReadsBody(v, body)
    PROVE  ReadsBack(v)
<1>1. /\ Encode(v) = <<i - 1>> \o body /\ body \in Stream
      /\ \A r \in Stream : DecodeBody(v.kind, body \o r) = Got(v, r)
  BY TagOf DEF ReadsBody
<1>2. <<i - 1>> \in Stream /\ i - 1 \in 0..14 /\ i - 1 \in Int /\ Len(Kinds) = 15
  BY DEF Stream, Kinds
<1>3. ASSUME NEW r \in Stream PROVE Decode(Encode(v) \o r) = Got(v, r)
  <2> DEFINE after == body \o r
             in == <<i - 1>> \o after
             tag == i - 1
             reading == Field(<<tag>> \o after, 0..14)
  <2>1. Encode(v) \o r = in /\ after \in Stream
    <3>1. after \in Stream
      BY <1>1, Joins
    <3>2. (<<i - 1>> \o body) \o r = <<i - 1>> \o (body \o r)
      BY <1>1, <1>2, Associates
    <3> QED
      BY <1>1, <3>1, <3>2
  <2>2. reading = Got(i - 1, after)
    <3>1. tag \in 0..14 /\ tag \in Int
      BY <1>2
    <3> HIDE DEF after, tag
    <3>2. reading = Got(tag, after)
      BY <2>1, <3>1, FieldReads
    <3> QED
      BY <3>2 DEF tag
  <2>3. reading.ok = TRUE /\ reading.value = i - 1 /\ reading.rest = after
    <3> HIDE DEF reading
    <3> QED
      BY <2>2 DEF Got
  <2>4. (i - 1) + 1 = i /\ Len(Kinds) - 1 = 14
    BY <1>2
  <2> HIDE DEF after, reading
  <2>5. Decode(in) = DecodeBody(Kinds[(i - 1) + 1], after)
    <3>1. Field(in, 0..(Len(Kinds) - 1)) = reading
      BY <2>4 DEF reading
    <3> QED
      BY <2>3, <3>1, Zenon DEF Decode, Then
  <2>6. Decode(in) = Got(v, r)
    BY <1>1, <2>4, <2>5 DEF after
  <2> QED
    BY <2>1, <2>6
<1>4. Encode(v) \in Stream
  BY <1>1, <1>2, Joins
<1>5. Head(Encode(v)) = Tag(v.kind)
  <2>1. Tag(v.kind) = i - 1
    BY TagOf
  <2> DEFINE tag == i - 1
  <2>2. Head(<<tag>> \o body) = tag
    BY <1>1, <1>2 DEF Stream
  <2> QED
    BY <1>1, <2>1, <2>2
<1> QED
  BY <1>3, <1>4, <1>5 DEF ReadsBack

\* What is used of a value that can be stored.
LEMMA StorableIs ==
    ASSUME NEW v, Storable(v)
    PROVE  /\ Given(v) /\ Canonical(v) /\ Demands(v) /\ ~HasUnreadable(v)
           /\ Construct(v) = Made(TRUE, v) /\ \A r : Result(Construct(v), r) = Got(v, r)
<1>1. Given(v) /\ Construct(v) = Made(TRUE, v) /\ ~HasUnreadable(v)
  BY DEF Storable
<1>2. Construct(v).ok /\ \A r : Result(Construct(v), r) = Got(v, r)
  BY <1>1 DEF Made, Result
<1>3. PICK w : Stays(v, w)
  BY <1>1, <1>2, ConstructStays
<1>4. Made(TRUE, v).value = v /\ Made(TRUE, w).value = w
  BY DEF Made
<1>5. v = w /\ Canonical(w)
  BY <1>1, <1>3, <1>4 DEF Stays
<1> QED
  BY <1>1, <1>2, <1>5, ConstructDemands

\* Values of a fixed number of fields.
LEMMA Triple ==
    ASSUME NEW x, NEW y, NEW z, NEW S, NEW T, NEW U, x \in S, y \in T, z \in U
    PROVE  Fit(<<x, y, z>>, <<S, T, U>>)
BY DEF Fit

\* The parts of a successful reading of fields.
LEMMA Flat ==
    ASSUME NEW in, NEW legal, NEW f, NEW left, Fields(in, legal) = Got(f, left)
    PROVE  /\ Fields(in, legal).ok = TRUE
           /\ Fields(in, legal).value = f /\ Fields(in, legal).rest = left
BY DEF Got

\* A Boolean that can be stored is read back.
LEMMA BooleanReads ==
    ASSUME NEW v, Storable(v), v.kind = "Boolean"
    PROVE  ReadsBack(v)
<1> DEFINE body == <<Flag(v.boolean)>>
<1>1. v \in [kind : {"Boolean"}, boolean : BOOLEAN]
  BY StorableIs, Zenon DEF Given
<1>2. Flag(v.boolean) \in Bit /\ Flag(v.boolean) \in Int
  BY <1>1, Tokens, ValuesAssumption, EncodingAssumption DEF Unsigned, QuantityUnit, Bit, Flag
<1>3. body \in Stream /\ Fit(body, <<Bit>>)
  <2>1. Fit(body, <<Bit>>)
    BY <1>2, Single
  <2>2. body \in Stream
    BY <1>2 DEF Stream
  <2> QED
    BY <2>1, <2>2
<1>4. Encode(v) = <<Tag(v.kind)>> \o body
  BY Zenon DEF Encode
<1>5. ASSUME NEW r \in Stream PROVE DecodeBody(v.kind, body \o r) = Got(v, r)
  <2>1. Fields(body \o r, <<Bit>>) = Got(body, r)
    BY <1>3, FieldsRead
  <2> DEFINE reading == Fields(body \o r, <<Bit>>)
  <2>2. reading.ok = TRUE /\ reading.value = body /\ reading.rest = r
    BY <2>1, Flat
  <2> DEFINE given == [kind |-> "Boolean", boolean |-> reading.value[1] = 1]
  <2>3. DecodeBody("Boolean", body \o r) = Result(Construct(given), reading.rest)
    <3> HIDE DEF body
    <3> QED
      BY <2>2, Zenon DEF DecodeBody, DecodeFlat, Then
  <2> HIDE DEF reading
  <2>4. given = v
    BY <1>1, <2>2 DEF Flag
  <2> HIDE DEF given, body
  <2> QED
    BY <2>2, <2>3, <2>4, StorableIs
<1>6. ReadsBody(v, body)
  BY <1>3, <1>4, <1>5 DEF ReadsBody
<1>7. 2 \in 1..15 /\ Kinds[2] = "Boolean"
  BY DEF Kinds
<1> QED
  BY <1>6, <1>7, BodyReads

\* An integer that can be stored is read back.
LEMMA IntegerReads ==
    ASSUME NEW v, Storable(v), v.kind = "Integer"
    PROVE  ReadsBack(v)
<1> DEFINE body == <<v.integer>>
<1>1. v \in [kind : {"Integer"}, integer : Signed]
  BY StorableIs, Zenon DEF Given
<1>8. v.integer \in (-MaxInteger)..MaxInteger
  BY StorableIs, Zenon DEF HasUnreadable
<1>2. v.integer \in (-MaxInteger)..MaxInteger /\ v.integer \in Int
  BY <1>1, <1>8, Tokens, ValuesAssumption, EncodingAssumption DEF Unsigned, QuantityUnit, Bit, Flag
<1>3. body \in Stream /\ Fit(body, <<(-MaxInteger)..MaxInteger>>)
  <2>1. Fit(body, <<(-MaxInteger)..MaxInteger>>)
    BY <1>2, Single
  <2>2. body \in Stream
    BY <1>2 DEF Stream
  <2> QED
    BY <2>1, <2>2
<1>4. Encode(v) = <<Tag(v.kind)>> \o body
  BY Zenon DEF Encode
<1>5. ASSUME NEW r \in Stream PROVE DecodeBody(v.kind, body \o r) = Got(v, r)
  <2>1. Fields(body \o r, <<(-MaxInteger)..MaxInteger>>) = Got(body, r)
    BY <1>3, FieldsRead
  <2>2. DecodeBody("Integer", body \o r)
            = Result(Construct([kind |-> "Integer", integer |-> body[1]]), r)
    <3> HIDE DEF body
    <3> QED
      BY <2>1, Flat, Zenon DEF DecodeBody, DecodeFlat, Then
  <2>3. [kind |-> "Integer", integer |-> body[1]] = v
    BY <1>1
  <2> QED
    BY <2>2, <2>3, StorableIs
<1>6. ReadsBody(v, body)
  BY <1>3, <1>4, <1>5 DEF ReadsBody
<1>7. 3 \in 1..15 /\ Kinds[3] = "Integer"
  BY DEF Kinds
<1> QED
  BY <1>6, <1>7, BodyReads

\* A quantity that can be stored is read back.
LEMMA QuantityReads ==
    ASSUME NEW v, Storable(v), v.kind = "Quantity"
    PROVE  ReadsBack(v)
<1> DEFINE body == <<v.quantity, v.unit>>
<1>1. v \in [kind : {"Quantity"}, quantity : Nat, unit : Nat]
  BY StorableIs, Zenon DEF Given
<1>8. v.unit \in QuantityUnit /\ v.quantity <= MaxQuantity
  BY StorableIs, Zenon DEF Demands
<1>2. /\ v.quantity \in Unsigned /\ v.quantity \in Int
      /\ v.unit \in 0..MaxUnit /\ v.unit \in Int
  BY <1>1, <1>8, Tokens, ValuesAssumption, EncodingAssumption DEF Unsigned, QuantityUnit, Bit, Flag
<1>3. body \in Stream /\ Fit(body, <<Unsigned, 0..MaxUnit>>)
  <2>1. Fit(body, <<Unsigned, 0..MaxUnit>>)
    BY <1>2, Double
  <2>2. body \in Stream
    BY <1>2 DEF Stream
  <2> QED
    BY <2>1, <2>2
<1>4. Encode(v) = <<Tag(v.kind)>> \o body
  BY Zenon DEF Encode
<1>5. ASSUME NEW r \in Stream PROVE DecodeBody(v.kind, body \o r) = Got(v, r)
  <2>1. Fields(body \o r, <<Unsigned, 0..MaxUnit>>) = Got(body, r)
    BY <1>3, FieldsRead
  <2>2. DecodeBody("Quantity", body \o r)
            = Result(Construct([kind |-> "Quantity", quantity |-> body[1], unit |-> body[2]]), r)
    <3> HIDE DEF body
    <3> QED
      BY <2>1, Flat, Zenon DEF DecodeBody, DecodeFlat, Then
  <2>3. [kind |-> "Quantity", quantity |-> body[1], unit |-> body[2]] = v
    BY <1>1
  <2> QED
    BY <2>2, <2>3, StorableIs
<1>6. ReadsBody(v, body)
  BY <1>3, <1>4, <1>5 DEF ReadsBody
<1>7. 4 \in 1..15 /\ Kinds[4] = "Quantity"
  BY DEF Kinds
<1> QED
  BY <1>6, <1>7, BodyReads

\* An enumerator that can be stored is read back.
LEMMA EnumerationReads ==
    ASSUME NEW v, Storable(v), v.kind = "Enumeration"
    PROVE  ReadsBack(v)
<1> DEFINE body == <<v.domain, v.code>>
<1>1. v \in [kind : {"Enumeration"}, domain : Unsigned, code : Unsigned]
  BY StorableIs, Zenon DEF Given
<1>8. v.domain \in Name
  BY StorableIs, Zenon DEF Demands
<1>2. /\ v.domain \in Name /\ v.domain \in Int
      /\ v.code \in Unsigned /\ v.code \in Int
  BY <1>1, <1>8, Tokens, ValuesAssumption, EncodingAssumption DEF Unsigned, QuantityUnit, Bit, Flag
<1>3. body \in Stream /\ Fit(body, <<Name, Unsigned>>)
  <2>1. Fit(body, <<Name, Unsigned>>)
    BY <1>2, Double
  <2>2. body \in Stream
    BY <1>2 DEF Stream
  <2> QED
    BY <2>1, <2>2
<1>4. Encode(v) = <<Tag(v.kind)>> \o body
  BY Zenon DEF Encode
<1>5. ASSUME NEW r \in Stream PROVE DecodeBody(v.kind, body \o r) = Got(v, r)
  <2>1. Fields(body \o r, <<Name, Unsigned>>) = Got(body, r)
    BY <1>3, FieldsRead
  <2>2. DecodeBody("Enumeration", body \o r)
            = Result(Construct([kind |-> "Enumeration", domain |-> body[1], code |-> body[2]]), r)
    <3> HIDE DEF body
    <3> QED
      BY <2>1, Flat, Zenon DEF DecodeBody, DecodeFlat, Then
  <2>3. [kind |-> "Enumeration", domain |-> body[1], code |-> body[2]] = v
    BY <1>1
  <2> QED
    BY <2>2, <2>3, StorableIs
<1>6. ReadsBody(v, body)
  BY <1>3, <1>4, <1>5 DEF ReadsBody
<1>7. 5 \in 1..15 /\ Kinds[5] = "Enumeration"
  BY DEF Kinds
<1> QED
  BY <1>6, <1>7, BodyReads

\* A numeric range that can be stored is read back.
LEMMA NumericRangeReads ==
    ASSUME NEW v, Storable(v), v.kind = "NumericRange"
    PROVE  ReadsBack(v)
<1> DEFINE body == <<v.unit, v.minimum, v.maximum>>
<1>1. v \in [kind : {"NumericRange"}, unit : Nat, minimum : Nat, maximum : Nat]
  BY StorableIs, Zenon DEF Given
<1>8. /\ v.unit \in QuantityUnit /\ v.minimum <= v.maximum
      /\ v.maximum <= MaxQuantity
  BY StorableIs, Zenon DEF Demands
<1>2. /\ v.unit \in 0..MaxUnit /\ v.unit \in Int
      /\ v.minimum \in Unsigned /\ v.minimum \in Int
      /\ v.maximum \in Unsigned /\ v.maximum \in Int
  BY <1>1, <1>8, Tokens, ValuesAssumption, EncodingAssumption DEF Unsigned, QuantityUnit, Bit, Flag
<1>3. body \in Stream /\ Fit(body, <<0..MaxUnit, Unsigned, Unsigned>>)
  <2>1. Fit(body, <<0..MaxUnit, Unsigned, Unsigned>>)
    BY <1>2, Triple
  <2>2. body \in Stream
    BY <1>2 DEF Stream
  <2> QED
    BY <2>1, <2>2
<1>4. Encode(v) = <<Tag(v.kind)>> \o body
  BY Zenon DEF Encode
<1>5. ASSUME NEW r \in Stream PROVE DecodeBody(v.kind, body \o r) = Got(v, r)
  <2>1. Fields(body \o r, <<0..MaxUnit, Unsigned, Unsigned>>) = Got(body, r)
    BY <1>3, FieldsRead
  <2>2. DecodeBody("NumericRange", body \o r)
            = Result(Construct([kind |-> "NumericRange", unit |-> body[1], minimum |-> body[2],
                                 maximum |-> body[3]]), r)
    <3> HIDE DEF body
    <3> QED
      BY <2>1, Flat, Zenon DEF DecodeBody, DecodeFlat, Then
  <2>3. [kind |-> "NumericRange", unit |-> body[1], minimum |-> body[2],
                                 maximum |-> body[3]] = v
    BY <1>1
  <2> QED
    BY <2>2, <2>3, StorableIs
<1>6. ReadsBody(v, body)
  BY <1>3, <1>4, <1>5 DEF ReadsBody
<1>7. 8 \in 1..15 /\ Kinds[8] = "NumericRange"
  BY DEF Kinds
<1> QED
  BY <1>6, <1>7, BodyReads

\* An opaque text that can be stored is read back.
LEMMA OpaqueReads ==
    ASSUME NEW v, Storable(v), v.kind = "Opaque"
    PROVE  ReadsBack(v)
<1> DEFINE body == <<v.encoding, v.payload>>
<1>1. v \in [kind : {"Opaque"}, encoding : Unsigned, payload : Unsigned]
  BY StorableIs, Zenon DEF Given
<1>8. v.encoding \in Name
  BY StorableIs, Zenon DEF Demands
<1>2. /\ v.encoding \in Name /\ v.encoding \in Int
      /\ v.payload \in Unsigned /\ v.payload \in Int
  BY <1>1, <1>8, Tokens, ValuesAssumption, EncodingAssumption DEF Unsigned, QuantityUnit, Bit, Flag
<1>3. body \in Stream /\ Fit(body, <<Name, Unsigned>>)
  <2>1. Fit(body, <<Name, Unsigned>>)
    BY <1>2, Double
  <2>2. body \in Stream
    BY <1>2 DEF Stream
  <2> QED
    BY <2>1, <2>2
<1>4. Encode(v) = <<Tag(v.kind)>> \o body
  BY Zenon DEF Encode
<1>5. ASSUME NEW r \in Stream PROVE DecodeBody(v.kind, body \o r) = Got(v, r)
  <2>1. Fields(body \o r, <<Name, Unsigned>>) = Got(body, r)
    BY <1>3, FieldsRead
  <2>2. DecodeBody("Opaque", body \o r)
            = Result(Construct([kind |-> "Opaque", encoding |-> body[1], payload |-> body[2]]), r)
    <3> HIDE DEF body
    <3> QED
      BY <2>1, Flat, Zenon DEF DecodeBody, DecodeFlat, Then
  <2>3. [kind |-> "Opaque", encoding |-> body[1], payload |-> body[2]] = v
    BY <1>1
  <2> QED
    BY <2>2, <2>3, StorableIs
<1>6. ReadsBody(v, body)
  BY <1>3, <1>4, <1>5 DEF ReadsBody
<1>7. 14 \in 1..15 /\ Kinds[14] = "Opaque"
  BY DEF Kinds
<1> QED
  BY <1>6, <1>7, BodyReads

\* A sequence all of whose items are in T is a sequence over T.
LEMMA SeqInto ==
    ASSUME NEW S, NEW s \in Seq(S), NEW T, \A i \in DOMAIN s : s[i] \in T
    PROVE  s \in Seq(T)
<1>1. Len(s) \in Nat /\ s = [i \in 1..Len(s) |-> s[i]] /\ DOMAIN s = 1..Len(s)
  OBVIOUS
<1> QED
  BY <1>1

\* An absent value that can be stored is read back.
LEMMA AbsentReads ==
    ASSUME NEW v, Storable(v), v.kind = "Absent"
    PROVE  ReadsBack(v)
<1>1. v \in [kind : {"Absent"}]
  BY StorableIs, Zenon DEF Given
<1>2. v = [kind |-> "Absent"]
  BY <1>1
<1>3. <<>> \in Stream /\ Encode(v) = <<Tag(v.kind)>> \o <<>>
  <2>1. Encode(v) = <<Tag(v.kind)>> \o <<>>
    BY Zenon DEF Encode
  <2> QED
    BY <2>1 DEF Stream
<1>4. ASSUME NEW r \in Stream PROVE DecodeBody(v.kind, <<>> \o r) = Got(v, r)
  <2>1. <<>> \o r = r
    BY Joins
  <2>2. DecodeBody("Absent", r) = Got([kind |-> "Absent"], r)
    BY Zenon DEF DecodeBody
  <2> QED
    BY <1>2, <2>1, <2>2
<1>5. ReadsBody(v, <<>>)
  BY <1>3, <1>4 DEF ReadsBody
<1>6. 1 \in 1..15 /\ Kinds[1] = "Absent"
  BY DEF Kinds
<1> QED
  BY <1>5, <1>6, BodyReads

\* A list of unsigned tokens is read back.
LEMMA AnyFieldsRead ==
    ASSUME NEW tokens \in Seq(Unsigned), NEW max, Len(tokens) \in 0..max, NEW rest \in Stream
    PROVE  /\ Counted(ListedFields(tokens) \o rest, max, AnyField) = Got(tokens, rest)
           /\ ListedFields(tokens) \in Stream /\ tokens \in Stream
<1>1. Unsigned \subseteq Int
  BY Tokens
<1>2. Counted(ListedFields(tokens) \o rest, max, FieldOf(Unsigned)) = Got(tokens, rest)
  BY <1>1, ListedFieldsRead
<1>3. tokens \in Stream /\ <<Len(tokens)>> \in Stream
  <2>1. tokens \in Stream
    BY <1>1, StreamOf
  <2>2. Len(tokens) \in Int
    OBVIOUS
  <2> QED
    BY <2>1, <2>2 DEF Stream
<1>4. ListedFields(tokens) \in Stream
  BY <1>3, Joins DEF ListedFields
<1> QED
  BY <1>2, <1>3, <1>4 DEF AnyField

\* A protocol set that can be stored is read back.
LEMMA ProtocolSetReads ==
    ASSUME NEW v, Storable(v), v.kind = "ProtocolSet"
    PROVE  ReadsBack(v)
<1> DEFINE m == v.members
           body == ListedFields(m)
<1>1. v \in [kind : {"ProtocolSet"}, members : Seq(Nat)]
  BY StorableIs, Zenon DEF Given
<1>2. Sized(m, MaxProtocols) /\ \A i \in DOMAIN m : m[i] \in 1..MaxProtocol
  BY StorableIs, Zenon DEF Demands
<1>3. m \in Seq(Unsigned) /\ Len(m) \in 0..MaxProtocols
  <2>1. \A i \in DOMAIN m : m[i] \in Unsigned
    BY <1>2, ValuesAssumption, EncodingAssumption DEF Unsigned
  <2>2. m \in Seq(Nat)
    BY <1>1
  <2> HIDE DEF m
  <2> QED
    BY <1>2, <2>1, <2>2, SeqInto DEF Sized
<1>4. body \in Stream
  <2>1. <<>> \in Stream
    BY DEF Stream
  <2> QED
    BY <1>3, <2>1, AnyFieldsRead
<1>5. Encode(v) = <<Tag(v.kind)>> \o body
  BY Zenon DEF Encode
<1>6. ASSUME NEW r \in Stream PROVE DecodeBody(v.kind, body \o r) = Got(v, r)
  <2> DEFINE reading == Counted(body \o r, MaxProtocols, AnyField)
  <2>1. reading = Got(m, r)
    BY <1>3, AnyFieldsRead
  <2>2. reading.ok = TRUE /\ reading.value = m /\ reading.rest = r
    <3> HIDE DEF reading
    <3> QED
      BY <2>1 DEF Got
  <2>3. DecodeBody("ProtocolSet", body \o r)
            = Result(Construct([kind |-> "ProtocolSet", members |-> m]), r)
    <3> HIDE DEF body, m
    <3> QED
      BY <2>2, Zenon DEF DecodeBody, DecodeMembers, Then
  <2>4. [kind |-> "ProtocolSet", members |-> m] = v
    BY <1>1
  <2> HIDE DEF body, m
  <2> QED
    BY <2>3, <2>4, StorableIs
<1>7. ReadsBody(v, body)
  BY <1>4, <1>5, <1>6 DEF ReadsBody
<1>8. 10 \in 1..15 /\ Kinds[10] = "ProtocolSet"
  BY DEF Kinds
<1> QED
  BY <1>7, <1>8, BodyReads

\* One field before the rest of the body.
LEMMA Heading ==
    ASSUME NEW t \in Int, NEW legal, t \in legal, NEW body \in Stream, NEW r \in Stream
    PROVE  /\ (<<t>> \o body) \o r = <<t>> \o (body \o r)
           /\ Field(<<t>> \o (body \o r), legal) = Got(t, body \o r)
           /\ <<t>> \o body \in Stream
<1>1. <<t>> \in Stream /\ body \o r \in Stream
  BY Joins DEF Stream
<1>2. (<<t>> \o body) \o r = <<t>> \o (body \o r) /\ <<t>> \o body \in Stream
  BY <1>1, Associates, Joins
<1> DEFINE after == body \o r
<1>3. Field(<<t>> \o after, legal) = Got(t, after)
  <2> HIDE DEF after
  <2> QED
    BY <1>1, FieldReads DEF after
<1> QED
  BY <1>2, <1>3

\* An enumeration set that can be stored is read back.
LEMMA EnumSetReads ==
    ASSUME NEW v, Storable(v), v.kind = "EnumSet"
    PROVE  ReadsBack(v)
<1> DEFINE m == v.members
           d == v.domain
           items == ListedFields(m)
           body == <<d>> \o items
<1>1. v \in [kind : {"EnumSet"}, domain : Unsigned, members : Seq(Unsigned)]
  BY StorableIs, Zenon DEF Given
<1>2. d \in Name /\ Sized(m, MaxCardinality)
  BY StorableIs, Zenon DEF Demands
<1>3. m \in Seq(Unsigned) /\ Len(m) \in 0..MaxCardinality /\ d \in Int
  <2>1. m \in Seq(Unsigned) /\ d \in Unsigned
    BY <1>1
  <2>2. d \in Int
    BY <2>1, Tokens
  <2> HIDE DEF m, d
  <2> QED
    BY <1>2, <2>1, <2>2 DEF Sized
<1>4. items \in Stream
  <2>1. <<>> \in Stream
    BY DEF Stream
  <2> QED
    BY <1>3, <2>1, AnyFieldsRead
<1>5. Encode(v) = <<Tag(v.kind)>> \o body
  BY Zenon DEF Encode
<1>6. ASSUME NEW r \in Stream PROVE DecodeBody(v.kind, body \o r) = Got(v, r)
  <2> DEFINE in == <<d>> \o (items \o r)
             first == Field(in, Name)
             reading == Counted(items \o r, MaxCardinality, AnyField)
  <2>1. reading = Got(m, r)
    BY <1>3, AnyFieldsRead
  <2>2. reading.ok = TRUE /\ reading.value = m /\ reading.rest = r
    <3> HIDE DEF reading
    <3> QED
      BY <2>1 DEF Got
  <2>3. body \o r = in /\ first.ok = TRUE /\ first.value = d /\ first.rest = items \o r
    <3>1. d \in Int /\ d \in Name /\ items \in Stream
      BY <1>2, <1>3, <1>4
    <3> HIDE DEF d, items, m
    <3>2. body \o r = in
      BY <3>1, Heading
    <3>3. first = Got(d, items \o r)
      BY <3>1, Heading
    <3> HIDE DEF body, in, first
    <3> QED
      BY <3>2, <3>3 DEF Got
  <2>4. DecodeBody("EnumSet", in)
            = Result(Construct([kind |-> "EnumSet", domain |-> d, members |-> m]), r)
    <3> HIDE DEF in, items, m, d
    <3> QED
      BY <2>2, <2>3, Zenon DEF DecodeBody, Then
  <2>5. [kind |-> "EnumSet", domain |-> d, members |-> m] = v
    BY <1>1
  <2> HIDE DEF body, in, m, d
  <2> QED
    BY <2>3, <2>4, <2>5, StorableIs
<1>7. ReadsBody(v, body)
  <2>1. body \in Stream
    <3> HIDE DEF d, items
    <3> QED
      BY <1>2, <1>3, <1>4, Heading
  <2> QED
    BY <2>1, <1>5, <1>6 DEF ReadsBody
<1>8. 15 \in 1..15 /\ Kinds[15] = "EnumSet"
  BY DEF Kinds
<1> QED
  BY <1>7, <1>8, BodyReads

\* A numeric set that can be stored is read back.
LEMMA NumericSetReads ==
    ASSUME NEW v, Storable(v), v.kind = "NumericSet"
    PROVE  ReadsBack(v)
<1> DEFINE m == v.members
           u == v.unit
           items == ListedFields(m)
           body == <<u>> \o items
<1>1. v \in [kind : {"NumericSet"}, unit : Nat, members : Seq(Nat)]
  BY StorableIs, Zenon DEF Given
<1>2. /\ u \in QuantityUnit /\ Sized(m, MaxCardinality)
      /\ \A i \in DOMAIN m : m[i] <= MaxQuantity
  BY StorableIs, Zenon DEF Demands
<1>3. m \in Seq(Unsigned) /\ Len(m) \in 0..MaxCardinality /\ u \in 0..MaxUnit /\ u \in Int
  <2>1. \A i \in DOMAIN m : m[i] \in Nat
    BY <1>1
  <2>2. \A i \in DOMAIN m : m[i] \in Unsigned
    BY <1>2, <2>1, ValuesAssumption, EncodingAssumption DEF Unsigned
  <2>3. m \in Seq(Nat) /\ u \in Nat
    BY <1>1
  <2>4. u \in 0..MaxUnit /\ u \in Int
    BY <1>2, <2>3 DEF QuantityUnit
  <2> HIDE DEF m
  <2> QED
    BY <1>2, <2>2, <2>3, <2>4, SeqInto DEF Sized
<1>4. items \in Stream
  <2>1. <<>> \in Stream
    BY DEF Stream
  <2> QED
    BY <1>3, <2>1, AnyFieldsRead
<1>5. Encode(v) = <<Tag(v.kind)>> \o body
  BY Zenon DEF Encode
<1>6. ASSUME NEW r \in Stream PROVE DecodeBody(v.kind, body \o r) = Got(v, r)
  <2> DEFINE in == <<u>> \o (items \o r)
             L == 0..MaxUnit
             first == Field(in, L)
             reading == Counted(items \o r, MaxCardinality, AnyField)
             given == [kind |-> "NumericSet", unit |-> u, members |-> m]
  <2>1. reading = Got(m, r)
    BY <1>3, AnyFieldsRead
  <2>2. reading.ok = TRUE /\ reading.value = m /\ reading.rest = r
    <3> HIDE DEF reading
    <3> QED
      BY <2>1 DEF Got
  <2>3. body \o r = in /\ first.ok = TRUE /\ first.value = u /\ first.rest = items \o r
    <3>1. u \in Int /\ u \in L /\ items \in Stream
      BY <1>2, <1>3, <1>4
    <3> HIDE DEF u, items, m, L
    <3>2. body \o r = in
      BY <3>1, Heading
    <3>3. first = Got(u, items \o r)
      BY <3>1, Heading
    <3> HIDE DEF body, in, first
    <3> QED
      BY <3>2, <3>3 DEF Got
  <2>4. DecodeBody("NumericSet", in) = Result(If(StrictlySorted(given), Construct(given)), r)
    <3>1. DecodeBody("NumericSet", in) = DecodeNumericSet(in)
      BY Zenon DEF DecodeBody
    <3>2. DecodeNumericSet(in) = Result(If(StrictlySorted(given), Construct(given)), r)
      <4> HIDE DEF in, items, m, u
      <4> QED
        BY <2>2, <2>3, Zenon DEF DecodeNumericSet, Then
    <3> QED
      BY <3>1, <3>2
  <2>5. given = v
    BY <1>1
  <2>6. StrictlySorted(v)
    BY StorableIs, Zenon DEF Canonical
  <2> HIDE DEF body, in, given
  <2>7. If(StrictlySorted(given), Construct(given)) = Construct(v)
    BY <2>5, <2>6 DEF If
  <2> QED
    BY <2>3, <2>4, <2>7, StorableIs
<1>7. ReadsBody(v, body)
  <2>1. body \in Stream
    <3> HIDE DEF u, items
    <3> QED
      BY <1>2, <1>3, <1>4, Heading
  <2> QED
    BY <2>1, <1>5, <1>6 DEF ReadsBody
<1>8. 7 \in 1..15 /\ Kinds[7] = "NumericSet"
  BY DEF Kinds
<1> QED
  BY <1>7, <1>8, BodyReads

\* A tuple that can be stored is read back.
LEMMA TupleValueReads ==
    ASSUME NEW v, Storable(v), v.kind = "Tuple"
    PROVE  ReadsBack(v)
<1> DEFINE t == v.elements
           body == EncodeTuple(t)
<1>1. v \in [kind : {"Tuple"}, elements : Seq(Scalar)]
  BY StorableIs, Zenon DEF Given
<1>2. IsArity(Len(t))
  BY StorableIs, Zenon DEF Demands
<1>3. Readable(t)
  BY StorableIs, Zenon DEF HasUnreadable, Readable
<1>4. ReadsPart(DecodeTuple, body, t) /\ body \in Stream
  <2>1. t \in Seq(Scalar)
    BY <1>1
  <2> HIDE DEF t
  <2> QED
    BY <1>2, <1>3, <2>1, TupleReads
<1>5. Encode(v) = <<Tag(v.kind)>> \o body
  BY Zenon DEF Encode
<1>6. ASSUME NEW r \in Stream PROVE DecodeBody(v.kind, body \o r) = Got(v, r)
  <2> DEFINE reading == DecodeTuple[body \o r]
  <2>1. reading = Got(t, r)
    BY <1>4 DEF ReadsPart
  <2>2. reading.ok = TRUE /\ reading.value = t /\ reading.rest = r
    <3> HIDE DEF reading
    <3> QED
      BY <2>1 DEF Got
  <2>3. DecodeBody("Tuple", body \o r)
            = Result(Construct([kind |-> "Tuple", elements |-> t]), r)
    <3> HIDE DEF body, t
    <3> QED
      BY <2>2, Zenon DEF DecodeBody, Then
  <2>4. [kind |-> "Tuple", elements |-> t] = v
    BY <1>1
  <2> HIDE DEF body, t
  <2> QED
    BY <2>3, <2>4, StorableIs
<1>7. ReadsBody(v, body)
  BY <1>4, <1>5, <1>6 DEF ReadsBody
<1>8. 11 \in 1..15 /\ Kinds[11] = "Tuple"
  BY DEF Kinds
<1> QED
  BY <1>7, <1>8, BodyReads

\* Members that are encoded one after the other.
LEMMA MembersRead ==
    ASSUME NEW V, NEW m \in Seq(V), NEW reader, NEW parts, parts = [i \in DOMAIN m |-> parts[i]],
           \A i \in DOMAIN m : ReadsPart(reader, parts[i], m[i]) /\ parts[i] \in Stream,
           NEW max, Sized(m, max), NEW r \in Stream
    PROVE  Counted(Listed(parts) \o r, max, reader) = Got(m, r) /\ Listed(parts) \in Stream
<1>1. Len(m) \in Nat /\ DOMAIN m = 1..Len(m)
  BY SeqFacts
<1>2. parts \in Seq(Stream) /\ Len(parts) = Len(m)
  <2>1. parts = [i \in 1..Len(m) |-> parts[i]] /\ \A i \in 1..Len(m) : parts[i] \in Stream
    BY <1>1
  <2> QED
    BY <1>1, <2>1
<1>3. \A n \in 1..Len(m) : ReadsPart(reader, parts[n], m[n])
  BY <1>1
<1>4. Len(m) \in 0..max
  BY DEF Sized
<1>5. Counted(Listed(parts) \o r, max, reader) = Got(m, r)
  BY <1>2, <1>3, <1>4, ItemsRead
<1>6. FlattenSeq(parts) \in Stream /\ <<Len(parts)>> \in Stream
  <2>1. FlattenSeq(parts) \in Stream
    BY <1>2, FlattenUnrolls
  <2>2. Len(parts) \in Int
    BY <1>1, <1>2
  <2> QED
    BY <2>1, <2>2 DEF Stream
<1> QED
  BY <1>5, <1>6, Joins DEF Listed

\* A tuple set that can be stored is read back.
LEMMA TupleSetReads ==
    ASSUME NEW v, Storable(v), v.kind = "TupleSet"
    PROVE  ReadsBack(v)
<1> DEFINE m == v.members
           parts == [i \in DOMAIN m |-> EncodeTuple(m[i])]
           body == Listed(parts)
<1>1. v \in [kind : {"TupleSet"}, members : Seq(Seq(Scalar))]
  BY StorableIs, Zenon DEF Given
<1>2. Sized(m, MaxTuples) /\ OneArity(m) /\ IsArity(Len(m[1]))
  BY StorableIs, Zenon DEF Demands
<1>3. \A i \in DOMAIN m : Readable(m[i])
  BY StorableIs, Zenon DEF HasUnreadable, Readable
<1>4. m \in Seq(Seq(Scalar))
  BY <1>1
<1>5. \A i \in DOMAIN m : ReadsPart(DecodeTuple, parts[i], m[i]) /\ parts[i] \in Stream
  <2>1. ASSUME NEW i \in DOMAIN m
        PROVE  ReadsPart(DecodeTuple, EncodeTuple(m[i]), m[i]) /\ EncodeTuple(m[i]) \in Stream
    <3>1. m[i] \in Seq(Scalar)
      <4> HIDE DEF m
      <4> QED
        BY <1>4
    <3>2. IsArity(Len(m[i]))
      BY <1>2 DEF OneArity
    <3> HIDE DEF m
    <3> QED
      BY <1>3, <3>1, <3>2, TupleReads
  <2> HIDE DEF m
  <2> QED
    BY <2>1
<1>6. parts = [i \in DOMAIN m |-> parts[i]]
  OBVIOUS
<1>7. ASSUME NEW r \in Stream
      PROVE  Counted(body \o r, MaxTuples, DecodeTuple) = Got(m, r) /\ body \in Stream
  <2> HIDE DEF parts, m
  <2> QED
    BY <1>2, <1>4, <1>5, <1>6, MembersRead
<1>8. Encode(v) = <<Tag(v.kind)>> \o body
  BY Zenon DEF Encode
<1>9. ASSUME NEW r \in Stream PROVE DecodeBody(v.kind, body \o r) = Got(v, r)
  <2> DEFINE reading == Counted(body \o r, MaxTuples, DecodeTuple)
  <2>1. reading = Got(m, r)
    BY <1>7
  <2>2. reading.ok = TRUE /\ reading.value = m /\ reading.rest = r
    <3> HIDE DEF reading
    <3> QED
      BY <2>1 DEF Got
  <2>3. DecodeBody("TupleSet", body \o r)
            = Result(Construct([kind |-> "TupleSet", members |-> m]), r)
    <3> HIDE DEF body, m
    <3> QED
      BY <2>2, Zenon DEF DecodeBody, DecodeMembers, Then
  <2>4. [kind |-> "TupleSet", members |-> m] = v
    BY <1>1
  <2> HIDE DEF body, m
  <2> QED
    BY <2>3, <2>4, StorableIs
<1>10. ReadsBody(v, body)
  <2>1. <<>> \in Stream
    BY DEF Stream
  <2>2. body \in Stream
    BY <1>7, <2>1
  <2> HIDE DEF body
  <2> QED
    BY <1>8, <1>9, <2>2 DEF ReadsBody
<1>11. 12 \in 1..15 /\ Kinds[12] = "TupleSet"
  BY DEF Kinds
<1> QED
  BY <1>10, <1>11, BodyReads

\* A record that can be stored is read back.
LEMMA RecordReads ==
    ASSUME NEW v, Storable(v), v.kind = "Record"
    PROVE  ReadsBack(v)
<1> DEFINE m == v.members
           parts == [i \in DOMAIN m |-> EncodeField(m[i])]
           body == Listed(parts)
<1>1. v \in [kind : {"Record"}, members : Seq(NamedScalar)]
  BY StorableIs, Zenon DEF Given
<1>2. Sized(m, MaxFields) /\ \A i \in DOMAIN m : m[i].name \in Name
  BY StorableIs, Zenon DEF Demands
<1>3. \A i \in DOMAIN m : ~Unreadable(m[i].scalar)
  BY StorableIs, Zenon DEF HasUnreadable
<1>4. m \in Seq(NamedScalar)
  BY <1>1
<1>5. \A i \in DOMAIN m : ReadsPart(DecodeField, parts[i], m[i]) /\ parts[i] \in Stream
  <2>1. ASSUME NEW i \in DOMAIN m
        PROVE  ReadsPart(DecodeField, EncodeField(m[i]), m[i]) /\ EncodeField(m[i]) \in Stream
    <3>1. m[i] \in NamedScalar
      <4> HIDE DEF m
      <4> QED
        BY <1>4
    <3> HIDE DEF m
    <3> QED
      BY <1>2, <1>3, <3>1, NamedReads
  <2> HIDE DEF m
  <2> QED
    BY <2>1
<1>6. parts = [i \in DOMAIN m |-> parts[i]]
  OBVIOUS
<1>7. ASSUME NEW r \in Stream
      PROVE  Counted(body \o r, MaxFields, DecodeField) = Got(m, r) /\ body \in Stream
  <2> HIDE DEF parts, m
  <2> QED
    BY <1>2, <1>4, <1>5, <1>6, MembersRead
<1>8. Encode(v) = <<Tag(v.kind)>> \o body
  BY Zenon DEF Encode
<1>9. ASSUME NEW r \in Stream PROVE DecodeBody(v.kind, body \o r) = Got(v, r)
  <2> DEFINE reading == Counted(body \o r, MaxFields, DecodeField)
  <2>1. reading = Got(m, r)
    BY <1>7
  <2>2. reading.ok = TRUE /\ reading.value = m /\ reading.rest = r
    <3> HIDE DEF reading
    <3> QED
      BY <2>1 DEF Got
  <2>3. DecodeBody("Record", body \o r)
            = Result(Construct([kind |-> "Record", members |-> m]), r)
    <3> HIDE DEF body, m
    <3> QED
      BY <2>2, Zenon DEF DecodeBody, DecodeMembers, Then
  <2>4. [kind |-> "Record", members |-> m] = v
    BY <1>1
  <2> HIDE DEF body, m
  <2> QED
    BY <2>3, <2>4, StorableIs
<1>10. ReadsBody(v, body)
  <2>1. <<>> \in Stream
    BY DEF Stream
  <2>2. body \in Stream
    BY <1>7, <2>1
  <2> HIDE DEF body
  <2> QED
    BY <1>8, <1>9, <2>2 DEF ReadsBody
<1>11. 13 \in 1..15 /\ Kinds[13] = "Record"
  BY DEF Kinds
<1> QED
  BY <1>10, <1>11, BodyReads

\* A bit set that can be stored is read back.
LEMMA BitSetReads ==
    ASSUME NEW v, Storable(v), v.kind = "BitSet"
    PROVE  ReadsBack(v)
<1> DEFINE m == v.words
           n == v.bits
           items == ListedFields(m)
           body == <<n>> \o items
           given == [kind |-> "BitSet", bits |-> n, words |-> m]
<1>1. v \in [kind : {"BitSet"}, bits : Nat, words : Seq(Unsigned)]
  BY StorableIs, Zenon DEF Given
<1>2. n \in 1..MaxBits /\ Len(m) = Words(n)
  BY StorableIs, Zenon DEF Demands, ClearAbove
<1>3. m \in Seq(Unsigned) /\ n \in Int /\ n \in 0..MaxBits
  BY <1>1, <1>2
<1>4. Len(m) \in Nat /\ Len(m) \in Int
  BY <1>3
<1>5. items \in Stream /\ m \in Stream
  <2>1. <<>> \in Stream
    BY DEF Stream
  <2>2. Len(m) \in 0..Len(m)
    BY <1>4
  <2> HIDE DEF m
  <2> QED
    BY <1>3, <2>1, <2>2, AnyFieldsRead
<1>6. Encode(v) = <<Tag(v.kind)>> \o body
  BY Zenon DEF Encode
<1>7. ASSUME NEW r \in Stream PROVE DecodeBody(v.kind, body \o r) = Got(v, r)
  <2> DEFINE L == 0..MaxBits
             in == <<n>> \o (items \o r)
             after == items \o r
             first == Field(in, L)
             second == Field(after, {Words(n)})
             reading == Counted(after, Words(n), AnyField)
  <2>1. reading = Got(m, r)
    <3>1. Len(m) \in 0..Words(n)
      BY <1>2, <1>4
    <3> HIDE DEF m
    <3> QED
      BY <1>3, <3>1, AnyFieldsRead
  <2>2. body \o r = in /\ first = Got(n, after)
    <3>1. n \in Int /\ n \in L /\ items \in Stream
      BY <1>3, <1>5
    <3> HIDE DEF n, items, m, L
    <3>2. body \o r = in
      BY <3>1, Heading
    <3>3. after \in Stream
      BY <3>1, Joins
    <3>4. ASSUME NEW s \in Stream PROVE Field(<<n>> \o s, L) = Got(n, s)
      BY <3>1, FieldReads
    <3> QED
      BY <3>2, <3>3, <3>4
  <2>3. second = Got(Len(m), m \o r)
    <3> DEFINE k == Len(m)
    <3>1. k \in Int /\ k \in {Words(n)} /\ m \in Stream
      BY <1>2, <1>4, <1>5
    <3> HIDE DEF k
    <3>2. (<<k>> \o m) \o r = <<k>> \o (m \o r)
      BY <3>1, Heading
    <3> DEFINE M == {Words(n)}
    <3>3. Field(<<k>> \o (m \o r), M) = Got(k, m \o r)
      <4>1. k \in M
        BY <3>1
      <4> HIDE DEF M, m
      <4> QED
        BY <3>1, <4>1, Heading
    <3> QED
      BY <3>2, <3>3 DEF ListedFields, k
  <2> HIDE DEF in, after, first, second, reading, body
  <2>4. /\ first.ok = TRUE /\ first.value = n /\ first.rest = after
        /\ second.ok = TRUE
        /\ reading.ok = TRUE /\ reading.value = m /\ reading.rest = r
    BY <2>1, <2>2, <2>3 DEF Got
  <2>5. DecodeBody("BitSet", in) = DecodeBits(in)
    BY Zenon DEF DecodeBody
  <2>6. DecodeBits(in) = Result(Construct(given), r)
    <3> HIDE DEF m, n
    <3> QED
      BY <2>4, Zenon DEF DecodeBits, Then, first, second, reading, L
  <2>7. given = v
    BY <1>1
  <2> HIDE DEF given
  <2> QED
    BY <2>2, <2>5, <2>6, <2>7, StorableIs
<1>8. ReadsBody(v, body)
  <2>1. <<>> \in Stream /\ <<n>> \in Stream
    BY <1>3 DEF Stream
  <2>2. body \in Stream
    BY <1>5, <2>1, Joins
  <2> HIDE DEF body
  <2> QED
    BY <1>6, <1>7, <2>2 DEF ReadsBody
<1>9. 6 \in 1..15 /\ Kinds[6] = "BitSet"
  BY DEF Kinds
<1> QED
  BY <1>8, <1>9, BodyReads

\* A version with a component is read back.
LEMMA VersionReads ==
    ASSUME NEW version \in Version, version # <<>>, NEW r \in Stream
    PROVE  /\ DecodeVersion(EncodeVersion(version) \o r) = Got(version, r)
           /\ EncodeVersion(version) \in Stream
<1> DEFINE S == 0..MaxComponent
           N == Len(version)
           reading == Counted(EncodeVersion(version) \o r, MaxComponents, FieldOf(S))
<1>1. version \in Seq(S) /\ N \in 0..MaxComponents /\ S \subseteq Int /\ N \in Int
  BY DEF Version
<1>2. reading = Got(version, r)
  <2> HIDE DEF S
  <2> QED
    BY <1>1, ListedFieldsRead DEF EncodeVersion
<1>3. EncodeVersion(version) \in Stream
  <2>1. version \in Stream
    <3> HIDE DEF S
    <3> QED
      BY <1>1, StreamOf
  <2>2. <<N>> \in Stream
    BY <1>1 DEF Stream
  <2> QED
    BY <2>1, <2>2, Joins DEF EncodeVersion, ListedFields
<1>4. DecodeVersion(EncodeVersion(version) \o r) = reading
  <2>1. reading.ok = TRUE /\ reading.value # <<>>
    <3> HIDE DEF reading
    <3> QED
      BY <1>2 DEF Got
  <2> QED
    BY <2>1, Zenon DEF DecodeVersion
<1> HIDE DEF reading
<1> QED
  BY <1>2, <1>3, <1>4

\* A version interval that can be stored is read back.
LEMMA VersionIntervalReads ==
    ASSUME NEW v, Storable(v), v.kind = "VersionInterval"
    PROVE  ReadsBack(v)
<1> DEFINE low == v.minimum
           high == v.maximum
           a == EncodeVersion(low)
           b == EncodeVersion(high)
           f == Flag(v.minimumInclusive)
           g == Flag(v.maximumInclusive)
           body == a \o <<f>> \o b \o <<g>>
           given == [kind |-> "VersionInterval", minimum |-> low, maximum |-> high,
                     minimumInclusive |-> f = 1, maximumInclusive |-> g = 1]
<1>1. v \in [kind : {"VersionInterval"}, minimum : Version, maximum : Version,
             minimumInclusive : BOOLEAN, maximumInclusive : BOOLEAN]
  BY StorableIs, Zenon DEF Given
<1>2. low # <<>> /\ high # <<>>
  BY StorableIs, Zenon DEF Demands
<1>3. low \in Version /\ high \in Version /\ f \in Bit /\ g \in Bit /\ f \in Int /\ g \in Int
  BY <1>1 DEF Flag, Bit
<1>4. given = v
  BY <1>1 DEF Flag
<1>5. a \in Stream /\ b \in Stream /\ <<f>> \in Stream /\ <<g>> \in Stream
  <2>1. <<>> \in Stream /\ <<f>> \in Stream /\ <<g>> \in Stream
    BY <1>3 DEF Stream
  <2> HIDE DEF low, high, f, g
  <2> QED
    BY <1>2, <1>3, <2>1, VersionReads
<1>6. Encode(v) = <<Tag(v.kind)>> \o body
  BY Zenon DEF Encode
<1>7. ASSUME NEW r \in Stream PROVE DecodeBody(v.kind, body \o r) = Got(v, r)
  <2> DEFINE after4 == <<g>> \o r
             after3 == b \o after4
             after2 == <<f>> \o after3
             in == a \o after2
             read1 == DecodeVersion(in)
             read2 == Field(after2, Bit)
             read3 == DecodeVersion(after3)
             read4 == Field(after4, Bit)
  <2> HIDE DEF low, high, f, g, a, b
  <2>1. after4 \in Stream /\ after3 \in Stream /\ after2 \in Stream
    BY <1>5, Joins
  <2>2. body \o r = in
    <3>1. (a \o <<f>>) \in Stream /\ ((a \o <<f>>) \o b) \in Stream
      BY <1>5, Joins
    <3>2. body \o r = ((a \o <<f>>) \o b) \o after4
      <4> DEFINE q == (a \o <<f>>) \o b
      <4>1. q \in Stream /\ <<g>> \in Stream /\ body = q \o <<g>>
        BY <1>5, <3>1
      <4> HIDE DEF q, body
      <4>2. (q \o <<g>>) \o r = q \o (<<g>> \o r)
        BY <4>1, Associates
      <4> QED
        BY <4>1, <4>2 DEF q
    <3>3. ((a \o <<f>>) \o b) \o after4 = (a \o <<f>>) \o after3
      <4> DEFINE p == a \o <<f>>
      <4>1. p \in Stream /\ b \in Stream /\ after4 \in Stream
        BY <1>5, <2>1, <3>1
      <4> HIDE DEF after4, p
      <4>2. (p \o b) \o after4 = p \o (b \o after4)
        BY <4>1, Associates
      <4> QED
        BY <4>2 DEF p
    <3>4. (a \o <<f>>) \o after3 = in
      <4> DEFINE p == <<f>>
      <4>1. a \in Stream /\ p \in Stream /\ after3 \in Stream
        BY <1>5, <2>1
      <4> HIDE DEF after3, p
      <4>2. (a \o p) \o after3 = a \o (p \o after3)
        BY <4>1, Associates
      <4> QED
        BY <4>2 DEF p
    <3> HIDE DEF body, in, after3, after4
    <3> QED
      BY <3>2, <3>3, <3>4
  <2>3. read1 = Got(low, after2)
    <3> HIDE DEF after2
    <3> QED
      BY <1>2, <1>3, <2>1, VersionReads DEF a
  <2>4. read2 = Got(f, after3)
    <3> HIDE DEF after3
    <3> QED
      BY <1>3, <2>1, FieldReads
  <2>5. read3 = Got(high, after4)
    <3> HIDE DEF after4
    <3> QED
      BY <1>2, <1>3, <2>1, VersionReads DEF b
  <2>6. read4 = Got(g, r)
    BY <1>3, FieldReads
  <2> HIDE DEF in, after2, after3, after4, read1, read2, read3, read4, body
  <2>7. /\ read1.ok = TRUE /\ read1.value = low /\ read1.rest = after2
        /\ read2.ok = TRUE /\ read2.value = f /\ read2.rest = after3
        /\ read3.ok = TRUE /\ read3.value = high /\ read3.rest = after4
        /\ read4.ok = TRUE /\ read4.value = g /\ read4.rest = r
    BY <2>3, <2>4, <2>5, <2>6 DEF Got
  <2>8. DecodeBody("VersionInterval", in) = DecodeVersionInterval(in)
    BY Zenon DEF DecodeBody
  <2> DEFINE again == [kind |-> "VersionInterval", minimum |-> read1.value,
                       maximum |-> read3.value, minimumInclusive |-> read2.value = 1,
                       maximumInclusive |-> read4.value = 1]
  <2>9. DecodeVersionInterval(in) = Result(Construct(again), r)
    BY <2>7, Zenon DEF DecodeVersionInterval, Then, read1, read2, read3, read4
  <2>10. again = v
    BY <1>4, <2>7
  <2> HIDE DEF again
  <2> QED
    BY <2>2, <2>8, <2>9, <2>10, StorableIs
<1>8. ReadsBody(v, body)
  <2>1. body \in Stream
    <3> HIDE DEF a, b, f, g
    <3>1. a \o <<f>> \in Stream
      BY <1>5, Joins
    <3>2. a \o <<f>> \o b \in Stream
      BY <1>5, <3>1, Joins
    <3> QED
      BY <1>5, <3>2, Joins
  <2> HIDE DEF body
  <2> QED
    BY <1>6, <1>7, <2>1 DEF ReadsBody
<1>9. 9 \in 1..15 /\ Kinds[9] = "VersionInterval"
  BY DEF Kinds
<1> QED
  BY <1>8, <1>9, BodyReads

\* Every value that can be stored is read back.
LEMMA StorableReads ==
    ASSUME NEW v, Storable(v)
    PROVE  ReadsBack(v)
<1>1. Given(v)
  BY StorableIs
<1> QED
  BY <1>1, GivenKinds, AbsentReads, BooleanReads, IntegerReads, QuantityReads, EnumerationReads,
     BitSetReads, NumericSetReads, NumericRangeReads, VersionIntervalReads, ProtocolSetReads,
     TupleValueReads, TupleSetReads, RecordReads, OpaqueReads, EnumSetReads

\* A construction has one outcome.
LEMMA StaysOne ==
    ASSUME NEW v, NEW w, NEW u, Stays(v, w), Construct(v) = Made(TRUE, u)
    PROVE  u = w
<1>1. Made(TRUE, w) = Made(TRUE, u)
  BY DEF Stays
<1>2. Made(TRUE, w).value = w /\ Made(TRUE, u).value = u
  BY DEF Made
<1> QED
  BY <1>1, <1>2

\* A constructor of members that can be read makes members that can be read.
LEMMA ReadableStays ==
    ASSUME NEW v, Given(v), ~HasUnreadable(v), NEW w, Stays(v, w)
    PROVE  ~HasUnreadable(w)
<1>0. w.kind = v.kind /\ Construct(v) = Made(TRUE, w) /\ Construct(v).ok
  BY DEF Stays, Made
<1>1. CASE v.kind \notin {"Integer", "Tuple", "TupleSet", "Record"}
  BY <1>0, <1>1, Zenon DEF HasUnreadable
<1>2. CASE v.kind \in {"Integer", "Tuple"}
  <2>1. Stays(v, v)
    BY <1>0, <1>2, OthersStay DEF SetKinds
  <2>2. v = w
    BY <1>0, <2>1, StaysOne
  <2> QED
    BY <2>2
<1>3. CASE v.kind = "Record"
  <2> DEFINE S == {f \in NamedScalar : ~Unreadable(f.scalar)}
             m == v.members
  <2>1. v \in [kind : {"Record"}, members : Seq(NamedScalar)]
    BY <1>3 DEF Given
  <2>2. v = [kind |-> "Record", members |-> m] /\ m \in Seq(NamedScalar)
    BY <2>1
  <2>3. \A i \in DOMAIN m : ~Unreadable(m[i].scalar)
    BY <1>3, Zenon DEF HasUnreadable
  <2>4. m \in Seq(S)
    <3>1. \A i \in DOMAIN m : m[i] \in S
      <4> HIDE DEF m
      <4> QED
        BY <2>2, <2>3
    <3> HIDE DEF m, S
    <3> QED
      BY <2>2, <3>1, SeqInto
  <2>5. PICK u : Stays(v, u) /\ u.members \in Seq(S)
    <3>1. S \subseteq NamedScalar
      OBVIOUS
    <3> HIDE DEF S, m
    <3> QED
      BY <1>0, <2>2, <2>4, <3>1, RecordStays
  <2>6. u = w
    BY <1>0, <2>5, StaysOne DEF Stays
  <2>7. \A i \in DOMAIN w.members : w.members[i] \in S
    <3> HIDE DEF S
    <3> QED
      BY <2>5, <2>6
  <2>8. \A i \in DOMAIN w.members : ~Unreadable(w.members[i].scalar)
    BY <2>7
  <2> QED
    BY <1>0, <1>3, <2>8, Zenon DEF HasUnreadable
<1>4. CASE v.kind = "TupleSet"
  <2> DEFINE S == {t \in Seq(Scalar) : Readable(t)}
             m == v.members
  <2>1. v \in [kind : {"TupleSet"}, members : Seq(Seq(Scalar))]
    BY <1>4 DEF Given
  <2>2. v = [kind |-> "TupleSet", members |-> m] /\ m \in Seq(Seq(Scalar))
    BY <2>1
  <2>3. \A i \in DOMAIN m : Readable(m[i])
    BY <1>4, Zenon DEF HasUnreadable, Readable
  <2>4. m \in Seq(S)
    <3>1. \A i \in DOMAIN m : m[i] \in S
      <4> HIDE DEF m
      <4> QED
        BY <2>2, <2>3
    <3> HIDE DEF m, S
    <3> QED
      BY <2>2, <3>1, SeqInto
  <2>5. PICK u : Stays(v, u) /\ u.members \in Seq(S)
    <3>1. S \subseteq Seq(Scalar)
      OBVIOUS
    <3> HIDE DEF S, m
    <3> QED
      BY <1>0, <2>2, <2>4, <3>1, TupleSetStays
  <2>6. u = w
    BY <1>0, <2>5, StaysOne DEF Stays
  <2>7. \A i \in DOMAIN w.members : w.members[i] \in S
    <3> HIDE DEF S
    <3> QED
      BY <2>5, <2>6
  <2>8. \A i \in DOMAIN w.members : Readable(w.members[i])
    BY <2>7
  <2> QED
    BY <1>0, <1>4, <2>8, Zenon DEF HasUnreadable, Readable
<1> QED
  BY <1>1, <1>2, <1>3, <1>4

-----------------------------------------------------------------------------
(* What Decode returns can be stored.                                      *)

\* A field that is read is one of its legal tokens.
LEMMA FieldTyped ==
    ASSUME NEW in \in Stream, NEW legal
    PROVE  Field(in, legal) \in ReadingOf(legal)
<1>1. CASE in # <<>> /\ Head(in) \in legal
  <2>1. Tail(in) \in Stream
    BY <1>1 DEF Stream
  <2>2. Field(in, legal) = Got(Head(in), Tail(in))
    BY <1>1 DEF Field
  <2> QED
    BY <1>1, <2>1, <2>2, IsReading
<1>2. CASE ~(in # <<>> /\ Head(in) \in legal)
  <2>1. Field(in, legal) = Fail
    BY <1>2 DEF Field
  <2> QED
    BY <2>1, IsReading
<1> QED
  BY <1>1, <1>2

\* The reader of a field reads its legal tokens.
LEMMA FieldOfTyped ==
    ASSUME NEW legal
    PROVE  ReaderOf(FieldOf(legal), legal)
<1>1. ASSUME NEW in \in Stream PROVE FieldOf(legal)[in] \in ReadingOf(legal)
  <2>1. FieldOf(legal)[in] = Field(in, legal)
    BY DEF FieldOf
  <2> QED
    BY <2>1, FieldTyped
<1> QED
  BY <1>1 DEF ReaderOf

\* The sequences over X that are within a bound.
UpToLen(X, max) == {s \in Seq(X) : Len(s) <= max}

\* A counted list that is read is within its bound, and its items are what its reader reads.
LEMMA CountedTyped ==
    ASSUME NEW in \in Stream, NEW reader, NEW X, ReaderOf(reader, X), NEW max
    PROVE  Counted(in, max, reader) \in ReadingOf(UpToLen(X, max))
<1> DEFINE first == Field(in, 0..max)
<1>1. first \in ReadingOf(0..max)
  BY FieldTyped
<1>2. CASE first = Fail
  <2>1. first.ok = FALSE
    BY <1>2 DEF Fail
  <2>2. Counted(in, max, reader) = Fail
    BY <2>1, Zenon DEF Counted, Then
  <2> QED
    BY <2>2, IsReading
<1>3. ASSUME NEW count \in 0..max, NEW rest \in Stream, first = Got(count, rest)
      PROVE  Counted(in, max, reader) \in ReadingOf(UpToLen(X, max))
  <2> DEFINE readers == [i \in 1..count |-> reader]
             sets == [i \in 1..count |-> X]
             all == ReadAll(rest, readers)
  <2>1. first.ok = TRUE /\ first.value = count /\ first.rest = rest
    <3> HIDE DEF first
    <3> QED
      BY <1>3 DEF Got
  <2>2. Counted(in, max, reader) = all
    BY <2>1, Zenon DEF Counted, Then
  <2>3. ReadersOf(readers, sets, X)
    <3>1. /\ Len(sets) = count /\ Len(readers) = count /\ count \in Nat
          /\ \A n \in 1..count : sets[n] = X /\ readers[n] = reader
      OBVIOUS
    <3> HIDE DEF readers, sets
    <3> QED
      BY <3>1 DEF ReadersOf
  <2>4. all \in ReadingOf(Each(sets, X))
    <3> HIDE DEF readers, sets
    <3> QED
      BY <2>3, ReadAllTyped
  <2>5. Each(sets, X) \subseteq UpToLen(X, max)
    <3>1. Len(sets) = count /\ count <= max
      OBVIOUS
    <3> HIDE DEF sets
    <3> QED
      BY <3>1 DEF Each, UpToLen
  <2> HIDE DEF all, sets, readers
  <2>6. all \in ReadingOf(UpToLen(X, max))
    BY <2>4, <2>5, Readings, IsReading
  <2> QED
    BY <2>2, <2>6
<1> HIDE DEF first
<1> QED
  BY <1>1, <1>2, <1>3, Readings

\* The streams that fit the given fields.
FitTo(legal) == {s \in Stream : Fit(s, legal)}

\* Fields that are read fit.
LEMMA FieldsTyped ==
    ASSUME NEW in \in Stream, NEW legal, Len(legal) \in Nat, DOMAIN legal = 1..Len(legal),
           \A n \in 1..Len(legal) : legal[n] \subseteq Int
    PROVE  Fields(in, legal) \in ReadingOf(FitTo(legal))
<1> DEFINE readers == [i \in 1..Len(legal) |-> FieldOf(legal[i])]
           all == ReadAll(in, readers)
<1>1. ReadersOf(readers, legal, Int)
  <2>1. Len(readers) = Len(legal) /\ \A n \in 1..Len(legal) : readers[n] = FieldOf(legal[n])
    OBVIOUS
  <2> HIDE DEF readers
  <2> QED
    BY <2>1, FieldOfTyped DEF ReadersOf
<1>2. all \in ReadingOf(Each(legal, Int))
  <2> HIDE DEF readers
  <2> QED
    BY <1>1, ReadAllTyped
<1>3. Each(legal, Int) \subseteq FitTo(legal)
  BY DEF Each, FitTo, Fit, Stream
<1>4. Fields(in, legal) = all
  BY DEF Fields
<1> HIDE DEF all
<1> QED
  BY <1>2, <1>3, <1>4, Readings, IsReading

\* What fits one field, two and three has its tokens in their sets.
LEMMA FitSingle ==
    ASSUME NEW S, NEW f, Fit(f, <<S>>)
    PROVE  f[1] \in S
BY DEF Fit

\* The same of two fields.
LEMMA FitDouble ==
    ASSUME NEW S, NEW T, NEW f, Fit(f, <<S, T>>)
    PROVE  f[1] \in S /\ f[2] \in T
BY DEF Fit

\* The same of three fields.
LEMMA FitTriple ==
    ASSUME NEW S, NEW T, NEW U, NEW f, Fit(f, <<S, T, U>>)
    PROVE  f[1] \in S /\ f[2] \in T /\ f[3] \in U
BY DEF Fit

\* A failure, or a value that can be stored.
StorableReading(r) ==
    r = Fail \/ \E v, left : r = Got(v, left) /\ left \in Stream /\ Storable(v)

\* A value that a constructor accepts, and that holds nothing unreadable, is one that can be stored.
LEMMA MadeReads ==
    ASSUME NEW v, Given(v), ~HasUnreadable(v), NEW left \in Stream
    PROVE  StorableReading(Result(Construct(v), left))
<1>1. CASE Construct(v).ok
  <2>1. PICK w : Stays(v, w)
    BY <1>1, ConstructStays
  <2>2. Storable(w)
    BY <2>1, ReadableStays DEF Stays, Storable
  <2>3. Result(Construct(v), left) = Got(w, left)
    <3>1. Construct(v) = Made(TRUE, w)
      BY <2>1 DEF Stays
    <3> QED
      BY <3>1 DEF Result, Made
  <2> QED
    BY <2>2, <2>3 DEF StorableReading
<1>2. CASE ~Construct(v).ok
  BY <1>2 DEF Result, StorableReading
<1> QED
  BY <1>1, <1>2

\* The fields of a reading of X.
LEMMA ReadingParts ==
    ASSUME NEW X, NEW r \in ReadingOf(X)
    PROVE  r.ok \in BOOLEAN /\ (r.ok => r.value \in X /\ r.rest \in Stream)
<1>1. CASE r = Fail
  BY <1>1 DEF Fail
<1>2. ASSUME NEW value \in X, NEW left \in Stream, r = Got(value, left)
      PROVE  r.ok \in BOOLEAN /\ r.value \in X /\ r.rest \in Stream
  BY <1>2 DEF Got
<1> QED
  BY <1>1, <1>2, Readings

\* The same when what is constructed has been read before.
LEMMA MadeIf ==
    ASSUME NEW X, NEW r \in ReadingOf(X), NEW v, r.ok => Given(v) /\ ~HasUnreadable(v)
    PROVE  StorableReading(IF r.ok THEN Result(Construct(v), r.rest) ELSE Fail)
<1>1. CASE r.ok
  <2>1. StorableReading(Result(Construct(v), r.rest))
    BY <1>1, ReadingParts, MadeReads
  <2> QED
    BY <1>1, <2>1
<1>2. CASE ~r.ok
  BY <1>2 DEF StorableReading
<1> QED
  BY <1>1, <1>2

\* One token of a set, as a sequence.
LEMMA FitOne ==
    ASSUME NEW f \in Stream, NEW S, Fit(f, <<S>>)
    PROVE  \E x \in S : f = <<x>> /\ x \in Int
<1>1. f \in Seq(Int) /\ Len(f) = 1 /\ f[1] \in S
  BY DEF Fit, Stream
<1>2. f = <<f[1]>> /\ f[1] \in Int
  BY <1>1
<1> QED
  BY <1>1, <1>2

\* Two fields hold two tokens.
LEMMA FitTwo ==
    ASSUME NEW f \in Stream, NEW S, NEW T, Fit(f, <<S, T>>)
    PROVE  \E x \in S, y \in T : f = <<x, y>> /\ x \in Int /\ y \in Int
<1>1. Len(f) = 2 /\ f[1] \in S /\ f[2] \in T
  <2> DEFINE legal == <<S, T>>
  <2>1. Len(legal) = 2 /\ legal[1] = S /\ legal[2] = T
    OBVIOUS
  <2> HIDE DEF legal
  <2>2. Fit(f, legal)
    BY DEF legal
  <2> QED
    BY <2>1, <2>2 DEF Fit
<1>2. f = <<f[1], f[2]>> /\ f[1] \in Int /\ f[2] \in Int
  BY <1>1 DEF Stream
<1> QED
  BY <1>1, <1>2

\* Two tokens are one after the other.
LEMMA TwoTokens ==
    ASSUME NEW x \in Int, NEW k \in Int
    PROVE  <<k, x>> = <<k>> \o <<x>>
OBVIOUS

\* The tokens of a scalar of one token, and of two, after its kind.
LEMMA Concatenated ==
    ASSUME NEW x \in Int, NEW y, NEW payload, NEW k \in Int
    PROVE  /\ payload = <<x>> => <<k>> \o payload = <<k, x>>
           /\ payload = <<x, y>> => <<k>> \o payload = <<k, x, y>>
<1>1. <<k, x>> = <<k>> \o <<x>>
  BY TwoTokens
<1>2. <<k, x, y>> = <<k>> \o <<x, y>>
  OBVIOUS
<1> QED
  BY <1>1, <1>2, Zenon

\* The scalars that the decoder accepts.
ReadableScalar == {s \in Scalar : ~Unreadable(s)}

\* A kind and a payload that fits it are a scalar that the decoder accepts.
LEMMA ScalarMade ==
    ASSUME NEW kind \in 0..4, NEW payload \in Stream, Fit(payload, Payload(kind))
    PROVE  <<kind>> \o payload \in ReadableScalar
<1>0. kind \in Int
  OBVIOUS
<1>1. CASE kind = 0
  <2>1. PICK x \in Bit : payload = <<x>> /\ x \in Int
    BY <1>1, FitOne, PayloadOf
  <2>2. <<kind>> \o payload = <<0, x>>
    BY <1>0, <1>1, <2>1, Concatenated, Zenon
  <2>3. <<0, x>> \in Scalar
    BY DEF Scalar
  <2>4. ~Unreadable(<<0, x>>)
    BY DEF Unreadable
  <2> QED
    BY <2>2, <2>3, <2>4 DEF ReadableScalar
<1>2. CASE kind = 1
  <2>1. PICK x \in (-MaxInteger)..MaxInteger : payload = <<x>> /\ x \in Int
    BY <1>2, FitOne, PayloadOf
  <2>2. <<kind>> \o payload = <<1, x>>
    BY <1>0, <1>2, <2>1, Concatenated, Zenon
  <2>3. x \in Signed
    BY ValuesAssumption, EncodingAssumption DEF Unsigned, Signed
  <2>4. <<1, x>> \in Scalar
    BY <2>3 DEF Scalar
  <2>5. ~Unreadable(<<1, x>>)
    BY DEF Unreadable
  <2> QED
    BY <2>2, <2>4, <2>5 DEF ReadableScalar
<1>3. CASE kind = 2
  <2>1. PICK x \in 0..MaxQuantity : payload = <<x>> /\ x \in Int
    BY <1>3, FitOne, PayloadOf
  <2>2. <<kind>> \o payload = <<2, x>>
    BY <1>0, <1>3, <2>1, Concatenated, Zenon
  <2>3. x \in Unsigned
    BY ValuesAssumption, EncodingAssumption DEF Unsigned
  <2>4. <<2, x>> \in Scalar
    BY <2>3 DEF Scalar
  <2>5. ~Unreadable(<<2, x>>)
    BY ValuesAssumption, EncodingAssumption DEF Unreadable, Unsigned
  <2> QED
    BY <2>2, <2>4, <2>5 DEF ReadableScalar
<1>4. CASE kind = 3
  <2>1. PICK x \in Name, y \in Unsigned : payload = <<x, y>> /\ x \in Int /\ y \in Int
    BY <1>4, FitTwo, PayloadOf
  <2>2. <<kind>> \o payload = <<3, x, y>>
    <3>1. <<kind>> \o payload = <<kind, x, y>>
      BY <1>0, <2>1, Concatenated
    <3> QED
      BY <1>4, <3>1
  <2>3. <<3, x, y>> \in Scalar
    BY DEF Scalar
  <2>4. ~Unreadable(<<3, x, y>>)
    BY DEF Unreadable
  <2> QED
    BY <2>2, <2>3, <2>4 DEF ReadableScalar
<1>5. CASE kind = 4
  <2>1. PICK x \in ReadableText : payload = <<x>> /\ x \in Int
    BY <1>5, FitOne, PayloadOf
  <2>2. <<kind>> \o payload = <<4, x>>
    BY <1>0, <1>5, <2>1, Concatenated, Zenon
  <2>3. x \in Unsigned \ {EmptyText}
    BY EncodingAssumption DEF ReadableText, Unsigned, EmptyText
  <2>4. <<4, x>> \in Scalar
    BY <2>3 DEF Scalar
  <2>5. ~Unreadable(<<4, x>>)
    BY DEF Unreadable
  <2> QED
    BY <2>2, <2>4, <2>5 DEF ReadableScalar
<1> QED
  BY <1>1, <1>2, <1>3, <1>4, <1>5

\* The sets of the tokens that may follow the kind of a scalar.
LEMMA PayloadSets ==
    ASSUME NEW kind \in 0..4
    PROVE  /\ Len(Payload(kind)) \in Nat /\ DOMAIN Payload(kind) = 1..Len(Payload(kind))
           /\ \A n \in 1..Len(Payload(kind)) : Payload(kind)[n] \subseteq Int
<1> DEFINE P == Payload(kind)
<1>1. CASE P = <<Name, Unsigned>>
  <2> DEFINE Q == <<Name, Unsigned>>
  <2>1. /\ Len(Q) = 2 /\ DOMAIN Q = 1..2
        /\ \A n \in 1..2 : Q[n] = Name \/ Q[n] = Unsigned
    OBVIOUS
  <2>2. \A n \in 1..2 : Q[n] \subseteq Int
    <3> HIDE DEF Q
    <3> QED
      BY <2>1, Tokens
  <2> HIDE DEF Q
  <2>3. Len(Q) \in Nat /\ DOMAIN Q = 1..Len(Q) /\ \A n \in 1..Len(Q) : Q[n] \subseteq Int
    BY <2>1, <2>2
  <2>4. P = Q
    BY <1>1 DEF Q
  <2> QED
    BY <2>3, <2>4, Zenon
<1>2. ASSUME NEW S, S \subseteq Int, P = <<S>>
      PROVE  /\ Len(P) \in Nat /\ DOMAIN P = 1..Len(P)
             /\ \A n \in 1..Len(P) : P[n] \subseteq Int
  <2> DEFINE Q == <<S>>
  <2>1. Len(Q) = 1 /\ DOMAIN Q = 1..1 /\ \A n \in 1..1 : Q[n] = S
    OBVIOUS
  <2>2. P = Q
    BY <1>2
  <2> HIDE DEF P, Q
  <2> QED
    BY <1>2, <2>1, <2>2
<1>3. /\ Bit \subseteq Int /\ (-MaxInteger)..MaxInteger \subseteq Int /\ 0..MaxQuantity \subseteq Int
      /\ ReadableText \subseteq Int
  BY Tokens DEF Name
<1>4. \/ P = <<Name, Unsigned>> \/ P = <<Bit>> \/ P = <<(-MaxInteger)..MaxInteger>>
      \/ P = <<0..MaxQuantity>> \/ P = <<ReadableText>>
  <2>1. kind = 0 \/ kind = 1 \/ kind = 2 \/ kind = 3 \/ kind = 4
    OBVIOUS
  <2> QED
    BY <2>1, PayloadOf
<1> HIDE DEF P
<1>5. CASE P = <<Bit>>
  BY <1>2, <1>3, <1>5 DEF P
<1>6. CASE P = <<(-MaxInteger)..MaxInteger>>
  <2> DEFINE S == (-MaxInteger)..MaxInteger
  <2>1. S \subseteq Int /\ P = <<S>>
    BY <1>3, <1>6
  <2> HIDE DEF S
  <2> QED
    BY <1>2, <2>1 DEF P
<1>7. CASE P = <<0..MaxQuantity>>
  <2> DEFINE S == 0..MaxQuantity
  <2>1. S \subseteq Int /\ P = <<S>>
    BY <1>3, <1>7
  <2> HIDE DEF S
  <2> QED
    BY <1>2, <2>1 DEF P
<1>8. CASE P = <<ReadableText>>
  BY <1>2, <1>3, <1>8 DEF P
<1> QED
  BY <1>1, <1>4, <1>5, <1>6, <1>7, <1>8 DEF P

\* A scalar that is read is one the decoder accepts.
LEMMA ScalarTyped == ReaderOf(DecodeScalar, ReadableScalar)
<1> SUFFICES ASSUME NEW in \in Stream
             PROVE  DecodeScalar[in] \in ReadingOf(ReadableScalar)
  BY DEF ReaderOf
<1> DEFINE kind == Field(in, 0..4)
           payload == Fields(kind.rest, Payload(kind.value))
           scalar == <<kind.value>> \o payload.value
<1>1. kind.ok \in BOOLEAN /\ (kind.ok => kind.value \in 0..4 /\ kind.rest \in Stream)
  <2>1. kind \in ReadingOf(0..4)
    BY FieldTyped
  <2> HIDE DEF kind
  <2> QED
    BY <2>1, ReadingParts
<1>2. DecodeScalar[in] =
         IF kind.ok THEN IF payload.ok THEN Got(scalar, payload.rest) ELSE Fail ELSE Fail
  BY Zenon DEF DecodeScalar, Then
<1>3. CASE kind.ok
  <2>1. payload \in ReadingOf(FitTo(Payload(kind.value)))
    <3> HIDE DEF kind
    <3> QED
      BY <1>1, <1>3, PayloadSets, FieldsTyped
  <2>2. /\ payload.ok \in BOOLEAN
        /\ payload.ok => /\ payload.value \in FitTo(Payload(kind.value))
                         /\ payload.rest \in Stream
    <3> HIDE DEF payload
    <3> QED
      BY <2>1, ReadingParts
  <2>3. payload.ok => scalar \in ReadableScalar
    <3> HIDE DEF payload, kind
    <3> QED
      BY <1>1, <1>3, <2>2, ScalarMade DEF FitTo
  <2> HIDE DEF payload, kind, scalar
  <2> QED
    BY <1>2, <1>3, <2>2, <2>3, IsReading
<1>4. CASE ~kind.ok
  <2> HIDE DEF payload, kind, scalar
  <2> QED
    BY <1>2, <1>4, IsReading
<1> QED
  BY <1>1, <1>3, <1>4

\* The tuples that the decoder accepts.
ReadableTuple == {t \in Seq(Scalar) : Readable(t)}

\* A tuple that is read is one the decoder accepts.
LEMMA TupleTyped == ReaderOf(DecodeTuple, ReadableTuple)
<1> SUFFICES ASSUME NEW in \in Stream
             PROVE  DecodeTuple[in] \in ReadingOf(ReadableTuple)
  BY DEF ReaderOf
<1> DEFINE arity == Field(in, 2..MaxArity)
           scalars == Counted(in, MaxArity, DecodeScalar)
<1>1. DecodeTuple[in] = IF arity.ok THEN scalars ELSE Fail
  BY Zenon DEF DecodeTuple, Then
<1>2. scalars \in ReadingOf(UpToLen(ReadableScalar, MaxArity))
  BY ScalarTyped, CountedTyped
<1>3. UpToLen(ReadableScalar, MaxArity) \subseteq ReadableTuple
  <2>1. ASSUME NEW t \in Seq(ReadableScalar) PROVE t \in ReadableTuple
    <3>1. \A i \in DOMAIN t : t[i] \in Scalar /\ ~Unreadable(t[i])
      BY SeqFacts DEF ReadableScalar
    <3>2. t \in Seq(Scalar)
      BY <3>1, SeqInto
    <3> QED
      BY <3>1, <3>2 DEF ReadableTuple, Readable
  <2> QED
    BY <2>1 DEF UpToLen
<1> HIDE DEF arity, scalars
<1>4. scalars \in ReadingOf(ReadableTuple)
  BY <1>2, <1>3, Readings, IsReading
<1> QED
  BY <1>1, <1>4, IsReading

\* The fields of a record that the decoder accepts.
ReadableField == {f \in NamedScalar : ~Unreadable(f.scalar)}

\* A field of a record that is read is one the decoder accepts.
LEMMA NamedTyped == ReaderOf(DecodeField, ReadableField)
<1> SUFFICES ASSUME NEW in \in Stream
             PROVE  DecodeField[in] \in ReadingOf(ReadableField)
  BY DEF ReaderOf
<1> DEFINE name == Text(in)
           scalar == DecodeScalar[name.rest]
           field == [name |-> name.value, scalar |-> scalar.value]
<1>1. DecodeField[in] =
         IF name.ok THEN IF scalar.ok THEN Got(field, scalar.rest) ELSE Fail ELSE Fail
  BY Zenon DEF DecodeField, Then
<1>2. name.ok \in BOOLEAN /\ (name.ok => name.value \in Unsigned /\ name.rest \in Stream)
  <2>1. name \in ReadingOf(Unsigned \ {ControlText})
    BY FieldTyped DEF Text
  <2> HIDE DEF name
  <2> QED
    BY <2>1, ReadingParts
<1>3. CASE name.ok
  <2>1. scalar \in ReadingOf(ReadableScalar)
    <3> HIDE DEF name
    <3> QED
      BY <1>2, <1>3, ScalarTyped DEF ReaderOf
  <2>2. scalar.ok \in BOOLEAN /\ (scalar.ok => scalar.value \in ReadableScalar /\ scalar.rest \in Stream)
    <3> HIDE DEF scalar
    <3> QED
      BY <2>1, ReadingParts
  <2>3. scalar.ok => field \in ReadableField
    <3> HIDE DEF name, scalar
    <3> QED
      BY <1>2, <1>3, <2>2 DEF ReadableField, ReadableScalar, NamedScalar
  <2> HIDE DEF name, scalar, field
  <2> QED
    BY <1>1, <1>3, <2>2, <2>3, IsReading
<1>4. CASE ~name.ok
  <2> HIDE DEF name, scalar, field
  <2> QED
    BY <1>1, <1>4, IsReading
<1> QED
  BY <1>2, <1>3, <1>4

\* A version that is read is a version.
LEMMA VersionTyped ==
    ASSUME NEW in \in Stream
    PROVE  DecodeVersion(in) \in ReadingOf(Version)
<1> DEFINE read == Counted(in, MaxComponents, FieldOf(0..MaxComponent))
<1>1. DecodeVersion(in) = IF read.ok /\ read.value # <<>> THEN read ELSE Fail
  BY DEF DecodeVersion
<1>2. read \in ReadingOf(UpToLen(0..MaxComponent, MaxComponents))
  <2> DEFINE L == 0..MaxComponent
  <2>1. ReaderOf(FieldOf(L), L)
    BY FieldOfTyped
  <2> HIDE DEF L
  <2>2. Counted(in, MaxComponents, FieldOf(L)) \in ReadingOf(UpToLen(L, MaxComponents))
    BY <2>1, CountedTyped
  <2> QED
    BY <2>2 DEF L
<1>3. UpToLen(0..MaxComponent, MaxComponents) = Version
  BY DEF UpToLen, Version
<1> HIDE DEF read
<1> QED
  BY <1>1, <1>2, <1>3, IsReading

\* Fields that are read one after the other, and what they make.
LEMMA FlatTyped ==
    ASSUME NEW in \in Stream, NEW legal, Len(legal) \in Nat, DOMAIN legal = 1..Len(legal),
           \A n \in 1..Len(legal) : legal[n] \subseteq Int
    PROVE  /\ Fields(in, legal) \in ReadingOf(FitTo(legal))
           /\ Fields(in, legal).ok => /\ Fields(in, legal).value \in Stream
                                      /\ Fit(Fields(in, legal).value, legal)
<1>1. Fields(in, legal) \in ReadingOf(FitTo(legal))
  BY FieldsTyped
<1> QED
  BY <1>1, ReadingParts DEF FitTo

\* One, two or three fields of tokens are a layout.
LEMMA SetsOf ==
    ASSUME NEW S, NEW T, NEW U, S \subseteq Int, T \subseteq Int, U \subseteq Int,
           NEW legal, legal = <<S>> \/ legal = <<S, T>> \/ legal = <<S, T, U>>
    PROVE  /\ Len(legal) \in Nat /\ DOMAIN legal = 1..Len(legal)
           /\ \A n \in 1..Len(legal) : legal[n] \subseteq Int
<1>1. CASE legal = <<S>>
  <2>1. DOMAIN legal = 1..1 /\ Len(legal) = 1 /\ legal[1] = S
    BY <1>1
  <2>2. \A n \in 1..1 : n = 1
    OBVIOUS
  <2> QED
    BY <2>1, <2>2
<1>2. CASE legal = <<S, T>>
  <2>1. DOMAIN legal = 1..2 /\ Len(legal) = 2 /\ legal[1] = S /\ legal[2] = T
    BY <1>2
  <2>2. \A n \in 1..2 : n = 1 \/ n = 2
    OBVIOUS
  <2> QED
    BY <2>1, <2>2
<1>3. CASE legal = <<S, T, U>>
  <2>1. DOMAIN legal = 1..3 /\ Len(legal) = 3 /\ legal[1] = S /\ legal[2] = T /\ legal[3] = U
    BY <1>3
  <2>2. \A n \in 1..3 : n = 1 \/ n = 2 \/ n = 3
    OBVIOUS
  <2> QED
    BY <2>1, <2>2
<1> QED
  BY <1>1, <1>2, <1>3

\* A Boolean that is read can be stored.
LEMMA BooleanTyped ==
    ASSUME NEW in \in Stream
    PROVE  StorableReading(DecodeBody("Boolean", in))
<1> DEFINE S == Bit
           reading == Fields(in, <<S>>)
           f == reading.value
           made == [kind |-> "Boolean", boolean |-> f[1] = 1]
<1>1. DecodeBody("Boolean", in) = IF reading.ok THEN Result(Construct(made), reading.rest) ELSE Fail
  BY Zenon DEF DecodeBody, DecodeFlat, Then
<1>2. S \subseteq Int
  BY Tokens
<1>3. reading \in ReadingOf(FitTo(<<S>>)) /\ (reading.ok => Fit(f, <<S>>))
  <2> HIDE DEF S
  <2> DEFINE legal == <<S>>
  <2>1. /\ Len(legal) \in Nat /\ DOMAIN legal = 1..Len(legal)
        /\ \A n \in 1..Len(legal) : legal[n] \subseteq Int
    BY <1>2, SetsOf
  <2> HIDE DEF legal
  <2>2. /\ Fields(in, legal) \in ReadingOf(FitTo(legal))
        /\ Fields(in, legal).ok => Fit(Fields(in, legal).value, legal)
    BY <2>1, FlatTyped
  <2> QED
    BY <2>2 DEF legal
<1>4. reading.ok => f[1] \in S
  <2> HIDE DEF S, reading
  <2> QED
    BY <1>3, FitSingle
<1> HIDE DEF reading
<1>5. ASSUME reading.ok PROVE Given(made) /\ ~HasUnreadable(made)
  <2>1. made \in [kind : {"Boolean"}, boolean : BOOLEAN]
    BY <1>4, <1>5, ValuesAssumption, EncodingAssumption
       DEF Bit, Unsigned, Signed, Name, ReadableText
  <2>2. made.kind = "Boolean" /\ made.kind \in ToSet(Kinds)
    BY DEF ToSet, Kinds
  <2> HIDE DEF made
  <2>4. Given(made)
    BY <2>1, <2>2, Zenon DEF Given
  <2>5. ~HasUnreadable(made)
    BY <2>2, Zenon DEF HasUnreadable
  <2> QED
    BY <2>4, <2>5
<1> HIDE DEF made, S
<1> QED
  BY <1>1, <1>3, <1>5, MadeIf

\* An integer that is read can be stored.
LEMMA IntegerTyped ==
    ASSUME NEW in \in Stream
    PROVE  StorableReading(DecodeBody("Integer", in))
<1> DEFINE S == (-MaxInteger)..MaxInteger
           reading == Fields(in, <<S>>)
           f == reading.value
           made == [kind |-> "Integer", integer |-> f[1]]
<1>1. DecodeBody("Integer", in) = IF reading.ok THEN Result(Construct(made), reading.rest) ELSE Fail
  BY Zenon DEF DecodeBody, DecodeFlat, Then
<1>2. S \subseteq Int
  BY Tokens
<1>3. reading \in ReadingOf(FitTo(<<S>>)) /\ (reading.ok => Fit(f, <<S>>))
  <2> HIDE DEF S
  <2> DEFINE legal == <<S>>
  <2>1. /\ Len(legal) \in Nat /\ DOMAIN legal = 1..Len(legal)
        /\ \A n \in 1..Len(legal) : legal[n] \subseteq Int
    BY <1>2, SetsOf
  <2> HIDE DEF legal
  <2>2. /\ Fields(in, legal) \in ReadingOf(FitTo(legal))
        /\ Fields(in, legal).ok => Fit(Fields(in, legal).value, legal)
    BY <2>1, FlatTyped
  <2> QED
    BY <2>2 DEF legal
<1>4. reading.ok => f[1] \in S
  <2> HIDE DEF S, reading
  <2> QED
    BY <1>3, FitSingle
<1> HIDE DEF reading
<1>5. ASSUME reading.ok PROVE Given(made) /\ ~HasUnreadable(made)
  <2>1. made \in [kind : {"Integer"}, integer : Signed]
    BY <1>4, <1>5, ValuesAssumption, EncodingAssumption
       DEF Bit, Unsigned, Signed, Name, ReadableText
  <2>2. made.kind = "Integer" /\ made.kind \in ToSet(Kinds)
    BY DEF ToSet, Kinds
  <2>3. made.integer \in (-MaxInteger)..MaxInteger
    BY <1>4, <1>5
  <2> HIDE DEF made
  <2>4. Given(made)
    BY <2>1, <2>2, Zenon DEF Given
  <2>5. ~HasUnreadable(made)
    BY <2>2, <2>3, Zenon DEF HasUnreadable
  <2> QED
    BY <2>4, <2>5
<1> HIDE DEF made, S
<1> QED
  BY <1>1, <1>3, <1>5, MadeIf

\* A quantity that is read can be stored.
LEMMA QuantityTyped ==
    ASSUME NEW in \in Stream
    PROVE  StorableReading(DecodeBody("Quantity", in))
<1> DEFINE S == Unsigned  T == 0..MaxUnit
           reading == Fields(in, <<S, T>>)
           f == reading.value
           made == [kind |-> "Quantity", quantity |-> f[1], unit |-> f[2]]
<1>1. DecodeBody("Quantity", in) = IF reading.ok THEN Result(Construct(made), reading.rest) ELSE Fail
  BY Zenon DEF DecodeBody, DecodeFlat, Then
<1>2. S \subseteq Int /\ T \subseteq Int
  BY Tokens
<1>3. reading \in ReadingOf(FitTo(<<S, T>>)) /\ (reading.ok => Fit(f, <<S, T>>))
  <2> HIDE DEF S, T
  <2> DEFINE legal == <<S, T>>
  <2>1. /\ Len(legal) \in Nat /\ DOMAIN legal = 1..Len(legal)
        /\ \A n \in 1..Len(legal) : legal[n] \subseteq Int
    BY <1>2, SetsOf
  <2> HIDE DEF legal
  <2>2. /\ Fields(in, legal) \in ReadingOf(FitTo(legal))
        /\ Fields(in, legal).ok => Fit(Fields(in, legal).value, legal)
    BY <2>1, FlatTyped
  <2> QED
    BY <2>2 DEF legal
<1>4. reading.ok => f[1] \in S /\ f[2] \in T
  <2> HIDE DEF S, T, reading
  <2> QED
    BY <1>3, FitDouble
<1> HIDE DEF reading
<1>5. ASSUME reading.ok PROVE Given(made) /\ ~HasUnreadable(made)
  <2>1. made \in [kind : {"Quantity"}, quantity : Nat, unit : Nat]
    BY <1>4, <1>5, ValuesAssumption, EncodingAssumption
       DEF Bit, Unsigned, Signed, Name, ReadableText
  <2>2. made.kind = "Quantity" /\ made.kind \in ToSet(Kinds)
    BY DEF ToSet, Kinds
  <2> HIDE DEF made
  <2>4. Given(made)
    BY <2>1, <2>2, Zenon DEF Given
  <2>5. ~HasUnreadable(made)
    BY <2>2, Zenon DEF HasUnreadable
  <2> QED
    BY <2>4, <2>5
<1> HIDE DEF made, S, T
<1> QED
  BY <1>1, <1>3, <1>5, MadeIf

\* An enumerator that is read can be stored.
LEMMA EnumerationTyped ==
    ASSUME NEW in \in Stream
    PROVE  StorableReading(DecodeBody("Enumeration", in))
<1> DEFINE S == Name  T == Unsigned
           reading == Fields(in, <<S, T>>)
           f == reading.value
           made == [kind |-> "Enumeration", domain |-> f[1], code |-> f[2]]
<1>1. DecodeBody("Enumeration", in) = IF reading.ok THEN Result(Construct(made), reading.rest) ELSE Fail
  BY Zenon DEF DecodeBody, DecodeFlat, Then
<1>2. S \subseteq Int /\ T \subseteq Int
  BY Tokens
<1>3. reading \in ReadingOf(FitTo(<<S, T>>)) /\ (reading.ok => Fit(f, <<S, T>>))
  <2> HIDE DEF S, T
  <2> DEFINE legal == <<S, T>>
  <2>1. /\ Len(legal) \in Nat /\ DOMAIN legal = 1..Len(legal)
        /\ \A n \in 1..Len(legal) : legal[n] \subseteq Int
    BY <1>2, SetsOf
  <2> HIDE DEF legal
  <2>2. /\ Fields(in, legal) \in ReadingOf(FitTo(legal))
        /\ Fields(in, legal).ok => Fit(Fields(in, legal).value, legal)
    BY <2>1, FlatTyped
  <2> QED
    BY <2>2 DEF legal
<1>4. reading.ok => f[1] \in S /\ f[2] \in T
  <2> HIDE DEF S, T, reading
  <2> QED
    BY <1>3, FitDouble
<1> HIDE DEF reading
<1>5. ASSUME reading.ok PROVE Given(made) /\ ~HasUnreadable(made)
  <2>1. made \in [kind : {"Enumeration"}, domain : Unsigned, code : Unsigned]
    BY <1>4, <1>5, ValuesAssumption, EncodingAssumption
       DEF Bit, Unsigned, Signed, Name, ReadableText
  <2>2. made.kind = "Enumeration" /\ made.kind \in ToSet(Kinds)
    BY DEF ToSet, Kinds
  <2> HIDE DEF made
  <2>4. Given(made)
    BY <2>1, <2>2, Zenon DEF Given
  <2>5. ~HasUnreadable(made)
    BY <2>2, Zenon DEF HasUnreadable
  <2> QED
    BY <2>4, <2>5
<1> HIDE DEF made, S, T
<1> QED
  BY <1>1, <1>3, <1>5, MadeIf

\* A numeric range that is read can be stored.
LEMMA NumericRangeTyped ==
    ASSUME NEW in \in Stream
    PROVE  StorableReading(DecodeBody("NumericRange", in))
<1> DEFINE S == 0..MaxUnit  T == Unsigned  U == Unsigned
           reading == Fields(in, <<S, T, U>>)
           f == reading.value
           made == [kind |-> "NumericRange", unit |-> f[1], minimum |-> f[2], maximum |-> f[3]]
<1>1. DecodeBody("NumericRange", in) = IF reading.ok THEN Result(Construct(made), reading.rest) ELSE Fail
  BY Zenon DEF DecodeBody, DecodeFlat, Then
<1>2. S \subseteq Int /\ T \subseteq Int /\ U \subseteq Int
  BY Tokens
<1>3. reading \in ReadingOf(FitTo(<<S, T, U>>)) /\ (reading.ok => Fit(f, <<S, T, U>>))
  <2> HIDE DEF S, T, U
  <2> DEFINE legal == <<S, T, U>>
  <2>1. /\ Len(legal) \in Nat /\ DOMAIN legal = 1..Len(legal)
        /\ \A n \in 1..Len(legal) : legal[n] \subseteq Int
    BY <1>2, SetsOf
  <2> HIDE DEF legal
  <2>2. /\ Fields(in, legal) \in ReadingOf(FitTo(legal))
        /\ Fields(in, legal).ok => Fit(Fields(in, legal).value, legal)
    BY <2>1, FlatTyped
  <2> QED
    BY <2>2 DEF legal
<1>4. reading.ok => f[1] \in S /\ f[2] \in T /\ f[3] \in U
  <2> HIDE DEF S, T, U, reading
  <2> QED
    BY <1>3, FitTriple
<1> HIDE DEF reading
<1>5. ASSUME reading.ok PROVE Given(made) /\ ~HasUnreadable(made)
  <2>1. made \in [kind : {"NumericRange"}, unit : Nat, minimum : Nat, maximum : Nat]
    BY <1>4, <1>5, ValuesAssumption, EncodingAssumption
       DEF Bit, Unsigned, Signed, Name, ReadableText
  <2>2. made.kind = "NumericRange" /\ made.kind \in ToSet(Kinds)
    BY DEF ToSet, Kinds
  <2> HIDE DEF made
  <2>4. Given(made)
    BY <2>1, <2>2, Zenon DEF Given
  <2>5. ~HasUnreadable(made)
    BY <2>2, Zenon DEF HasUnreadable
  <2> QED
    BY <2>4, <2>5
<1> HIDE DEF made, S, T, U
<1> QED
  BY <1>1, <1>3, <1>5, MadeIf

\* An opaque text that is read can be stored.
LEMMA OpaqueTyped ==
    ASSUME NEW in \in Stream
    PROVE  StorableReading(DecodeBody("Opaque", in))
<1> DEFINE S == Name  T == Unsigned
           reading == Fields(in, <<S, T>>)
           f == reading.value
           made == [kind |-> "Opaque", encoding |-> f[1], payload |-> f[2]]
<1>1. DecodeBody("Opaque", in) = IF reading.ok THEN Result(Construct(made), reading.rest) ELSE Fail
  BY Zenon DEF DecodeBody, DecodeFlat, Then
<1>2. S \subseteq Int /\ T \subseteq Int
  BY Tokens
<1>3. reading \in ReadingOf(FitTo(<<S, T>>)) /\ (reading.ok => Fit(f, <<S, T>>))
  <2> HIDE DEF S, T
  <2> DEFINE legal == <<S, T>>
  <2>1. /\ Len(legal) \in Nat /\ DOMAIN legal = 1..Len(legal)
        /\ \A n \in 1..Len(legal) : legal[n] \subseteq Int
    BY <1>2, SetsOf
  <2> HIDE DEF legal
  <2>2. /\ Fields(in, legal) \in ReadingOf(FitTo(legal))
        /\ Fields(in, legal).ok => Fit(Fields(in, legal).value, legal)
    BY <2>1, FlatTyped
  <2> QED
    BY <2>2 DEF legal
<1>4. reading.ok => f[1] \in S /\ f[2] \in T
  <2> HIDE DEF S, T, reading
  <2> QED
    BY <1>3, FitDouble
<1> HIDE DEF reading
<1>5. ASSUME reading.ok PROVE Given(made) /\ ~HasUnreadable(made)
  <2>1. made \in [kind : {"Opaque"}, encoding : Unsigned, payload : Unsigned]
    BY <1>4, <1>5, ValuesAssumption, EncodingAssumption
       DEF Bit, Unsigned, Signed, Name, ReadableText
  <2>2. made.kind = "Opaque" /\ made.kind \in ToSet(Kinds)
    BY DEF ToSet, Kinds
  <2> HIDE DEF made
  <2>4. Given(made)
    BY <2>1, <2>2, Zenon DEF Given
  <2>5. ~HasUnreadable(made)
    BY <2>2, Zenon DEF HasUnreadable
  <2> QED
    BY <2>4, <2>5
<1> HIDE DEF made, S, T
<1> QED
  BY <1>1, <1>3, <1>5, MadeIf

\* A counted sequence of fields.
LEMMA AnyFieldsTyped ==
    ASSUME NEW in \in Stream, NEW max
    PROVE  Counted(in, max, AnyField) \in ReadingOf(UpToLen(Unsigned, max))
BY FieldOfTyped, CountedTyped DEF AnyField

\* An absent value that is read can be stored.
LEMMA AbsentTyped ==
    ASSUME NEW in \in Stream
    PROVE  StorableReading(DecodeBody("Absent", in))
<1> DEFINE v == [kind |-> "Absent"]
<1>1. DecodeBody("Absent", in) = Got(v, in)
  BY Zenon DEF DecodeBody
<1>2. v \in [kind : {"Absent"}] /\ v.kind = "Absent" /\ v.kind \in ToSet(Kinds)
  BY DEF ToSet, Kinds
<1> HIDE DEF v
<1>3. Given(v)
  BY <1>2, Zenon DEF Given
<1>4. ~HasUnreadable(v)
  BY <1>2, Zenon DEF HasUnreadable
<1>5. Construct(v) = Made(TRUE, v)
  BY <1>2, Zenon DEF Construct
<1> QED
  BY <1>1, <1>3, <1>4, <1>5 DEF StorableReading, Storable

\* A bit set that is read can be stored.
LEMMA BitSetTyped ==
    ASSUME NEW in \in Stream
    PROVE  StorableReading(DecodeBody("BitSet", in))
<1> DEFINE bits == Field(in, 0..MaxBits)
           n == Words(bits.value)
           count == Field(bits.rest, {n})
           words == Counted(bits.rest, n, AnyField)
           made == [kind |-> "BitSet", bits |-> bits.value, words |-> words.value]
<1>1. DecodeBody("BitSet", in) =
         IF bits.ok
         THEN IF count.ok
              THEN IF words.ok THEN Result(Construct(made), words.rest) ELSE Fail
              ELSE Fail
         ELSE Fail
  BY Zenon DEF DecodeBody, DecodeBits, Then
<1>2. bits.ok \in BOOLEAN /\ (bits.ok => bits.value \in Nat /\ bits.rest \in Stream)
  <2>1. bits \in ReadingOf(0..MaxBits)
    BY FieldTyped
  <2>2. bits.ok \in BOOLEAN /\ (bits.ok => bits.value \in 0..MaxBits /\ bits.rest \in Stream)
    <3> HIDE DEF bits
    <3> QED
      BY <2>1, ReadingParts
  <2> HIDE DEF bits
  <2> QED
    BY <2>2
<1> HIDE DEF bits
<1>3. CASE bits.ok
  <2>1. words \in ReadingOf(UpToLen(Unsigned, n))
    BY <1>2, <1>3, AnyFieldsTyped
  <2> HIDE DEF words, count
  <2>2. ASSUME words.ok PROVE Given(made) /\ ~HasUnreadable(made)
    <3>1. words.value \in Seq(Unsigned)
      BY <2>1, <2>2, ReadingParts DEF UpToLen
    <3>2. made \in [kind : {"BitSet"}, bits : Nat, words : Seq(Unsigned)]
      BY <1>2, <1>3, <3>1
    <3>3. made.kind = "BitSet" /\ made.kind \in ToSet(Kinds)
      BY DEF ToSet, Kinds
    <3> HIDE DEF made
    <3>4. Given(made)
      BY <3>2, <3>3, Zenon DEF Given
    <3>5. ~HasUnreadable(made)
      BY <3>3, Zenon DEF HasUnreadable
    <3> QED
      BY <3>4, <3>5
  <2> HIDE DEF made
  <2>3. StorableReading(IF words.ok THEN Result(Construct(made), words.rest) ELSE Fail)
    BY <2>1, <2>2, MadeIf
  <2> QED
    BY <1>1, <1>3, <2>3 DEF StorableReading
<1>4. CASE ~bits.ok
  <2> HIDE DEF count, words, made
  <2> QED
    BY <1>1, <1>4 DEF StorableReading
<1> QED
  BY <1>3, <1>4

\* A numeric set that is read can be stored.
LEMMA NumericSetTyped ==
    ASSUME NEW in \in Stream
    PROVE  StorableReading(DecodeBody("NumericSet", in))
<1> DEFINE unit == Field(in, 0..MaxUnit)
           members == Counted(unit.rest, MaxCardinality, AnyField)
           made == [kind |-> "NumericSet", unit |-> unit.value, members |-> members.value]
<1>1. DecodeBody("NumericSet", in) =
         IF unit.ok
         THEN IF members.ok
              THEN Result(If(StrictlySorted(made), Construct(made)), members.rest)
              ELSE Fail
         ELSE Fail
  BY Zenon DEF DecodeBody, DecodeNumericSet, Then
<1>2. unit.ok \in BOOLEAN /\ (unit.ok => unit.value \in Nat /\ unit.rest \in Stream)
  <2>1. unit \in ReadingOf(0..MaxUnit)
    BY FieldTyped
  <2>2. unit.ok \in BOOLEAN /\ (unit.ok => unit.value \in 0..MaxUnit /\ unit.rest \in Stream)
    <3> HIDE DEF unit
    <3> QED
      BY <2>1, ReadingParts
  <2> HIDE DEF unit
  <2> QED
    BY <2>2
<1> HIDE DEF unit
<1>3. CASE unit.ok
  <2>1. members \in ReadingOf(UpToLen(Unsigned, MaxCardinality))
    BY <1>2, <1>3, AnyFieldsTyped
  <2> HIDE DEF members
  <2>2. ASSUME members.ok PROVE Given(made) /\ ~HasUnreadable(made)
    <3>1. members.value \in Seq(Unsigned)
      BY <2>1, <2>2, ReadingParts DEF UpToLen
    <3>2. members.value \in Seq(Nat)
      <4>1. Unsigned \subseteq Nat
        BY EncodingAssumption DEF Unsigned
      <4>2. \A i \in DOMAIN members.value : members.value[i] \in Nat
        BY <3>1, <4>1, SeqFacts
      <4> QED
        BY <3>1, <4>2, SeqInto
    <3>3. made \in [kind : {"NumericSet"}, unit : Nat, members : Seq(Nat)]
      BY <1>2, <1>3, <3>2
    <3>4. made.kind = "NumericSet" /\ made.kind \in ToSet(Kinds)
      BY DEF ToSet, Kinds
    <3> HIDE DEF made
    <3>5. Given(made)
      BY <3>3, <3>4, Zenon DEF Given
    <3>6. ~HasUnreadable(made)
      BY <3>4, Zenon DEF HasUnreadable
    <3> QED
      BY <3>5, <3>6
  <2> HIDE DEF made
  <2>3. StorableReading(IF members.ok THEN Result(Construct(made), members.rest) ELSE Fail)
    BY <2>1, <2>2, MadeIf
  <2>4. CASE StrictlySorted(made)
    <3>1. If(StrictlySorted(made), Construct(made)) = Construct(made)
      BY <2>4 DEF If
    <3> QED
      BY <1>1, <1>3, <2>3, <3>1 DEF StorableReading
  <2>5. CASE ~StrictlySorted(made)
    <3>1. Result(If(StrictlySorted(made), Construct(made)), members.rest) = Fail
      BY <2>5 DEF If, Result, Fail
    <3> QED
      BY <1>1, <1>3, <3>1 DEF StorableReading
  <2> QED
    BY <2>4, <2>5
<1>4. CASE ~unit.ok
  <2> HIDE DEF members, made
  <2> QED
    BY <1>1, <1>4 DEF StorableReading
<1> QED
  BY <1>3, <1>4

\* An enumeration set that is read can be stored.
LEMMA EnumSetTyped ==
    ASSUME NEW in \in Stream
    PROVE  StorableReading(DecodeBody("EnumSet", in))
<1> DEFINE domain == Field(in, Name)
           members == Counted(domain.rest, MaxCardinality, AnyField)
           made == [kind |-> "EnumSet", domain |-> domain.value, members |-> members.value]
<1>1. DecodeBody("EnumSet", in) =
         IF domain.ok
         THEN IF members.ok THEN Result(Construct(made), members.rest) ELSE Fail
         ELSE Fail
  BY Zenon DEF DecodeBody, Then
<1>2. domain.ok \in BOOLEAN /\ (domain.ok => domain.value \in Unsigned /\ domain.rest \in Stream)
  <2>1. domain \in ReadingOf(Name)
    BY FieldTyped
  <2>2. domain.ok \in BOOLEAN /\ (domain.ok => domain.value \in Name /\ domain.rest \in Stream)
    <3> HIDE DEF domain
    <3> QED
      BY <2>1, ReadingParts
  <2>3. Name \subseteq Unsigned
    BY EncodingAssumption DEF Name, ReadableText, Unsigned
  <2> HIDE DEF domain
  <2> QED
    BY <2>2, <2>3
<1> HIDE DEF domain
<1>3. CASE domain.ok
  <2>1. members \in ReadingOf(UpToLen(Unsigned, MaxCardinality))
    BY <1>2, <1>3, AnyFieldsTyped
  <2> HIDE DEF members
  <2>2. ASSUME members.ok PROVE Given(made) /\ ~HasUnreadable(made)
    <3>1. members.value \in Seq(Unsigned)
      BY <2>1, <2>2, ReadingParts DEF UpToLen
    <3>3. made \in [kind : {"EnumSet"}, domain : Unsigned, members : Seq(Unsigned)]
      BY <1>2, <1>3, <3>1
    <3>4. made.kind = "EnumSet" /\ made.kind \in ToSet(Kinds)
      BY DEF ToSet, Kinds
    <3> HIDE DEF made
    <3>5. Given(made)
      BY <3>3, <3>4, Zenon DEF Given
    <3>6. ~HasUnreadable(made)
      BY <3>4, Zenon DEF HasUnreadable
    <3> QED
      BY <3>5, <3>6
  <2> HIDE DEF made
  <2>3. StorableReading(IF members.ok THEN Result(Construct(made), members.rest) ELSE Fail)
    BY <2>1, <2>2, MadeIf
  <2> QED
    BY <1>1, <1>3, <2>3
<1>4. CASE ~domain.ok
  <2> HIDE DEF members, made
  <2> QED
    BY <1>1, <1>4 DEF StorableReading
<1> QED
  BY <1>2, <1>3, <1>4

\* A protocol set that is read can be stored.
LEMMA ProtocolSetTyped ==
    ASSUME NEW in \in Stream
    PROVE  StorableReading(DecodeBody("ProtocolSet", in))
<1> DEFINE members == Counted(in, MaxProtocols, AnyField)
           made == [kind |-> "ProtocolSet", members |-> members.value]
<1>1. DecodeBody("ProtocolSet", in) =
         IF members.ok THEN Result(Construct(made), members.rest) ELSE Fail
  BY Zenon DEF DecodeBody, DecodeMembers, Then
<1>2. members \in ReadingOf(UpToLen(Unsigned, MaxProtocols))
  BY AnyFieldsTyped
<1> HIDE DEF members
<1>3. ASSUME members.ok PROVE Given(made) /\ ~HasUnreadable(made)
  <2> DEFINE m == members.value
  <2>1. m \in Seq(Unsigned)
    BY <1>2, <1>3, ReadingParts DEF UpToLen
  <2>2. m \in Seq(Nat)
    <3>1. Unsigned \subseteq Nat
      BY EncodingAssumption DEF Unsigned
    <3>2. \A i \in DOMAIN m : m[i] \in Nat
      BY <2>1, <3>1, SeqFacts
    <3> HIDE DEF m
    <3> QED
      BY <2>1, <3>2, SeqInto
  <2>4. made \in [kind : {"ProtocolSet"}, members : Seq(Nat)]
    BY <2>2
  <2>5. made.kind = "ProtocolSet" /\ made.members = m /\ made.kind \in ToSet(Kinds)
    BY DEF ToSet, Kinds
  <2> HIDE DEF made
  <2>6. Given(made)
    BY <2>4, <2>5, Zenon DEF Given
  <2>7. ~HasUnreadable(made)
    BY <2>5, Zenon DEF HasUnreadable
  <2> QED
    BY <2>6, <2>7
<1> HIDE DEF made
<1> QED
  BY <1>1, <1>2, <1>3, MadeIf

\* A tuple set that is read can be stored.
LEMMA TupleSetTyped ==
    ASSUME NEW in \in Stream
    PROVE  StorableReading(DecodeBody("TupleSet", in))
<1> DEFINE members == Counted(in, MaxTuples, DecodeTuple)
           made == [kind |-> "TupleSet", members |-> members.value]
<1>1. DecodeBody("TupleSet", in) =
         IF members.ok THEN Result(Construct(made), members.rest) ELSE Fail
  BY Zenon DEF DecodeBody, DecodeMembers, Then
<1>2. members \in ReadingOf(UpToLen(ReadableTuple, MaxTuples))
  BY TupleTyped, CountedTyped
<1> HIDE DEF members
<1>3. ASSUME members.ok PROVE Given(made) /\ ~HasUnreadable(made)
  <2> DEFINE m == members.value
  <2>1. m \in Seq(ReadableTuple)
    BY <1>2, <1>3, ReadingParts DEF UpToLen
  <2>3. \A i \in DOMAIN m : m[i] \in Seq(Scalar) /\ Readable(m[i])
    BY <2>1, SeqFacts DEF ReadableTuple
  <2>2. m \in Seq(Seq(Scalar))
    <3> HIDE DEF m
    <3> QED
      BY <2>1, <2>3, SeqInto
  <2>4. made \in [kind : {"TupleSet"}, members : Seq(Seq(Scalar))]
    BY <2>2
  <2>5. made.kind = "TupleSet" /\ made.members = m /\ made.kind \in ToSet(Kinds)
    BY DEF ToSet, Kinds
  <2> HIDE DEF made
  <2>6. Given(made)
    BY <2>4, <2>5, Zenon DEF Given
  <2>7. ~HasUnreadable(made)
    BY <2>3, <2>5, Zenon DEF HasUnreadable, Readable
  <2> QED
    BY <2>6, <2>7
<1> HIDE DEF made
<1> QED
  BY <1>1, <1>2, <1>3, MadeIf

\* A record that is read can be stored.
LEMMA RecordTyped ==
    ASSUME NEW in \in Stream
    PROVE  StorableReading(DecodeBody("Record", in))
<1> DEFINE members == Counted(in, MaxFields, DecodeField)
           made == [kind |-> "Record", members |-> members.value]
<1>1. DecodeBody("Record", in) =
         IF members.ok THEN Result(Construct(made), members.rest) ELSE Fail
  BY Zenon DEF DecodeBody, DecodeMembers, Then
<1>2. members \in ReadingOf(UpToLen(ReadableField, MaxFields))
  BY NamedTyped, CountedTyped
<1> HIDE DEF members
<1>3. ASSUME members.ok PROVE Given(made) /\ ~HasUnreadable(made)
  <2> DEFINE m == members.value
  <2>1. m \in Seq(ReadableField)
    BY <1>2, <1>3, ReadingParts DEF UpToLen
  <2>3. \A i \in DOMAIN m : m[i] \in NamedScalar /\ ~Unreadable(m[i].scalar)
    BY <2>1, SeqFacts DEF ReadableField
  <2>2. m \in Seq(NamedScalar)
    <3> HIDE DEF m
    <3> QED
      BY <2>1, <2>3, SeqInto
  <2>4. made \in [kind : {"Record"}, members : Seq(NamedScalar)]
    BY <2>2
  <2>5. made.kind = "Record" /\ made.members = m /\ made.kind \in ToSet(Kinds)
    BY DEF ToSet, Kinds
  <2> HIDE DEF made
  <2>6. Given(made)
    BY <2>4, <2>5, Zenon DEF Given
  <2>7. ~HasUnreadable(made)
    BY <2>3, <2>5, Zenon DEF HasUnreadable
  <2> QED
    BY <2>6, <2>7
<1> HIDE DEF made
<1> QED
  BY <1>1, <1>2, <1>3, MadeIf

\* A tuple that is read can be stored.
LEMMA TupleValueTyped ==
    ASSUME NEW in \in Stream
    PROVE  StorableReading(DecodeBody("Tuple", in))
<1> DEFINE elements == DecodeTuple[in]
           made == [kind |-> "Tuple", elements |-> elements.value]
<1>1. DecodeBody("Tuple", in) =
         IF elements.ok THEN Result(Construct(made), elements.rest) ELSE Fail
  BY Zenon DEF DecodeBody, Then
<1>2. elements \in ReadingOf(ReadableTuple)
  BY TupleTyped DEF ReaderOf
<1> HIDE DEF elements
<1>3. ASSUME elements.ok PROVE Given(made) /\ ~HasUnreadable(made)
  <2> DEFINE t == elements.value
  <2>1. t \in Seq(Scalar) /\ Readable(t)
    BY <1>2, <1>3, ReadingParts DEF ReadableTuple
  <2>4. made \in [kind : {"Tuple"}, elements : Seq(Scalar)]
    BY <2>1
  <2>5. made.kind = "Tuple" /\ made.elements = t /\ made.kind \in ToSet(Kinds)
    BY DEF ToSet, Kinds
  <2> HIDE DEF made
  <2>6. Given(made)
    BY <2>4, <2>5, Zenon DEF Given
  <2>7. ~HasUnreadable(made)
    BY <2>1, <2>5, Zenon DEF HasUnreadable, Readable
  <2> QED
    BY <2>6, <2>7
<1> HIDE DEF made
<1> QED
  BY <1>1, <1>2, <1>3, MadeIf

\* A version interval that is read can be stored.
LEMMA VersionIntervalTyped ==
    ASSUME NEW in \in Stream
    PROVE  StorableReading(DecodeBody("VersionInterval", in))
<1> DEFINE minimum == DecodeVersion(in)
           below == Field(minimum.rest, Bit)
           maximum == DecodeVersion(below.rest)
           above == Field(maximum.rest, Bit)
           made == [kind |-> "VersionInterval",
                    minimum |-> minimum.value, maximum |-> maximum.value,
                    minimumInclusive |-> below.value = 1,
                    maximumInclusive |-> above.value = 1]
           last == IF above.ok THEN Result(Construct(made), above.rest) ELSE Fail
<1>1. DecodeBody("VersionInterval", in) =
         IF minimum.ok
         THEN IF below.ok THEN IF maximum.ok THEN last ELSE Fail ELSE Fail
         ELSE Fail
  BY Zenon DEF DecodeBody, DecodeVersionInterval, Then
<1>2. minimum.ok => minimum.value \in Version /\ minimum.rest \in Stream
  BY VersionTyped, ReadingParts
<1> HIDE DEF minimum
<1>3. ASSUME minimum.ok PROVE below.ok => below.rest \in Stream
  <2>1. below \in ReadingOf(Bit)
    BY <1>2, <1>3, FieldTyped
  <2> HIDE DEF below
  <2> QED
    BY <2>1, ReadingParts
<1> HIDE DEF below
<1>4. ASSUME minimum.ok, below.ok
      PROVE  maximum.ok => maximum.value \in Version /\ maximum.rest \in Stream
  BY <1>3, <1>4, VersionTyped, ReadingParts
<1> HIDE DEF maximum
<1>5. ASSUME minimum.ok, below.ok, maximum.ok PROVE StorableReading(last)
  <2>1. above \in ReadingOf(Bit)
    BY <1>4, <1>5, FieldTyped
  <2> HIDE DEF above
  <2>2. Given(made) /\ ~HasUnreadable(made)
    <3>1. made \in [kind : {"VersionInterval"}, minimum : Version, maximum : Version,
                    minimumInclusive : BOOLEAN, maximumInclusive : BOOLEAN]
      BY <1>2, <1>4, <1>5
    <3>2. made.kind = "VersionInterval" /\ made.kind \in ToSet(Kinds)
      BY DEF ToSet, Kinds
    <3> HIDE DEF made
    <3>3. Given(made)
      BY <3>1, <3>2, Zenon DEF Given
    <3>4. ~HasUnreadable(made)
      BY <3>2, Zenon DEF HasUnreadable
    <3> QED
      BY <3>3, <3>4
  <2> HIDE DEF made
  <2> QED
    BY <2>1, <2>2, MadeIf
<1> HIDE DEF last
<1> QED
  BY <1>1, <1>5, Zenon DEF StorableReading

\* What is read of a body of any kind can be stored.
LEMMA BodyTyped ==
    ASSUME NEW in \in Stream, NEW i \in 1..15
    PROVE  StorableReading(DecodeBody(Kinds[i], in))
<1>1. Kinds[i] \in {"Absent", "Boolean", "Integer", "Quantity", "Enumeration", "BitSet",
                    "NumericSet", "NumericRange", "VersionInterval", "ProtocolSet", "Tuple",
                    "TupleSet", "Record", "Opaque", "EnumSet"}
  BY DEF Kinds
<1> DEFINE kind == Kinds[i]
<1> HIDE DEF kind
<1>2. StorableReading(DecodeBody(kind, in))
  BY <1>1, AbsentTyped, BooleanTyped, IntegerTyped, QuantityTyped, EnumerationTyped,
     BitSetTyped, NumericSetTyped, NumericRangeTyped, VersionIntervalTyped, ProtocolSetTyped,
     TupleValueTyped, TupleSetTyped, RecordTyped, OpaqueTyped, EnumSetTyped DEF kind
<1> QED
  BY <1>2 DEF kind

\* Whatever is decoded was made by a constructor, and can be stored.
LEMMA DecodeTyped ==
    ASSUME NEW in \in Stream
    PROVE  StorableReading(Decode(in))
<1> DEFINE tag == Field(in, 0..(Len(Kinds) - 1))
<1>1. Decode(in) = IF tag.ok THEN DecodeBody(Kinds[tag.value + 1], tag.rest) ELSE Fail
  BY Zenon DEF Decode, Then
<1>2. tag.ok => tag.value \in 0..(Len(Kinds) - 1) /\ tag.rest \in Stream
  <2>1. tag \in ReadingOf(0..(Len(Kinds) - 1))
    BY FieldTyped
  <2> HIDE DEF tag
  <2> QED
    BY <2>1, ReadingParts
<1>3. Len(Kinds) = 15
  BY DEF Kinds
<1> HIDE DEF tag
<1>4. CASE tag.ok
  <2>1. tag.value + 1 \in 1..15
    BY <1>2, <1>3, <1>4
  <2> QED
    BY <1>1, <1>2, <1>4, <2>1, BodyTyped
<1>5. CASE ~tag.ok
  BY <1>1, <1>5 DEF StorableReading
<1> QED
  BY <1>4, <1>5

-----------------------------------------------------------------------------
(* Values that are encoded alike are the same, also those that hold a      *)
(* scalar the decoder refuses: a reader that takes any token for a payload *)
(* reads what was written.                                                 *)

\* A reader of scalars that refuses no token.  It serves the values that Encode writes and
\* Decode refuses: these are encoded apart all the same.
WidePayload(kind) == IF kind = 3 THEN <<Int, Int>> ELSE <<Int>>

\* The scalar, the tuple and the field of a record, read with it.
WideScalar == [in \in Stream |->
    Then(Field(in, 0..4), LAMBDA kind, rest :
        Then(Fields(rest, WidePayload(kind)), LAMBDA payload, left :
            Got(<<kind>> \o payload, left)))]

WideTuple == [in \in Stream |-> Counted(in, MaxArity, WideScalar)]

WideField == [in \in Stream |->
    Then(Field(in, Unsigned), LAMBDA name, rest :
        Then(WideScalar[rest], LAMBDA scalar, left :
            Got([name |-> name, scalar |-> scalar], left)))]

\* A scalar of a kind and a payload, of whatever value.
IsWide(scalar, kind, payload) ==
    /\ kind \in 0..4 /\ payload \in Stream /\ Fit(payload, WidePayload(kind))
    /\ scalar = <<kind>> \o payload

\* Every such scalar is read back by the wide reader.
LEMMA WideParts ==
    ASSUME NEW scalar, NEW kind, NEW payload, IsWide(scalar, kind, payload)
    PROVE  ReadsPart(WideScalar, scalar, scalar)
<1>0. /\ kind \in 0..4 /\ payload \in Stream /\ Fit(payload, WidePayload(kind))
      /\ scalar = <<kind>> \o payload /\ kind \in Int
  BY DEF IsWide
<1>1. ASSUME NEW r \in Stream
      PROVE  WideScalar[scalar \o r] = Got(scalar, r)
  <2> DEFINE in == <<kind>> \o (payload \o r)
             reading == Field(in, 0..4)
             fields == Fields(payload \o r, WidePayload(kind))
  <2>1. <<kind>> \in Stream /\ payload \o r \in Stream
    BY <1>0, Joins DEF Stream
  <2>2. scalar \o r = in
    BY <1>0, <2>1, Associates
  <2>3. reading = Got(kind, payload \o r) /\ in \in Stream
    BY <1>0, <2>1, FieldReads
  <2>4. fields = Got(payload, r)
    BY <1>0, FieldsRead
  <2>5. reading.ok = TRUE /\ reading.value = kind /\ reading.rest = payload \o r
    <3> HIDE DEF reading
    <3> QED
      BY <2>3 DEF Got
  <2>6. fields.ok = TRUE /\ fields.value = payload /\ fields.rest = r
    <3> HIDE DEF fields
    <3> QED
      BY <2>4 DEF Got
  <2> HIDE DEF in
  <2>7. WideScalar[in] = Got(<<kind>> \o payload, r)
    BY <2>3, <2>5, <2>6, Zenon DEF WideScalar, Then
  <2> QED
    BY <1>0, <2>2, <2>7
<1> QED
  BY <1>1 DEF ReadsPart

\* Every scalar is read back by the wide reader.
LEMMA WideScalarReads ==
    ASSUME NEW scalar \in Scalar
    PROVE  ReadsPart(WideScalar, scalar, scalar)
<1>0. Bit \subseteq Int /\ Signed \subseteq Int /\ Unsigned \subseteq Int /\ Name \subseteq Int
  BY Tokens
<1>1. ASSUME NEW k \in {0, 1, 2, 4}, NEW x \in Int, scalar = <<k, x>>
      PROVE  ReadsPart(WideScalar, scalar, scalar)
  <2>1. <<x>> \in Stream /\ k \in Int /\ k \in 0..4 /\ k # 3
    BY DEF Stream
  <2>2. WidePayload(k) = <<Int>>
    BY <2>1 DEF WidePayload
  <2>3. Fit(<<x>>, WidePayload(k))
    BY <2>2, Single
  <2>4. scalar = <<k>> \o <<x>>
    BY <1>1, <2>1, TwoTokens
  <2>5. IsWide(scalar, k, <<x>>)
    BY <2>1, <2>3, <2>4 DEF IsWide
  <2> QED
    BY <2>5, WideParts
<1>2. ASSUME NEW x \in Int, NEW y \in Int, scalar = <<3, x, y>>
      PROVE  ReadsPart(WideScalar, scalar, scalar)
  <2>1. <<x, y>> \in Stream
    BY DEF Stream
  <2>2. WidePayload(3) = <<Int, Int>>
    BY DEF WidePayload
  <2>3. Fit(<<x, y>>, WidePayload(3))
    BY <2>2, Double
  <2>4. <<3, x, y>> = <<3>> \o <<x, y>>
    OBVIOUS
  <2>5. IsWide(scalar, 3, <<x, y>>)
    BY <1>2, <2>1, <2>3, <2>4 DEF IsWide
  <2> QED
    BY <2>5, WideParts
<1>3. \/ \E x \in Int : \E k \in {0, 1, 2, 4} : scalar = <<k, x>>
      \/ \E x \in Int : \E y \in Int : scalar = <<3, x, y>>
  <2>1. CASE \E x \in Bit : scalar = <<0, x>>
    BY <1>0, <2>1
  <2>2. CASE \E x \in Signed : scalar = <<1, x>>
    BY <1>0, <2>2
  <2>3. CASE \E x \in Unsigned : scalar = <<2, x>>
    BY <1>0, <2>3
  <2>4. CASE \E x \in Name, y \in Unsigned : scalar = <<3, x, y>>
    BY <1>0, <2>4
  <2>5. CASE \E x \in Unsigned \ {EmptyText} : scalar = <<4, x>>
    BY <1>0, <2>5
  <2> QED
    BY <2>1, <2>2, <2>3, <2>4, <2>5, ScalarForms, Zenon
<1> QED
  BY <1>1, <1>2, <1>3

\* Every tuple is read back by the wide reader.
LEMMA WideTupleReads ==
    ASSUME NEW t \in Seq(Scalar), IsArity(Len(t))
    PROVE  ReadsPart(WideTuple, EncodeTuple(t), t) /\ EncodeTuple(t) \in Stream
<1> DEFINE N == Len(t)
<1>0. /\ t \in Seq(Stream) /\ \A i \in 1..N : t[i] \in Scalar
      /\ N \in Nat /\ N \in 0..MaxArity
  BY TupleIsStreams DEF IsArity
<1>1. FlattenSeq(t) \in Stream /\ <<N>> \in Stream /\ EncodeTuple(t) = <<N>> \o FlattenSeq(t)
  <2>1. FlattenSeq(t) \in Stream
    <3>1. <<>> \in Stream
      BY DEF Stream
    <3> QED
      BY <1>0, <3>1, FlattenUnrolls
  <2> QED
    BY <1>0, <2>1 DEF EncodeTuple, Listed, Stream
<1>2. \A n \in 1..N : ReadsPart(WideScalar, t[n], t[n])
  BY <1>0, WideScalarReads
<1>3. ASSUME NEW r \in Stream
      PROVE  WideTuple[EncodeTuple(t) \o r] = Got(t, r)
  <2> DEFINE in == EncodeTuple(t) \o r
  <2>1. in \in Stream
    BY <1>1, Joins
  <2>2. Counted(in, MaxArity, WideScalar) = Got(t, r)
    <3>1. Counted(Listed(t) \o r, MaxArity, WideScalar) = Got(t, r)
      BY <1>0, <1>2, ItemsRead
    <3> QED
      BY <3>1 DEF EncodeTuple
  <2> HIDE DEF in
  <2>3. WideTuple[in] = Counted(in, MaxArity, WideScalar)
    BY <2>1 DEF WideTuple
  <2> QED
    BY <2>2, <2>3 DEF in
<1> QED
  BY <1>1, <1>3, Joins DEF ReadsPart

\* Every field of a record is read back by the wide reader.
LEMMA WideFieldReads ==
    ASSUME NEW f \in NamedScalar
    PROVE  ReadsPart(WideField, EncodeField(f), f) /\ EncodeField(f) \in Stream
<1>1. f.scalar \in Scalar /\ f.name \in Unsigned /\ f = [name |-> f.name, scalar |-> f.scalar]
  BY DEF NamedScalar
<1>2. f.scalar \in Stream /\ <<f.name>> \in Stream /\ f.name \in Int
  BY <1>1, ScalarIsSequence, Tokens DEF Stream
<1>3. ASSUME NEW r \in Stream
      PROVE  WideField[EncodeField(f) \o r] = Got(f, r)
  <2> DEFINE in == EncodeField(f) \o r
             reading == Field(in, Unsigned)
             scalar == WideScalar[f.scalar \o r]
  <2>1. in = <<f.name>> \o (f.scalar \o r) /\ f.scalar \o r \in Stream
    <3>1. (<<f.name>> \o f.scalar) \o r = <<f.name>> \o (f.scalar \o r)
      BY <1>2, Associates
    <3>2. f.scalar \o r \in Stream
      BY <1>2, Joins
    <3> QED
      BY <3>1, <3>2 DEF EncodeField
  <2>2. reading = Got(f.name, f.scalar \o r) /\ in \in Stream
    <3> DEFINE after == f.scalar \o r
               n == f.name
    <3>1. n \in Unsigned /\ n \in Int /\ after \in Stream
      BY <1>1, <1>2, <2>1
    <3> HIDE DEF n, after
    <3>2. Field(<<n>> \o after, Unsigned) = Got(n, after) /\ <<n>> \o after \in Stream
      BY <3>1, FieldReads
    <3> QED
      BY <2>1, <3>2 DEF n, after
  <2>3. scalar = Got(f.scalar, r)
    BY <1>1, WideScalarReads DEF ReadsPart
  <2>4. reading.ok = TRUE /\ reading.value = f.name /\ reading.rest = f.scalar \o r
    <3> HIDE DEF reading
    <3> QED
      BY <2>2 DEF Got
  <2>5. scalar.ok = TRUE /\ scalar.value = f.scalar /\ scalar.rest = r
    <3> HIDE DEF scalar
    <3> QED
      BY <2>3 DEF Got
  <2> HIDE DEF in
  <2>6. WideField[in] = Got([name |-> f.name, scalar |-> f.scalar], r)
    BY <2>2, <2>4, <2>5, Zenon DEF WideField, Then
  <2> QED
    BY <1>1, <2>6 DEF in
<1>4. EncodeField(f) \in Stream
  BY <1>2, Joins DEF EncodeField
<1> QED
  BY <1>3, <1>4 DEF ReadsPart

\* What a constructor made, whether or not the decoder reads it.
Constructed(v) == Given(v) /\ Construct(v) = Made(TRUE, v)

\* The tag, and what follows it.
Tagged(v, body) ==
    /\ Encode(v) = <<Tag(v.kind)>> \o body /\ body \in Stream /\ Tag(v.kind) \in Int

\* A tag comes off what it was written before.
LEMMA TagOnce ==
    ASSUME NEW k \in Int, NEW a \in Stream
    PROVE  Head(<<k>> \o a) = k /\ Tail(<<k>> \o a) = a
BY DEF Stream

\* Two values that are encoded alike have the same body.
LEMMA SameBody ==
    ASSUME NEW v, NEW w, NEW a, NEW b, Tagged(v, a), Tagged(w, b), Encode(v) = Encode(w)
    PROVE  a = b
<1>1. Tail(Encode(v)) = a
  BY TagOnce DEF Tagged
<1>2. Tail(Encode(w)) = b
  BY TagOnce DEF Tagged
<1> QED
  BY <1>1, <1>2

\* The encoding of a tagged value begins with its tag.
LEMMA TaggedHead ==
    ASSUME NEW v, NEW body, Tagged(v, body)
    PROVE  Head(Encode(v)) = Tag(v.kind)
BY TagOnce DEF Tagged

\* What a reader takes off is what was written.
LEMMA OnePart ==
    ASSUME NEW reader, NEW part \in Stream, NEW x, NEW y,
           ReadsPart(reader, part, x), ReadsPart(reader, part, y)
    PROVE  x = y
<1>1. reader[part \o <<>>] = Got(x, <<>>) /\ reader[part \o <<>>] = Got(y, <<>>)
  BY Joins DEF ReadsPart
<1> QED
  BY <1>1, GotIsOne

\* The tags of the kinds that can hold what Decode refuses.
LEMMA TagsOfWide ==
    /\ Tag("Integer") \in Int /\ Tag("Tuple") \in Int
    /\ Tag("TupleSet") \in Int /\ Tag("Record") \in Int
<1>1. Kinds[3] = "Integer" /\ Kinds[11] = "Tuple" /\ Kinds[12] = "TupleSet" /\ Kinds[13] = "Record"
  BY DEF Kinds
<1>2. \A i \in 1..15 : Tag(Kinds[i]) \in Int
  BY TagOf
<1> QED
  BY <1>1, <1>2

\* The body of an integer.
LEMMA IntegerTagged ==
    ASSUME NEW v, Constructed(v), v.kind = "Integer"
    PROVE  Tagged(v, <<v.integer>>) /\ v = [kind |-> "Integer", integer |-> v.integer]
<1>1. v \in [kind : {"Integer"}, integer : Signed]
  BY Zenon DEF Constructed, Given
<1>2. v.integer \in Int
  BY <1>1, Tokens
<1>3. Encode(v) = <<Tag(v.kind)>> \o <<v.integer>>
  BY Zenon DEF Encode
<1>4. <<v.integer>> \in Stream
  BY <1>2 DEF Stream
<1> QED
  BY <1>1, <1>3, <1>4, TagsOfWide DEF Tagged

\* The body of a tuple, which the wide reader reads back.
LEMMA TupleTagged ==
    ASSUME NEW v, Constructed(v), v.kind = "Tuple"
    PROVE  /\ Tagged(v, EncodeTuple(v.elements))
           /\ ReadsPart(WideTuple, EncodeTuple(v.elements), v.elements)
           /\ v = [kind |-> "Tuple", elements |-> v.elements]
<1>1. v \in [kind : {"Tuple"}, elements : Seq(Scalar)]
  BY Zenon DEF Constructed, Given
<1>2. Demands(v)
  BY ConstructDemands DEF Constructed, Made
<1>3. IsArity(Len(v.elements))
  BY <1>2, Zenon DEF Demands
<1>4. v.elements \in Seq(Scalar)
  BY <1>1
<1>5. Encode(v) = <<Tag(v.kind)>> \o EncodeTuple(v.elements)
  BY Zenon DEF Encode
<1> QED
  BY <1>1, <1>3, <1>4, <1>5, WideTupleReads, TagsOfWide DEF Tagged

\* The members of two values, read by the same reader.
LEMMA SameMembers ==
    ASSUME NEW V, NEW m \in Seq(V), NEW n \in Seq(V), NEW p, NEW q, NEW reader, NEW max,
           p = [i \in DOMAIN m |-> p[i]], q = [i \in DOMAIN n |-> q[i]],
           \A i \in DOMAIN m : ReadsPart(reader, p[i], m[i]) /\ p[i] \in Stream,
           \A i \in DOMAIN n : ReadsPart(reader, q[i], n[i]) /\ q[i] \in Stream,
           Sized(m, max), Sized(n, max), Listed(p) = Listed(q)
    PROVE  m = n
<1>1. <<>> \in Stream
  BY DEF Stream
<1>2. Counted(Listed(p) \o <<>>, max, reader) = Got(m, <<>>)
  BY <1>1, MembersRead
<1>3. Counted(Listed(q) \o <<>>, max, reader) = Got(n, <<>>)
  BY <1>1, MembersRead
<1> QED
  BY <1>2, <1>3, GotIsOne

\* The body of a tuple set: its tuples, each of which the wide reader reads back.
LEMMA TupleSetTagged ==
    ASSUME NEW v, Constructed(v), v.kind = "TupleSet"
    PROVE  LET m == v.members
               parts == [i \in DOMAIN m |-> EncodeTuple(m[i])]
           IN  /\ Tagged(v, Listed(parts)) /\ m \in Seq(Seq(Scalar)) /\ Sized(m, MaxTuples)
               /\ \A i \in DOMAIN m : ReadsPart(WideTuple, parts[i], m[i]) /\ parts[i] \in Stream
               /\ v = [kind |-> "TupleSet", members |-> m]
<1> DEFINE m == v.members
           parts == [i \in DOMAIN m |-> EncodeTuple(m[i])]
<1>1. v \in [kind : {"TupleSet"}, members : Seq(Seq(Scalar))]
  BY Zenon DEF Constructed, Given
<1>2. Demands(v)
  BY ConstructDemands DEF Constructed, Made
<1>3. Sized(m, MaxTuples) /\ OneArity(m) /\ IsArity(Len(m[1]))
  BY <1>2, Zenon DEF Demands
<1>4. m \in Seq(Seq(Scalar))
  BY <1>1
<1>5. \A i \in DOMAIN m : ReadsPart(WideTuple, parts[i], m[i]) /\ parts[i] \in Stream
  <2>1. ASSUME NEW i \in DOMAIN m
        PROVE  ReadsPart(WideTuple, EncodeTuple(m[i]), m[i]) /\ EncodeTuple(m[i]) \in Stream
    <3>1. m[i] \in Seq(Scalar)
      <4> HIDE DEF m
      <4> QED
        BY <1>4
    <3>2. IsArity(Len(m[i]))
      BY <1>3 DEF OneArity
    <3> HIDE DEF m
    <3> QED
      BY <3>1, <3>2, WideTupleReads
  <2> HIDE DEF m
  <2> QED
    BY <2>1
<1>6. Encode(v) = <<Tag(v.kind)>> \o Listed(parts)
  BY Zenon DEF Encode
<1>7. Listed(parts) \in Stream
  <2>1. parts = [i \in DOMAIN m |-> parts[i]] /\ <<>> \in Stream
    BY DEF Stream
  <2> HIDE DEF parts, m
  <2> QED
    BY <1>3, <1>4, <1>5, <2>1, MembersRead
<1> QED
  BY <1>1, <1>3, <1>4, <1>5, <1>6, <1>7, TagsOfWide DEF Tagged

\* The body of a record: its fields, each of which the wide reader reads back.
LEMMA RecordTagged ==
    ASSUME NEW v, Constructed(v), v.kind = "Record"
    PROVE  LET m == v.members
               parts == [i \in DOMAIN m |-> EncodeField(m[i])]
           IN  /\ Tagged(v, Listed(parts)) /\ m \in Seq(NamedScalar) /\ Sized(m, MaxFields)
               /\ \A i \in DOMAIN m : ReadsPart(WideField, parts[i], m[i]) /\ parts[i] \in Stream
               /\ v = [kind |-> "Record", members |-> m]
<1> DEFINE m == v.members
           parts == [i \in DOMAIN m |-> EncodeField(m[i])]
<1>1. v \in [kind : {"Record"}, members : Seq(NamedScalar)]
  BY Zenon DEF Constructed, Given
<1>2. Demands(v)
  BY ConstructDemands DEF Constructed, Made
<1>3. Sized(m, MaxFields)
  BY <1>2, Zenon DEF Demands
<1>4. m \in Seq(NamedScalar)
  BY <1>1
<1>5. \A i \in DOMAIN m : ReadsPart(WideField, parts[i], m[i]) /\ parts[i] \in Stream
  <2>1. ASSUME NEW i \in DOMAIN m
        PROVE  ReadsPart(WideField, EncodeField(m[i]), m[i]) /\ EncodeField(m[i]) \in Stream
    <3>1. m[i] \in NamedScalar
      <4> HIDE DEF m
      <4> QED
        BY <1>4
    <3> HIDE DEF m
    <3> QED
      BY <3>1, WideFieldReads
  <2> HIDE DEF m
  <2> QED
    BY <2>1
<1>6. Encode(v) = <<Tag(v.kind)>> \o Listed(parts)
  BY Zenon DEF Encode
<1>7. Listed(parts) \in Stream
  <2>1. parts = [i \in DOMAIN m |-> parts[i]] /\ <<>> \in Stream
    BY DEF Stream
  <2> HIDE DEF parts, m
  <2> QED
    BY <1>3, <1>4, <1>5, <2>1, MembersRead
<1> QED
  BY <1>1, <1>3, <1>4, <1>5, <1>6, <1>7, TagsOfWide DEF Tagged

\* The kinds that can hold what Decode refuses.
WideKinds == {"Integer", "Tuple", "TupleSet", "Record"}

\* A value that is constructed can be stored, or is of one of these kinds.
LEMMA ReadableOrWide ==
    ASSUME NEW v, Constructed(v)
    PROVE  Storable(v) \/ v.kind \in WideKinds
<1>1. CASE v.kind \notin WideKinds
  <2>1. ~HasUnreadable(v)
    BY <1>1, Zenon DEF HasUnreadable, WideKinds
  <2> QED
    BY <2>1 DEF Storable, Constructed
<1> QED
  BY <1>1

\* The encoding of a constructed value begins with the tag of its kind.
LEMMA EncodedHead ==
    ASSUME NEW v, Constructed(v)
    PROVE  Head(Encode(v)) = Tag(v.kind)
<1>1. CASE Storable(v)
  BY <1>1, StorableReads DEF ReadsBack
<1>2. CASE v.kind = "Integer"
  BY <1>2, IntegerTagged, TaggedHead
<1>3. CASE v.kind = "Tuple"
  BY <1>3, TupleTagged, TaggedHead
<1>4. CASE v.kind = "TupleSet"
  BY <1>4, TupleSetTagged, TaggedHead
<1>5. CASE v.kind = "Record"
  BY <1>5, RecordTagged, TaggedHead
<1> QED
  BY <1>1, <1>2, <1>3, <1>4, <1>5, ReadableOrWide DEF WideKinds

\* Kinds are told apart by their tags.
LEMMA KindOfTag ==
    ASSUME NEW v, NEW w, Given(v), Given(w), Tag(v.kind) = Tag(w.kind)
    PROVE  v.kind = w.kind
<1>1. \A x : x \in ToSet(Kinds) => \E i \in 1..15 : x = Kinds[i]
  BY DEF ToSet, Kinds
<1>2. v.kind \in ToSet(Kinds) /\ w.kind \in ToSet(Kinds)
  BY DEF Given
<1>3. PICK i \in 1..15 : v.kind = Kinds[i]
  BY <1>1, <1>2
<1>4. PICK j \in 1..15 : w.kind = Kinds[j]
  BY <1>1, <1>2
<1>5. Tag(Kinds[i]) = i - 1 /\ Tag(Kinds[j]) = j - 1
  BY TagOf
<1>6. i = j
  BY <1>3, <1>4, <1>5
<1> QED
  BY <1>3, <1>4, <1>6

\* Values of these kinds that are encoded alike are the same.
LEMMA SameWide ==
    ASSUME NEW v, NEW w, Constructed(v), Constructed(w), Encode(v) = Encode(w),
           v.kind = w.kind, v.kind \in WideKinds
    PROVE  v = w
<1>1. CASE v.kind = "Integer"
  <2>1. Tagged(v, <<v.integer>>) /\ v = [kind |-> "Integer", integer |-> v.integer]
    BY <1>1, IntegerTagged
  <2>2. Tagged(w, <<w.integer>>) /\ w = [kind |-> "Integer", integer |-> w.integer]
    BY <1>1, IntegerTagged
  <2>3. <<v.integer>> = <<w.integer>>
    BY <2>1, <2>2, SameBody
  <2>4. v.integer = w.integer
    BY <2>3
  <2> QED
    BY <2>1, <2>2, <2>4
<1>2. CASE v.kind = "Tuple"
  <2> DEFINE a == EncodeTuple(v.elements)  b == EncodeTuple(w.elements)
  <2>1. /\ Tagged(v, a) /\ ReadsPart(WideTuple, a, v.elements)
        /\ v = [kind |-> "Tuple", elements |-> v.elements]
    BY <1>2, TupleTagged
  <2>2. /\ Tagged(w, b) /\ ReadsPart(WideTuple, b, w.elements)
        /\ w = [kind |-> "Tuple", elements |-> w.elements]
    BY <1>2, TupleTagged
  <2> HIDE DEF a, b
  <2>3. a = b /\ a \in Stream
    BY <2>1, <2>2, SameBody DEF Tagged
  <2>4. v.elements = w.elements
    BY <2>1, <2>2, <2>3, OnePart
  <2> QED
    BY <2>1, <2>2, <2>4
<1>3. CASE v.kind = "TupleSet"
  <2> DEFINE m == v.members
             n == w.members
             p == [i \in DOMAIN m |-> EncodeTuple(m[i])]
             q == [i \in DOMAIN n |-> EncodeTuple(n[i])]
  <2>1. /\ Tagged(v, Listed(p)) /\ m \in Seq(Seq(Scalar)) /\ Sized(m, MaxTuples)
        /\ \A i \in DOMAIN m : ReadsPart(WideTuple, p[i], m[i]) /\ p[i] \in Stream
        /\ v = [kind |-> "TupleSet", members |-> m]
    BY <1>3, TupleSetTagged
  <2>2. /\ Tagged(w, Listed(q)) /\ n \in Seq(Seq(Scalar)) /\ Sized(n, MaxTuples)
        /\ \A i \in DOMAIN n : ReadsPart(WideTuple, q[i], n[i]) /\ q[i] \in Stream
        /\ w = [kind |-> "TupleSet", members |-> n]
    BY <1>3, TupleSetTagged
  <2>3. p = [i \in DOMAIN m |-> p[i]] /\ q = [i \in DOMAIN n |-> q[i]]
    OBVIOUS
  <2> HIDE DEF p, q, m, n
  <2>4. Listed(p) = Listed(q)
    BY <2>1, <2>2, SameBody
  <2>5. m = n
    BY <2>1, <2>2, <2>3, <2>4, SameMembers
  <2> QED
    BY <2>1, <2>2, <2>5
<1>4. CASE v.kind = "Record"
  <2> DEFINE m == v.members
             n == w.members
             p == [i \in DOMAIN m |-> EncodeField(m[i])]
             q == [i \in DOMAIN n |-> EncodeField(n[i])]
  <2>1. /\ Tagged(v, Listed(p)) /\ m \in Seq(NamedScalar) /\ Sized(m, MaxFields)
        /\ \A i \in DOMAIN m : ReadsPart(WideField, p[i], m[i]) /\ p[i] \in Stream
        /\ v = [kind |-> "Record", members |-> m]
    BY <1>4, RecordTagged
  <2>2. /\ Tagged(w, Listed(q)) /\ n \in Seq(NamedScalar) /\ Sized(n, MaxFields)
        /\ \A i \in DOMAIN n : ReadsPart(WideField, q[i], n[i]) /\ q[i] \in Stream
        /\ w = [kind |-> "Record", members |-> n]
    BY <1>4, RecordTagged
  <2>3. p = [i \in DOMAIN m |-> p[i]] /\ q = [i \in DOMAIN n |-> q[i]]
    OBVIOUS
  <2> HIDE DEF p, q, m, n
  <2>4. Listed(p) = Listed(q)
    BY <2>1, <2>2, SameBody
  <2>5. m = n
    BY <2>1, <2>2, <2>3, <2>4, SameMembers
  <2> QED
    BY <2>1, <2>2, <2>5
<1> QED
  BY <1>1, <1>2, <1>3, <1>4 DEF WideKinds

\* Values that are encoded alike are the same.
LEMMA EncodedOnce ==
    ASSUME NEW v, NEW w, Constructed(v), Constructed(w), Encode(v) = Encode(w)
    PROVE  v = w
<1>1. v.kind = w.kind
  BY EncodedHead, KindOfTag DEF Constructed
<1>2. CASE v.kind \in WideKinds
  BY <1>1, <1>2, SameWide
<1>3. CASE v.kind \notin WideKinds
  <2>1. ReadsBack(v) /\ ReadsBack(w)
    BY <1>1, <1>3, ReadableOrWide, StorableReads
  <2>2. <<>> \in Stream
    BY DEF Stream
  <2>3. Decode(Encode(v) \o <<>>) = Got(v, <<>>) /\ Decode(Encode(w) \o <<>>) = Got(w, <<>>)
    BY <2>1, <2>2 DEF ReadsBack
  <2> QED
    BY <2>3, GotIsOne
<1> QED
  BY <1>2, <1>3

=============================================================================
