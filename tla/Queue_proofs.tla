---------------------------- MODULE Queue_proofs ----------------------------
(* Facts about queues as sequences that the proofs about the notifications and *)
(* about the due attempts need.                                               *)
EXTENDS Integers, SequencesExt, WellFoundedInduction, TLAPS

LEMMA LeastElement ==
    ASSUME NEW I \in SUBSET Nat, I # {}
    PROVE  \E x \in I : \A y \in I : x <= y
  <1>1. PICK x \in I : \A y \in I : ~(<<y, x>> \in OpToRel(<, Nat))
    BY WFMin, NatLessThanWellFounded
  <1>2. ASSUME NEW y \in I PROVE x <= y
    <2>1. ~(y < x)
      BY <1>1 DEF OpToRel
    <2> QED BY <2>1
  <1> QED BY <1>2

LEMMA MinimumOfNaturals ==
    ASSUME NEW I \in SUBSET Nat, I # {}
    PROVE  Min(I) \in I
    BY LeastElement DEF Min

\* What is left of a queue when an element is removed: the others, closed up.
LEMMA RemovedShape ==
    ASSUME NEW S, NEW s \in Seq(S), NEW e, \E i \in 1..Len(s) : s[i] = e
    PROVE  \E k \in 1..Len(s) :
              /\ s[k] = e
              /\ RemoveFirst(s, e) \in Seq(S) /\ Len(RemoveFirst(s, e)) = Len(s) - 1
              /\ \A i \in 1..(Len(s) - 1) :
                    RemoveFirst(s, e)[i] = IF i < k THEN s[i] ELSE s[i + 1]
  <1> DEFINE I == {i \in 1..Len(s) : s[i] = e}
             k == Min(I)
  <1>1. I # {} /\ I \in SUBSET Nat
    OBVIOUS
  <1>2. k \in I
    BY <1>1, MinimumOfNaturals
  <1>3. RemoveFirst(s, e) = SubSeq(s, 1, k - 1) \o SubSeq(s, k + 1, Len(s))
    BY <1>1 DEF RemoveFirst, RemoveAt, SelectInSeq
  <1>4. k \in 1..Len(s) /\ s[k] = e /\ Len(s) \in Nat
    BY <1>2
  <1> HIDE DEF k, I
  <1> PICK t : t = RemoveFirst(s, e)
    OBVIOUS
  <1> PICK n \in Nat : n = Len(s)
    BY <1>4
  <1> DEFINE a == SubSeq(s, 1, k - 1)
             b == SubSeq(s, k + 1, n)
  <1>5. k \in Nat /\ k >= 1 /\ k <= n /\ n = Len(s)
    BY <1>4
  <1>6. a \in Seq(S) /\ Len(a) = k - 1 /\ \A i \in 1..(k - 1) : a[i] = s[i]
    BY <1>5
  <1>7. b \in Seq(S) /\ Len(b) = n - k /\ \A i \in 1..(n - k) : b[i] = s[k + i]
    BY <1>5
  <1>8. t = a \o b
    BY <1>3, <1>5
  <1> HIDE DEF a, b
  <1>9. t \in Seq(S) /\ Len(t) = n - 1
    <2>1. t \in Seq(S)
      BY <1>6, <1>7, <1>8
    <2>2. Len(t) = n - 1
      BY <1>5, <1>6, <1>7, <1>8
    <2> QED BY <2>1, <2>2
  <1>10. ASSUME NEW i \in 1..(n - 1)
         PROVE  t[i] = IF i < k THEN s[i] ELSE s[i + 1]
    <2>1. CASE i < k
      BY <1>5, <1>6, <1>7, <1>8, <2>1
    <2>2. CASE ~(i < k)
      <3>1. t[i] = b[i - (k - 1)] /\ i - (k - 1) \in 1..(n - k)
        BY <1>5, <1>6, <1>7, <1>8, <2>2
      <3>2. k + (i - (k - 1)) = i + 1
        BY <1>5
      <3> QED BY <1>7, <2>2, <3>1, <3>2
    <2> QED BY <2>1, <2>2
  <1> QED BY <1>4, <1>9, <1>10

LEMMA RemovedFromQueue ==
    ASSUME NEW S, NEW s \in Seq(S), NEW e
    PROVE  RemoveFirst(s, e) \in Seq(S)
  <1>1. CASE \E i \in 1..Len(s) : s[i] = e
    BY <1>1, RemovedShape
  <1>2. CASE ~ \E i \in 1..Len(s) : s[i] = e
    BY <1>2 DEF RemoveFirst
  <1> QED BY <1>1, <1>2

\* A queue without repetitions loses one element and keeps the others.
LEMMA RemovedOnce ==
    ASSUME NEW S, NEW s \in Seq(S), NEW e,
           \A i, j \in 1..Len(s) : s[i] = s[j] => i = j
    PROVE  /\ \A i, j \in 1..Len(RemoveFirst(s, e)) :
                 RemoveFirst(s, e)[i] = RemoveFirst(s, e)[j] => i = j
           /\ \A x : (\E i \in 1..Len(RemoveFirst(s, e)) : RemoveFirst(s, e)[i] = x)
                        <=> x # e /\ \E i \in 1..Len(s) : s[i] = x
  <1>1. CASE \E i \in 1..Len(s) : s[i] = e
    <2> PICK t : t = RemoveFirst(s, e)
      OBVIOUS
    <2> PICK n \in Nat : n = Len(s)
      OBVIOUS
    <2>1. PICK k \in 1..n : /\ s[k] = e /\ Len(t) = n - 1
                            /\ \A i \in 1..(n - 1) : t[i] = IF i < k THEN s[i] ELSE s[i + 1]
      BY <1>1, RemovedShape
    <2>2. k \in 1..n /\ s[k] = e
      BY <2>1
    <2>3. Len(t) = n - 1 /\ \A i \in 1..(n - 1) : t[i] = IF i < k THEN s[i] ELSE s[i + 1]
      BY <2>1
    <2>4. \A i, j \in 1..n : s[i] = s[j] => i = j
      OBVIOUS
    <2>5. ASSUME NEW i \in 1..(n - 1), NEW j \in 1..(n - 1), t[i] = t[j]
          PROVE  i = j
      <3>1. i \in 1..n /\ i + 1 \in 1..n /\ j \in 1..n /\ j + 1 \in 1..n
        OBVIOUS
      <3>2. CASE i < k /\ j < k
        BY <2>3, <2>4, <2>5, <3>1, <3>2
      <3>3. CASE i < k /\ ~(j < k)
        <4>1. s[i] = s[j + 1]
          BY <2>3, <2>5, <3>3
        <4>2. i = j + 1
          BY <2>4, <3>1, <4>1
        <4> QED BY <2>2, <3>3, <4>2
      <3>4. CASE ~(i < k) /\ j < k
        <4>1. s[i + 1] = s[j]
          BY <2>3, <2>5, <3>4
        <4>2. i + 1 = j
          BY <2>4, <3>1, <4>1
        <4> QED BY <2>2, <3>4, <4>2
      <3>5. CASE ~(i < k) /\ ~(j < k)
        <4>1. s[i + 1] = s[j + 1]
          BY <2>3, <2>5, <3>5
        <4>2. i + 1 = j + 1
          BY <2>4, <3>1, <4>1
        <4> QED BY <4>2
      <3> QED BY <3>2, <3>3, <3>4, <3>5
    <2>6. ASSUME NEW i \in 1..(n - 1)
          PROVE  t[i] # e /\ \E j \in 1..n : s[j] = t[i]
      <3>1. i \in 1..n /\ i + 1 \in 1..n /\ k \in 1..n
        BY <2>2
      <3>2. CASE i < k
        BY <2>2, <2>3, <2>4, <3>1, <3>2
      <3>3. CASE ~(i < k)
        <4>1. t[i] = s[i + 1] /\ i + 1 # k
          BY <2>2, <2>3, <3>3
        <4> QED BY <2>2, <2>4, <3>1, <4>1
      <3> QED BY <3>2, <3>3
    <2>7. ASSUME NEW j \in 1..n, s[j] # e
          PROVE  \E i \in 1..(n - 1) : t[i] = s[j]
      <3>1. j # k /\ k \in 1..n
        BY <2>2, <2>7
      <3>2. CASE j < k
        BY <2>3, <3>1, <3>2
      <3>3. CASE j > k
        <4>1. j - 1 \in 1..(n - 1) /\ ~(j - 1 < k) /\ (j - 1) + 1 = j
          BY <3>1, <3>3
        <4>2. t[j - 1] = s[j]
          BY <2>3, <4>1
        <4> QED BY <4>1, <4>2
      <3> QED BY <3>1, <3>2, <3>3
    <2>8. 1..Len(t) = 1..(n - 1)
      BY <2>3
    <2>9. \A i, j \in 1..Len(t) : t[i] = t[j] => i = j
      BY <2>5, <2>8
    <2>10. \A x : (\E i \in 1..Len(t) : t[i] = x) <=> x # e /\ \E i \in 1..Len(s) : s[i] = x
      <3> TAKE x
      <3>1. (\E i \in 1..(n - 1) : t[i] = x) => x # e /\ \E i \in 1..n : s[i] = x
        BY <2>6
      <3>2. x # e /\ (\E i \in 1..n : s[i] = x) => \E i \in 1..(n - 1) : t[i] = x
        BY <2>7
      <3> QED BY <2>8, <3>1, <3>2
    <2> QED BY <2>9, <2>10
  <1>2. CASE ~ \E i \in 1..Len(s) : s[i] = e
    BY <1>2 DEF RemoveFirst
  <1> QED BY <1>1, <1>2

\* x stands before y.
Before(s, x, y) == \E i, j \in 1..Len(s) : i < j /\ s[i] = x /\ s[j] = y

\* What is left of a queue keeps its order.
LEMMA RemovedInOrder ==
    ASSUME NEW S, NEW s \in Seq(S), NEW e, NEW x, NEW y, Before(RemoveFirst(s, e), x, y)
    PROVE  Before(s, x, y)
  <1>1. CASE \E i \in 1..Len(s) : s[i] = e
    <2> PICK t : t = RemoveFirst(s, e)
      OBVIOUS
    <2> PICK n \in Nat : n = Len(s)
      OBVIOUS
    <2>1. PICK k \in 1..Len(s) :
             /\ s[k] = e
             /\ RemoveFirst(s, e) \in Seq(S) /\ Len(RemoveFirst(s, e)) = Len(s) - 1
             /\ \A i \in 1..(Len(s) - 1) :
                   RemoveFirst(s, e)[i] = IF i < k THEN s[i] ELSE s[i + 1]
      BY ONLY <1>1, s \in Seq(S), RemovedShape
    <2>2. PICK i \in 1..(n - 1), j \in 1..(n - 1) : i < j /\ t[i] = x /\ t[j] = y
      BY <2>1 DEF Before
    <2> DEFINE a == IF i < k THEN i ELSE i + 1
               b == IF j < k THEN j ELSE j + 1
    <2>3. a \in 1..n /\ b \in 1..n /\ a < b
      BY <2>2
    <2>4. s[a] = x /\ s[b] = y
      BY <2>1, <2>2
    <2> HIDE DEF a, b
    <2> QED BY <2>3, <2>4 DEF Before
  <1>2. CASE ~ \E i \in 1..Len(s) : s[i] = e
    BY <1>2 DEF RemoveFirst
  <1> QED BY <1>1, <1>2

\* An element that joins a queue joins it at its end.
LEMMA AppendedInOrder ==
    ASSUME NEW S, NEW s \in Seq(S), NEW e, NEW x, NEW y, Before(Append(s, e), x, y), y # e
    PROVE  Before(s, x, y)
  <1>1. PICK i \in 1..(Len(s) + 1), j \in 1..(Len(s) + 1) :
           i < j /\ Append(s, e)[i] = x /\ Append(s, e)[j] = y
    BY DEF Before
  <1>2. j \in 1..Len(s) /\ i \in 1..Len(s)
    BY <1>1
  <1> QED BY <1>1, <1>2 DEF Before

\* A queue without repetitions takes a new element at its end.
LEMMA AppendedOnce ==
    ASSUME NEW S, NEW s \in Seq(S), NEW e, \A i, j \in 1..Len(s) : s[i] = s[j] => i = j,
           \A i \in 1..Len(s) : s[i] # e
    PROVE  /\ \A i, j \in 1..Len(Append(s, e)) : Append(s, e)[i] = Append(s, e)[j] => i = j
           /\ \A x : (\E i \in 1..Len(Append(s, e)) : Append(s, e)[i] = x)
                        <=> x = e \/ \E i \in 1..Len(s) : s[i] = x
  <1> PICK k \in Nat : k = Len(s)
    OBVIOUS
  <1> PICK t : t = Append(s, e)
    OBVIOUS
  <1>1. Len(t) = k + 1 /\ t[k + 1] = e /\ \A i \in 1..k : t[i] = s[i]
    OBVIOUS
  <1>2. \A i \in 1..(k + 1) : i \in 1..k \/ i = k + 1
    OBVIOUS
  <1>3. k + 1 \in 1..(k + 1) /\ \A i \in 1..k : i \in 1..(k + 1)
    OBVIOUS
  <1>4. ASSUME NEW i \in 1..(k + 1), NEW j \in 1..(k + 1), t[i] = t[j]
        PROVE  i = j
    BY <1>1, <1>2, <1>4
  <1>5. ASSUME NEW x
        PROVE  (\E i \in 1..(k + 1) : t[i] = x) <=> x = e \/ \E i \in 1..k : s[i] = x
    <2>1. ASSUME NEW i \in 1..(k + 1), t[i] = x
          PROVE  x = e \/ \E j \in 1..k : s[j] = x
      BY <1>1, <1>2, <2>1
    <2>2. ASSUME x = e \/ \E j \in 1..k : s[j] = x
          PROVE  \E i \in 1..(k + 1) : t[i] = x
      BY <1>1, <1>3, <2>2
    <2> QED BY <2>1, <2>2
  <1>6. 1..Len(t) = 1..(k + 1)
    BY <1>1
  <1> QED BY <1>4, <1>5, <1>6
=============================================================================
