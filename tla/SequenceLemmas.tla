--------------------------- MODULE SequenceLemmas ---------------------------
(***************************************************************************)
(* Facts about finite sequences that the proofs about the queues of this   *)
(* project have in common.                                                 *)
(***************************************************************************)
EXTENDS Integers, Sequences, TLAPS

\* A function on 1..n is a sequence of length n.
LEMMA FunctionIsSeq ==
  ASSUME NEW S, NEW n \in Nat, NEW f \in [1..n -> S]
  PROVE  f \in Seq(S) /\ Len(f) = n /\ DOMAIN f = 1..n
OBVIOUS

\* A sequence is determined by its elements.
LEMMA SameElements ==
  ASSUME NEW S, NEW s \in Seq(S), NEW t \in Seq(S), Len(s) = Len(t),
         \A i \in 1..Len(s) : s[i] = t[i]
  PROVE  s = t
OBVIOUS

LEMMA IsAppend ==
  ASSUME NEW S, NEW s \in Seq(S), NEW e \in S, NEW t \in Seq(S),
         Len(t) = Len(s) + 1, \A i \in 1..Len(s) : t[i] = s[i], t[Len(s) + 1] = e
  PROVE  t = Append(s, e)
OBVIOUS

LEMMA IsTail ==
  ASSUME NEW S, NEW s \in Seq(S), s # <<>>, NEW t \in Seq(S),
         Len(t) = Len(s) - 1, \A i \in 1..Len(t) : t[i] = s[i + 1]
  PROVE  t = Tail(s)
OBVIOUS

\* The elements of a sequence that was built from others.
LEMMA AppendAt ==
  ASSUME NEW S, NEW s \in Seq(S), NEW e \in S
  PROVE  /\ Append(s, e) \in Seq(S) /\ Len(Append(s, e)) = Len(s) + 1
         /\ \A i \in 1..Len(s) : Append(s, e)[i] = s[i]
         /\ Append(s, e)[Len(s) + 1] = e
OBVIOUS

LEMMA TailAt ==
  ASSUME NEW S, NEW s \in Seq(S), s # <<>>
  PROVE  /\ Head(s) \in S /\ Head(s) = s[1] /\ Len(s) \in Nat /\ Len(s) > 0
         /\ Tail(s) \in Seq(S) /\ Len(Tail(s)) = Len(s) - 1
         /\ \A i \in 1..(Len(s) - 1) : Tail(s)[i] = s[i + 1]
OBVIOUS

LEMMA ConcatAt ==
  ASSUME NEW S, NEW s \in Seq(S), NEW t \in Seq(S)
  PROVE  /\ s \o t \in Seq(S) /\ Len(s \o t) = Len(s) + Len(t)
         /\ \A i \in 1..Len(s) : (s \o t)[i] = s[i]
         /\ \A i \in 1..Len(t) : (s \o t)[Len(s) + i] = t[i]
OBVIOUS

LEMMA SubSeqAt ==
  ASSUME NEW S, NEW s \in Seq(S), NEW m \in 1..(Len(s) + 1), NEW n \in 0..Len(s)
  PROVE  /\ SubSeq(s, m, n) \in Seq(S)
         /\ Len(SubSeq(s, m, n)) = IF m <= n THEN n - m + 1 ELSE 0
         /\ \A i \in 1..(n - m + 1) : SubSeq(s, m, n)[i] = s[m + i - 1]
OBVIOUS

-----------------------------------------------------------------------------
(* Which elements of a set are in a queue, and how a queue that changes at *)
(* its ends keeps the answer.                                              *)

Absent(q, E)    == \A i \in DOMAIN q : q[i] \notin E
AtMostOne(q, E) == \A i, j \in DOMAIN q : q[i] \in E /\ q[j] \in E => i = j

\* The queue p has the elements of E that q has.
Same(E, q, p) == /\ Absent(p, E) <=> Absent(q, E)
                 /\ AtMostOne(q, E) => AtMostOne(p, E)

LEMMA SameSelf ==
  ASSUME NEW E, NEW q
  PROVE  Same(E, q, q)
BY DEF Same

LEMMA SameTrans ==
  ASSUME NEW E, NEW q, NEW p, NEW o, Same(E, q, p), Same(E, p, o)
  PROVE  Same(E, q, o)
BY DEF Same

LEMMA AbsentEmpty ==
  ASSUME NEW E
  PROVE  Absent(<<>>, E) /\ AtMostOne(<<>>, E)
BY DEF Absent, AtMostOne

LEMMA AbsentIsFew ==
  ASSUME NEW E, NEW q, Absent(q, E)
  PROVE  AtMostOne(q, E)
BY DEF Absent, AtMostOne

LEMMA SameAppend ==
  ASSUME NEW S, NEW q \in Seq(S), NEW e \in S, NEW E, e \notin E
  PROVE  Same(E, q, Append(q, e))
BY DEF Same, Absent, AtMostOne

LEMMA AppendNew ==
  ASSUME NEW S, NEW q \in Seq(S), NEW e \in S, NEW E, e \in E, Absent(q, E)
  PROVE  AtMostOne(Append(q, e), E) /\ ~Absent(Append(q, e), E)
BY DEF Absent, AtMostOne

LEMMA AppendPresent ==
  ASSUME NEW S, NEW q \in Seq(S), NEW e \in S, NEW E, e \in E
  PROVE  ~Absent(Append(q, e), E)
BY DEF Absent

LEMMA SameTail ==
  ASSUME NEW S, NEW q \in Seq(S), q # <<>>, NEW E, Head(q) \notin E
  PROVE  Same(E, q, Tail(q))
<1>1. /\ Tail(q) \in Seq(S) /\ Len(Tail(q)) = Len(q) - 1 /\ Len(q) \in Nat \ {0} /\ q[1] \notin E
      /\ \A i \in 1..(Len(q) - 1) : Tail(q)[i] = q[i + 1]
  BY TailAt
<1>2. Absent(Tail(q), E) <=> Absent(q, E)
  <2>1. ASSUME Absent(Tail(q), E), NEW i \in 1..Len(q)
        PROVE  q[i] \notin E
    <3>1. CASE i = 1
      BY <1>1, <3>1
    <3>2. CASE i # 1
      <4>1. i - 1 \in 1..(Len(q) - 1) /\ (i - 1) + 1 = i
        BY <1>1, <3>2
      <4>2. Tail(q)[i - 1] = q[i]
        BY <1>1, <4>1
      <4>3. i - 1 \in DOMAIN Tail(q)
        BY <1>1, <4>1
      <4> QED BY <2>1, <4>2, <4>3 DEF Absent
    <3> QED BY <3>1, <3>2
  <2>2. ASSUME Absent(q, E), NEW i \in 1..(Len(q) - 1)
        PROVE  Tail(q)[i] \notin E
    BY <1>1, <2>2 DEF Absent
  <2> QED BY <1>1, <2>1, <2>2 DEF Absent
<1>3. ASSUME AtMostOne(q, E), NEW i \in DOMAIN Tail(q), NEW j \in DOMAIN Tail(q),
             Tail(q)[i] \in E, Tail(q)[j] \in E
      PROVE  i = j
  <2>1. i + 1 = j + 1
    BY <1>1, <1>3 DEF AtMostOne
  <2> QED BY <1>1, <2>1
<1> QED BY <1>2, <1>3 DEF Same, AtMostOne

LEMMA TailGone ==
  ASSUME NEW S, NEW q \in Seq(S), q # <<>>, NEW E, Head(q) \in E, AtMostOne(q, E)
  PROVE  Absent(Tail(q), E)
<1>1. /\ Len(Tail(q)) = Len(q) - 1 /\ Len(q) \in Nat \ {0} /\ q[1] \in E
      /\ Tail(q) \in Seq(S) /\ \A i \in 1..(Len(q) - 1) : Tail(q)[i] = q[i + 1]
  BY TailAt
<1> QED BY <1>1 DEF Absent, AtMostOne

LEMMA HeadPresent ==
  ASSUME NEW S, NEW q \in Seq(S), q # <<>>, NEW E, Head(q) \in E
  PROVE  ~Absent(q, E)
BY TailAt DEF Absent

\* What is behind the head of a queue was in it before.
LEMMA TailPresent ==
  ASSUME NEW S, NEW q \in Seq(S), q # <<>>, NEW E, Absent(q, E)
  PROVE  Absent(Tail(q), E)
BY TailAt DEF Absent

LEMMA AppendHead ==
  ASSUME NEW S, NEW q \in Seq(S), NEW e \in S, q # <<>>
  PROVE  Append(q, e) # <<>> /\ Head(Append(q, e)) = Head(q)
OBVIOUS

LEMMA ConcatFew ==
  ASSUME NEW S, NEW q \in Seq(S), NEW e \in S
  PROVE  q \o <<>> = q /\ q \o <<e>> = Append(q, e)
OBVIOUS

LEMMA ConcatAbsent ==
  ASSUME NEW S, NEW s \in Seq(S), NEW t \in Seq(S), NEW E
  PROVE  /\ Absent(s \o t, E) <=> Absent(s, E) /\ Absent(t, E)
         /\ AtMostOne(s, E) /\ Absent(t, E) => AtMostOne(s \o t, E)
         /\ Absent(s, E) /\ AtMostOne(t, E) => AtMostOne(s \o t, E)
<1>1. /\ Len(s) \in Nat /\ Len(t) \in Nat /\ DOMAIN s = 1..Len(s) /\ DOMAIN t = 1..Len(t)
      /\ DOMAIN (s \o t) = 1..(Len(s) + Len(t))
      /\ \A i \in 1..Len(s) : (s \o t)[i] = s[i]
      /\ \A i \in 1..Len(t) : (s \o t)[Len(s) + i] = t[i]
  BY ConcatAt
<1>2. ASSUME NEW i \in DOMAIN (s \o t)
      PROVE  \/ i \in DOMAIN s /\ (s \o t)[i] = s[i]
             \/ \E j \in DOMAIN t : i = Len(s) + j /\ (s \o t)[i] = t[j]
  <2>1. CASE i <= Len(s)
    BY <1>1, <2>1
  <2>2. CASE ~(i <= Len(s))
    <3>1. PICK j \in 1..Len(t) : i = Len(s) + j
      <4>1. i - Len(s) \in 1..Len(t) /\ i = Len(s) + (i - Len(s))
        BY <1>1, <2>2
      <4> QED BY <4>1
    <3> QED BY <1>1, <3>1
  <2> QED BY <2>1, <2>2
<1>3. ASSUME Absent(s \o t, E)
      PROVE  Absent(s, E) /\ Absent(t, E)
  <2>1. \A i \in DOMAIN s : i \in DOMAIN (s \o t) /\ (s \o t)[i] = s[i]
    BY <1>1
  <2>2. \A i \in DOMAIN t : Len(s) + i \in DOMAIN (s \o t) /\ (s \o t)[Len(s) + i] = t[i]
    BY <1>1
  <2> HIDE <1>1
  <2> QED BY <1>3, <2>1, <2>2 DEF Absent
<1>4. ASSUME Absent(s, E), Absent(t, E)
      PROVE  Absent(s \o t, E)
  BY <1>2, <1>4 DEF Absent
<1>5. ASSUME AtMostOne(s, E), Absent(t, E)
      PROVE  AtMostOne(s \o t, E)
  BY <1>2, <1>5 DEF Absent, AtMostOne
<1>6. ASSUME Absent(s, E), AtMostOne(t, E)
      PROVE  AtMostOne(s \o t, E)
  <2> SUFFICES ASSUME NEW i \in DOMAIN (s \o t), NEW j \in DOMAIN (s \o t),
                      (s \o t)[i] \in E, (s \o t)[j] \in E
               PROVE  i = j
    BY DEF AtMostOne
  <2>1. PICK k \in DOMAIN t : i = Len(s) + k /\ (s \o t)[i] = t[k]
    BY <1>2, <1>6 DEF Absent
  <2>2. PICK l \in DOMAIN t : j = Len(s) + l /\ (s \o t)[j] = t[l]
    BY <1>2, <1>6 DEF Absent
  <2>3. k = l
    BY <1>6, <2>1, <2>2 DEF AtMostOne
  <2> QED BY <2>1, <2>2, <2>3
<1> QED BY <1>3, <1>4, <1>5, <1>6

\* A queue is cut in two.
LEMMA CutAbsent ==
  ASSUME NEW S, NEW q \in Seq(S), NEW n \in 0..Len(q), NEW E
  PROVE  LET p == SubSeq(q, 1, n)
             r == SubSeq(q, n + 1, Len(q))
         IN  /\ p \in Seq(S) /\ r \in Seq(S) /\ Len(p) = n /\ Len(r) = Len(q) - n
             /\ Absent(q, E) <=> Absent(p, E) /\ Absent(r, E)
             /\ AtMostOne(q, E) => /\ AtMostOne(p, E) /\ AtMostOne(r, E)
                                   /\ Absent(p, E) \/ Absent(r, E)
<1> DEFINE p == SubSeq(q, 1, n)
           r == SubSeq(q, n + 1, Len(q))
<1>1. /\ Len(q) \in Nat /\ n \in Nat /\ n <= Len(q) /\ DOMAIN q = 1..Len(q)
      /\ p \in Seq(S) /\ r \in Seq(S)
      /\ Len(p) = n /\ Len(r) = Len(q) - n /\ DOMAIN p = 1..n /\ DOMAIN r = 1..(Len(q) - n)
      /\ \A i \in 1..n : p[i] = q[i]
      /\ \A i \in 1..(Len(q) - n) : r[i] = q[n + i]
  OBVIOUS
<1> HIDE DEF p, r
<1>2. ASSUME NEW i \in DOMAIN q
      PROVE  \/ i \in DOMAIN p /\ q[i] = p[i]
             \/ \E j \in DOMAIN r : i = n + j /\ q[i] = r[j]
  <2>1. CASE i <= n
    BY <1>1, <2>1
  <2>2. CASE ~(i <= n)
    <3>1. i - n \in 1..(Len(q) - n) /\ i = n + (i - n)
      BY <1>1, <2>2
    <3> QED BY <1>1, <3>1
  <2> QED BY <2>1, <2>2
<1>3. \A i \in DOMAIN p : i \in DOMAIN q /\ q[i] = p[i]
  BY <1>1
<1>4. \A i \in DOMAIN r : n + i \in DOMAIN q /\ q[n + i] = r[i]
  BY <1>1
<1>5. Absent(q, E) <=> Absent(p, E) /\ Absent(r, E)
  BY <1>2, <1>3, <1>4 DEF Absent
<1>6. ASSUME AtMostOne(q, E)
      PROVE  AtMostOne(p, E) /\ AtMostOne(r, E) /\ (Absent(p, E) \/ Absent(r, E))
  <2>1. AtMostOne(p, E)
    BY <1>3, <1>6 DEF AtMostOne
  <2>2. ASSUME NEW i \in DOMAIN r, NEW j \in DOMAIN r, r[i] \in E, r[j] \in E
        PROVE  i = j
    <3>1. n + i = n + j
      BY <1>4, <1>6, <2>2 DEF AtMostOne
    <3> QED BY <1>1, <3>1
  <2>3. ASSUME NEW i \in DOMAIN p, NEW j \in DOMAIN r, p[i] \in E, r[j] \in E
        PROVE  FALSE
    <3>1. i = n + j
      BY <1>3, <1>4, <1>6, <2>3 DEF AtMostOne
    <3> QED BY <1>1, <3>1
  <2> QED BY <2>1, <2>2, <2>3 DEF AtMostOne, Absent
<1> QED BY <1>1, <1>5, <1>6 DEF p, r

\* An element is taken out of a queue.
LEMMA RemoveElement ==
  ASSUME NEW S, NEW q \in Seq(S), NEW i \in DOMAIN q
  PROVE  LET v == SubSeq(q, 1, i - 1) \o SubSeq(q, i + 1, Len(q))
         IN  /\ v \in Seq(S) /\ Len(v) = Len(q) - 1
             /\ \A j \in 1..(Len(q) - 1) : v[j] = IF j < i THEN q[j] ELSE q[j + 1]
<1> DEFINE p == SubSeq(q, 1, i - 1)
           r == SubSeq(q, i + 1, Len(q))
           v == p \o r
<1>1. /\ Len(q) \in Nat /\ i \in Nat /\ 1 <= i /\ i <= Len(q)
      /\ p \in Seq(S) /\ r \in Seq(S) /\ Len(p) = i - 1 /\ Len(r) = Len(q) - i
      /\ \A j \in 1..(i - 1) : p[j] = q[j]
      /\ \A j \in 1..(Len(q) - i) : r[j] = q[i + j]
  OBVIOUS
<1> HIDE DEF p, r
<1>2. /\ v \in Seq(S) /\ Len(v) = Len(p) + Len(r)
      /\ \A j \in 1..Len(p) : v[j] = p[j]
      /\ \A j \in 1..Len(r) : v[Len(p) + j] = r[j]
  <2>1. p \in Seq(S) /\ r \in Seq(S)
    BY <1>1
  <2> QED BY <2>1, ConcatAt
<1> HIDE DEF v
<1>3. Len(v) = Len(q) - 1
  BY <1>1, <1>2
<1>4. ASSUME NEW j \in 1..(Len(q) - 1)
      PROVE  v[j] = IF j < i THEN q[j] ELSE q[j + 1]
  <2>1. CASE j < i
    <3>1. j \in 1..(i - 1)
      BY <1>1, <2>1
    <3>2. v[j] = p[j] /\ p[j] = q[j]
      BY <1>1, <1>2, <3>1
    <3> QED BY <2>1, <3>2
  <2>2. CASE ~(j < i)
    <3>1. j - (i - 1) \in 1..(Len(q) - i) /\ (i - 1) + (j - (i - 1)) = j /\ i + (j - (i - 1)) = j + 1
      BY <1>1, <2>2
    <3>2. v[(i - 1) + (j - (i - 1))] = r[j - (i - 1)]
      BY <1>1, <1>2, <3>1
    <3>3. r[j - (i - 1)] = q[i + (j - (i - 1))]
      BY <1>1, <3>1
    <3> QED BY <2>2, <3>1, <3>2, <3>3
  <2> QED BY <2>1, <2>2
<1> QED BY <1>2, <1>3, <1>4 DEF p, r, v

LEMMA SameRemove ==
  ASSUME NEW S, NEW q \in Seq(S), NEW i \in DOMAIN q, NEW E
  PROVE  LET v == SubSeq(q, 1, i - 1) \o SubSeq(q, i + 1, Len(q))
         IN  /\ v \in Seq(S)
             /\ q[i] \notin E => Same(E, q, v)
             /\ q[i] \in E /\ AtMostOne(q, E) => Absent(v, E)
<1> DEFINE v == SubSeq(q, 1, i - 1) \o SubSeq(q, i + 1, Len(q))
<1>1. /\ v \in Seq(S) /\ Len(v) = Len(q) - 1
      /\ \A j \in 1..(Len(q) - 1) : v[j] = IF j < i THEN q[j] ELSE q[j + 1]
  BY RemoveElement
<1>2. Len(q) \in Nat /\ i \in Nat /\ 1 <= i /\ i <= Len(q) /\ DOMAIN q = 1..Len(q)
  OBVIOUS
<1> HIDE DEF v
<1> DEFINE f(j) == IF j < i THEN j ELSE j + 1
<1>3. DOMAIN v = 1..(Len(q) - 1)
  BY <1>1
<1>4. \A j \in DOMAIN v : f(j) \in DOMAIN q /\ f(j) # i /\ v[j] = q[f(j)]
  BY <1>1, <1>2, <1>3
<1>5. \A j, k \in DOMAIN v : f(j) = f(k) => j = k
  BY <1>2, <1>3
<1>6. ASSUME NEW k \in DOMAIN q, k # i
      PROVE  \E j \in DOMAIN v : f(j) = k
  <2>1. CASE k < i
    BY <1>2, <1>3, <2>1
  <2>2. CASE ~(k < i)
    <3>1. k - 1 \in 1..(Len(q) - 1) /\ ~(k - 1 < i) /\ (k - 1) + 1 = k
      BY <1>2, <1>6, <2>2
    <3>2. f(k - 1) = k
      BY <3>1
    <3> QED BY <1>3, <3>1, <3>2
  <2> QED BY <2>1, <2>2
<1> HIDE DEF f
<1>7. ASSUME q[i] \notin E
      PROVE  Same(E, q, v)
  <2>1. Absent(v, E) => Absent(q, E)
    <3> SUFFICES ASSUME Absent(v, E), NEW k \in DOMAIN q, q[k] \in E
                 PROVE  FALSE
      BY DEF Absent
    <3>1. PICK j \in DOMAIN v : f(j) = k
      BY <1>6, <1>7
    <3> QED BY <1>4, <3>1 DEF Absent
  <2>2. Absent(q, E) => Absent(v, E)
    BY <1>4 DEF Absent
  <2>3. AtMostOne(q, E) => AtMostOne(v, E)
    BY <1>4, <1>5 DEF AtMostOne
  <2> QED BY <2>1, <2>2, <2>3 DEF Same
<1>8. ASSUME q[i] \in E, AtMostOne(q, E)
      PROVE  Absent(v, E)
  BY <1>4, <1>8 DEF Absent, AtMostOne
<1> QED BY <1>1, <1>7, <1>8 DEF v
=============================================================================
