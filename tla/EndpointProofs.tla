---------------------------- MODULE EndpointProofs ----------------------------
(***************************************************************************)
(* Proofs about Endpoint, for any sizes of messages, slots and queues, any *)
(* number of messages and faults: types, that a packet of the peer arrives *)
(* as it was sent, whatever the kind of endpoint, that a receiver of a     *)
(* queue gets nothing older than itself, and that it gets no error.        *)
(***************************************************************************)
EXTENDS Endpoint, SequenceLemmas, TLAPS

-----------------------------------------------------------------------------
(* The invariant.                                                          *)

\* A packet whose cursor is inside.
Good(k) == k \in AmjPackets /\ k.offset <= Len(k.d)

\* Message n: its number, the length of its text, the text; and maybe more.
Shaped(d, n) ==
  /\ d \in Seq(Nat) /\ Len(d) >= 2 /\ d[1] = n
  /\ 2 + d[2] <= Len(d) /\ \A j \in 1..d[2] : d[2 + j] = 100 + n

SentInv == \A n \in DOMAIN sent : Shaped(sent[n], n)

\* Datagrams of the peer are messages; strangers have no message queue.
ChanInv ==
  \A i \in DOMAIN chan :
    /\ chan[i].from = PeerAddr => \E n \in DOMAIN sent : chan[i].d = sent[n]
    /\ conf.kind = "mq" => chan[i].from = PeerAddr

\* Slot j of the memory holds a message.
Holds(j) ==
  \E n \in DOMAIN sent :
    /\ Len(sent[n]) + 1 <= attr
    /\ ring.mem[j * attr] = Len(sent[n])
    /\ \A i \in 1..Len(sent[n]) : ring.mem[j * attr + i] = sent[n][i]

\* The slots are filled from the first to the last and then over again; those the
\* semaphore counts are filled ones.
RingInv ==
  conf.kind = "shm" =>
    /\ pc["sender"] = "down" => sent = <<>>
    /\ Len(sent) < NBuf => ring.sidx = Len(sent)
    /\ \/ ring.ridx + ring.sem = ring.sidx
       \/ ring.ridx + ring.sem = ring.sidx + NBuf /\ Len(sent) >= NBuf
    /\ \A j \in 0..(NBuf - 1) : j < ring.sidx \/ Len(sent) >= NBuf => Holds(j)

\* After the flush only new messages are in a queue.
FlushInv ==
  conf.kind = "mq" /\ pc["receiver"] = "up" => \A i \in DOMAIN chan : chan[i].d[1] > since

FreshInv == since <= Len(sent) /\ FreshAfterOpen

Inv == TypeOK /\ SentInv /\ ChanInv /\ RingInv /\ FlushInv /\ FreshInv /\ PacketIntact

-----------------------------------------------------------------------------
(* The packet.                                                             *)

LEMMA FittedIs ==
  ASSUME NEW d \in Seq(Nat), NEW n \in Nat
  PROVE  /\ Fitted(d, n) \in Seq(Nat) /\ Len(Fitted(d, n)) = n
         /\ \A i \in 1..n : i <= Len(d) => Fitted(d, n)[i] = d[i]
<1> DEFINE z == [i \in 1..n |-> 0]
           e == d \o z
<1>1. z \in [1..n -> Nat]
  OBVIOUS
<1>2. z \in Seq(Nat) /\ Len(z) = n
  BY <1>1, FunctionIsSeq
<1>3. Fitted(d, n) = SubSeq(e, 1, n) /\ e = d \o z
  BY DEF Fitted
<1> HIDE DEF z, e
<1>4. e \in Seq(Nat) /\ Len(e) = Len(d) + n /\ Len(d) \in Nat /\ \A i \in 1..Len(d) : e[i] = d[i]
  <2>1. /\ e \in Seq(Nat) /\ Len(e) = Len(d) + Len(z)
        /\ \A i \in 1..Len(d) : e[i] = d[i]
    BY <1>2, <1>3, ConcatAt
  <2> QED BY <1>2, <2>1
<1>5. 1 \in 1..(Len(e) + 1) /\ n \in 0..Len(e)
  BY <1>4
<1>6. /\ SubSeq(e, 1, n) \in Seq(Nat) /\ Len(SubSeq(e, 1, n)) = (IF 1 <= n THEN n - 1 + 1 ELSE 0)
      /\ \A i \in 1..(n - 1 + 1) : SubSeq(e, 1, n)[i] = e[1 + i - 1]
  BY <1>4, <1>5, SubSeqAt
<1>7. Len(SubSeq(e, 1, n)) = n /\ \A i \in 1..n : SubSeq(e, 1, n)[i] = e[i]
  BY <1>6
<1> QED BY <1>3, <1>4, <1>6, <1>7

\* What is behind the units that are put in, if there is anything.
LEMMA RestIs ==
  ASSUME NEW d \in Seq(Nat), NEW m \in Nat
  PROVE  /\ SubSeq(d, m + 1, Len(d)) \in Seq(Nat)
         /\ m >= Len(d) => SubSeq(d, m + 1, Len(d)) = <<>>
OBVIOUS

LEMMA OverIs ==
  ASSUME NEW d \in Seq(Nat), NEW at \in 0..Len(d), NEW us \in Seq(Nat)
  PROVE  /\ Over(d, at, us) \in Seq(Nat) /\ Len(Over(d, at, us)) >= at + Len(us)
         /\ \A i \in 1..at : Over(d, at, us)[i] = d[i]
         /\ \A i \in 1..Len(us) : Over(d, at, us)[at + i] = us[i]
         /\ at + Len(us) >= Len(d) => Len(Over(d, at, us)) = at + Len(us)
<1>1. PICK n \in Nat, m \in Nat : n = Len(us) /\ m = at + n /\ at \in Nat /\ Len(d) \in Nat
  OBVIOUS
<1>2. PICK a \in Seq(Nat) :
        a = SubSeq(d, 1, at) /\ Len(a) = at /\ \A i \in 1..at : a[i] = d[i]
  <2>1. 1 \in 1..(Len(d) + 1)
    BY <1>1
  <2> DEFINE s == SubSeq(d, 1, at)
  <2>2. /\ s \in Seq(Nat) /\ Len(s) = (IF 1 <= at THEN at - 1 + 1 ELSE 0)
        /\ \A i \in 1..(at - 1 + 1) : s[i] = d[1 + i - 1]
    BY <2>1, SubSeqAt
  <2>3. s = SubSeq(d, 1, at)
    OBVIOUS
  <2> HIDE DEF s
  <2>4. Len(s) = at /\ \A i \in 1..at : s[i] = d[i]
    BY <1>1, <2>2
  <2> QED BY <2>2, <2>3, <2>4
<1>3. PICK b \in Seq(Nat) :
        /\ b = a \o us /\ Len(b) = m
        /\ \A i \in 1..at : b[i] = a[i]
        /\ \A i \in 1..n : b[at + i] = us[i]
  <2> DEFINE s == a \o us
  <2>1. /\ s \in Seq(Nat) /\ Len(s) = Len(a) + Len(us)
        /\ \A i \in 1..Len(a) : s[i] = a[i]
        /\ \A i \in 1..Len(us) : s[Len(a) + i] = us[i]
    BY ConcatAt
  <2>2. s = a \o us
    OBVIOUS
  <2> HIDE DEF s
  <2>3. Len(a) = at /\ Len(us) = n /\ at + n = m
    BY <1>1, <1>2
  <2>4. Len(s) = m /\ (\A i \in 1..at : s[i] = a[i]) /\ (\A i \in 1..n : s[at + i] = us[i])
    BY <2>1, <2>3
  <2> QED BY <2>1, <2>2, <2>4
<1>4. PICK c \in Seq(Nat) : c = SubSeq(d, m + 1, Len(d)) /\ (m >= Len(d) => Len(c) = 0)
  <2>1. /\ SubSeq(d, m + 1, Len(d)) \in Seq(Nat)
        /\ m >= Len(d) => SubSeq(d, m + 1, Len(d)) = <<>>
    BY RestIs
  <2> QED BY <2>1
<1>5. PICK o \in Seq(Nat) :
        o = b \o c /\ Len(o) = Len(b) + Len(c) /\ \A i \in 1..Len(b) : o[i] = b[i]
  <2> DEFINE s == b \o c
  <2>1. /\ s \in Seq(Nat) /\ Len(s) = Len(b) + Len(c)
        /\ \A i \in 1..Len(b) : s[i] = b[i]
    BY ConcatAt
  <2> HIDE DEF s
  <2> QED BY <2>1 DEF s
<1>6. Over(d, at, us) = o
  BY <1>1, <1>2, <1>3, <1>4, <1>5 DEF Over
<1>7. Len(o) >= m /\ (m >= Len(d) => Len(o) = m)
  <2>1. Len(c) \in Nat
    OBVIOUS
  <2>2. Len(o) = Len(b) + Len(c)
    BY <1>5
  <2>3. Len(b) = m
    BY <1>3
  <2>4. Len(o) = m + Len(c)
    BY <2>2, <2>3
  <2>5. m >= Len(d) => Len(c) = 0
    BY <1>4
  <2>6. PICK x \in Nat : x = Len(c)
    BY <2>1
  <2>7. m + x >= m /\ (x = 0 => m + x = m)
    OBVIOUS
  <2> QED BY <2>4, <2>5, <2>6, <2>7
<1>8. (\A i \in 1..at : i \in 1..m) /\ (\A i \in 1..n : at + i \in 1..m)
  BY <1>1
<1>9. \A i \in 1..at : o[i] = d[i]
  BY <1>2, <1>3, <1>5, <1>8
<1>10. \A i \in 1..n : o[at + i] = us[i]
  BY <1>3, <1>5, <1>8
<1> QED BY <1>1, <1>6, <1>7, <1>9, <1>10

\* Bound.
LEMMA BoundIs ==
  ASSUME NEW k \in AmjPackets
  PROVE  Good(Bound(k)) /\ Bound(k).d = k.d /\ (k.offset = 0 => Bound(k).offset = 0)
<1>1. k \in [d : Seq(Nat), offset : Nat] /\ k.d \in Seq(Nat) /\ Len(k.d) \in Nat /\ k.offset \in Nat
  BY DEF AmjPackets
<1> DEFINE o == IF k.offset < Len(k.d) THEN k.offset ELSE Len(k.d)
<1>2. o \in Nat /\ o <= Len(k.d) /\ (k.offset = 0 => o = 0)
  BY <1>1
<1>3. Bound(k) = [k EXCEPT !.offset = o]
  BY DEF Bound
<1> HIDE DEF o
<1>4. Bound(k) \in [d : Seq(Nat), offset : Nat] /\ Bound(k).d = k.d /\ Bound(k).offset = o
  BY <1>1, <1>2, <1>3
<1> QED BY <1>2, <1>4 DEF Good, AmjPackets

LEMMA SeekIs ==
  ASSUME NEW k \in AmjPackets
  PROVE  Good(Seek(k, 0)) /\ Seek(k, 0).d = k.d /\ Seek(k, 0).offset = 0
<1> DEFINE e == [k EXCEPT !.offset = 0]
<1>1. e \in AmjPackets /\ e.d = k.d /\ e.offset = 0 /\ Seek(k, 0) = Bound(e)
  BY DEF AmjPackets, Seek
<1> HIDE DEF e
<1>2. Good(Bound(e)) /\ Bound(e).d = e.d /\ (e.offset = 0 => Bound(e).offset = 0)
  BY <1>1, BoundIs
<1>3. Bound(e).offset = 0
  BY <1>1, <1>2
<1> QED BY <1>1, <1>2, <1>3

LEMMA ResizeIs ==
  ASSUME NEW k \in AmjPackets, NEW n \in Nat
  PROVE  Good(Resize(k, n)) /\ Resize(k, n).d = Fitted(k.d, n)
<1> DEFINE f == Fitted(k.d, n)
           e == [k EXCEPT !.d = f]
<1>1. f \in Seq(Nat)
  BY FittedIs DEF AmjPackets
<1>2. Resize(k, n) = Bound(e)
  BY DEF Resize
<1> HIDE DEF f
<1>3. e \in AmjPackets /\ e.d = f
  BY <1>1 DEF AmjPackets
<1> HIDE DEF e
<1> QED BY <1>2, <1>3, BoundIs DEF f

\* The packet m is k, with us put in at its cursor and the cursor behind them.
Pushed(m, k, us) ==
  /\ Good(m) /\ m.offset = k.offset + Len(us)
  /\ \A i \in 1..k.offset : m.d[i] = k.d[i]
  /\ \A i \in 1..Len(us) : m.d[k.offset + i] = us[i]

LEMMA PushIs ==
  ASSUME NEW k, Good(k), NEW us \in Seq(Nat)
  PROVE  Pushed(Push(k, us), k, us)
<1>1. k.d \in Seq(Nat) /\ k.offset \in Nat /\ k.offset \in 0..Len(k.d) /\ Len(us) \in Nat
  BY DEF Good, AmjPackets
<1> DEFINE o == Over(k.d, k.offset, us)
<1>2. /\ o \in Seq(Nat) /\ Len(o) >= k.offset + Len(us)
      /\ \A i \in 1..k.offset : o[i] = k.d[i]
      /\ \A i \in 1..Len(us) : o[k.offset + i] = us[i]
  BY <1>1, OverIs
<1>3. Push(k, us) = [d |-> o, offset |-> k.offset + Len(us)]
  BY DEF Push
<1> HIDE DEF o
<1>4. Push(k, us).d = o /\ Push(k, us).offset = k.offset + Len(us)
  BY <1>3
<1>5. Push(k, us) \in AmjPackets
  BY <1>1, <1>2, <1>3 DEF AmjPackets
<1> QED BY <1>1, <1>2, <1>4, <1>5 DEF Good, Pushed

LEMMA Single ==
  ASSUME NEW n \in Nat
  PROVE  <<n>> \in Seq(Nat) /\ Len(<<n>>) = 1 /\ <<n>>[1] = n
OBVIOUS

\* operator<< of a message at the start of a packet, whatever was in it.
LEMMA InsertIs ==
  ASSUME NEW k, Good(k), k.offset = 0, NEW n \in Nat, NEW text \in Seq(Nat),
         \A j \in 1..Len(text) : text[j] = 100 + n
  PROVE  Good(Insert(k, n, text)) /\ Shaped(Insert(k, n, text).d, n)
<1> DEFINE len == Len(text)
<1>1. len \in Nat
  OBVIOUS
<1>2. PICK k1 : /\ k1 = Push(k, <<n>>) /\ Good(k1) /\ k1.offset = 1
                /\ k1.d[1] = n
  <2> DEFINE us == <<n>>
  <2>1. us \in Seq(Nat) /\ Len(us) = 1 /\ us[1] = n
    BY Single
  <2> HIDE DEF us
  <2>2. PICK m : m = Push(k, us) /\ Pushed(m, k, us)
    BY <2>1, PushIs
  <2>3. Good(m) /\ m.offset = 1 /\ m.d[1] = n
    <3>1. m.offset = 0 + 1 /\ \A i \in 1..1 : m.d[0 + i] = us[i]
      BY <2>1, <2>2 DEF Pushed
    <3> QED BY <2>1, <2>2, <3>1 DEF Pushed
  <2> QED BY <2>2, <2>3 DEF us
<1>3. PICK k2 : /\ k2 = Push(k1, <<len>>) /\ Good(k2) /\ k2.offset = 2
                /\ k2.d[1] = n /\ k2.d[2] = len
  <2> HIDE DEF len
  <2> DEFINE us == <<len>>
  <2>1. us \in Seq(Nat) /\ Len(us) = 1 /\ us[1] = len
    BY <1>1, Single
  <2> HIDE DEF us
  <2>2. Good(k1) /\ k1.offset = 1 /\ k1.d[1] = n
    BY <1>2
  <2>3. PICK m : m = Push(k1, us) /\ Pushed(m, k1, us)
    BY <2>1, <2>2, PushIs
  <2>4. Good(m) /\ m.offset = 2 /\ m.d[1] = n /\ m.d[2] = len
    <3>1. /\ m.offset = 1 + 1
          /\ \A i \in 1..1 : m.d[i] = k1.d[i]
          /\ \A i \in 1..1 : m.d[1 + i] = us[i]
      BY <2>1, <2>2, <2>3 DEF Pushed
    <3>2. m.d[1] = k1.d[1] /\ m.d[1 + 1] = us[1]
      BY <3>1
    <3> QED BY <2>1, <2>2, <2>3, <3>1, <3>2 DEF Pushed
  <2> QED BY <2>3, <2>4 DEF us
<1>4. PICK k3 : /\ k3 = Push(k2, text) /\ Good(k3) /\ k3.offset = 2 + len
                /\ k3.d[1] = n /\ k3.d[2] = len /\ \A j \in 1..len : k3.d[2 + j] = text[j]
  <2>1. Good(k2) /\ k2.offset = 2 /\ k2.d[1] = n /\ k2.d[2] = len
    BY <1>3
  <2>2. PICK m : m = Push(k2, text) /\ Pushed(m, k2, text)
    BY <2>1, PushIs
  <2>3. /\ Good(m) /\ m.offset = 2 + len
        /\ \A i \in 1..2 : m.d[i] = k2.d[i]
        /\ \A i \in 1..len : m.d[2 + i] = text[i]
    BY <2>1, <2>2 DEF Pushed
  <2>4. m.d[1] = n /\ m.d[2] = len
    BY <2>1, <2>3
  <2> QED BY <2>2, <2>3, <2>4
<1>5. Insert(k, n, text) = k3
  BY <1>2, <1>3, <1>4 DEF Insert
<1>6. k3.d \in Seq(Nat) /\ Len(k3.d) \in Nat /\ 2 + len <= Len(k3.d) /\ Len(k3.d) >= 2
  <2>1. k3.d \in Seq(Nat) /\ k3.offset <= Len(k3.d)
    BY <1>4 DEF Good, AmjPackets
  <2> HIDE DEF len
  <2> QED BY <1>1, <1>4, <2>1
<1>7. Shaped(k3.d, n)
  <2> HIDE DEF len
  <2>1. \A j \in 1..len : k3.d[2 + j] = 100 + n
    BY <1>4 DEF len
  <2> QED BY <1>4, <1>6, <2>1 DEF Shaped
<1> QED BY <1>4, <1>5, <1>7

LEMMA AfterIs ==
  ASSUME NEW k, Good(k), NEW n \in Nat
  PROVE  /\ Good(After(k, n)) /\ After(k, n).d = k.d
         /\ Pops(k, n) => After(k, n).offset = k.offset + n
<1>1. k \in [d : Seq(Nat), offset : Nat] /\ k.offset \in Nat /\ k.offset + n \in Nat
      /\ k.offset <= Len(k.d)
  BY DEF Good, AmjPackets
<1> DEFINE o == k.offset + n
           e == [k EXCEPT !.offset = o]
<1>2. After(k, n) = IF Pops(k, n) THEN e ELSE k
  BY DEF After
<1>3. Pops(k, n) => o <= Len(k.d)
  BY DEF Pops
<1> HIDE DEF o
<1>4. o \in Nat
  BY <1>1 DEF o
<1>5. e \in [d : Seq(Nat), offset : Nat] /\ e.d = k.d /\ e.offset = o
  BY <1>1, <1>4
<1> HIDE DEF e
<1>6. CASE Pops(k, n)
  BY <1>2, <1>3, <1>5, <1>6 DEF Good, AmjPackets, o
<1>7. CASE ~Pops(k, n)
  BY <1>2, <1>7
<1> QED BY <1>6, <1>7

LEMMA PopIntIs ==
  ASSUME NEW k, Good(k), NEW n \in PopInt(k)
  PROVE  n \in Nat /\ (Pops(k, 1) => n = k.d[k.offset + 1])
<1>1. CASE Pops(k, 1)
  <2>1. k.d \in Seq(Nat) /\ k.offset \in Nat /\ k.offset + 1 <= Len(k.d)
    BY <1>1 DEF Good, AmjPackets, Pops
  <2>2. k.offset + 1 \in 1..Len(k.d)
    BY <2>1
  <2>3. k.d[k.offset + 1] \in Nat
    BY <2>1, <2>2
  <2> QED BY <1>1, <2>3 DEF PopInt
<1>2. CASE ~Pops(k, 1)
  BY <1>2, GarbageAssumption DEF PopInt
<1> QED BY <1>1, <1>2

LEMMA PopTextIs ==
  ASSUME NEW k, Good(k), NEW n \in Nat
  PROVE  /\ PopText(k, n) \in Seq(Nat)
         /\ Pops(k, n) => PopText(k, n) = SubSeq(k.d, k.offset + 1, k.offset + n)
<1>1. CASE Pops(k, n)
  <2>1. k.d \in Seq(Nat) /\ k.offset \in Nat /\ k.offset + n <= Len(k.d)
    BY <1>1 DEF Good, AmjPackets, Pops
  <2>2. k.offset + 1 \in 1..(Len(k.d) + 1) /\ k.offset + n \in 0..Len(k.d)
    BY <2>1
  <2> DEFINE a == k.offset + 1
             b == k.offset + n
  <2>3. a \in 1..(Len(k.d) + 1) /\ b \in 0..Len(k.d)
    BY <2>2
  <2> HIDE DEF a, b
  <2>4. SubSeq(k.d, a, b) \in Seq(Nat)
    BY <2>1, <2>3, SubSeqAt
  <2> QED BY <1>1, <2>4 DEF PopText, Popped, a, b
<1>2. CASE ~Pops(k, n)
  <2> DEFINE z == [j \in 1..n |-> 0]
  <2>1. z \in [1..n -> Nat]
    OBVIOUS
  <2>2. z \in Seq(Nat)
    BY <2>1, FunctionIsSeq
  <2> QED BY <1>2, <2>2 DEF PopText
<1> QED BY <1>1, <1>2

-----------------------------------------------------------------------------
(* What is received.                                                       *)

Receipts == [from : Sockaddr, d : Seq(Nat), number : Nat, text : Seq(Nat)]

\* The receipt of message n.
Intact(r, d, n) ==
  /\ r.number = n /\ r.d = d /\ r.text = SubSeq(r.d, 3, 2 + r.d[2])
  /\ \A j \in DOMAIN r.text : r.text[j] = 100 + r.number

\* The text of a message.
LEMMA TextIs ==
  ASSUME NEW d, NEW n \in Nat, Shaped(d, n)
  PROVE  /\ d[2] \in Nat
         /\ \A j \in DOMAIN SubSeq(d, 3, 2 + d[2]) : SubSeq(d, 3, 2 + d[2])[j] = 100 + n
<1>1. d \in Seq(Nat) /\ Len(d) \in Nat /\ Len(d) >= 2
  BY DEF Shaped
<1>2. PICK len \in Nat : len = d[2]
  <2>1. 2 \in 1..Len(d)
    BY <1>1
  <2>2. d[2] \in Nat
    BY <1>1, <2>1
  <2> QED BY <2>2
<1>3. 2 + len <= Len(d) /\ \A j \in 1..len : d[2 + j] = 100 + n
  BY <1>2 DEF Shaped
<1> DEFINE b == 2 + len
           s == SubSeq(d, 3, b)
<1>4. 3 \in 1..(Len(d) + 1) /\ b \in 0..Len(d) /\ b - 3 + 1 = len
  BY <1>1, <1>3
<1> HIDE DEF b
<1>5. /\ s \in Seq(Nat) /\ Len(s) = (IF 3 <= b THEN b - 3 + 1 ELSE 0)
      /\ \A i \in 1..(b - 3 + 1) : s[i] = d[3 + i - 1]
  BY <1>1, <1>4, SubSeqAt
<1> HIDE DEF s
<1>6. DOMAIN s = 1..Len(s) /\ Len(s) = len
  BY <1>4, <1>5 DEF b
<1>7. ASSUME NEW j \in 1..len
      PROVE  s[j] = 100 + n
  <2>1. 3 + j - 1 = 2 + j
    OBVIOUS
  <2> QED BY <1>3, <1>4, <1>5, <2>1
<1> QED BY <1>2, <1>6, <1>7 DEF s, b

LEMMA ExtractsIs ==
  ASSUME NEW k, Good(k), k.offset = 0, NEW from \in Sockaddr, Extracts(k, from)
  PROVE  /\ Good(rpkt')
         /\ \E r \in Receipts :
              /\ received' = Append(received, r) /\ r.from = from
              /\ \A n \in Nat : Shaped(k.d, n) => Intact(r, k.d, n)
<1> DEFINE k2 == After(k, 1)
           k3 == After(k2, 1)
<1>1. PICK number \in PopInt(k), len \in PopInt(k2) :
        /\ rpkt' = After(k3, len)
        /\ received' = Append(received, [from |-> from, d |-> k.d,
                                         number |-> number, text |-> PopText(k3, len)])
  BY DEF Extracts
<1>2. Good(k2) /\ k2.d = k.d /\ (Pops(k, 1) => k2.offset = 1)
  <2>1. Good(k2) /\ k2.d = k.d /\ (Pops(k, 1) => k2.offset = k.offset + 1)
    BY AfterIs
  <2> QED BY <2>1
<1>3. len \in Nat /\ (Pops(k2, 1) => len = k2.d[k2.offset + 1])
  BY <1>2, PopIntIs
<1> HIDE DEF k2
<1>4. Good(k3) /\ k3.d = k2.d /\ (Pops(k2, 1) => k3.offset = k2.offset + 1)
  BY <1>2, AfterIs
<1> HIDE DEF k3
<1>5. number \in Nat /\ (Pops(k, 1) => number = k.d[k.offset + 1])
  BY PopIntIs
<1>6. /\ PopText(k3, len) \in Seq(Nat)
      /\ Pops(k3, len) => PopText(k3, len) = SubSeq(k3.d, k3.offset + 1, k3.offset + len)
  BY <1>3, <1>4, PopTextIs
<1>7. PICK text \in Seq(Nat) : text = PopText(k3, len)
  BY <1>6
<1>8. PICK r : r = [from |-> from, d |-> k.d, number |-> number, text |-> text]
  OBVIOUS
<1>9. r \in Receipts /\ r.from = from /\ r.d = k.d /\ r.number = number /\ r.text = text
  <2>1. k.d \in Seq(Nat)
    BY DEF Good, AmjPackets
  <2> QED BY <1>5, <1>8, <2>1 DEF Receipts
<1>10. received' = Append(received, r)
  BY <1>1, <1>7, <1>8
<1>11. Good(rpkt')
  BY <1>1, <1>3, <1>4, AfterIs
<1>12. ASSUME NEW n \in Nat, Shaped(k.d, n)
       PROVE  Intact(r, k.d, n)
  <2>1. /\ k.d \in Seq(Nat) /\ Len(k.d) \in Nat /\ Len(k.d) >= 2 /\ k.d[1] = n
        /\ 2 + k.d[2] <= Len(k.d) /\ k.d[2] \in Nat
    BY <1>12, TextIs, SMTT(30) DEF Shaped
  <2>2. Pops(k, 1)
    BY <2>1 DEF Pops
  <2>3. number = n /\ k2.offset = 1
    BY <1>2, <1>5, <2>1, <2>2
  <2>4. Pops(k2, 1)
    BY <1>2, <2>1, <2>3 DEF Pops
  <2>5. len = k.d[2] /\ k3.offset = 2
    BY <1>2, <1>3, <1>4, <2>3, <2>4
  <2>6. Pops(k3, len)
    BY <1>2, <1>4, <2>1, <2>5 DEF Pops
  <2>7. text = SubSeq(k.d, 3, 2 + len)
    <3>1. text = SubSeq(k3.d, k3.offset + 1, k3.offset + len)
      BY <1>6, <1>7, <2>6
    <3>2. k3.d = k.d
      BY <1>2, <1>4
    <3>3. k3.offset + 1 = 3 /\ k3.offset + len = 2 + len
      BY <2>5
    <3> QED BY <3>1, <3>2, <3>3, Zenon
  <2>8. \A j \in DOMAIN text : text[j] = 100 + n
    BY <1>12, <2>5, <2>7, TextIs, SMTT(30)
  <2> QED BY <1>9, <2>3, <2>5, <2>7, <2>8 DEF Intact
<1> QED BY <1>9, <1>10, <1>11, <1>12

\* What the three kinds of endpoint put into the receiver's packet: d, whatever it
\* held before.
Holding(k, d) == Good(k) /\ k.offset = 0 /\ k.d = d

LEMMA QueuePacketIs ==
  ASSUME rpkt \in AmjPackets, size["receiver"] \in Nat, NEW d \in Seq(Nat)
  PROVE  Holding(QueuePacket(d), d)
<1> DEFINE k == Resize(rpkt, size["receiver"])
           o == Over(k.d, 0, d)
           e == [k EXCEPT !.d = o]
           f == Resize(e, Len(d))
<1>1. Good(k)
  BY ResizeIs
<1>2. QueuePacket(d) = Seek(f, 0)
  BY DEF QueuePacket
<1> HIDE DEF k
<1>3. k \in AmjPackets /\ k.d \in Seq(Nat) /\ 0 \in 0..Len(k.d)
  BY <1>1 DEF Good, AmjPackets
<1>4. /\ o \in Seq(Nat) /\ Len(o) >= 0 + Len(d)
      /\ \A i \in 1..Len(d) : o[0 + i] = d[i]
  BY <1>3, OverIs
<1> HIDE DEF o
<1>5. e \in AmjPackets /\ e.d = o
  BY <1>3, <1>4 DEF AmjPackets
<1> HIDE DEF e
<1>6. Len(d) \in Nat
  OBVIOUS
<1>7. Good(f) /\ f.d = Fitted(o, Len(d))
  BY <1>5, <1>6, ResizeIs
<1>8. Fitted(o, Len(d)) = d
  <2> DEFINE g == Fitted(o, Len(d))
  <2>1. /\ g \in Seq(Nat) /\ Len(g) = Len(d)
        /\ \A i \in 1..Len(d) : i <= Len(o) => g[i] = o[i]
    BY <1>4, <1>6, FittedIs
  <2> HIDE DEF g
  <2>2. \A i \in 1..Len(d) : i <= Len(o) /\ 0 + i = i
    BY <1>4, <1>6
  <2>3. \A i \in 1..Len(g) : g[i] = d[i]
    BY <1>4, <2>1, <2>2
  <2>4. g = d
    BY <2>1, <2>3, SameElements
  <2> QED BY <2>4 DEF g
<1> HIDE DEF f
<1>9. Good(Seek(f, 0)) /\ Seek(f, 0).d = f.d /\ Seek(f, 0).offset = 0
  BY <1>7, SeekIs DEF Good
<1> QED BY <1>2, <1>7, <1>8, <1>9 DEF Holding

LEMMA SocketPacketIs ==
  ASSUME rpkt \in AmjPackets, NEW d \in Seq(Nat)
  PROVE  Holding(SocketPacket(d), d)
<1> DEFINE k == Resize(rpkt, Len(d))
           o == Over(k.d, 0, d)
           e == [k EXCEPT !.d = o]
<1>1. Len(d) \in Nat
  OBVIOUS
<1>2. SocketPacket(d) = Seek(e, 0)
  BY DEF SocketPacket
<1>3. Good(k) /\ Len(k.d) = Len(d)
  <2>1. PICK n \in Nat : n = Len(d)
    BY <1>1
  <2>2. rpkt.d \in Seq(Nat)
    BY DEF AmjPackets
  <2>3. Good(Resize(rpkt, n)) /\ Resize(rpkt, n).d = Fitted(rpkt.d, n)
    BY ResizeIs
  <2>4. Len(Fitted(rpkt.d, n)) = n
    BY <2>2, FittedIs
  <2>5. Len(Resize(rpkt, n).d) = n
    BY <2>3, <2>4
  <2> QED BY <2>1, <2>3, <2>5
<1> HIDE DEF k
<1>4. k \in AmjPackets /\ k.d \in Seq(Nat) /\ 0 \in 0..Len(k.d)
  BY <1>3 DEF Good, AmjPackets
<1>5. /\ o \in Seq(Nat)
      /\ \A i \in 1..Len(d) : o[0 + i] = d[i]
      /\ 0 + Len(d) >= Len(k.d) => Len(o) = 0 + Len(d)
  BY <1>4, OverIs
<1> HIDE DEF o
<1>6. o = d
  <2>1. Len(o) = Len(d) /\ \A i \in 1..Len(d) : 0 + i = i
    BY <1>1, <1>3, <1>5
  <2>2. \A i \in 1..Len(o) : o[i] = d[i]
    BY <1>5, <2>1
  <2> QED BY <1>5, <2>1, <2>2, SameElements
<1>7. e \in AmjPackets /\ e.d = d
  BY <1>4, <1>5, <1>6 DEF AmjPackets
<1> HIDE DEF e
<1>8. Good(Seek(e, 0)) /\ Seek(e, 0).d = e.d /\ Seek(e, 0).offset = 0
  BY <1>7, SeekIs
<1> QED BY <1>2, <1>7, <1>8 DEF Holding

LEMMA MemoryPacketIs ==
  ASSUME rpkt \in AmjPackets, NEW d \in Seq(Nat)
  PROVE  Holding(Seek(Write(Seek(rpkt, 0), d), 0), d)
<1> DEFINE k == Seek(rpkt, 0)
           w == Write(k, d)
<1>1. Good(k) /\ k.offset = 0
  BY SeekIs
<1> HIDE DEF k
<1>2. k.d \in Seq(Nat)
  BY <1>1 DEF Good, AmjPackets
<1>3. SubSeq(k.d, 1, 0) = <<>> /\ <<>> \o d = d /\ 0 + Len(d) = Len(d) /\ Len(d) \in Nat
  BY <1>2
<1>4. w = [d |-> d, offset |-> Len(d)]
  BY <1>1, <1>3 DEF Write
<1>5. w \in AmjPackets /\ w.d = d
  BY <1>3, <1>4 DEF AmjPackets
<1> HIDE DEF w
<1>6. Good(Seek(w, 0)) /\ Seek(w, 0).d = w.d /\ Seek(w, 0).offset = 0
  BY <1>5, SeekIs
<1> QED BY <1>5, <1>6 DEF Holding, w, k

-----------------------------------------------------------------------------
(* What the steps have in common.                                          *)

ProcTypes ==
  /\ conf \in [kind : {"mq", "udp", "shm"}, one_peer : BOOLEAN]
  /\ pc \in [Procs -> States] /\ size \in [Procs -> Sizes \cup {0}]
  /\ attr \in Sizes \cup {0} /\ room \in 0..NBuf
  /\ faults \in 0..MaxFaults

RingType == ring \in [mem : [Mem -> Nat], sidx : 0..(NBuf - 1), ridx : 0..(NBuf - 1), sem : 0..NBuf]

Histories == sent \in Seq(Seq(Nat)) /\ since \in Nat /\ received \in Seq(Receipts)

LEMMA Types ==
  TypeOK <=> /\ ProcTypes /\ RingType /\ Histories /\ chan \in Seq(Datagram)
             /\ Good(spkt) /\ Good(rpkt)
BY DEF TypeOK, ProcTypes, RingType, Histories, Good, Receipts

LEMMA TypesNext ==
  TypeOK' <=> /\ ProcTypes' /\ RingType' /\ Histories' /\ (chan \in Seq(Datagram))'
              /\ Good(spkt)' /\ Good(rpkt)'
BY DEF TypeOK, ProcTypes, RingType, Histories, Good, Receipts

LEMMA Numbers ==
  ASSUME TypeOK
  PROVE  /\ DOMAIN sent = 1..Len(sent) /\ Len(sent) \in Nat /\ since \in Nat
         /\ DOMAIN received = 1..Len(received) /\ Len(received) \in Nat
         /\ DOMAIN chan = 1..Len(chan) /\ Len(chan) \in Nat
         /\ NBuf \in Nat /\ NBuf > 0 /\ attr \in Nat
         /\ \A i \in DOMAIN chan : chan[i] \in Datagram
         /\ \A i \in DOMAIN received : received[i] \in Receipts
<1>1. /\ sent \in Seq(Seq(Nat)) /\ since \in Nat /\ received \in Seq(Receipts)
      /\ chan \in Seq(Datagram) /\ attr \in Sizes \cup {0}
  BY Types DEF Histories, ProcTypes
<1>2. DOMAIN sent = 1..Len(sent) /\ Len(sent) \in Nat
  BY <1>1
<1>3. DOMAIN received = 1..Len(received) /\ Len(received) \in Nat
  BY <1>1
<1>4. DOMAIN chan = 1..Len(chan) /\ Len(chan) \in Nat
  BY <1>1
<1>5. NBuf \in Nat /\ NBuf > 0 /\ attr \in Nat
  BY <1>1, EndpointAssumption
<1>6. \A i \in DOMAIN chan : chan[i] \in Datagram
  BY <1>1, <1>4
<1>7. \A i \in DOMAIN received : received[i] \in Receipts
  BY <1>1, <1>3
<1> QED BY <1>1, <1>2, <1>3, <1>4, <1>5, <1>6, <1>7

\* The three properties of the histories.
HistoryInv == SentInv /\ FreshInv /\ PacketIntact

LEMMA HistoryKept ==
  ASSUME HistoryInv, UNCHANGED <<conf, sent, since, received>>
  PROVE  HistoryInv'
BY DEF HistoryInv, SentInv, Shaped, FreshInv, FreshAfterOpen, PacketIntact

\* A receiver that starts has received nothing.
LEMMA HistoryStarts ==
  ASSUME TypeOK, HistoryInv, NEW x \in Procs, Fresh(x), UNCHANGED <<conf, sent>>
  PROVE  HistoryInv' /\ Histories' /\ Good(spkt)' /\ Good(rpkt)'
<1>1. Good(Cleared)
  <2>1. Cleared \in AmjPackets /\ Cleared.offset = 0 /\ Len(Cleared.d) = 0
    BY DEF Cleared, AmjPackets
  <2> QED BY <2>1 DEF Good
<1>2. Histories /\ Good(spkt) /\ Good(rpkt)
  BY Types
<1>3. CASE x = "sender"
  <2>1. spkt' = Cleared /\ UNCHANGED <<rpkt, received, since>>
    BY <1>3 DEF Fresh
  <2>2. HistoryInv'
    BY <2>1, HistoryKept
  <2> QED BY <1>1, <1>2, <2>1, <2>2 DEF Histories, Good
<1>4. CASE x # "sender"
  <2>1. rpkt' = Cleared /\ received' = <<>> /\ since' = Len(sent) /\ spkt' = spkt
    BY <1>4 DEF Fresh
  <2>2. Histories' /\ Good(spkt)' /\ Good(rpkt)'
    BY <1>1, <1>2, <2>1 DEF Histories, Good
  <2>3. Len(sent) <= Len(sent)
    BY Numbers
  <2>4. DOMAIN received' = {}
    BY <2>1
  <2>5. PacketIntact'
    BY <2>4 DEF PacketIntact
  <2>6. FreshInv'
    BY <2>1, <2>3, <2>4 DEF FreshInv, FreshAfterOpen
  <2>7. SentInv'
    BY DEF HistoryInv, SentInv, Shaped
  <2> QED BY <2>2, <2>5, <2>6, <2>7 DEF HistoryInv
<1> QED BY <1>3, <1>4

\* The datagrams of a step that sends none are some of those there were.
LEMMA ChanShrinks ==
  ASSUME ChanInv, \A i \in DOMAIN chan' : \E j \in DOMAIN chan : chan'[i] = chan[j],
         UNCHANGED <<conf, sent>>
  PROVE  ChanInv'
<1> SUFFICES ASSUME NEW i \in DOMAIN chan'
             PROVE  /\ chan'[i].from = PeerAddr => \E n \in DOMAIN sent : chan'[i].d = sent[n]
                    /\ conf.kind = "mq" => chan'[i].from = PeerAddr
  BY DEF ChanInv
<1>1. PICK j \in DOMAIN chan : chan'[i] = chan[j]
  OBVIOUS
<1> QED BY <1>1 DEF ChanInv

LEMMA FlushKept ==
  ASSUME FlushInv, \A i \in DOMAIN chan' : \E j \in DOMAIN chan : chan'[i] = chan[j],
         UNCHANGED <<conf, since>>, pc'["receiver"] = "up" => pc["receiver"] = "up"
  PROVE  FlushInv'
<1> SUFFICES ASSUME conf.kind = "mq", pc'["receiver"] = "up", NEW i \in DOMAIN chan'
             PROVE  chan'[i].d[1] > since
  BY DEF FlushInv
<1>1. PICK j \in DOMAIN chan : chan'[i] = chan[j]
  OBVIOUS
<1> QED BY <1>1 DEF FlushInv

LEMMA RingKept ==
  ASSUME RingInv, UNCHANGED <<conf, ring, attr, sent>>,
         pc'["sender"] = "down" => pc["sender"] = "down" \/ conf.kind # "shm"
  PROVE  RingInv'
BY DEF RingInv, Holds

\* A packet of the peer is extracted.
LEMMA ReceiptKeeps ==
  ASSUME TypeOK, HistoryInv, NEW k, NEW d, Holding(k, d), NEW from \in Sockaddr, Extracts(k, from),
         from = PeerAddr => \E n \in DOMAIN sent : d = sent[n],
         conf.kind = "mq" => from = PeerAddr /\ d[1] > since
  PROVE  HistoryInv' /\ Histories' /\ Good(spkt)' /\ Good(rpkt)'
<1>1. Good(k) /\ k.offset = 0 /\ k.d = d
  BY DEF Holding
<1>2. UNCHANGED <<conf, spkt, sent, since>>
  BY DEF Extracts
<1>3. PICK r \in Receipts :
        /\ received' = Append(received, r) /\ r.from = from
        /\ \A n \in Nat : Shaped(k.d, n) => Intact(r, k.d, n)
  BY <1>1, ExtractsIs
<1>4. Good(rpkt')
  BY <1>1, ExtractsIs
<1>5. PICK len \in Nat :
        /\ len = Len(received) /\ DOMAIN received = 1..len /\ received \in Seq(Receipts)
        /\ Histories /\ Good(spkt)
  BY Types, Numbers DEF Histories
<1>6. /\ received' \in Seq(Receipts) /\ DOMAIN received' = 1..(len + 1) /\ received'[len + 1] = r
      /\ \A i \in 1..len : received'[i] = received[i]
  <2>1. /\ received' \in Seq(Receipts) /\ Len(received') = len + 1 /\ received'[len + 1] = r
        /\ \A i \in 1..len : received'[i] = received[i]
    BY <1>3, <1>5, AppendAt
  <2> QED BY <2>1
<1>7. Histories' /\ Good(spkt)' /\ Good(rpkt)'
  BY <1>2, <1>4, <1>5, <1>6 DEF Histories, Good
<1>8. SentInv'
  BY <1>2 DEF HistoryInv, SentInv, Shaped
<1>9. from = PeerAddr => \E n \in DOMAIN sent : n \in Nat /\ d = sent[n] /\ d[1] = n /\ Intact(r, d, n)
  <2> SUFFICES ASSUME from = PeerAddr
               PROVE  \E n \in DOMAIN sent : n \in Nat /\ d = sent[n] /\ d[1] = n /\ Intact(r, d, n)
    OBVIOUS
  <2>1. PICK n \in DOMAIN sent : d = sent[n] /\ n \in Nat
    BY Numbers
  <2>2. Shaped(d, n)
    BY <2>1 DEF HistoryInv, SentInv
  <2>3. d[1] = n /\ Intact(r, d, n)
    BY <1>1, <1>3, <2>1, <2>2 DEF Shaped
  <2> QED BY <2>1, <2>3
<1>10. PacketIntact'
  <2> SUFFICES ASSUME NEW i \in 1..(len + 1), received'[i].from = PeerAddr
               PROVE  LET q == received'[i]
                      IN /\ q.number \in DOMAIN sent /\ q.d = sent[q.number]
                         /\ q.text = SubSeq(q.d, 3, 2 + q.d[2])
                         /\ \A j \in DOMAIN q.text : q.text[j] = 100 + q.number
    <3>1. sent' = sent /\ DOMAIN received' = 1..(len + 1)
      BY <1>2, <1>6
    <3> QED BY <3>1 DEF PacketIntact
  <2>1. CASE i \in 1..len
    BY <1>5, <1>6, <2>1 DEF HistoryInv, PacketIntact
  <2>2. CASE i = len + 1
    <3>1. PICK n \in DOMAIN sent : d = sent[n] /\ Intact(r, d, n)
      BY <1>3, <1>6, <1>9, <2>2
    <3> QED BY <1>6, <2>2, <3>1 DEF Intact
  <2>3. i \in 1..len \/ i = len + 1
    OBVIOUS
  <2> QED BY <2>1, <2>2, <2>3
<1>11. FreshInv'
  <2>1. since <= Len(sent)
    BY DEF HistoryInv, FreshInv
  <2>2. ASSUME conf.kind = "mq", NEW i \in 1..(len + 1)
        PROVE  received'[i].number > since
    <3>1. CASE i \in 1..len
      BY <1>5, <1>6, <2>2, <3>1 DEF HistoryInv, FreshInv, FreshAfterOpen
    <3>2. CASE i = len + 1
      <4>1. d[1] > since /\ r.number = d[1]
        BY <1>9, <2>2 DEF Intact
      <4> QED BY <1>6, <3>2, <4>1
    <3> QED BY <3>1, <3>2
  <2> QED BY <1>2, <1>6, <2>1, <2>2 DEF FreshInv, FreshAfterOpen
<1> QED BY <1>7, <1>8, <1>10, <1>11 DEF HistoryInv

-----------------------------------------------------------------------------
(* Constructors, the flush, and the faults.                                *)

LEMMA OpenQueueKeeps ==
  ASSUME Inv, NEW x \in Procs, NEW s \in Sizes, NEW n \in 1..NBuf, OpenQueue(x, s, n)
  PROVE  Inv'
<1>1. /\ conf.kind = "mq" /\ UNCHANGED <<conf, chan, ring, sent, faults>> /\ Fresh(x)
      /\ size' = [size EXCEPT ![x] = s] /\ attr' = (IF attr = 0 THEN s ELSE attr)
      /\ room' = (IF attr = 0 THEN n ELSE room)
      /\ Goto(x, IF ~SameAttr(x, s, n) THEN "exit" ELSE IF x = "receiver" THEN "flush" ELSE "up")
  BY DEF OpenQueue
<1>2. TypeOK /\ HistoryInv
  BY DEF Inv, HistoryInv
<1>3. HistoryInv' /\ Histories' /\ Good(spkt)' /\ Good(rpkt)'
  BY <1>1, <1>2, HistoryStarts
<1>4. PICK l \in {"exit", "flush", "up"} :
        pc' = [pc EXCEPT ![x] = l] /\ (x = "receiver" => l # "up")
  BY <1>1 DEF Goto
<1>5. TypeOK'
  <2>1. ProcTypes /\ RingType /\ chan \in Seq(Datagram)
    BY <1>2, Types
  <2>2. pc' \in [Procs -> States] /\ size' \in [Procs -> Sizes \cup {0}] /\ attr' \in Sizes \cup {0}
    BY <1>1, <1>4, <2>1 DEF ProcTypes, States
  <2>3. room' \in 0..NBuf
    <3>1. n \in 0..NBuf
      BY EndpointAssumption
    <3> QED BY <1>1, <2>1, <3>1 DEF ProcTypes
  <2> QED BY <1>1, <1>3, <2>1, <2>2, <2>3, TypesNext DEF ProcTypes, RingType
<1>6. ChanInv'
  BY <1>1 DEF Inv, ChanInv
<1>7. RingInv'
  BY <1>1 DEF RingInv
<1>8. FlushInv'
  <2>1. CASE x = "receiver"
    <3>1. pc'["receiver"] # "up"
      BY <1>2, <1>4, <2>1, Types DEF ProcTypes
    <3> QED BY <3>1 DEF FlushInv
  <2>2. CASE x # "receiver"
    <3>1. pc'["receiver"] = pc["receiver"] /\ UNCHANGED since
      BY <1>1, <1>2, <1>4, <2>2, Types DEF ProcTypes, Fresh, Procs
    <3> QED BY <1>1, <3>1 DEF Inv, FlushInv
  <2> QED BY <2>1, <2>2
<1> QED BY <1>3, <1>5, <1>6, <1>7, <1>8 DEF Inv, HistoryInv

LEMMA FlushKeeps ==
  ASSUME Inv, Flush
  PROVE  Inv'
<1>1. /\ pc["receiver"] = "flush"
      /\ UNCHANGED <<conf, size, attr, room, ring, spkt, rpkt, sent, since, received, faults>>
      /\ \/ chan = <<>> /\ pc' = [pc EXCEPT !["receiver"] = "up"] /\ chan' = chan
         \/ chan # <<>> /\ chan' = Tail(chan) /\ pc' = pc
  BY DEF Flush, Goto
<1>2. TypeOK /\ HistoryInv /\ chan \in Seq(Datagram) /\ ProcTypes
  BY Types DEF Inv, HistoryInv
<1>3. HistoryInv'
  BY <1>1, <1>2, HistoryKept
<1>4. pc' \in [Procs -> States] /\ pc'["sender"] = pc["sender"]
  BY <1>1, <1>2 DEF ProcTypes, Procs, States
<1>5. chan' \in Seq(Datagram) /\ \A i \in DOMAIN chan' : \E j \in DOMAIN chan : chan'[i] = chan[j]
  <2>1. CASE chan = <<>>
    BY <1>1, <1>2, <2>1
  <2>2. CASE chan # <<>>
    <3>1. /\ chan' \in Seq(Datagram) /\ Len(chan') = Len(chan) - 1 /\ Len(chan) \in Nat
          /\ \A i \in 1..(Len(chan) - 1) : chan'[i] = chan[i + 1]
      BY <1>1, <1>2, <2>2, TailAt
    <3>2. ASSUME NEW i \in DOMAIN chan'
          PROVE  \E j \in DOMAIN chan : chan'[i] = chan[j]
      <4>1. i \in 1..(Len(chan) - 1) /\ i + 1 \in DOMAIN chan
        BY <1>2, <3>1
      <4> QED BY <3>1, <4>1
    <3> QED BY <3>1, <3>2
  <2> QED BY <2>1, <2>2
<1>6. TypeOK'
  BY <1>1, <1>2, <1>4, <1>5, Types, TypesNext DEF ProcTypes, RingType, Histories, Good
<1>7. ChanInv'
  BY <1>1, <1>5, ChanShrinks DEF Inv
<1>8. RingInv'
  BY <1>1, <1>4, RingKept DEF Inv
<1>9. FlushInv'
  <2>1. CASE chan = <<>>
    <3>1. DOMAIN chan' = {}
      BY <1>1, <2>1
    <3> QED BY <3>1 DEF FlushInv
  <2>2. CASE chan # <<>>
    <3>1. pc'["receiver"] # "up"
      BY <1>1, <2>2
    <3> QED BY <3>1 DEF FlushInv
  <2> QED BY <2>1, <2>2
<1> QED BY <1>3, <1>6, <1>7, <1>8, <1>9 DEF Inv, HistoryInv

LEMMA OpenSocketKeeps ==
  ASSUME Inv, NEW x \in Procs, OpenSocket(x)
  PROVE  Inv'
<1>1. /\ conf.kind = "udp" /\ UNCHANGED <<conf, size, attr, room, chan, ring, sent, faults>> /\ Fresh(x)
      /\ pc' = [pc EXCEPT ![x] = "up"]
  BY DEF OpenSocket, Goto
<1>2. TypeOK /\ HistoryInv
  BY DEF Inv, HistoryInv
<1>3. HistoryInv' /\ Histories' /\ Good(spkt)' /\ Good(rpkt)'
  BY <1>1, <1>2, HistoryStarts
<1>4. TypeOK'
  <2>1. ProcTypes /\ RingType /\ chan \in Seq(Datagram)
    BY <1>2, Types
  <2>2. pc' \in [Procs -> States]
    BY <1>1, <2>1 DEF ProcTypes, States
  <2> QED BY <1>1, <1>3, <2>1, <2>2, TypesNext DEF ProcTypes, RingType
<1>5. ChanInv'
  BY <1>1 DEF Inv, ChanInv
<1>6. RingInv' /\ FlushInv'
  BY <1>1 DEF RingInv, FlushInv
<1> QED BY <1>3, <1>4, <1>5, <1>6 DEF Inv, HistoryInv

LEMMA OpenMemoryKeeps ==
  ASSUME Inv, NEW x \in Procs, NEW s \in Sizes, OpenMemory(x, s)
  PROVE  Inv'
<1>1. /\ conf.kind = "shm" /\ pc[x] = "down" /\ UNCHANGED <<conf, room, chan, ring, sent, faults>> /\ Fresh(x)
      /\ size' = [size EXCEPT ![x] = s] /\ attr' = (IF x = "sender" THEN s ELSE attr)
      /\ pc' = [pc EXCEPT ![x] = "up"]
  BY DEF OpenMemory, Goto
<1>2. TypeOK /\ HistoryInv
  BY DEF Inv, HistoryInv
<1>3. HistoryInv' /\ Histories' /\ Good(spkt)' /\ Good(rpkt)'
  BY <1>1, <1>2, HistoryStarts
<1>4. ProcTypes /\ RingType /\ chan \in Seq(Datagram)
  BY <1>2, Types
<1>5. TypeOK'
  <2>1. pc' \in [Procs -> States] /\ size' \in [Procs -> Sizes \cup {0}] /\ attr' \in Sizes \cup {0}
    BY <1>1, <1>4 DEF ProcTypes, States
  <2> QED BY <1>1, <1>3, <1>4, <2>1, TypesNext DEF ProcTypes, RingType
<1>6. ChanInv' /\ FlushInv'
  BY <1>1 DEF Inv, ChanInv, FlushInv
<1>7. RingInv'
  <2>1. CASE x = "sender"
    <3>1. sent = <<>> /\ Len(sent) = 0
      BY <1>1, <2>1 DEF Inv, RingInv
    <3>2. NBuf > 0 /\ NBuf \in Nat
      BY EndpointAssumption
    <3>3. ring.sidx = 0 /\ ring.ridx + ring.sem = 0
      BY <1>1, <3>1, <3>2 DEF Inv, RingInv
    <3>4. \A j \in 0..(NBuf - 1) : ~(j < 0) /\ ~(0 >= NBuf)
      BY <3>2
    <3>5. sent' = <<>> /\ ring' = ring /\ Len(sent') = 0
      BY <1>1, <3>1
    <3> QED BY <3>3, <3>4, <3>5 DEF RingInv
  <2>2. CASE x = "receiver"
    <3>1. pc'["sender"] = pc["sender"] /\ attr' = attr
      BY <1>1, <1>4, <2>2 DEF ProcTypes, Procs
    <3> QED BY <1>1, <3>1, RingKept DEF Inv
  <2> QED BY <2>1, <2>2 DEF Procs
<1> QED BY <1>3, <1>5, <1>6, <1>7 DEF Inv, HistoryInv

LEMMA WithoutIs ==
  ASSUME NEW S, NEW s \in Seq(S), NEW i \in DOMAIN s
  PROVE  /\ Without(s, i) \in Seq(S)
         /\ \A a \in DOMAIN Without(s, i) : \E b \in DOMAIN s : Without(s, i)[a] = s[b]
<1>1. i \in 1..Len(s) /\ Len(s) \in Nat /\ DOMAIN s = 1..Len(s)
  OBVIOUS
<1>2. PICK h \in Nat, m \in Nat : h = i - 1 /\ m = i + 1 /\ h \in 0..Len(s) /\ m \in 1..(Len(s) + 1)
  BY <1>1
<1>3. PICK u \in Seq(S) : /\ u = SubSeq(s, 1, h) /\ Len(u) = h
                          /\ \A a \in DOMAIN u : \E b \in DOMAIN s : u[a] = s[b]
  <2> DEFINE o == SubSeq(s, 1, h)
  <2>1. 1 \in 1..(Len(s) + 1)
    BY <1>1
  <2>2. /\ o \in Seq(S) /\ Len(o) = (IF 1 <= h THEN h - 1 + 1 ELSE 0)
        /\ \A a \in 1..(h - 1 + 1) : o[a] = s[1 + a - 1]
    BY <1>2, <2>1, SubSeqAt
  <2>3. o = SubSeq(s, 1, h)
    OBVIOUS
  <2> HIDE DEF o
  <2>4. Len(o) = h /\ DOMAIN o = 1..h
    BY <1>2, <2>2
  <2>5. ASSUME NEW a \in 1..h
        PROVE  o[a] = s[a] /\ a \in DOMAIN s
    BY <1>1, <1>2, <2>2
  <2> QED BY <2>2, <2>3, <2>4, <2>5
<1>4. PICK v \in Seq(S) : /\ v = SubSeq(s, m, Len(s))
                          /\ \A a \in DOMAIN v : \E b \in DOMAIN s : v[a] = s[b]
  <2> DEFINE o == SubSeq(s, m, Len(s))
  <2>1. Len(s) \in 0..Len(s)
    BY <1>1
  <2>2. /\ o \in Seq(S) /\ Len(o) = (IF m <= Len(s) THEN Len(s) - m + 1 ELSE 0)
        /\ \A a \in 1..(Len(s) - m + 1) : o[a] = s[m + a - 1]
    BY <1>2, <2>1, SubSeqAt
  <2>3. o = SubSeq(s, m, Len(s))
    OBVIOUS
  <2> HIDE DEF o
  <2>4. DOMAIN o = 1..Len(o)
    BY <2>2
  <2>5. ASSUME NEW a \in DOMAIN o
        PROVE  m + a - 1 \in DOMAIN s /\ o[a] = s[m + a - 1]
    <3>1. a \in 1..(Len(s) - m + 1)
      BY <1>1, <1>2, <2>2, <2>4
    <3>2. m + a - 1 \in 1..Len(s)
      <4>1. a \in Nat /\ a >= 1 /\ a <= Len(s) - m + 1 /\ m \in Nat /\ m >= 1 /\ Len(s) \in Nat
        BY <1>1, <1>2, <3>1
      <4>2. m + a - 1 \in Nat /\ m + a - 1 >= 1 /\ m + a - 1 <= Len(s)
        BY <4>1
      <4> QED BY <4>1, <4>2
    <3>3. DOMAIN s = 1..Len(s)
      OBVIOUS
    <3> QED BY <2>2, <3>1, <3>2, <3>3
  <2> QED BY <2>2, <2>3, <2>5
<1>5. Without(s, i) = u \o v
  BY <1>2, <1>3, <1>4 DEF Without
<1>6. PICK w \in Seq(S) : /\ w = u \o v
                          /\ Len(w) = Len(u) + Len(v) /\ \A a \in 1..Len(u) : w[a] = u[a]
                          /\ \A a \in 1..Len(v) : w[Len(u) + a] = v[a]
  <2> DEFINE o == u \o v
  <2>1. /\ o \in Seq(S) /\ Len(o) = Len(u) + Len(v) /\ \A a \in 1..Len(u) : o[a] = u[a]
        /\ \A a \in 1..Len(v) : o[Len(u) + a] = v[a]
    BY ConcatAt
  <2>2. o = u \o v
    OBVIOUS
  <2> HIDE DEF o
  <2> QED BY <2>1, <2>2
<1>7. ASSUME NEW a \in DOMAIN w
      PROVE  \E b \in DOMAIN s : w[a] = s[b]
  <2>1. PICK x \in Nat, y \in Nat : x = Len(u) /\ y = Len(v)
    OBVIOUS
  <2>2. DOMAIN u = 1..x /\ DOMAIN v = 1..y /\ Len(w) = x + y /\ DOMAIN w = 1..(x + y)
    <3>1. DOMAIN w = 1..Len(w)
      OBVIOUS
    <3> QED BY <1>6, <2>1, <3>1
  <2>3. CASE a <= x
    <3>1. a \in 1..x
      BY <2>2, <2>3
    <3>2. w[a] = u[a]
      BY <1>6, <2>1, <3>1
    <3> QED BY <1>3, <2>2, <3>1, <3>2
  <2>4. CASE ~(a <= x)
    <3>1. PICK c \in 1..y : a = x + c
      <4>1. a - x \in 1..y /\ a = x + (a - x)
        BY <2>2, <2>4
      <4> QED BY <4>1
    <3>2. w[a] = v[c]
      BY <1>6, <2>1, <3>1
    <3> QED BY <1>4, <2>2, <3>1, <3>2
  <2> QED BY <2>3, <2>4
<1> QED BY <1>5, <1>6, <1>7

LEMMA KillKeeps ==
  ASSUME Inv, NEW x \in Procs, Kill(x)
  PROVE  Inv'
<1>1. /\ conf.kind # "shm" /\ pc' = [pc EXCEPT ![x] = "down"] /\ faults' \in 0..MaxFaults
      /\ UNCHANGED <<conf, size, attr, room, ring, spkt, rpkt, sent, since, received>>
      /\ chan' = <<>> \/ chan' = chan
  <2>1. faults \in 0..MaxFaults /\ MaxFaults \in Nat
    BY EndpointAssumption, Types DEF Inv, ProcTypes
  <2> QED BY <2>1 DEF Kill, Goto, Fault
<1>2. TypeOK /\ HistoryInv /\ chan \in Seq(Datagram) /\ ProcTypes
  BY Types DEF Inv, HistoryInv
<1>3. pc' \in [Procs -> States] /\ (pc'["receiver"] = "up" => pc["receiver"] = "up")
  BY <1>1, <1>2 DEF ProcTypes, States, Procs
<1>4. chan' \in Seq(Datagram) /\ \A i \in DOMAIN chan' : \E j \in DOMAIN chan : chan'[i] = chan[j]
  <2>1. CASE chan' = <<>>
    <3>1. <<>> \in Seq(Datagram) /\ DOMAIN chan' = {}
      BY <2>1
    <3> QED BY <2>1, <3>1
  <2>2. CASE chan' = chan
    BY <1>2, <2>2
  <2> QED BY <1>1, <2>1, <2>2
<1>5. TypeOK'
  BY <1>1, <1>2, <1>3, <1>4, Types, TypesNext DEF ProcTypes, RingType, Histories, Good
<1>6. HistoryInv' /\ ChanInv' /\ FlushInv' /\ RingInv'
  BY <1>1, <1>2, <1>3, <1>4, HistoryKept, ChanShrinks, FlushKept, RingKept DEF Inv
<1> QED BY <1>5, <1>6 DEF Inv, HistoryInv

\* The network drops, duplicates or brings a datagram.
LEMMA NetworkKeeps ==
  ASSUME Inv, NEW c \in Seq(Datagram), Network(c),
         \A i \in DOMAIN c : c[i].from = PeerAddr => \E j \in DOMAIN chan : c[i] = chan[j]
  PROVE  Inv'
<1>1. /\ conf.kind = "udp" /\ chan' = c /\ faults' \in 0..MaxFaults
      /\ UNCHANGED <<conf, pc, size, attr, room, ring, spkt, rpkt, sent, since, received>>
  <2>1. faults \in 0..MaxFaults /\ MaxFaults \in Nat
    BY EndpointAssumption, Types DEF Inv, ProcTypes
  <2> QED BY <2>1 DEF Network, Fault
<1>2. TypeOK /\ HistoryInv /\ ProcTypes
  BY Types DEF Inv, HistoryInv
<1>3. TypeOK'
  BY <1>1, <1>2, Types, TypesNext DEF ProcTypes, RingType, Histories, Good
<1>4. HistoryInv' /\ FlushInv' /\ RingInv'
  BY <1>1, <1>2, HistoryKept DEF FlushInv, RingInv
<1>5. ChanInv'
  <2> SUFFICES ASSUME NEW i \in DOMAIN c, c[i].from = PeerAddr
               PROVE  \E n \in DOMAIN sent : c[i].d = sent[n]
    BY <1>1 DEF ChanInv
  <2>1. PICK j \in DOMAIN chan : c[i] = chan[j]
    OBVIOUS
  <2> QED BY <2>1 DEF Inv, ChanInv
<1> QED BY <1>3, <1>4, <1>5 DEF Inv, HistoryInv

LEMMA NetKeeps ==
  ASSUME Inv, Net
  PROVE  Inv'
<1>1. chan \in Seq(Datagram)
  BY Types DEF Inv
<1>2. ASSUME NEW i \in Datagrams, Lose(i)
      PROVE  Inv'
  <2>1. i \in DOMAIN chan /\ Network(Without(chan, i))
    BY <1>2 DEF Lose
  <2>2. /\ Without(chan, i) \in Seq(Datagram)
        /\ \A a \in DOMAIN Without(chan, i) : \E b \in DOMAIN chan : Without(chan, i)[a] = chan[b]
    BY <1>1, <2>1, WithoutIs
  <2> QED BY <2>1, <2>2, NetworkKeeps
<1>3. ASSUME NEW e \in Datagram, Network(Append(chan, e)),
             e.from = PeerAddr => \E j \in DOMAIN chan : e = chan[j]
      PROVE  Inv'
  <2> DEFINE c == Append(chan, e)
  <2>1. /\ c \in Seq(Datagram) /\ Len(c) = Len(chan) + 1
        /\ (\A i \in 1..Len(chan) : c[i] = chan[i]) /\ c[Len(chan) + 1] = e
    BY <1>1, AppendAt
  <2>2. Network(c)
    BY <1>3
  <2> HIDE DEF c
  <2>3. PICK len \in Nat : len = Len(chan) /\ DOMAIN chan = 1..len /\ DOMAIN c = 1..(len + 1)
    BY <1>1, <2>1
  <2>4. ASSUME NEW i \in DOMAIN c, c[i].from = PeerAddr
        PROVE  \E j \in DOMAIN chan : c[i] = chan[j]
    <3>1. CASE i \in 1..len
      BY <2>1, <2>3, <3>1
    <3>2. CASE i = len + 1
      BY <1>3, <2>1, <2>3, <2>4, <3>2
    <3> QED BY <2>3, <3>1, <3>2
  <2> QED BY <2>1, <2>2, <2>4, NetworkKeeps
<1>4. ASSUME NEW i \in Datagrams, Duplicate(i)
      PROVE  Inv'
  <2>1. i \in DOMAIN chan /\ Network(Append(chan, chan[i])) /\ chan[i] \in Datagram
    BY <1>1, <1>4 DEF Duplicate
  <2> QED BY <1>3, <2>1
<1>5. ASSUME NEW from \in Strangers, NEW d \in Seq(Nat), Foreign(from, d)
      PROVE  Inv'
  <2>1. from \in Sockaddr /\ from # PeerAddr
    BY DEF Strangers
  <2>2. [from |-> from, d |-> d] \in Datagram
    BY <2>1 DEF Datagram
  <2>3. PICK e \in Datagram : e = [from |-> from, d |-> d] /\ e.from = from
    BY <2>2
  <2>4. Network(Append(chan, e))
    BY <1>5, <2>3 DEF Foreign
  <2> QED BY <1>3, <2>1, <2>3, <2>4
<1>6. <<>> \in Seq(Nat) /\ <<1>> \in Seq(Nat) /\ <<1, 1>> \in Seq(Nat)
  OBVIOUS
<1>7. \A from \in Strangers, d \in {<<>>, <<1>>, <<1, 1>>} : Foreign(from, d) => Inv'
  BY <1>5, <1>6
<1> QED BY <1>2, <1>4, <1>7, KillKeeps DEF Net

-----------------------------------------------------------------------------
(* receive().                                                              *)

\* A queue or a socket: the datagram received is no longer in it.
LEMMA DatagramKeeps ==
  ASSUME Inv, conf.kind # "shm", NEW k, NEW i \in DOMAIN chan, Holding(k, chan[i].d),
         Extracts(k, chan[i].from),
         conf.kind = "mq" => pc["receiver"] = "up",
         UNCHANGED <<pc, ring>>, chan' \in Seq(Datagram),
         \A a \in DOMAIN chan' : \E b \in DOMAIN chan : chan'[a] = chan[b]
  PROVE  Inv'
<1>1. UNCHANGED <<conf, size, attr, room, spkt, sent, since, faults>>
  BY DEF Extracts
<1>2. TypeOK /\ HistoryInv /\ ProcTypes /\ RingType
  BY Types DEF Inv, HistoryInv
<1>3. chan[i] \in Datagram
  BY <1>2, Numbers
<1>4. PICK d \in Seq(Nat), from \in Sockaddr : d = chan[i].d /\ from = chan[i].from
  BY <1>3 DEF Datagram
<1>5. from = PeerAddr => \E n \in DOMAIN sent : d = sent[n]
  BY <1>4 DEF Inv, ChanInv
<1>6. conf.kind = "mq" => from = PeerAddr /\ d[1] > since
  BY <1>4 DEF Inv, ChanInv, FlushInv
<1>7. Holding(k, d) /\ Extracts(k, from)
  BY <1>4
<1>8. HistoryInv' /\ Histories' /\ Good(spkt)' /\ Good(rpkt)'
  BY <1>2, <1>5, <1>6, <1>7, ReceiptKeeps
<1>9. TypeOK'
  BY <1>1, <1>2, <1>8, TypesNext DEF ProcTypes, RingType
<1>10. ChanInv'
  BY <1>1, ChanShrinks DEF Inv
<1>11. FlushInv'
  BY <1>1, FlushKept DEF Inv
<1>12. RingInv'
  BY <1>1 DEF RingInv
<1> QED BY <1>8, <1>9, <1>10, <1>11, <1>12 DEF Inv, HistoryInv

\* The receiver ends itself, the datagrams stay or go.
LEMMA StopKeeps ==
  ASSUME Inv, conf.kind # "shm", NEW l \in {"exit", "error"}, Goto("receiver", l),
         UNCHANGED <<conf, size, attr, room, ring, spkt, rpkt, sent, since, received, faults>>,
         chan' = <<>> \/ chan' = chan
  PROVE  Inv'
<1>1. TypeOK /\ HistoryInv /\ chan \in Seq(Datagram) /\ ProcTypes
  BY Types DEF Inv, HistoryInv
<1>2. pc' = [pc EXCEPT !["receiver"] = l]
  BY DEF Goto
<1>3. pc' \in [Procs -> States] /\ pc'["receiver"] # "up"
  BY <1>1, <1>2 DEF ProcTypes, States, Procs
<1>4. chan' \in Seq(Datagram) /\ \A i \in DOMAIN chan' : \E j \in DOMAIN chan : chan'[i] = chan[j]
  <2>1. CASE chan' = <<>>
    <3>1. <<>> \in Seq(Datagram) /\ DOMAIN chan' = {}
      BY <2>1
    <3> QED BY <2>1, <3>1
  <2>2. CASE chan' = chan
    BY <1>1, <2>2
  <2> QED BY <2>1, <2>2
<1>5. TypeOK'
  BY <1>1, <1>3, <1>4, Types, TypesNext DEF ProcTypes, RingType, Histories, Good
<1>6. HistoryInv' /\ ChanInv'
  BY <1>1, <1>4, HistoryKept, ChanShrinks DEF Inv
<1>7. FlushInv' /\ RingInv'
  BY <1>3 DEF FlushInv, RingInv
<1> QED BY <1>5, <1>6, <1>7 DEF Inv, HistoryInv

LEMMA ReceiveQueueKeeps ==
  ASSUME Inv, ReceiveQueue
  PROVE  Inv'
<1>1. conf.kind = "mq" /\ pc["receiver"] = "up" /\ ring' = ring
  BY DEF ReceiveQueue
<1>2. CASE ReceiveFails
  BY <1>1, <1>2, StopKeeps DEF ReceiveQueue
<1>3. CASE ~ReceiveFails
  <2>1. /\ chan # <<>> /\ Extracts(QueuePacket(chan[1].d), chan[1].from)
        /\ chan' = Tail(chan) /\ pc' = pc
    BY <1>3 DEF ReceiveQueue
  <2>2. chan \in Seq(Datagram) /\ ProcTypes /\ rpkt \in AmjPackets
    BY Types DEF Inv, Good
  <2>3. /\ Tail(chan) \in Seq(Datagram) /\ Len(Tail(chan)) = Len(chan) - 1 /\ Len(chan) \in Nat
        /\ Len(chan) > 0
        /\ \A i \in 1..(Len(chan) - 1) : Tail(chan)[i] = chan[i + 1]
    BY <2>1, <2>2, TailAt
  <2>4. 1 \in DOMAIN chan /\ DOMAIN chan = 1..Len(chan)
    BY <2>2, <2>3
  <2>5. chan[1] \in Datagram
    BY <2>2, <2>4
  <2>6. PICK d \in Seq(Nat) : d = chan[1].d
    BY <2>5 DEF Datagram
  <2>7. size["receiver"] \in Nat
    <3>1. size["receiver"] \in Sizes \cup {0}
      BY <2>2 DEF ProcTypes, Procs
    <3>2. \A s \in Sizes \cup {0} : s \in Nat
      BY EndpointAssumption
    <3> QED BY <3>1, <3>2
  <2>8. Holding(QueuePacket(d), d)
    BY <2>2, <2>7, QueuePacketIs
  <2>9. ASSUME NEW a \in DOMAIN Tail(chan)
        PROVE  \E b \in DOMAIN chan : Tail(chan)[a] = chan[b]
    <3>1. a \in 1..(Len(chan) - 1)
      BY <2>3
    <3>2. a + 1 \in DOMAIN chan
      BY <2>3, <2>4, <3>1
    <3> QED BY <2>3, <3>1, <3>2
  <2>10. PICK k : Holding(k, chan[1].d) /\ Extracts(k, chan[1].from)
    BY <2>1, <2>6, <2>8
  <2> QED BY <1>1, <2>1, <2>3, <2>4, <2>9, <2>10, DatagramKeeps
<1> QED BY <1>2, <1>3

LEMMA ReceiveSocketKeeps ==
  ASSUME Inv, NEW i \in Datagrams, ReceiveSocket(i)
  PROVE  Inv'
<1>1. conf.kind = "udp" /\ pc["receiver"] = "up" /\ ring' = ring /\ i \in DOMAIN chan
  BY DEF ReceiveSocket
<1>2. CASE conf.one_peer /\ ~Compare(chan[i].from, PeerAddr)
  BY <1>1, <1>2, StopKeeps DEF ReceiveSocket
<1>3. CASE ~(conf.one_peer /\ ~Compare(chan[i].from, PeerAddr))
  <2>1. /\ Extracts(SocketPacket(chan[i].d), chan[i].from)
        /\ chan' = Without(chan, i) /\ pc' = pc
    BY <1>3 DEF ReceiveSocket
  <2>2. chan \in Seq(Datagram) /\ rpkt \in AmjPackets /\ chan[i] \in Datagram
    BY <1>1, Types, Numbers DEF Inv, Good
  <2>3. PICK d \in Seq(Nat) : d = chan[i].d
    BY <2>2 DEF Datagram
  <2>4. Holding(SocketPacket(d), d)
    BY <2>2, SocketPacketIs
  <2>5. /\ Without(chan, i) \in Seq(Datagram)
        /\ \A a \in DOMAIN Without(chan, i) : \E b \in DOMAIN chan : Without(chan, i)[a] = chan[b]
    BY <1>1, <2>2, WithoutIs
  <2>6. PICK k : Holding(k, chan[i].d) /\ Extracts(k, chan[i].from)
    BY <2>1, <2>3, <2>4
  <2> QED BY <1>1, <2>1, <2>5, <2>6, DatagramKeeps
<1> QED BY <1>2, <1>3

-----------------------------------------------------------------------------
(* The shared memory.                                                      *)

LEMMA NextIs ==
  ASSUME NEW i \in 0..(NBuf - 1)
  PROVE  Next1(i) = (IF i + 1 = NBuf THEN 0 ELSE i + 1) /\ Next1(i) \in 0..(NBuf - 1)
<1>1. NBuf \in Nat /\ NBuf > 0
  BY EndpointAssumption
<1>2. CASE i + 1 = NBuf
  <2>1. NBuf % NBuf = 0
    BY <1>1
  <2> QED BY <1>1, <1>2, <2>1 DEF Next1
<1>3. CASE i + 1 # NBuf
  <2>1. i + 1 \in 0..(NBuf - 1)
    BY <1>1, <1>3
  <2>2. (i + 1) % NBuf = i + 1
    BY <1>1, <2>1
  <2> QED BY <1>3, <2>1, <2>2 DEF Next1
<1> QED BY <1>2, <1>3

\* What RingInv says of the indices, the semaphore and the number of packets sent.
InStep(sidx, ridx, sem, len) ==
  /\ len < NBuf => sidx = len
  /\ ridx + sem = sidx \/ (ridx + sem = sidx + NBuf /\ len >= NBuf)

LEMMA TokenTaken ==
  ASSUME NEW s \in 0..(NBuf - 1), NEW r \in 0..(NBuf - 1), NEW m \in 0..NBuf, m > 0,
         NEW len \in Nat, InStep(s, r, m, len)
  PROVE  /\ InStep(s, Next1(r), m - 1, len) /\ m - 1 \in 0..NBuf
         /\ r < s \/ len >= NBuf
<1>1. NBuf \in Nat /\ NBuf > 0
  BY EndpointAssumption
<1>2. PICK t \in 0..(NBuf - 1) : t = Next1(r) /\ t = (IF r + 1 = NBuf THEN 0 ELSE r + 1)
  BY NextIs
<1>3. CASE r + m = s
  <2>1. r + 1 # NBuf /\ r < s
    BY <1>1, <1>3
  <2>2. t + (m - 1) = s
    BY <1>1, <1>2, <1>3, <2>1
  <2> QED BY <1>1, <1>2, <2>1, <2>2 DEF InStep
<1>4. CASE r + m = s + NBuf /\ len >= NBuf
  <2>1. CASE r + 1 = NBuf
    <3>1. t + (m - 1) = s
      BY <1>1, <1>2, <1>4, <2>1
    <3> QED BY <1>1, <1>2, <1>4, <3>1 DEF InStep
  <2>2. CASE r + 1 # NBuf
    <3>1. t + (m - 1) = s + NBuf
      BY <1>1, <1>2, <1>4, <2>2
    <3> QED BY <1>1, <1>2, <1>4, <3>1 DEF InStep
  <2> QED BY <2>1, <2>2
<1> QED BY <1>3, <1>4 DEF InStep

LEMMA ReceiveMemoryKeeps ==
  ASSUME Inv, ReceiveMemory
  PROVE  Inv'
<1>1. /\ conf.kind = "shm" /\ ring.sem > 0 /\ UNCHANGED <<pc, chan>>
      /\ ring' = [ring EXCEPT !.ridx = Next1(@), !.sem = @ - 1]
  BY DEF ReceiveMemory
<1>2. TypeOK /\ HistoryInv /\ ProcTypes /\ RingType /\ chan \in Seq(Datagram)
  BY Types DEF Inv, HistoryInv
<1>3. rpkt \in AmjPackets /\ Len(sent) \in Nat /\ DOMAIN sent = 1..Len(sent) /\ sent \in Seq(Seq(Nat))
  BY <1>2, Types, Numbers DEF Good, Histories
<1>4. PICK s \in 0..(NBuf - 1), r \in 0..(NBuf - 1), m \in 0..NBuf :
        s = ring.sidx /\ r = ring.ridx /\ m = ring.sem /\ m > 0 /\ ring.mem \in [Mem -> Nat]
  BY <1>1, <1>2 DEF RingType
<1>5. InStep(s, r, m, Len(sent)) /\ (pc["sender"] = "down" => sent = <<>>)
      /\ \A j \in 0..(NBuf - 1) : j < s \/ Len(sent) >= NBuf => Holds(j)
  BY <1>1, <1>4 DEF Inv, RingInv, InStep
<1>6. /\ InStep(s, Next1(r), m - 1, Len(sent)) /\ m - 1 \in 0..NBuf
      /\ r < s \/ Len(sent) >= NBuf
  BY <1>3, <1>4, <1>5, TokenTaken
<1>7. PICK n \in DOMAIN sent :
        /\ ring.mem[r * attr] = Len(sent[n])
        /\ \A i \in 1..Len(sent[n]) : ring.mem[r * attr + i] = sent[n][i]
  BY <1>5, <1>6 DEF Holds
<1>8. PICK d \in Seq(Nat) : d = sent[n] /\ Len(d) \in Nat
  BY <1>3
<1>9. PICK at : at = r * attr
  OBVIOUS
<1>10. [j \in 1..ring.mem[at] |-> ring.mem[at + j]] = d
  <2> DEFINE us == [j \in 1..Len(d) |-> ring.mem[at + j]]
  <2>1. us = [j \in 1..Len(d) |-> d[j]]
    BY <1>7, <1>8, <1>9
  <2>2. [j \in 1..Len(d) |-> d[j]] = d
    BY <1>8
  <2> QED BY <1>7, <1>8, <1>9, <2>1, <2>2
<1>11. Extracts(Seek(Write(Seek(rpkt, 0), d), 0), PeerAddr)
  BY <1>4, <1>9, <1>10 DEF ReceiveMemory
<1>12. PICK k : Holding(k, d) /\ Extracts(k, PeerAddr)
  BY <1>3, <1>11, MemoryPacketIs
<1>13. UNCHANGED <<conf, size, attr, room, spkt, sent, since, faults>>
  BY <1>12 DEF Extracts
<1>14. PeerAddr \in Sockaddr /\ conf.kind # "mq"
  BY <1>1 DEF PeerAddr, Sockaddr
<1>15. HistoryInv' /\ Histories' /\ Good(spkt)' /\ Good(rpkt)'
  BY <1>2, <1>8, <1>12, <1>14, ReceiptKeeps
<1>16. /\ ring' \in [mem : [Mem -> Nat], sidx : 0..(NBuf - 1), ridx : 0..(NBuf - 1), sem : 0..NBuf]
       /\ ring'.mem = ring.mem /\ ring'.sidx = s /\ ring'.ridx = Next1(r) /\ ring'.sem = m - 1
  <2>1. Next1(r) \in 0..(NBuf - 1)
    BY NextIs
  <2> QED BY <1>1, <1>2, <1>4, <1>6, <2>1 DEF RingType
<1>17. TypeOK'
  BY <1>1, <1>2, <1>13, <1>15, <1>16, TypesNext DEF ProcTypes, RingType
<1>18. RingInv'
  <2>1. \A j \in 0..(NBuf - 1) : Holds(j) => Holds(j)'
    <3>1. sent' = sent /\ attr' = attr /\ ring'.mem = ring.mem
      BY <1>13, <1>16
    <3>2. ASSUME NEW j \in 0..(NBuf - 1), Holds(j)
          PROVE  Holds(j)'
      <4>1. PICK o \in DOMAIN sent :
              /\ Len(sent[o]) + 1 <= attr
              /\ ring.mem[j * attr] = Len(sent[o])
              /\ \A i \in 1..Len(sent[o]) : ring.mem[j * attr + i] = sent[o][i]
        BY <3>2, Zenon DEF Holds
      <4> QED BY <3>1, <4>1, SMTT(30) DEF Holds
    <3> QED BY <3>2
  <2>2. sent' = sent /\ pc' = pc
    BY <1>1, <1>13
  <2> QED BY <1>5, <1>6, <1>16, <2>1, <2>2 DEF RingInv, InStep
<1>19. ChanInv' /\ FlushInv'
  BY <1>1, <1>13, <1>14 DEF Inv, ChanInv, FlushInv
<1> QED BY <1>15, <1>17, <1>18, <1>19 DEF Inv, HistoryInv

-----------------------------------------------------------------------------
(* send().                                                                 *)

\* A message and no other: cleared or not, the packet the sender fills is one.
LEMMA FilledIs ==
  ASSUME TypeOK, NEW n \in Texts,
         NEW k \in Filled(spkt, Len(sent) + 1, [j \in 1..n |-> 101 + Len(sent)])
  PROVE  Good(k) /\ Shaped(k.d, Len(sent) + 1)
<1>1. PICK len \in Nat : len = Len(sent)
  BY Numbers
<1>2. n \in Nat
  BY EndpointAssumption
<1>3. PICK text \in Seq(Nat) :
        /\ text = [j \in 1..n |-> 101 + len]
        /\ \A j \in 1..Len(text) : text[j] = 100 + (len + 1)
  <2> DEFINE t == [j \in 1..n |-> 101 + len]
  <2>1. t \in [1..n -> Nat] /\ \A j \in 1..n : t[j] = 100 + (len + 1)
    OBVIOUS
  <2>2. t = [j \in 1..n |-> 101 + len]
    OBVIOUS
  <2> HIDE DEF t
  <2>3. t \in Seq(Nat) /\ Len(t) = n
    BY <1>2, <2>1, FunctionIsSeq
  <2> QED BY <2>1, <2>2, <2>3
<1>4. PICK m \in Nat : m = len + 1 /\ \A j \in 1..Len(text) : text[j] = 100 + m
  <2>1. PICK m \in Nat : m = len + 1
    OBVIOUS
  <2> QED BY <1>3, <2>1
<1>5. Good(Cleared) /\ Cleared.offset = 0
  <2>1. Cleared \in AmjPackets /\ Cleared.offset = 0 /\ Len(Cleared.d) = 0
    BY DEF Cleared, AmjPackets
  <2> QED BY <2>1 DEF Good
<1>6. Good(Seek(spkt, 0)) /\ Seek(spkt, 0).offset = 0
  <2>1. spkt \in AmjPackets
    BY Types DEF Good
  <2> QED BY <2>1, SeekIs
<1>7. PICK e : (e = Cleared \/ e = Seek(spkt, 0)) /\ k = Insert(e, m, text)
  BY <1>1, <1>3, <1>4 DEF Filled
<1>8. Good(e) /\ e.offset = 0
  BY <1>5, <1>6, <1>7
<1> QED BY <1>1, <1>4, <1>7, <1>8, InsertIs

\* The message that was sent is added to those there were.
Sends(d) ==
  /\ sent' \in Seq(Seq(Nat)) /\ DOMAIN sent' = 1..(Len(sent) + 1) /\ Len(sent') = Len(sent) + 1
  /\ sent'[Len(sent) + 1] = d
  /\ \A n \in DOMAIN sent : n \in DOMAIN sent' /\ sent'[n] = sent[n]

LEMMA CalledKeeps ==
  ASSUME TypeOK, HistoryInv, NEW k, Good(k), Shaped(k.d, Len(sent) + 1), Called(k)
  PROVE  HistoryInv' /\ Histories' /\ Good(spkt)' /\ Good(rpkt)' /\ Sends(k.d)
<1>1. spkt' = k /\ sent' = Append(sent, k.d) /\ UNCHANGED <<conf, size, attr, room, rpkt, since, received, faults>>
  BY DEF Called
<1>2. Histories /\ Good(rpkt)
  BY Types
<1>3. PICK len \in Nat : len = Len(sent) /\ DOMAIN sent = 1..len
  BY Numbers
<1>4. PICK d \in Seq(Nat) : d = k.d
  BY DEF Good, AmjPackets
<1>5. sent \in Seq(Seq(Nat))
  BY <1>2 DEF Histories
<1>6. /\ sent' \in Seq(Seq(Nat)) /\ Len(sent') = len + 1 /\ sent'[len + 1] = d
      /\ \A i \in 1..len : sent'[i] = sent[i]
  BY <1>1, <1>3, <1>4, <1>5, AppendAt
<1>7. Sends(k.d)
  BY <1>3, <1>4, <1>6 DEF Sends
<1>8. Histories' /\ Good(spkt)' /\ Good(rpkt)'
  BY <1>1, <1>2, <1>6 DEF Histories, Good
<1>9. SentInv'
  <2>1. ASSUME NEW n \in 1..(len + 1)
        PROVE  Shaped(sent'[n], n)
    <3>1. CASE n \in 1..len
      BY <1>3, <1>6, <3>1 DEF HistoryInv, SentInv
    <3>2. CASE n = len + 1
      BY <1>3, <1>4, <1>6, <3>2
    <3> QED BY <3>1, <3>2
  <2>2. DOMAIN sent' = 1..(len + 1)
    BY <1>6
  <2> QED BY <2>1, <2>2 DEF SentInv, Shaped
<1>10. PacketIntact'
  BY <1>1, <1>7 DEF HistoryInv, PacketIntact, Sends
<1>11. FreshInv'
  <2>1. since <= len + 1
    BY <1>2, <1>3 DEF HistoryInv, FreshInv, Histories
  <2> QED BY <1>1, <1>6, <2>1 DEF HistoryInv, FreshInv, FreshAfterOpen
<1> QED BY <1>7, <1>8, <1>9, <1>10, <1>11 DEF HistoryInv

\* A datagram of the peer, or none.
LEMMA SentDatagramKeeps ==
  ASSUME Inv, conf.kind # "shm", NEW k, Good(k), Shaped(k.d, Len(sent) + 1), Called(k),
         chan' = chan \/ chan' = Append(chan, [from |-> PeerAddr, d |-> k.d]),
         ring' = ring, pc' \in [Procs -> States], pc'["receiver"] = pc["receiver"]
  PROVE  Inv'
<1>1. UNCHANGED <<conf, size, attr, room, rpkt, since, received, faults>>
  BY DEF Called
<1>2. TypeOK /\ HistoryInv /\ ProcTypes /\ RingType /\ chan \in Seq(Datagram)
  BY Types DEF Inv, HistoryInv
<1>3. HistoryInv' /\ Histories' /\ Good(spkt)' /\ Good(rpkt)' /\ Sends(k.d)
  BY <1>2, CalledKeeps
<1>4. PICK e \in Datagram : e = [from |-> PeerAddr, d |-> k.d] /\ e.from = PeerAddr /\ e.d = k.d
  <2>1. k.d \in Seq(Nat) /\ PeerAddr \in Sockaddr
    BY DEF Good, AmjPackets, PeerAddr, Sockaddr
  <2> QED BY <2>1 DEF Datagram
<1>5. /\ chan' \in Seq(Datagram)
      /\ \A i \in DOMAIN chan' : chan'[i] = e \/ \E j \in DOMAIN chan : chan'[i] = chan[j]
  <2>1. CASE chan' = chan
    BY <1>2, <2>1
  <2>2. CASE chan' = Append(chan, e)
    <3>1. /\ chan' \in Seq(Datagram) /\ Len(chan') = Len(chan) + 1
          /\ (\A i \in 1..Len(chan) : chan'[i] = chan[i]) /\ chan'[Len(chan) + 1] = e
      BY <1>2, <2>2, AppendAt
    <3>2. PICK len \in Nat : len = Len(chan) /\ DOMAIN chan = 1..len
      BY <1>2
    <3>3. DOMAIN chan' = 1..(len + 1)
      BY <3>1, <3>2
    <3>4. ASSUME NEW i \in 1..(len + 1)
          PROVE  chan'[i] = e \/ \E j \in 1..len : chan'[i] = chan[j]
      <4>1. i \in 1..len \/ i = len + 1
        OBVIOUS
      <4> QED BY <3>1, <3>2, <4>1
    <3> QED BY <3>1, <3>2, <3>3, <3>4
  <2> QED BY <1>4, <2>1, <2>2
<1>6. TypeOK'
  BY <1>1, <1>2, <1>3, <1>5, TypesNext DEF ProcTypes, RingType
<1>7. ChanInv'
  <2> SUFFICES ASSUME NEW i \in DOMAIN chan'
               PROVE  /\ chan'[i].from = PeerAddr => \E n \in DOMAIN sent' : chan'[i].d = sent'[n]
                      /\ conf.kind = "mq" => chan'[i].from = PeerAddr
    BY <1>1 DEF ChanInv
  <2>1. CASE chan'[i] = e
    <3>1. Len(sent) + 1 \in DOMAIN sent'
      BY <1>2, <1>3, Numbers DEF Sends
    <3> QED BY <1>3, <1>4, <2>1, <3>1 DEF Sends
  <2>2. ASSUME NEW j \in DOMAIN chan, chan'[i] = chan[j]
        PROVE  /\ chan'[i].from = PeerAddr => \E n \in DOMAIN sent' : chan'[i].d = sent'[n]
               /\ conf.kind = "mq" => chan'[i].from = PeerAddr
    BY <1>3, <2>2 DEF Inv, ChanInv, Sends
  <2> QED BY <1>5, <2>1, <2>2
<1>8. FlushInv'
  <2> SUFFICES ASSUME conf.kind = "mq", pc["receiver"] = "up", NEW i \in DOMAIN chan'
               PROVE  chan'[i].d[1] > since
    BY <1>1 DEF FlushInv
  <2>1. CASE chan'[i] = e
    <3>1. e.d[1] = Len(sent) + 1
      BY <1>4 DEF Shaped
    <3>2. since <= Len(sent) /\ since \in Nat /\ Len(sent) \in Nat
      BY <1>2, Numbers DEF HistoryInv, FreshInv
    <3>3. Len(sent) + 1 > since
      BY <3>2
    <3> QED BY <2>1, <3>1, <3>3
  <2>2. ASSUME NEW j \in DOMAIN chan, chan'[i] = chan[j]
        PROVE  chan'[i].d[1] > since
    BY <2>2 DEF Inv, FlushInv
  <2> QED BY <1>5, <2>1, <2>2
<1>9. RingInv'
  BY <1>1 DEF RingInv
<1> QED BY <1>3, <1>6, <1>7, <1>8, <1>9 DEF Inv, HistoryInv

LEMMA SendQueueKeeps ==
  ASSUME Inv, NEW k, Good(k), Shaped(k.d, Len(sent) + 1), SendQueue(k)
  PROVE  Inv'
<1>1. conf.kind = "mq" /\ Called(k) /\ ring' = ring
  BY DEF SendQueue
<1>2. pc \in [Procs -> States]
  BY Types DEF Inv, ProcTypes
<1>3. pc' \in [Procs -> States] /\ pc'["receiver"] = pc["receiver"]
  <2>1. pc' = pc \/ pc' = [pc EXCEPT !["sender"] = "exit"]
    BY DEF SendQueue, Goto
  <2> QED BY <1>2, <2>1 DEF Procs, States
<1>4. chan' = chan \/ chan' = Append(chan, [from |-> PeerAddr, d |-> k.d])
  BY DEF SendQueue, Queued
<1> QED BY <1>1, <1>3, <1>4, SentDatagramKeeps

LEMMA SendSocketKeeps ==
  ASSUME Inv, NEW k, Good(k), Shaped(k.d, Len(sent) + 1), SendSocket(k)
  PROVE  Inv'
<1>1. conf.kind = "udp" /\ Called(k) /\ ring' = ring /\ pc' = pc
  BY DEF SendSocket
<1>2. pc \in [Procs -> States]
  BY Types DEF Inv, ProcTypes
<1>3. chan' = chan \/ chan' = Append(chan, [from |-> PeerAddr, d |-> k.d])
  BY DEF SendSocket, Queued
<1> QED BY <1>1, <1>2, <1>3, SentDatagramKeeps

LEMMA TokenGiven ==
  ASSUME NEW s \in 0..(NBuf - 1), NEW r \in 0..(NBuf - 1), NEW m \in 0..NBuf,
         NEW len \in Nat, InStep(s, r, m, len)
  PROVE  /\ m = NBuf => InStep(Next1(s), Next1(r), m, len + 1)
         /\ m # NBuf => InStep(Next1(s), r, m + 1, len + 1) /\ m + 1 \in 0..NBuf
         /\ \A j \in 0..(NBuf - 1) :
              j # s /\ (j < Next1(s) \/ len + 1 >= NBuf) => j < s \/ len >= NBuf
<1>1. NBuf \in Nat /\ NBuf > 0
  BY EndpointAssumption
<1>2. PICK t \in 0..(NBuf - 1) : t = Next1(s) /\ t = (IF s + 1 = NBuf THEN 0 ELSE s + 1)
  BY NextIs
<1>3. PICK u \in 0..(NBuf - 1) : u = Next1(r) /\ u = (IF r + 1 = NBuf THEN 0 ELSE r + 1)
  BY NextIs
<1>4. len < NBuf => s = len
  BY DEF InStep
<1>5. len + 1 < NBuf => t = len + 1
  BY <1>1, <1>2, <1>4
<1>6. ASSUME m = NBuf
      PROVE  InStep(t, u, m, len + 1)
  <2>1. r = s /\ len >= NBuf
    BY <1>1, <1>6 DEF InStep
  <2>2. u + m = t + NBuf /\ len + 1 >= NBuf
    BY <1>1, <1>2, <1>3, <1>6, <2>1
  <2> QED BY <1>5, <2>2 DEF InStep
<1>7. ASSUME m # NBuf
      PROVE  InStep(t, r, m + 1, len + 1)
  <2>1. CASE s + 1 = NBuf
    <3>1. r + m = s
      BY <1>1, <1>7, <2>1 DEF InStep
    <3>2. r + (m + 1) = t + NBuf /\ len + 1 >= NBuf
      BY <1>1, <1>2, <1>4, <2>1, <3>1
    <3> QED BY <1>5, <3>2 DEF InStep
  <2>2. CASE s + 1 # NBuf
    <3>1. t = s + 1
      BY <1>2, <2>2
    <3>2. r + m = s => r + (m + 1) = t
      BY <3>1
    <3>3. r + m = s + NBuf /\ len >= NBuf => r + (m + 1) = t + NBuf /\ len + 1 >= NBuf
      BY <1>1, <3>1
    <3> QED BY <1>5, <3>2, <3>3 DEF InStep
  <2> QED BY <2>1, <2>2
<1>8. m # NBuf => m + 1 \in 0..NBuf
  BY <1>1
<1>9. ASSUME NEW j \in 0..(NBuf - 1), j # s, j < t \/ len + 1 >= NBuf
      PROVE  j < s \/ len >= NBuf
  <2>1. CASE j < t
    <3>1. t = s + 1
      BY <1>2, <2>1
    <3> QED BY <1>9, <2>1, <3>1
  <2>2. CASE len + 1 >= NBuf
    <3>1. CASE len < NBuf
      <4>1. s = len /\ len + 1 = NBuf
        BY <1>1, <1>4, <2>2, <3>1
      <4> QED BY <1>1, <1>9, <4>1
    <3>2. CASE ~(len < NBuf)
      BY <1>1, <3>2
    <3> QED BY <3>1, <3>2
  <2> QED BY <1>9, <2>1, <2>2
<1> QED BY <1>2, <1>3, <1>6, <1>7, <1>8, <1>9

LEMMA Times ==
  ASSUME NEW a \in Nat, NEW b \in Nat, NEW c \in Nat
  PROVE  /\ a * c \in Nat /\ (a + 1) * c = a * c + c
         /\ a <= b => a * c <= b * c /\ c * a <= c * b
<1>1. a * c \in Nat /\ (a + 1) * c = a * c + c
  OBVIOUS
<1>2. ASSUME a <= b
      PROVE  a * c <= b * c /\ c * a <= c * b
  <2>1. PICK e \in Nat : b = a + e
    <3>1. b - a \in Nat /\ b = a + (b - a)
      BY <1>2
    <3> QED BY <3>1
  <2>2. e * c \in Nat /\ b * c = a * c + e * c /\ c * b = c * a + c * e /\ c * e \in Nat /\ c * a \in Nat
    BY <2>1
  <2> QED BY <1>1, <2>2
<1> QED BY <1>1, <1>2

\* The units of a slot are in the memory, and in no other slot.
LEMMA SlotIs ==
  ASSUME NEW size1 \in Sizes, NEW j \in 0..(NBuf - 1), NEW i \in 0..(size1 - 1)
  PROVE  /\ j * size1 + i \in Mem
         /\ \A k \in 0..(NBuf - 1), l \in 0..(size1 - 1) : j # k => j * size1 + i # k * size1 + l
<1>1. NBuf \in Nat /\ NBuf > 0 /\ size1 \in Nat
  BY EndpointAssumption
<1>2. PICK big \in Nat : size1 <= big /\ Mem = 0..(NBuf * big - 1)
  <2> DEFINE P(m) == \A s \in Sizes : s <= m
  <2>1. \E m \in Sizes : P(m)
    BY EndpointAssumption
  <2>2. (CHOOSE m \in Sizes : P(m)) \in Sizes /\ P(CHOOSE m \in Sizes : P(m))
    BY <2>1
  <2>3. Mem = 0..(NBuf * (CHOOSE m \in Sizes : P(m)) - 1)
    BY DEF Mem
  <2>4. PICK m \in Sizes : P(m) /\ Mem = 0..(NBuf * m - 1)
    BY <2>2, <2>3
  <2>5. m \in Nat /\ size1 <= m
    BY <2>4, EndpointAssumption
  <2> QED BY <2>4, <2>5
<1>3. PICK x \in Nat : x = j * size1 /\ (j + 1) * size1 = x + size1
  BY <1>1, Times
<1>4. x + i \in Mem
  <2>1. j + 1 <= NBuf /\ j + 1 \in Nat
    BY <1>1
  <2>2. (j + 1) * size1 <= NBuf * size1
    BY <1>1, <2>1, Times
  <2>3. NBuf * size1 <= NBuf * big /\ NBuf * size1 \in Nat /\ NBuf * big \in Nat
    BY <1>1, <1>2, Times
  <2>4. PICK p \in Nat, q \in Nat : p = NBuf * size1 /\ q = NBuf * big /\ p <= q /\ x + size1 <= p
    BY <1>3, <2>2, <2>3
  <2>5. x + i \in 0..(q - 1)
    BY <1>1, <1>3, <2>4
  <2> QED BY <1>2, <2>4, <2>5
<1>5. ASSUME NEW k \in 0..(NBuf - 1), NEW l \in 0..(size1 - 1), j # k
      PROVE  x + i # k * size1 + l
  <2>1. PICK y \in Nat : y = k * size1 /\ (k + 1) * size1 = y + size1
    BY <1>1, Times
  <2>2. CASE j < k
    <3>1. j + 1 <= k /\ j + 1 \in Nat /\ k \in Nat
      BY <1>1, <2>2
    <3>2. (j + 1) * size1 <= k * size1
      BY <1>1, <3>1, Times
    <3>3. x + size1 <= y
      BY <1>3, <2>1, <3>2
    <3> QED BY <1>1, <2>1, <3>3
  <2>3. CASE k < j
    <3>1. k + 1 <= j /\ k + 1 \in Nat /\ j \in Nat
      BY <1>1, <2>3
    <3>2. (k + 1) * size1 <= j * size1
      BY <1>1, <3>1, Times
    <3>3. y + size1 <= x
      BY <1>3, <2>1, <3>2
    <3> QED BY <1>1, <2>1, <3>3
  <2> QED BY <1>1, <1>5, <2>2, <2>3
<1> QED BY <1>3, <1>4, <1>5

LEMMA SendMemoryKeeps ==
  ASSUME Inv, pc["sender"] = "up", NEW k, Good(k), Shaped(k.d, Len(sent) + 1), SendMemory(k)
  PROVE  Inv'
<1>1. conf.kind = "shm" /\ Len(k.d) + 1 <= attr /\ Called(k) /\ UNCHANGED <<pc, chan>>
  BY DEF SendMemory, Fits
<1>2. UNCHANGED <<conf, size, attr, room, rpkt, since, received, faults>>
  BY <1>1 DEF Called
<1>3. TypeOK /\ HistoryInv /\ ProcTypes /\ RingType /\ chan \in Seq(Datagram)
  BY Types DEF Inv, HistoryInv
<1>4. HistoryInv' /\ Histories' /\ Good(spkt)' /\ Good(rpkt)' /\ Sends(k.d)
  BY <1>1, <1>3, CalledKeeps
<1>5. PICK d \in Seq(Nat), l \in Nat : d = k.d /\ l = Len(d)
  BY DEF Good, AmjPackets
<1>6. attr \in Sizes /\ attr \in Nat /\ l + 1 <= attr
  <2>1. attr \in Sizes \cup {0}
    BY <1>3 DEF ProcTypes
  <2>2. attr \in Nat /\ l + 1 <= attr
    BY <1>1, <1>3, <1>5, Numbers
  <2>3. attr # 0
    BY <2>2
  <2> QED BY <2>1, <2>2, <2>3
<1>7. PICK s \in 0..(NBuf - 1), r \in 0..(NBuf - 1), m \in 0..NBuf, len \in Nat, mem \in [Mem -> Nat] :
        s = ring.sidx /\ r = ring.ridx /\ m = ring.sem /\ len = Len(sent) /\ mem = ring.mem
  <2>1. Len(sent) \in Nat
    BY <1>3, Numbers
  <2> QED BY <1>3, <2>1 DEF RingType
<1>8. InStep(s, r, m, len) /\ \A j \in 0..(NBuf - 1) : j < s \/ len >= NBuf => Holds(j)
  BY <1>1, <1>7 DEF Inv, RingInv, InStep
<1>9. /\ m = NBuf => InStep(Next1(s), Next1(r), m, len + 1)
      /\ m # NBuf => InStep(Next1(s), r, m + 1, len + 1) /\ m + 1 \in 0..NBuf
      /\ \A j \in 0..(NBuf - 1) :
           j # s /\ (j < Next1(s) \/ len + 1 >= NBuf) => j < s \/ len >= NBuf
  BY <1>7, <1>8, TokenGiven
<1>10. PICK us \in Seq(Nat) :
         /\ us = <<Len(d)>> \o d /\ Len(us) = l + 1 /\ us[1] = l
         /\ \A i \in 1..l : us[i + 1] = d[i]
  <2>1. PICK h \in Seq(Nat) : h = <<l>> /\ Len(h) = 1 /\ h[1] = l
    BY Single
  <2>2. h = <<Len(d)>>
    BY <1>5, <2>1
  <2> DEFINE o == h \o d
  <2>3. /\ o \in Seq(Nat) /\ Len(o) = Len(h) + Len(d)
        /\ \A i \in 1..Len(h) : o[i] = h[i]
        /\ \A i \in 1..Len(d) : o[Len(h) + i] = d[i]
    BY <1>5, <2>1, ConcatAt
  <2>4. o = h \o d
    OBVIOUS
  <2> HIDE DEF o
  <2>5. Len(o) = l + 1 /\ o[1] = l
    BY <1>5, <2>1, <2>3
  <2>6. \A i \in 1..l : o[i + 1] = d[i]
    BY <1>5, <2>1, <2>3
  <2> QED BY <2>2, <2>3, <2>4, <2>5, <2>6
<1>11. PICK at \in Nat : at = s * attr
  BY <1>6, <1>7, Times
<1>12. PICK new :
         /\ new = [a \in Mem |-> IF a \in at..(at + l) THEN us[a - at + 1] ELSE mem[a]]
         /\ ring' = [mem |-> new, sidx |-> Next1(s),
                     ridx |-> IF m = NBuf THEN Next1(r) ELSE r,
                     sem |-> IF m = NBuf THEN m ELSE m + 1]
  <2>1. at + Len(us) - 1 = at + l
    BY <1>5, <1>10, <1>11
  <2> QED BY <1>5, <1>7, <1>10, <1>11, <2>1 DEF SendMemory, Full
<1>13. new \in [Mem -> Nat]
  <2>1. ASSUME NEW a \in at..(at + l)
        PROVE  us[a - at + 1] \in Nat
    <3>1. a - at + 1 \in 1..Len(us)
      BY <1>10
    <3> QED BY <1>10, <3>1
  <2> QED BY <1>7, <1>12, <2>1
<1>14. /\ ring' \in [mem : [Mem -> Nat], sidx : 0..(NBuf - 1), ridx : 0..(NBuf - 1), sem : 0..NBuf]
       /\ ring'.mem = new /\ InStep(ring'.sidx, ring'.ridx, ring'.sem, len + 1) /\ ring'.sidx = Next1(s)
  <2>1. Next1(s) \in 0..(NBuf - 1) /\ Next1(r) \in 0..(NBuf - 1)
    BY <1>7, NextIs
  <2>2. CASE m = NBuf
    BY <1>7, <1>9, <1>12, <1>13, <2>1, <2>2
  <2>3. CASE m # NBuf
    BY <1>7, <1>9, <1>12, <1>13, <2>1, <2>3
  <2> QED BY <2>2, <2>3
<1>15. TypeOK'
  BY <1>1, <1>2, <1>3, <1>4, <1>14, TypesNext DEF ProcTypes, RingType
<1>16. Holds(s)'
  <2>1. len + 1 \in DOMAIN sent' /\ sent'[len + 1] = d
    BY <1>4, <1>5, <1>7 DEF Sends
  <2>2. ASSUME NEW i \in 0..l
        PROVE  new[at + i] = us[i + 1]
    <3>1. i \in 0..(attr - 1)
      BY <1>6
    <3>2. at + i \in Mem
      BY <1>6, <1>7, <1>11, <3>1, SlotIs
    <3>3. at + i \in at..(at + l) /\ at + i - at + 1 = i + 1
      OBVIOUS
    <3> QED BY <1>12, <3>2, <3>3
  <2>3. new[at] = l
    <3>1. 0 \in 0..l /\ at + 0 = at /\ 0 + 1 = 1
      OBVIOUS
    <3>2. new[at + 0] = us[0 + 1]
      BY <2>2, <3>1
    <3> QED BY <1>10, <3>1, <3>2
  <2>4. ASSUME NEW i \in 1..l
        PROVE  new[at + i] = d[i]
    <3>1. i \in 0..l
      BY <1>5
    <3> QED BY <1>10, <2>2, <3>1
  <2>5. attr' = attr /\ ring'.mem = new
    BY <1>2, <1>14
  <2> QED BY <1>5, <1>6, <1>11, <2>1, <2>3, <2>4, <2>5 DEF Holds
<1>17. ASSUME NEW j \in 0..(NBuf - 1), j # s, Holds(j)
       PROVE  Holds(j)'
  <2>1. PICK n \in DOMAIN sent :
          /\ Len(sent[n]) + 1 <= attr
          /\ ring.mem[j * attr] = Len(sent[n])
          /\ \A i \in 1..Len(sent[n]) : ring.mem[j * attr + i] = sent[n][i]
    BY <1>17 DEF Holds
  <2>2. n \in DOMAIN sent' /\ sent'[n] = sent[n]
    BY <1>4 DEF Sends
  <2>3. PICK b \in Nat : b = j * attr
    BY <1>6, <1>7, Times
  <2>4. PICK c \in Nat : c = Len(sent[n]) /\ c + 1 <= attr
    <3>1. sent[n] \in Seq(Nat)
      BY <1>3, Types, Numbers DEF Histories
    <3> QED BY <2>1, <3>1
  <2>5. ASSUME NEW i \in 0..c
        PROVE  new[b + i] = mem[b + i]
    <3>1. i \in 0..(attr - 1)
      BY <1>6, <2>4
    <3>2. b + i \in Mem
      BY <1>6, <2>3, <3>1, SlotIs
    <3>3. b + i \notin at..(at + l)
      <4>1. ASSUME b + i \in at..(at + l)
            PROVE  FALSE
        <5>1. PICK e \in 0..(attr - 1) : b + i = at + e
          <6>1. (b + i) - at \in 0..(attr - 1) /\ b + i = at + ((b + i) - at)
            BY <1>6, <4>1
          <6> QED BY <6>1
        <5> QED BY <1>6, <1>7, <1>11, <1>17, <2>3, <3>1, <5>1, SlotIs
      <4> QED BY <4>1
    <3> QED BY <1>12, <3>2, <3>3
  <2>6. new[b] = mem[b]
    <3>1. 0 \in 0..c /\ b + 0 = b
      OBVIOUS
    <3>2. new[b + 0] = mem[b + 0]
      BY <2>5, <3>1
    <3> QED BY <3>1, <3>2
  <2>7. \A i \in 1..c : new[b + i] = sent[n][i]
    BY <1>7, <2>1, <2>3, <2>4, <2>5, SMTT(30)
  <2>8. new[b] = c
    BY <1>7, <2>1, <2>3, <2>4, <2>6
  <2>9. attr' = attr /\ ring'.mem = new
    BY <1>2, <1>14
  <2> QED BY <2>2, <2>3, <2>4, <2>7, <2>8, <2>9 DEF Holds
<1>18. RingInv'
  <2>1. ASSUME NEW j \in 0..(NBuf - 1), j < Next1(s) \/ len + 1 >= NBuf
        PROVE  Holds(j)'
    <3>1. CASE j = s
      BY <1>16, <3>1
    <3>2. CASE j # s
      <4>1. j < s \/ len >= NBuf
        BY <1>9, <2>1, <3>2
      <4>2. Holds(j)
        BY <1>8, <4>1
      <4> QED BY <1>17, <3>2, <4>2
    <3> QED BY <3>1, <3>2
  <2>2. Len(sent') = len + 1
    BY <1>4, <1>7 DEF Sends
  <2>3. pc'["sender"] = "up"
    BY <1>1
  <2> QED BY <1>14, <2>1, <2>2, <2>3 DEF RingInv, InStep
<1>19. ChanInv' /\ FlushInv'
  <2>1. conf.kind # "mq" /\ conf' = conf /\ chan' = chan
    BY <1>1, <1>2
  <2>2. ASSUME NEW i \in DOMAIN chan, chan[i].from = PeerAddr
        PROVE  \E n \in DOMAIN sent' : chan[i].d = sent'[n]
    BY <1>4, <2>2 DEF Inv, ChanInv, Sends
  <2> QED BY <2>1, <2>2 DEF ChanInv, FlushInv
<1> QED BY <1>4, <1>15, <1>18, <1>19 DEF Inv, HistoryInv

LEMMA SendKeeps ==
  ASSUME Inv, Send
  PROVE  Inv'
<1>1. PICK n \in Texts : \E k \in Filled(spkt, Len(sent) + 1, [j \in 1..n |-> 101 + Len(sent)]) :
        SendQueue(k) \/ SendSocket(k) \/ SendMemory(k)
  BY DEF Send
<1> PICK k \in Filled(spkt, Len(sent) + 1, [j \in 1..n |-> 101 + Len(sent)]) :
      SendQueue(k) \/ SendSocket(k) \/ SendMemory(k)
  BY <1>1
<1>2. pc["sender"] = "up"
  BY DEF Send
<1>3. Good(k) /\ Shaped(k.d, Len(sent) + 1)
  BY FilledIs DEF Inv
<1> QED BY <1>2, <1>3, SendQueueKeeps, SendSocketKeeps, SendMemoryKeeps

-----------------------------------------------------------------------------
(* The theorems.                                                           *)

LEMMA InitHolds ==
  ASSUME Init
  PROVE  Inv
<1>1. /\ conf \in [kind : {"mq", "udp", "shm"}, one_peer : BOOLEAN]
      /\ pc = [x \in Procs |-> "down"] /\ size = [x \in Procs |-> 0]
      /\ attr = 0 /\ room = 0 /\ chan = <<>>
      /\ ring = [mem |-> [a \in Mem |-> 0], sidx |-> 0, ridx |-> 0, sem |-> 0]
      /\ spkt = Cleared /\ rpkt = Cleared
      /\ sent = <<>> /\ since = 0 /\ received = <<>> /\ faults = 0
  BY DEF Init
<1>2. NBuf \in Nat /\ NBuf > 0 /\ MaxFaults \in Nat
  BY EndpointAssumption
<1>3. Good(Cleared)
  <2>1. Cleared \in AmjPackets /\ Cleared.offset = 0 /\ Len(Cleared.d) = 0
    BY DEF Cleared, AmjPackets
  <2> QED BY <2>1 DEF Good
<1>4. TypeOK
  <2>1. ProcTypes
    BY <1>1, <1>2 DEF ProcTypes, States
  <2>2. RingType
    <3>1. [a \in Mem |-> 0] \in [Mem -> Nat] /\ 0 \in 0..(NBuf - 1) /\ 0 \in 0..NBuf
      BY <1>2
    <3> QED BY <1>1, <3>1 DEF RingType
  <2>3. Histories /\ chan \in Seq(Datagram)
    BY <1>1 DEF Histories
  <2> QED BY <1>1, <1>3, <2>1, <2>2, <2>3, Types
<1>5. DOMAIN sent = {} /\ DOMAIN chan = {} /\ DOMAIN received = {} /\ Len(sent) = 0
  BY <1>1
<1>6. SentInv /\ ChanInv /\ FlushInv /\ PacketIntact
  BY <1>5 DEF SentInv, ChanInv, FlushInv, PacketIntact
<1>7. FreshInv
  BY <1>1, <1>5 DEF FreshInv, FreshAfterOpen
<1>8. RingInv
  <2>1. \A j \in 0..(NBuf - 1) : ~(j < 0) /\ ~(0 >= NBuf)
    BY <1>2
  <2> QED BY <1>1, <1>5, <2>1 DEF RingInv
<1> QED BY <1>4, <1>6, <1>7, <1>8 DEF Inv

LEMMA StutterHolds ==
  ASSUME Inv, UNCHANGED vars
  PROVE  Inv'
<1>1. UNCHANGED <<conf, pc, size, attr, room, chan, ring, spkt, rpkt, sent, since, received, faults>>
  BY DEF vars
<1>2. TypeOK /\ HistoryInv
  BY DEF Inv, HistoryInv
<1>3. TypeOK'
  BY <1>1, <1>2 DEF TypeOK
<1>4. HistoryInv' /\ RingInv'
  BY <1>1, <1>2, HistoryKept, RingKept DEF Inv
<1>5. ChanInv' /\ FlushInv'
  BY <1>1 DEF Inv, ChanInv, FlushInv
<1> QED BY <1>3, <1>4, <1>5 DEF Inv, HistoryInv

LEMMA NextHolds ==
  ASSUME Inv, [Next]_vars
  PROVE  Inv'
<1>1. CASE Start
  BY <1>1, OpenSocketKeeps, OpenQueueKeeps, OpenMemoryKeeps DEF Start
<1>2. CASE Receive
  BY <1>2, ReceiveQueueKeeps, ReceiveSocketKeeps, ReceiveMemoryKeeps DEF Receive
<1> QED BY <1>1, <1>2, FlushKeeps, SendKeeps, NetKeeps, StutterHolds DEF Next

LEMMA Invariant == Spec => []Inv
<1>1. Init => Inv
  BY InitHolds
<1>2. Inv /\ [Next]_vars => Inv'
  BY NextHolds
<1> QED BY <1>1, <1>2, PTL DEF Spec

\* Types of the variables, and cursors that stay inside their packets.
THEOREM TypeCorrect == Spec => []TypeOK
<1>1. Inv => TypeOK
  BY DEF Inv
<1> QED BY <1>1, Invariant, PTL

\* A packet of the peer arrives with the size and the units it was sent with,
\* through a queue, a socket or the memory, and gives back what was inserted:
\* for any sizes, any lengths of texts and any number of slots (amjPacket.C,
\* amjComEndpointMQ.C, amjComEndpointUDP.C, amjComEndpointSHM.C).
THEOREM PacketsIntact == Spec => []PacketIntact
<1>1. Inv => PacketIntact
  BY DEF Inv
<1> QED BY <1>1, Invariant, PTL

\* A receiver that opens a queue gets nothing that was sent before it opened it
\* (init() of amjComEndpointMQ.C).
THEOREM NothingOld == Spec => []FreshAfterOpen
<1>1. Inv => FreshAfterOpen
  BY DEF Inv, FreshInv
<1> QED BY <1>1, Invariant, PTL

-----------------------------------------------------------------------------
(* A receiver that has opened a queue never sees mq_receive fail: its      *)
(* buffer is as large as the queue's messages, also when the sender is     *)
(* started again with another size, and its queue blocks.                  *)

NoError == conf.kind = "mq" => pc["receiver"] # "error"

ModeInv ==
  conf.kind = "mq" =>
    /\ pc["receiver"] # "error"
    /\ Running("receiver") => attr \in Sizes /\ size["receiver"] = attr

LEMMA ModeStays ==
  ASSUME ModeInv, UNCHANGED <<conf, size, attr, room>>,
         Running("receiver")' => Running("receiver"), pc'["receiver"] # "error"
  PROVE  ModeInv'
BY DEF ModeInv

LEMMA ModeHolds ==
  ASSUME TypeOK, ModeInv, [Next]_vars
  PROVE  ModeInv'
<1> SUFFICES ASSUME conf'.kind = "mq"
             PROVE  ModeInv'
  BY DEF ModeInv
<1>1. pc \in [Procs -> States] /\ size \in [Procs -> Sizes \cup {0}] /\ attr \in Sizes \cup {0}
  BY Types DEF ProcTypes
<1>2. ASSUME NEW x \in Procs, NEW s \in Sizes, NEW n \in 1..NBuf, OpenQueue(x, s, n)
      PROVE  ModeInv'
  <2>1. /\ conf' = conf /\ attr' = (IF attr = 0 THEN s ELSE attr) /\ size' = [size EXCEPT ![x] = s]
        /\ pc' = [pc EXCEPT ![x] = IF ~SameAttr(x, s, n) THEN "exit"
                                   ELSE IF x = "receiver" THEN "flush" ELSE "up"]
    BY <1>2 DEF OpenQueue, Goto
  <2>2. s # 0 /\ 0 \notin Sizes
    BY EndpointAssumption
  <2>3. CASE x = "receiver"
    <3>1. CASE SameAttr(x, s, n)
      <4>1. attr = 0 \/ attr = s
        BY <3>1 DEF SameAttr
      <4>2. attr' = s /\ size'["receiver"] = s /\ pc'["receiver"] = "flush"
        BY <1>1, <2>1, <2>2, <2>3, <3>1, <4>1 DEF Procs
      <4> QED BY <4>2 DEF ModeInv
    <3>2. CASE ~SameAttr(x, s, n)
      <4>1. pc'["receiver"] = "exit"
        BY <1>1, <2>1, <2>3, <3>2 DEF Procs
      <4> QED BY <4>1 DEF ModeInv, Running
    <3> QED BY <3>1, <3>2
  <2>4. CASE x = "sender"
    <3>1. pc'["receiver"] = pc["receiver"] /\ size'["receiver"] = size["receiver"]
      BY <1>1, <2>1, <2>4 DEF Procs
    <3>2. attr \in Sizes => attr' = attr
      BY <2>1, <2>2
    <3> QED BY <2>1, <3>1, <3>2 DEF ModeInv, Running
  <2> QED BY <2>3, <2>4 DEF Procs
<1>3. ASSUME NEW x \in Procs, OpenSocket(x) \/ \E s \in Sizes : OpenMemory(x, s)
      PROVE  FALSE
  BY <1>3 DEF OpenSocket, OpenMemory
<1>4. CASE Flush
  <2>1. UNCHANGED <<conf, size, attr, room>> /\ pc["receiver"] = "flush"
        /\ (pc' = [pc EXCEPT !["receiver"] = "up"] \/ pc' = pc)
    BY <1>4 DEF Flush, Goto
  <2>2. Running("receiver") /\ pc'["receiver"] # "error"
    BY <1>1, <2>1 DEF Running, Procs
  <2> QED BY <2>1, <2>2, ModeStays
<1>5. ASSUME NEW k, SendQueue(k) \/ SendSocket(k) \/ SendMemory(k)
      PROVE  ModeInv'
  <2>1. UNCHANGED <<conf, size, attr, room>> /\ (pc' = [pc EXCEPT !["sender"] = "exit"] \/ pc' = pc)
    BY <1>5 DEF SendQueue, SendSocket, SendMemory, Called, Goto
  <2>2. pc'["receiver"] = pc["receiver"]
    BY <1>1, <2>1 DEF Procs
  <2>3. pc["receiver"] # "error"
    BY <2>1 DEF ModeInv
  <2> QED BY <2>1, <2>2, <2>3, ModeStays DEF Running
<1>6. CASE ReceiveQueue
  <2>1. pc["receiver"] = "up" /\ conf.kind = "mq"
    BY <1>6 DEF ReceiveQueue
  <2>2. attr \in Sizes /\ size["receiver"] = attr
    BY <2>1 DEF ModeInv, Running
  <2>3. attr \in Nat
    BY <2>2, EndpointAssumption
  <2>4. ~ReceiveFails
    BY <2>2, <2>3 DEF ReceiveFails, Mode
  <2>5. PICK k, from : Extracts(k, from) /\ pc' = pc
    BY <1>6, <2>4 DEF ReceiveQueue
  <2>6. UNCHANGED <<conf, size, attr, room, pc>>
    BY <2>5 DEF Extracts
  <2> QED BY <2>1, <2>6, ModeStays DEF Running
<1>7. ASSUME ReceiveMemory \/ \E i \in Datagrams : ReceiveSocket(i)
      PROVE  FALSE
  <2>1. conf.kind # "mq"
    BY <1>7 DEF ReceiveMemory, ReceiveSocket
  <2>2. conf' = conf
    BY <1>7 DEF ReceiveMemory, ReceiveSocket, Extracts
  <2> QED BY <2>1, <2>2
<1>8. ASSUME NEW x \in Procs, Kill(x)
      PROVE  ModeInv'
  <2>1. UNCHANGED <<conf, size, attr, room>> /\ pc' = [pc EXCEPT ![x] = "down"]
    BY <1>8 DEF Kill, Goto
  <2>2. pc'["receiver"] = pc["receiver"] \/ pc'["receiver"] = "down"
    BY <1>1, <2>1 DEF Procs
  <2>3. pc["receiver"] # "error"
    BY <2>1 DEF ModeInv
  <2> QED BY <2>1, <2>2, <2>3, ModeStays DEF Running
<1>9. ASSUME NEW c, Network(c)
      PROVE  FALSE
  BY <1>9 DEF Network
<1>10. CASE UNCHANGED vars
  BY <1>10 DEF vars, ModeInv, Running
<1>11. Start => ModeInv'
  BY <1>2, <1>3 DEF Start
<1>12. Send => ModeInv'
  BY <1>5 DEF Send
<1>13. Receive => ModeInv'
  BY <1>6, <1>7 DEF Receive
<1>14. Net => ModeInv'
  BY <1>8, <1>9 DEF Net, Lose, Duplicate, Foreign
<1> QED BY <1>4, <1>10, <1>11, <1>12, <1>13, <1>14 DEF Next

\* Whatever sizes sender and receiver are started with, and however often: the
\* second part of NeitherStops (init(), amjComEndpointMQ.C).
THEOREM ReceiverNeverFails == Spec => []NoError
<1>1. Init => ModeInv
  <2>1. "receiver" \in Procs
    BY DEF Procs
  <2> QED BY <2>1 DEF Init, ModeInv, Running
<1>2. TypeOK /\ ModeInv /\ [Next]_vars => ModeInv'
  BY ModeHolds
<1>3. ModeInv => NoError
  BY DEF ModeInv, NoError
<1> QED BY <1>1, <1>2, <1>3, TypeCorrect, PTL DEF Spec
=============================================================================
