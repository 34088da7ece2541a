-------------------------- MODULE TcpServerProofs --------------------------
(***************************************************************************)
(* Proofs about TcpServer, for any number of connections, of sessions the  *)
(* application keeps and of packets in their queues: types, one chain of   *)
(* reads in a session, and what the application sees of its end.           *)
(***************************************************************************)
EXTENDS TcpServer, SequenceLemmas, FiniteSetTheorems, TLAPS

\* The handlers of a session that are queued, and of the accept loop.
ReadsOf(s)   == {c \in Entry : c.s = s /\ c.op \in {"header", "body"}}
WritesOf(s)  == {c \in Entry : c.s = s /\ c.op = "write"}
GoodReads(s) == {c \in ReadsOf(s) : c.ok}
Accepts      == {c \in Entry : c.op = "accept"}
GoodAccepts  == {c \in Accepts : c.ok}
NotNext      == {c \in Accepts : c.s # next}

HasRead(s, r, q)  == r.read # "none" \/ ~Absent(q, ReadsOf(s))
HasWrite(s, r, q) == r.write \/ ~Absent(q, WritesOf(s))
One(b) == IF b THEN 1 ELSE 0

\* What is true of the session s while its record is r and the queue is q.  There
\* is one chain of reads and one of writes, which has a packet to write; and no
\* read that has succeeded is left once a packet was handed over after the end.
Core(s, r, q) ==
  /\ AtMostOne(q, ReadsOf(s)) /\ AtMostOne(q, WritesOf(s))
  /\ r.read # "none" => Absent(q, ReadsOf(s))
  /\ r.write => Absent(q, WritesOf(s))
  /\ HasWrite(s, r, q) => r.queue > 0
  /\ r.queue + r.due <= MaxQueue + MaxSenders
  /\ r.due > 0 => r.app
  /\ r.state = "Disconnected" => r.sock = "closed" /\ r.read = "none" /\ ~r.write
  /\ r.state # "Disconnected" => r.reports = 0 /\ r.after = 0
  /\ r.after <= 1
  /\ r.state = "Disconnected" /\ ~Absent(q, GoodReads(s)) => r.after = 0

\* The reports there have been, with those that each chain and each thread inside
\* send() can still cause.
Budget(s, r, q) ==
  r.reports + One(HasRead(s, r, q)) + One(HasWrite(s, r, q)) + r.due

\* As many as the chains and the threads.
Limit == 2 + MaxSenders

LEMMA LimitType == Limit \in Nat /\ Limit >= 2
BY ServerAssumption DEF Limit

\* A connection that somebody has is read from.
Wired(s, r, q) ==
  r.state = "Connected" /\ (r.app \/ HasWrite(s, r, q)) => HasRead(s, r, q)

Whole(s, r, q) == Core(s, r, q) /\ Budget(s, r, q) <= Limit /\ Wired(s, r, q)

\* A session that has not been handed over.
Fresh(s, r, q) ==
  /\ ~HasRead(s, r, q) /\ ~HasWrite(s, r, q)
  /\ r.state = "NoState" /\ r.due = 0 /\ ~r.app /\ r.queue = 0

SessionInv ==
  \A s \in Sessions : /\ Whole(s, ses[s], ready)
                      /\ s >= next => Fresh(s, ses[s], ready)

\* The accept loop has one handler, that of the session next.
AcceptInv ==
  /\ ~started => accept = "none"
  /\ next + backlog + One(~Absent(ready, GoodAccepts)) <= MaxSessions + 1
  /\ accept \in {"none", "pending"} => Absent(ready, Accepts)
  /\ accept \in {"queued", "checked"} => next \in Sessions /\ ~Absent(ready, Accepts)
  /\ AtMostOne(ready, Accepts) /\ Absent(ready, NotNext)
  /\ accept = "checked" => Head(ready) \in Accepts

Inv == TypeOK /\ AcceptInv /\ SessionInv

-----------------------------------------------------------------------------
(* The operators on a session.                                             *)

\* The record of a session with a queue.
Pair == [r : SessionType, q : Seq(Entry)]

\* Entries that are not of a read or a write of s.
Foreign(s, E) == \A c \in E : c.s # s \/ c.op = "accept"

LEMMA DoneType ==
  ASSUME NEW s \in Sessions, NEW op \in {"accept", "header", "body", "write"}, NEW ok \in BOOLEAN
  PROVE  /\ Done(op, s, ok) \in Entry
         /\ op \in {"header", "body"} => /\ Done(op, s, ok) \in ReadsOf(s)
                                         /\ Done(op, s, ok) \notin WritesOf(s)
                                         /\ Done(op, s, FALSE) \notin GoodReads(s)
         /\ op = "write" => /\ Done(op, s, ok) \in WritesOf(s)
                            /\ Done(op, s, ok) \notin ReadsOf(s)
                            /\ Done(op, s, ok) \notin GoodReads(s)
         /\ \A E : Foreign(s, E) /\ op # "accept" => Done(op, s, ok) \notin E
BY DEF Done, Entry, ReadsOf, WritesOf, GoodReads, Foreign

LEMMA PairType ==
  ASSUME NEW r \in SessionType, NEW q \in Seq(Entry)
  PROVE  With(r, q) \in Pair /\ With(r, q).r = r /\ With(r, q).q = q
BY DEF With, Pair

LEMMA PairParts ==
  ASSUME NEW x \in Pair
  PROVE  x.r \in SessionType /\ x.q \in Seq(Entry)
BY DEF Pair

\* What can be said of an operator that takes x to y: both chains are what they
\* were, but for what is queued of them, and the entries of others stay.
Carries(s, x, y) ==
  /\ y \in Pair
  /\ AtMostOne(y.q, ReadsOf(s)) /\ AtMostOne(y.q, WritesOf(s))
  /\ HasRead(s, y.r, y.q) <=> HasRead(s, x.r, x.q)
  /\ HasWrite(s, y.r, y.q) <=> HasWrite(s, x.r, x.q)
  /\ Absent(y.q, GoodReads(s)) <=> Absent(x.q, GoodReads(s))

LEMMA ShutdownCarries ==
  ASSUME NEW s \in Sessions, NEW x \in Pair, Core(s, x.r, x.q)
  PROVE  /\ Carries(s, x, Shutdown(s, x))
         /\ Shutdown(s, x).r = [x.r EXCEPT !.sock = "closed", !.read = "none", !.write = FALSE]
         /\ \A E : Foreign(s, E) => Same(E, x.q, Shutdown(s, x).q)
<1> DEFINE e == Done(x.r.read, s, FALSE)
           w == Done("write", s, FALSE)
           p == IF x.r.read = "none" THEN x.q ELSE Append(x.q, e)
           o == IF x.r.write THEN Append(p, w) ELSE p
           y == [x.r EXCEPT !.sock = "closed", !.read = "none", !.write = FALSE]
<1>1. /\ x.r \in SessionType /\ x.q \in Seq(Entry) /\ y \in SessionType
      /\ x.r.read \in {"none", "header", "body"} /\ x.r.write \in BOOLEAN
      /\ y.read = "none" /\ y.write = FALSE
  BY PairParts DEF SessionType
<1>2. /\ w \in Entry /\ w \in WritesOf(s) /\ w \notin ReadsOf(s) /\ w \notin GoodReads(s)
      /\ \A E : Foreign(s, E) => w \notin E
  BY DoneType
<1>3. x.r.read # "none" =>
        /\ e \in Entry /\ e \in ReadsOf(s) /\ e \notin WritesOf(s) /\ e \notin GoodReads(s)
        /\ \A E : Foreign(s, E) => e \notin E
  BY <1>1, DoneType
<1> HIDE DEF e, w
<1>4. p \in Seq(Entry) /\ o \in Seq(Entry)
  <2>1. p \in Seq(Entry)
    <3>1. CASE x.r.read = "none"
      BY <1>1, <3>1
    <3>2. CASE x.r.read # "none"
      BY <1>1, <1>3, <3>2
    <3> QED BY <3>1, <3>2
  <2> HIDE DEF p
  <2>2. CASE x.r.write
    BY <1>2, <2>1, <2>2
  <2>3. CASE ~x.r.write
    BY <2>1, <2>3
  <2> QED BY <2>1, <2>2, <2>3
<1>5. Shutdown(s, x) = With(y, o)
  <2>1. x.q \o (IF x.r.read = "none" THEN <<>> ELSE <<e>>) = p
    <3>1. CASE x.r.read = "none"
      BY <1>1, <3>1, ConcatFew
    <3>2. CASE x.r.read # "none"
      BY <1>1, <1>3, <3>2, ConcatFew
    <3> QED BY <3>1, <3>2
  <2>2. p \o (IF x.r.write THEN <<w>> ELSE <<>>) = o
    <3> HIDE DEF p
    <3>1. CASE x.r.write
      BY <1>2, <1>4, <3>1, ConcatFew
    <3>2. CASE ~x.r.write
      BY <1>2, <1>4, <3>2, ConcatFew
    <3> QED BY <3>1, <3>2
  <2> QED BY <2>1, <2>2 DEF Shutdown, e, w
<1> HIDE DEF y, o
<1>6. /\ Shutdown(s, x) \in Pair /\ Shutdown(s, x).r = y /\ Shutdown(s, x).q = o
  BY <1>1, <1>4, <1>5, PairType
<1> USE DEF o
<1>7. /\ AtMostOne(p, ReadsOf(s)) /\ (~Absent(p, ReadsOf(s)) <=> HasRead(s, x.r, x.q))
      /\ Same(WritesOf(s), x.q, p) /\ Same(GoodReads(s), x.q, p)
  <2>1. CASE x.r.read = "none"
    BY <2>1, SameSelf DEF Core, HasRead
  <2>2. CASE x.r.read # "none"
    BY <1>1, <1>3, <2>2, AppendNew, SameAppend DEF Core, HasRead
  <2> QED BY <2>1, <2>2
<1>8. /\ AtMostOne(p, WritesOf(s)) /\ (Absent(p, WritesOf(s)) <=> Absent(x.q, WritesOf(s)))
      /\ (Absent(p, GoodReads(s)) <=> Absent(x.q, GoodReads(s)))
  BY <1>7 DEF Core, Same
<1>9. /\ AtMostOne(o, WritesOf(s)) /\ (~Absent(o, WritesOf(s)) <=> HasWrite(s, x.r, x.q))
      /\ Same(ReadsOf(s), p, o) /\ Same(GoodReads(s), p, o)
  <2>1. CASE x.r.write
    BY <1>2, <1>4, <1>8, <2>1, AppendNew, SameAppend DEF Core, HasWrite
  <2>2. CASE ~x.r.write
    BY <1>8, <2>2, SameSelf DEF HasWrite
  <2> QED BY <2>1, <2>2
<1> USE DEF y
<1>10. Carries(s, x, Shutdown(s, x))
  <2>1. AtMostOne(o, ReadsOf(s)) /\ (Absent(o, ReadsOf(s)) <=> Absent(p, ReadsOf(s)))
        /\ (Absent(o, GoodReads(s)) <=> Absent(x.q, GoodReads(s)))
    BY <1>7, <1>8, <1>9 DEF Same
  <2>2. (HasRead(s, y, o) <=> HasRead(s, x.r, x.q)) /\ (HasWrite(s, y, o) <=> HasWrite(s, x.r, x.q))
    <3>1. HasRead(s, y, o) <=> ~Absent(o, ReadsOf(s))
      BY <1>1 DEF HasRead
    <3>2. HasWrite(s, y, o) <=> ~Absent(o, WritesOf(s))
      BY <1>1 DEF HasWrite
    <3> QED BY <1>7, <1>9, <2>1, <3>1, <3>2
  <2> QED BY <1>6, <1>9, <2>1, <2>2 DEF Carries
<1>11. ASSUME NEW E, Foreign(s, E)
       PROVE  Same(E, x.q, o)
  <2>1. Same(E, x.q, p)
    BY <1>1, <1>3, <1>11, SameSelf, SameAppend
  <2>2. Same(E, p, o)
    BY <1>2, <1>4, <1>11, SameSelf, SameAppend
  <2> QED BY <2>1, <2>2, SameTrans
<1> QED BY <1>6, <1>10, <1>11

LEMMA BudgetType ==
  ASSUME NEW s \in Sessions, NEW x \in Pair
  PROVE  /\ One(HasRead(s, x.r, x.q)) \in {0, 1} /\ One(HasWrite(s, x.r, x.q)) \in {0, 1}
         /\ x.r.due \in Nat /\ x.r.reports \in Nat /\ Budget(s, x.r, x.q) \in Nat
         /\ Limit \in Nat /\ Limit >= 2
BY PairParts, ServerAssumption, LimitType DEF One, Budget, SessionType

\* The error handler costs one report and leaves a session that is quiet but for what
\* is queued.
LEMMA ErrorHandlerWhole ==
  ASSUME NEW s \in Sessions, NEW x \in Pair, Core(s, x.r, x.q), Budget(s, x.r, x.q) < Limit
  PROVE  LET y == ErrorHandler(s, x)
         IN  /\ y \in Pair /\ Whole(s, y.r, y.q)
             /\ \A E : Foreign(s, E) => Same(E, x.q, y.q)
<1> DEFINE z == Shutdown(s, x)
           y == ErrorHandler(s, x)
           r == [z.r EXCEPT !.state = "Disconnected", !.reports = @ + 1]
<1>1. /\ Carries(s, x, z) /\ z \in Pair /\ z.r \in SessionType /\ z.q \in Seq(Entry)
      /\ z.r = [x.r EXCEPT !.sock = "closed", !.read = "none", !.write = FALSE]
      /\ x.r \in SessionType /\ \A E : Foreign(s, E) => Same(E, x.q, z.q)
  BY ShutdownCarries, PairParts DEF Carries
<1>2. /\ r \in SessionType /\ r.state = "Disconnected" /\ r.sock = "closed" /\ r.read = "none"
      /\ r.write = FALSE /\ r.reports = x.r.reports + 1 /\ r.due = x.r.due /\ r.app = x.r.app
      /\ r.queue = x.r.queue /\ r.after = x.r.after /\ z.r.read = "none" /\ z.r.write = FALSE
  <2>1. PICK n \in Nat : n = x.r.reports + 1
    BY <1>1 DEF SessionType
  <2>2. r = [x.r EXCEPT !.sock = "closed", !.read = "none", !.write = FALSE,
                        !.state = "Disconnected", !.reports = n]
    BY <1>1, <2>1 DEF SessionType
  <2>3. z.r.read = "none" /\ z.r.write = FALSE
    BY <1>1 DEF SessionType
  <2> HIDE DEF r
  <2> QED BY <1>1, <2>1, <2>2, <2>3 DEF SessionType
<1>3. y = With(r, z.q)
  BY DEF ErrorHandler
<1>4. y \in Pair /\ y.r = r /\ y.q = z.q
  BY <1>1, <1>2, <1>3, PairType
<1> HIDE DEF y, r, z
<1>5. /\ HasRead(s, r, z.q) <=> HasRead(s, x.r, x.q)
      /\ HasWrite(s, r, z.q) <=> HasWrite(s, x.r, x.q)
  BY <1>1, <1>2 DEF Carries, HasRead, HasWrite
<1>6. Budget(s, r, z.q) <= Limit
  <2>1. Budget(s, r, z.q) = x.r.reports + 1 + One(HasRead(s, x.r, x.q))
                              + One(HasWrite(s, x.r, x.q)) + x.r.due
    BY <1>2, <1>5 DEF Budget, One
  <2> QED BY <2>1, BudgetType DEF Budget
<1>7. Core(s, r, z.q)
  BY <1>1, <1>2, <1>5 DEF Core, Carries
<1>8. Wired(s, r, z.q)
  BY <1>2 DEF Wired
<1> QED BY <1>1, <1>4, <1>6, <1>7, <1>8 DEF Whole, y

\* The next read of the chain, once the last one has been taken from the queue.
LEMMA StartReadWhole ==
  ASSUME NEW s \in Sessions, NEW x \in Pair, NEW part \in {"header", "body"},
         Core(s, x.r, x.q), Budget(s, x.r, x.q) < Limit, ~HasRead(s, x.r, x.q)
  PROVE  LET y == StartRead(s, part, x)
         IN  /\ y \in Pair /\ Whole(s, y.r, y.q)
             /\ \A E : Foreign(s, E) => Same(E, x.q, y.q)
<1> DEFINE y == StartRead(s, part, x)
           e == Done(part, s, FALSE)
           r == [x.r EXCEPT !.read = part]
<1>1. x.r \in SessionType /\ x.q \in Seq(Entry) /\ x.r.read = "none" /\ Absent(x.q, ReadsOf(s))
  BY PairParts DEF HasRead
<1>2. /\ e \in Entry /\ e \in ReadsOf(s) /\ e \notin WritesOf(s) /\ e \notin GoodReads(s)
      /\ \A E : Foreign(s, E) => e \notin E
  BY DoneType
<1>3. Absent(x.q, GoodReads(s))
  BY <1>1 DEF Absent, GoodReads
<1> HIDE DEF e
<1>4. CASE x.r.sock = "closed"
  <2>1. y = With(x.r, Append(x.q, e)) /\ Append(x.q, e) \in Seq(Entry)
    <3>1. y = With(x.r, Append(x.q, e))
      BY <1>4 DEF StartRead, e
    <3>2. Append(x.q, e) \in Seq(Entry)
      BY <1>1, <1>2
    <3> QED BY <3>1, <3>2
  <2>2. y \in Pair /\ y.r = x.r /\ y.q = Append(x.q, e)
    <3> HIDE DEF y
    <3> QED BY <1>1, <2>1, PairType
  <2> HIDE DEF y
  <2>3. AtMostOne(y.q, ReadsOf(s)) /\ ~Absent(y.q, ReadsOf(s))
    BY <1>1, <1>2, <2>2, AppendNew
  <2>4. Same(WritesOf(s), x.q, y.q) /\ Same(GoodReads(s), x.q, y.q)
    BY <1>1, <1>2, <2>2, SameAppend
  <2>5. HasRead(s, y.r, y.q) /\ (HasWrite(s, y.r, y.q) <=> HasWrite(s, x.r, x.q))
    BY <2>2, <2>3, <2>4 DEF HasRead, HasWrite, Same
  <2>6. Budget(s, y.r, y.q) <= Limit
    <3>1. Budget(s, y.r, y.q) = Budget(s, x.r, x.q) + 1
      <4>1. /\ One(HasRead(s, y.r, y.q)) = 1 /\ One(HasRead(s, x.r, x.q)) = 0
            /\ One(HasWrite(s, y.r, y.q)) = One(HasWrite(s, x.r, x.q))
        BY <2>5 DEF One
      <4>2. /\ x.r.due \in Nat /\ x.r.reports \in Nat
            /\ One(HasWrite(s, x.r, x.q)) \in {0, 1}
        BY BudgetType
      <4>3. Budget(s, y.r, y.q) = x.r.reports + 1 + One(HasWrite(s, x.r, x.q)) + x.r.due
        BY <2>2, <4>1 DEF Budget
      <4>4. Budget(s, x.r, x.q) = x.r.reports + 0 + One(HasWrite(s, x.r, x.q)) + x.r.due
        BY <4>1 DEF Budget
      <4> QED BY <4>2, <4>3, <4>4
    <3> QED BY <3>1, BudgetType
  <2>7. Core(s, y.r, y.q)
    BY <1>1, <1>3, <2>2, <2>3, <2>4, <2>5 DEF Core, Same
  <2>8. \A E : Foreign(s, E) => Same(E, x.q, y.q)
    BY <1>1, <1>2, <2>2, SameAppend
  <2> QED BY <2>2, <2>5, <2>6, <2>7, <2>8 DEF Whole, Wired, y
<1>5. CASE x.r.sock # "closed"
  <2>1. y = With(r, x.q)
    BY <1>5 DEF StartRead
  <2>2. /\ r \in SessionType /\ r.read = part /\ r.state = x.r.state /\ r.sock = x.r.sock
        /\ r.write = x.r.write /\ r.reports = x.r.reports /\ r.due = x.r.due /\ r.app = x.r.app
        /\ r.queue = x.r.queue /\ r.after = x.r.after
    BY <1>1 DEF SessionType
  <2>3. y \in Pair /\ y.r = r /\ y.q = x.q
    BY <1>1, <2>1, <2>2, PairType
  <2> HIDE DEF y, r
  <2>4. HasRead(s, y.r, y.q) /\ (HasWrite(s, y.r, y.q) <=> HasWrite(s, x.r, x.q))
    BY <2>2, <2>3 DEF HasRead, HasWrite
  <2>5. Budget(s, y.r, y.q) <= Limit
    BY <2>2, <2>3, <2>4, BudgetType DEF Budget, One
  <2>6. Core(s, y.r, y.q)
    BY <1>1, <1>5, <2>2, <2>3, <2>4 DEF Core
  <2> QED BY <2>3, <2>4, <2>5, <2>6, SameSelf DEF Whole, Wired, y
<1> QED BY <1>4, <1>5

\* A write is started only where none is under way.
LEMMA StartWriteCore ==
  ASSUME NEW s \in Sessions, NEW x \in Pair, Core(s, x.r, x.q), ~HasWrite(s, x.r, x.q),
         x.r.queue > 0
  PROVE  LET y == StartWrite(s, x)
         IN  /\ y \in Pair /\ Core(s, y.r, y.q) /\ HasWrite(s, y.r, y.q)
             /\ Budget(s, y.r, y.q) = Budget(s, x.r, x.q) + 1
             /\ HasRead(s, y.r, y.q) <=> HasRead(s, x.r, x.q)
             /\ y.r.state = x.r.state /\ y.r.reports = x.r.reports
             /\ \A E : Foreign(s, E) => Same(E, x.q, y.q)
<1> DEFINE y == StartWrite(s, x)
           e == Done("write", s, FALSE)
           r == [x.r EXCEPT !.write = TRUE]
<1>1. x.r \in SessionType /\ x.q \in Seq(Entry) /\ ~x.r.write /\ Absent(x.q, WritesOf(s))
  BY PairParts DEF HasWrite
<1>2. /\ e \in Entry /\ e \in WritesOf(s) /\ e \notin ReadsOf(s) /\ e \notin GoodReads(s)
      /\ \A E : Foreign(s, E) => e \notin E
  BY DoneType
<1> HIDE DEF e
<1>4. CASE x.r.sock = "closed"
  <2>1. y = With(x.r, Append(x.q, e)) /\ Append(x.q, e) \in Seq(Entry)
    <3>1. y = With(x.r, Append(x.q, e))
      BY <1>4 DEF StartWrite, e
    <3>2. Append(x.q, e) \in Seq(Entry)
      BY <1>1, <1>2
    <3> QED BY <3>1, <3>2
  <2>2. y \in Pair /\ y.r = x.r /\ y.q = Append(x.q, e)
    <3> HIDE DEF y
    <3> QED BY <1>1, <2>1, PairType
  <2> HIDE DEF y
  <2>3. AtMostOne(y.q, WritesOf(s)) /\ ~Absent(y.q, WritesOf(s))
    BY <1>1, <1>2, <2>2, AppendNew
  <2>4. Same(ReadsOf(s), x.q, y.q) /\ Same(GoodReads(s), x.q, y.q)
    BY <1>1, <1>2, <2>2, SameAppend
  <2>5. HasWrite(s, y.r, y.q) /\ (HasRead(s, y.r, y.q) <=> HasRead(s, x.r, x.q))
    BY <2>2, <2>3, <2>4 DEF HasRead, HasWrite, Same
  <2>6. Budget(s, y.r, y.q) = Budget(s, x.r, x.q) + 1
    BY <2>2, <2>5, BudgetType DEF Budget, One
  <2>7. Core(s, y.r, y.q)
    BY <1>1, <2>2, <2>3, <2>4, <2>5 DEF Core, Same
  <2>8. \A E : Foreign(s, E) => Same(E, x.q, y.q)
    BY <1>1, <1>2, <2>2, SameAppend
  <2> QED BY <2>2, <2>5, <2>6, <2>7, <2>8 DEF y
<1>5. CASE x.r.sock # "closed"
  <2>1. y = With(r, x.q)
    BY <1>5 DEF StartWrite
  <2>2. /\ r \in SessionType /\ r.write = TRUE /\ r.state = x.r.state /\ r.sock = x.r.sock
        /\ r.read = x.r.read /\ r.reports = x.r.reports /\ r.due = x.r.due /\ r.app = x.r.app
        /\ r.queue = x.r.queue /\ r.after = x.r.after
    BY <1>1 DEF SessionType
  <2>3. y \in Pair /\ y.r = r /\ y.q = x.q
    BY <1>1, <2>1, <2>2, PairType
  <2> HIDE DEF y, r
  <2>4. HasWrite(s, y.r, y.q) /\ (HasRead(s, y.r, y.q) <=> HasRead(s, x.r, x.q))
    BY <2>2, <2>3 DEF HasRead, HasWrite
  <2>5. Budget(s, y.r, y.q) = Budget(s, x.r, x.q) + 1
    BY <2>2, <2>3, <2>4, BudgetType DEF Budget, One
  <2>6. Core(s, y.r, y.q)
    BY <1>1, <1>5, <2>2, <2>3, <2>4 DEF Core
  <2> QED BY <2>2, <2>3, <2>4, <2>5, <2>6, SameSelf DEF y
<1> QED BY <1>4, <1>5

\* Only a packet that enters an empty queue starts a write, and then there is none.
LEMMA EnqueueCore ==
  ASSUME NEW s \in Sessions, NEW x \in Pair, Core(s, x.r, x.q),
         x.r.queue + x.r.due < MaxQueue + MaxSenders
  PROVE  LET y == Enqueue(s, x)
         IN  /\ y \in Pair /\ Core(s, y.r, y.q)
             /\ Budget(s, y.r, y.q) <= Budget(s, x.r, x.q) + 1
             /\ HasRead(s, y.r, y.q) <=> HasRead(s, x.r, x.q)
             /\ y.r.state = x.r.state /\ y.r.reports = x.r.reports
             /\ \A E : Foreign(s, E) => Same(E, x.q, y.q)
<1> DEFINE r == [x.r EXCEPT !.queue = @ + 1]
           z == With(r, x.q)
           y == Enqueue(s, x)
<1>1. x.r \in SessionType /\ x.q \in Seq(Entry) /\ x.r.queue \in Nat /\ x.r.due \in Nat
  BY PairParts, ServerAssumption DEF SessionType
<1>2. /\ r \in SessionType /\ r.read = x.r.read /\ r.write = x.r.write /\ r.state = x.r.state
      /\ r.sock = x.r.sock /\ r.reports = x.r.reports /\ r.due = x.r.due /\ r.app = x.r.app
      /\ r.queue = x.r.queue + 1 /\ r.after = x.r.after
  <2>1. PICK n \in 0..(MaxQueue + MaxSenders) : n = x.r.queue + 1
    BY <1>1, ServerAssumption
  <2>2. r = [x.r EXCEPT !.queue = n]
    BY <2>1
  <2> HIDE DEF r
  <2> QED BY <1>1, <2>1, <2>2 DEF SessionType
<1>3. z \in Pair /\ z.r = r /\ z.q = x.q
  BY <1>1, <1>2, PairType
<1>4. y = IF x.r.queue = 0 THEN StartWrite(s, z) ELSE z
  BY DEF Enqueue
<1> HIDE DEF y, z, r
<1>5. /\ HasRead(s, z.r, z.q) <=> HasRead(s, x.r, x.q)
      /\ HasWrite(s, z.r, z.q) <=> HasWrite(s, x.r, x.q)
  BY <1>2, <1>3 DEF HasRead, HasWrite
<1>6. Budget(s, z.r, z.q) = Budget(s, x.r, x.q)
  BY <1>2, <1>3, <1>5 DEF Budget, One
<1>7. Core(s, z.r, z.q)
  BY <1>1, <1>2, <1>3, <1>5, ServerAssumption DEF Core
<1>8. CASE x.r.queue = 0
  <2>1. ~HasWrite(s, z.r, z.q)
    BY <1>5, <1>8 DEF Core
  <2>2. z.r.queue > 0
    BY <1>1, <1>2, <1>3
  <2>3. Budget(s, x.r, x.q) + 1 <= Budget(s, x.r, x.q) + 1
    BY BudgetType
  <2> QED BY <1>2, <1>3, <1>4, <1>5, <1>6, <1>7, <1>8, <2>1, <2>2, <2>3, StartWriteCore DEF y
<1>9. CASE x.r.queue # 0
  <2>1. Budget(s, x.r, x.q) <= Budget(s, x.r, x.q) + 1
    BY BudgetType
  <2> QED BY <1>2, <1>3, <1>4, <1>5, <1>6, <1>7, <1>9, <2>1, SameSelf DEF y
<1> QED BY <1>8, <1>9

LEMMA EnqueueHead ==
  ASSUME NEW s \in Sessions, NEW x \in Pair
  PROVE  x.q # <<>> => Enqueue(s, x).q # <<>> /\ Head(Enqueue(s, x).q) = Head(x.q)
<1> DEFINE e == Done("write", s, FALSE)
<1>1. x.q \in Seq(Entry) /\ e \in Entry
  BY PairParts, DoneType
<1> HIDE DEF e
<1>2. Enqueue(s, x).q \in {x.q, Append(x.q, e)}
  BY DEF Enqueue, StartWrite, With, e
<1> QED BY <1>1, <1>2, AppendHead

-----------------------------------------------------------------------------
(* The queue and the other sessions.                                       *)

LEMMA WholeKept ==
  ASSUME NEW u, NEW r, NEW q, NEW p, Same(ReadsOf(u), q, p), Same(WritesOf(u), q, p),
         Same(GoodReads(u), q, p)
  PROVE  /\ Whole(u, r, q) => Whole(u, r, p)
         /\ Fresh(u, r, q) => Fresh(u, r, p)
<1>1. (HasRead(u, r, p) <=> HasRead(u, r, q)) /\ (HasWrite(u, r, p) <=> HasWrite(u, r, q))
  BY DEF HasRead, HasWrite, Same
<1>2. Core(u, r, q) => Core(u, r, p)
  BY <1>1 DEF Core, Same
<1>3. Budget(u, r, p) = Budget(u, r, q)
  BY <1>1 DEF Budget, One
<1>4. Wired(u, r, q) => Wired(u, r, p)
  BY <1>1 DEF Wired
<1> QED BY <1>1, <1>2, <1>3, <1>4 DEF Whole, Fresh

LEMMA ForeignSets ==
  ASSUME NEW s \in Sessions
  PROVE  /\ Foreign(s, Accepts) /\ Foreign(s, GoodAccepts) /\ Foreign(s, NotNext)
         /\ \A u \in Sessions : u # s => /\ Foreign(s, ReadsOf(u)) /\ Foreign(s, WritesOf(u))
                                         /\ Foreign(s, GoodReads(u))
BY DEF Foreign, Accepts, GoodAccepts, NotNext, ReadsOf, WritesOf, GoodReads

\* What is left to show of a step of one session.
LEMMA SessionStep ==
  ASSUME Inv, NEW s \in Sessions, NEW y \in Pair,
         ses' = [ses EXCEPT ![s] = y.r], ready' = y.q, UNCHANGED serverVars,
         Whole(s, y.r, y.q), s >= next => Fresh(s, y.r, y.q),
         \A E : Foreign(s, E) => Same(E, ready, y.q),
         accept = "checked" => y.q # <<>> /\ Head(y.q) = Head(ready)
  PROVE  Inv'
<1> USE DEF serverVars
<1>1. TypeOK /\ AcceptInv /\ SessionInv
  BY DEF Inv
<1>2. TypeOK'
  BY <1>1, PairParts DEF TypeOK
<1>3. /\ Same(Accepts, ready, ready') /\ Same(GoodAccepts, ready, ready')
      /\ Same(NotNext, ready, ready') /\ NotNext' = NotNext
  BY ForeignSets DEF NotNext
<1>4. AcceptInv'
  <2>1. AtMostOne(ready', Accepts) /\ Absent(ready', NotNext')
    BY <1>1, <1>3 DEF AcceptInv, Same
  <2>2. /\ Absent(ready', Accepts) <=> Absent(ready, Accepts)
        /\ Absent(ready', GoodAccepts) <=> Absent(ready, GoodAccepts)
    BY <1>3 DEF Same
  <2>3. accept' = "checked" => Head(ready') \in Accepts
    BY <1>1 DEF AcceptInv
  <2> QED BY <1>1, <2>1, <2>2, <2>3 DEF AcceptInv, One
<1>5. ASSUME NEW u \in Sessions
      PROVE  Whole(u, ses'[u], ready') /\ (u >= next' => Fresh(u, ses'[u], ready'))
  <2>1. CASE u = s
    BY <1>1, <2>1 DEF TypeOK
  <2>2. CASE u # s
    <3>1. ses'[u] = ses[u]
      BY <1>1, <2>2 DEF TypeOK
    <3>2. /\ Same(ReadsOf(u), ready, ready') /\ Same(WritesOf(u), ready, ready')
          /\ Same(GoodReads(u), ready, ready')
      BY <2>2, ForeignSets
    <3>3. Whole(u, ses[u], ready) /\ (u >= next => Fresh(u, ses[u], ready))
      BY <1>1 DEF SessionInv
    <3> QED BY <3>1, <3>2, <3>3, WholeKept
  <2> QED BY <2>1, <2>2
<1>6. SessionInv'
  BY <1>5 DEF SessionInv
<1> QED BY <1>2, <1>4, <1>6 DEF Inv

\* A session with something queued has been handed over.
LEMMA QueuedIsOld ==
  ASSUME Inv, NEW s \in Sessions,
         HasRead(s, ses[s], ready) \/ HasWrite(s, ses[s], ready) \/ ses[s].due > 0 \/ ses[s].app
  PROVE  s < next
<1>1. s \in Nat /\ next \in Nat
  BY ServerAssumption DEF Inv, TypeOK, Sessions
<1>2. ~(s >= next)
  BY DEF Inv, SessionInv, Fresh
<1> QED BY <1>1, <1>2

\* The handler of a read is taken from the queue.
LEMMA PopRead ==
  ASSUME Inv, ready # <<>>, Head(ready).op \in {"header", "body"}
  PROVE  LET s == Head(ready).s
             x == With(ses[s], Tail(ready))
         IN  /\ s \in Sessions /\ x \in Pair /\ x.r = ses[s] /\ x.q = Tail(ready) /\ s < next
             /\ Core(s, x.r, x.q) /\ ~HasRead(s, x.r, x.q) /\ Budget(s, x.r, x.q) < Limit
             /\ Head(ready).ok /\ x.r.state = "Disconnected" => x.r.after = 0
             /\ HasWrite(s, x.r, x.q) <=> HasWrite(s, ses[s], ready)
             /\ \A E : Foreign(s, E) => Same(E, ready, x.q)
<1> DEFINE c == Head(ready)
           s == Head(ready).s
           r == ses[s]
           q == Tail(ready)
           x == With(r, q)
<1>1. TypeOK /\ SessionInv /\ ready \in Seq(Entry)
  BY DEF Inv, TypeOK
<1>2. c \in Entry /\ q \in Seq(Entry)
  BY <1>1, TailAt
<1>3. /\ s \in Sessions /\ r \in SessionType /\ c \in ReadsOf(s) /\ c \notin WritesOf(s)
      /\ (c \in GoodReads(s) <=> c.ok)
      /\ \A E : Foreign(s, E) => c \notin E
  BY <1>1, <1>2 DEF Entry, ReadsOf, WritesOf, GoodReads, TypeOK, Foreign
<1>4. x \in Pair /\ x.r = r /\ x.q = q
  BY <1>2, <1>3, PairType
<1>5. Whole(s, r, ready)
  BY <1>1, <1>3 DEF SessionInv
<1> HIDE DEF c, x, r, q, s
<1>6. Absent(q, ReadsOf(s)) /\ ~Absent(ready, ReadsOf(s)) /\ r.read = "none"
  <2>1. ~Absent(ready, ReadsOf(s))
    BY <1>1, <1>3, HeadPresent DEF c
  <2>2. Absent(q, ReadsOf(s))
    BY <1>1, <1>3, <1>5, TailGone DEF Whole, Core, c, q
  <2> QED BY <1>3, <1>5, <2>1, <2>2 DEF Whole, Core
<1>7. Same(WritesOf(s), ready, q) /\ \A E : Foreign(s, E) => Same(E, ready, q)
  BY <1>1, <1>3, SameTail DEF c, q
<1>8. c.ok /\ r.state = "Disconnected" => r.after = 0
  <2>1. c.ok => ~Absent(ready, GoodReads(s))
    BY <1>1, <1>3, HeadPresent DEF c
  <2> QED BY <1>5, <2>1 DEF Whole, Core
<1>9. Absent(q, GoodReads(s))
  BY <1>6 DEF Absent, GoodReads
<1>10. /\ ~HasRead(s, r, q) /\ HasRead(s, r, ready)
       /\ (HasWrite(s, r, q) <=> HasWrite(s, r, ready))
  BY <1>6, <1>7 DEF HasRead, HasWrite, Same
<1>11. Core(s, r, q)
  BY <1>5, <1>6, <1>7, <1>9, <1>10, AbsentIsFew DEF Whole, Core, Same
<1>12. Budget(s, r, q) < Limit
  <2>1. Budget(s, r, q) + 1 = Budget(s, r, ready)
    <3>1. r.reports \in Nat /\ r.due \in Nat
      BY <1>3, ServerAssumption DEF SessionType
    <3> QED BY <1>10, <3>1 DEF Budget, One
  <2>2. Budget(s, r, ready) <= Limit /\ Budget(s, r, q) \in Nat
    BY <1>3, <1>4, <1>5, BudgetType DEF Whole
  <2> QED BY <2>1, <2>2, LimitType
<1>13. s < next
  BY <1>3, <1>10, QueuedIsOld DEF r
<1> QED BY <1>3, <1>4, <1>7, <1>8, <1>10, <1>11, <1>12, <1>13 DEF c, x, r, q, s

\* The handler of a write is taken from the queue, and its packet from write_queue.
LEMMA PopWrite ==
  ASSUME Inv, ready # <<>>, Head(ready).op = "write"
  PROVE  LET s == Head(ready).s
             x == With([ses[s] EXCEPT !.queue = @ - 1], Tail(ready))
         IN  /\ s \in Sessions /\ x \in Pair /\ s < next
             /\ Core(s, x.r, x.q) /\ ~HasWrite(s, x.r, x.q) /\ Budget(s, x.r, x.q) < Limit
             /\ x.r.state = "Connected" => HasRead(s, x.r, x.q)
             /\ \A E : Foreign(s, E) => Same(E, ready, x.q)
<1> DEFINE c == Head(ready)
           s == Head(ready).s
           o == ses[s]
           r == [o EXCEPT !.queue = @ - 1]
           q == Tail(ready)
           x == With(r, q)
<1>1. TypeOK /\ SessionInv /\ ready \in Seq(Entry)
  BY DEF Inv, TypeOK
<1>2. c \in Entry /\ q \in Seq(Entry)
  BY <1>1, TailAt
<1>3. /\ s \in Sessions /\ o \in SessionType /\ c \in WritesOf(s) /\ c \notin ReadsOf(s)
      /\ c \notin GoodReads(s)
      /\ \A E : Foreign(s, E) => c \notin E
  BY <1>1, <1>2 DEF Entry, ReadsOf, WritesOf, GoodReads, TypeOK, Foreign
<1>5. Whole(s, o, ready)
  BY <1>1, <1>3 DEF SessionInv
<1> HIDE DEF c, q, s, o
<1>6. Absent(q, WritesOf(s)) /\ ~Absent(ready, WritesOf(s)) /\ ~o.write
  <2>1. ~Absent(ready, WritesOf(s))
    BY <1>1, <1>3, HeadPresent DEF c
  <2>2. Absent(q, WritesOf(s))
    BY <1>1, <1>3, <1>5, TailGone DEF Whole, Core, c, q
  <2> QED BY <1>3, <1>5, <2>1, <2>2 DEF Whole, Core
<1>7. Same(ReadsOf(s), ready, q) /\ Same(GoodReads(s), ready, q)
      /\ \A E : Foreign(s, E) => Same(E, ready, q)
  BY <1>1, <1>3, SameTail DEF c, q
<1>8. o.queue > 0
  BY <1>5, <1>6 DEF Whole, Core, HasWrite
<1>9. /\ r \in SessionType /\ r.read = o.read /\ r.write = o.write /\ r.state = o.state
      /\ r.sock = o.sock /\ r.reports = o.reports /\ r.due = o.due /\ r.app = o.app
      /\ r.queue = o.queue - 1 /\ r.after = o.after
  <2>1. PICK n \in 0..(MaxQueue + MaxSenders) : n = o.queue - 1
    BY <1>3, <1>8, ServerAssumption DEF SessionType
  <2>2. r = [o EXCEPT !.queue = n]
    BY <2>1
  <2> HIDE DEF r
  <2> QED BY <1>3, <2>1, <2>2 DEF SessionType
<1>4. x \in Pair /\ x.r = r /\ x.q = q
  BY <1>2, <1>9, PairType DEF q
<1> HIDE DEF r, x
<1>10. /\ ~HasWrite(s, r, q) /\ HasWrite(s, o, ready)
       /\ (HasRead(s, r, q) <=> HasRead(s, o, ready))
  BY <1>6, <1>7, <1>9 DEF HasRead, HasWrite, Same
<1>11. Core(s, r, q)
  <2>1. o.queue \in Nat /\ o.due \in Nat
    BY <1>3, ServerAssumption DEF SessionType
  <2> QED BY <1>5, <1>6, <1>7, <1>9, <1>10, <2>1, AbsentIsFew, ServerAssumption
          DEF Whole, Core, Same
<1>12. Budget(s, r, q) < Limit
  <2>1. Budget(s, r, q) + 1 = Budget(s, o, ready)
    <3>1. r.reports \in Nat /\ r.due \in Nat
      BY <1>9, ServerAssumption DEF SessionType
    <3> QED BY <1>9, <1>10, <3>1 DEF Budget, One
  <2>2. Budget(s, o, ready) <= Limit /\ Budget(s, r, q) \in Nat
    BY <1>3, <1>4, <1>5, BudgetType DEF Whole
  <2> QED BY <2>1, <2>2, LimitType
<1>13. s < next
  BY <1>3, <1>10, QueuedIsOld DEF o
<1>14. r.state = "Connected" => HasRead(s, r, q)
  BY <1>5, <1>9, <1>10 DEF Whole, Wired
<1> QED BY <1>3, <1>4, <1>7, <1>10, <1>11, <1>12, <1>13, <1>14 DEF c, x, r, q, s, o

-----------------------------------------------------------------------------
(* The steps of a session.                                                 *)

LEMMA HandleHeaderKeeps ==
  ASSUME Inv, HandleHeader
  PROVE  Inv'
<1> DEFINE s == Head(ready).s
           x == With(ses[s], Tail(ready))
<1>1. ready # <<>> /\ Head(ready).op = "header" /\ accept # "checked" /\ UNCHANGED serverVars
  BY DEF HandleHeader, NextIs
<1>2. /\ s \in Sessions /\ x \in Pair /\ s < next
      /\ Core(s, x.r, x.q) /\ ~HasRead(s, x.r, x.q) /\ Budget(s, x.r, x.q) < Limit
      /\ \A E : Foreign(s, E) => Same(E, ready, x.q)
  BY <1>1, PopRead
<1>3. PICK y : /\ y = StartRead(s, "body", x) \/ y = ErrorHandler(s, x)
               /\ Apply(s, y)
  BY DEF HandleHeader
<1> HIDE DEF s, x
<1>4. y \in Pair /\ Whole(s, y.r, y.q) /\ \A E : Foreign(s, E) => Same(E, x.q, y.q)
  BY <1>2, <1>3, StartReadWhole, ErrorHandlerWhole
<1>5. \A E : Foreign(s, E) => Same(E, ready, y.q)
  BY <1>2, <1>4, SameTrans
<1>6. ~(s >= next)
  BY <1>2, ServerAssumption DEF Inv, TypeOK, Sessions
<1> QED BY <1>1, <1>2, <1>3, <1>4, <1>5, <1>6, SessionStep DEF Apply

\* The packet is handed over; where that was after the end, no other will follow.
LEMMA ReceiveCore ==
  ASSUME NEW s \in Sessions, NEW x \in Pair, Core(s, x.r, x.q), ~HasRead(s, x.r, x.q),
         Budget(s, x.r, x.q) < Limit, x.r.state = "Disconnected" => x.r.after = 0
  PROVE  LET y == Receive(x)
         IN  /\ y \in Pair /\ Core(s, y.r, y.q) /\ ~HasRead(s, y.r, y.q)
             /\ Budget(s, y.r, y.q) < Limit /\ y.q = x.q /\ y.r.state = x.r.state
             /\ y.r.queue = x.r.queue /\ y.r.due = x.r.due
<1> DEFINE r == [x.r EXCEPT !.after = IF x.r.state = "Disconnected" THEN @ + 1 ELSE @]
           y == Receive(x)
<1>1. x.r \in SessionType /\ x.q \in Seq(Entry) /\ Absent(x.q, ReadsOf(s))
  BY PairParts DEF HasRead
<1>2. y = With(r, x.q)
  BY DEF Receive
<1>3. /\ r \in SessionType /\ r.read = x.r.read /\ r.write = x.r.write /\ r.state = x.r.state
      /\ r.sock = x.r.sock /\ r.reports = x.r.reports /\ r.due = x.r.due /\ r.app = x.r.app
      /\ r.queue = x.r.queue
      /\ r.after = IF x.r.state = "Disconnected" THEN 1 ELSE x.r.after
  <2>1. PICK n \in Nat : n = IF x.r.state = "Disconnected" THEN x.r.after + 1 ELSE x.r.after
    BY <1>1 DEF SessionType
  <2>2. r = [x.r EXCEPT !.after = n]
    BY <2>1
  <2> HIDE DEF r
  <2> QED BY <1>1, <2>1, <2>2 DEF SessionType
<1> HIDE DEF r
<1>4. y \in Pair /\ y.r = r /\ y.q = x.q
  BY <1>1, <1>2, <1>3, PairType
<1>5. /\ ~HasRead(s, r, x.q)
      /\ HasWrite(s, r, x.q) <=> HasWrite(s, x.r, x.q)
  BY <1>3 DEF HasRead, HasWrite
<1>6. Budget(s, r, x.q) < Limit
  BY <1>3, <1>5 DEF Budget, One
<1>7. Absent(x.q, GoodReads(s))
  BY <1>1 DEF Absent, GoodReads
<1>8. Core(s, r, x.q)
  BY <1>1, <1>3, <1>5, <1>7 DEF Core
<1> QED BY <1>3, <1>4, <1>5, <1>6, <1>8

LEMMA HandleBodyKeeps ==
  ASSUME Inv, HandleBody
  PROVE  Inv'
<1> DEFINE c == Head(ready)
           s == c.s
           x == With(ses[s], Tail(ready))
           y == Receive(x)
<1>1. ready # <<>> /\ c.op = "body" /\ accept # "checked" /\ UNCHANGED serverVars
  BY DEF HandleBody, NextIs
<1>2. /\ s \in Sessions /\ x \in Pair /\ s < next
      /\ Core(s, x.r, x.q) /\ ~HasRead(s, x.r, x.q) /\ Budget(s, x.r, x.q) < Limit
      /\ c.ok /\ x.r.state = "Disconnected" => x.r.after = 0
      /\ \A E : Foreign(s, E) => Same(E, ready, x.q)
  BY <1>1, PopRead
<1>3. \/ c.ok /\ Apply(s, StartRead(s, "header", y))
      \/ /\ c.ok /\ y.r.state = "Connected" /\ y.r.queue < MaxQueue
         /\ Apply(s, StartRead(s, "header", Enqueue(s, y)))
      \/ ~c.ok /\ Apply(s, ErrorHandler(s, x))
  BY DEF HandleBody
<1> HIDE DEF c, s, x, y
<1>4. ~(s >= next)
  BY <1>2, ServerAssumption DEF Inv, TypeOK, Sessions
<1>5. ASSUME NEW z, Apply(s, z), z \in Pair, Whole(s, z.r, z.q),
             \A E : Foreign(s, E) => Same(E, ready, z.q)
      PROVE  Inv'
  BY <1>1, <1>2, <1>4, <1>5, SessionStep DEF Apply
<1>6. ASSUME c.ok
      PROVE  /\ y \in Pair /\ Core(s, y.r, y.q) /\ ~HasRead(s, y.r, y.q)
             /\ Budget(s, y.r, y.q) < Limit /\ y.q = x.q /\ y.r.due = x.r.due
             /\ \A E : Foreign(s, E) => Same(E, ready, y.q)
  BY <1>2, <1>6, ReceiveCore DEF y
<1>7. CASE c.ok /\ Apply(s, StartRead(s, "header", y))
  <2> DEFINE z == StartRead(s, "header", y)
  <2>1. z \in Pair /\ Whole(s, z.r, z.q) /\ \A E : Foreign(s, E) => Same(E, y.q, z.q)
    BY <1>2, <1>6, <1>7, StartReadWhole
  <2> HIDE DEF z
  <2>2. \A E : Foreign(s, E) => Same(E, ready, z.q)
    BY <1>6, <1>7, <2>1, SameTrans
  <2> QED BY <1>5, <1>7, <2>1, <2>2 DEF z
<1>8. CASE /\ c.ok /\ y.r.state = "Connected" /\ y.r.queue < MaxQueue
           /\ Apply(s, StartRead(s, "header", Enqueue(s, y)))
  <2> DEFINE w == Enqueue(s, y)
             z == StartRead(s, "header", w)
  <2>1. y.r.queue + y.r.due < MaxQueue + MaxSenders
    BY <1>6, <1>8, PairParts, ServerAssumption DEF SessionType
  <2>2. /\ w \in Pair /\ Core(s, w.r, w.q) /\ ~HasRead(s, w.r, w.q)
        /\ w.r.state = y.r.state /\ w.r.due <= MaxSenders
        /\ \A E : Foreign(s, E) => Same(E, y.q, w.q)
    BY <1>2, <1>6, <1>8, <2>1, EnqueueCore, PairParts, ServerAssumption DEF SessionType
  <2> HIDE DEF w
  <2>3. Budget(s, w.r, w.q) < Limit
    <3>1. w.r.reports = 0
      BY <1>8, <2>2 DEF Core
    <3> QED BY <1>2, <2>2, <3>1, BudgetType, ServerAssumption DEF Budget, One, Limit
  <2>4. z \in Pair /\ Whole(s, z.r, z.q) /\ \A E : Foreign(s, E) => Same(E, w.q, z.q)
    BY <1>2, <2>2, <2>3, StartReadWhole
  <2> HIDE DEF z
  <2>5. \A E : Foreign(s, E) => Same(E, ready, z.q)
    <3> SUFFICES ASSUME NEW E, Foreign(s, E)
                 PROVE  Same(E, ready, z.q)
      OBVIOUS
    <3>1. Same(E, ready, y.q) /\ Same(E, y.q, w.q) /\ Same(E, w.q, z.q)
      BY <1>6, <1>8, <2>2, <2>4
    <3> QED BY <3>1 DEF Same
  <2> QED BY <1>5, <1>8, <2>4, <2>5 DEF z, w
<1>9. CASE ~c.ok /\ Apply(s, ErrorHandler(s, x))
  <2> DEFINE z == ErrorHandler(s, x)
  <2>1. z \in Pair /\ Whole(s, z.r, z.q) /\ \A E : Foreign(s, E) => Same(E, x.q, z.q)
    BY <1>2, ErrorHandlerWhole
  <2> HIDE DEF z
  <2>2. \A E : Foreign(s, E) => Same(E, ready, z.q)
    BY <1>2, <2>1, SameTrans
  <2> QED BY <1>5, <1>9, <2>1, <2>2 DEF z
<1> QED BY <1>3, <1>7, <1>8, <1>9

LEMMA HandleWriteKeeps ==
  ASSUME Inv, HandleWrite
  PROVE  Inv'
<1> DEFINE c == Head(ready)
           s == c.s
           x == With([ses[s] EXCEPT !.queue = @ - 1], Tail(ready))
           z == IF ~c.ok THEN ErrorHandler(s, x)
                ELSE IF x.r.queue > 0 THEN StartWrite(s, x) ELSE x
<1>1. ready # <<>> /\ c.op = "write" /\ accept # "checked" /\ UNCHANGED serverVars
  BY DEF HandleWrite, NextIs
<1>2. /\ s \in Sessions /\ x \in Pair /\ s < next
      /\ Core(s, x.r, x.q) /\ ~HasWrite(s, x.r, x.q) /\ Budget(s, x.r, x.q) < Limit
      /\ x.r.state = "Connected" => HasRead(s, x.r, x.q)
      /\ \A E : Foreign(s, E) => Same(E, ready, x.q)
  BY <1>1, PopWrite
<1>3. Apply(s, z)
  BY DEF HandleWrite
<1> HIDE DEF c, s, x
<1>4. z \in Pair /\ Whole(s, z.r, z.q) /\ \A E : Foreign(s, E) => Same(E, x.q, z.q)
  <2>1. CASE ~c.ok
    BY <1>2, <2>1, ErrorHandlerWhole
  <2>2. CASE c.ok /\ x.r.queue > 0
    <3> DEFINE y == StartWrite(s, x)
    <3>1. /\ y \in Pair /\ Core(s, y.r, y.q)
          /\ Budget(s, y.r, y.q) = Budget(s, x.r, x.q) + 1
          /\ HasRead(s, y.r, y.q) <=> HasRead(s, x.r, x.q)
          /\ y.r.state = x.r.state
          /\ \A E : Foreign(s, E) => Same(E, x.q, y.q)
      BY <1>2, <2>2, StartWriteCore
    <3> HIDE DEF y
    <3>2. Budget(s, y.r, y.q) <= Limit
      BY <1>2, <3>1, BudgetType
    <3>3. z = y
      BY <2>2 DEF y
    <3> QED BY <1>2, <3>1, <3>2, <3>3 DEF Whole, Wired
  <2>3. CASE c.ok /\ ~(x.r.queue > 0)
    <3>1. Budget(s, x.r, x.q) <= Limit
      BY <1>2, BudgetType
    <3> QED BY <1>2, <2>3, <3>1, SameSelf DEF Whole, Wired
  <2> QED BY <2>1, <2>2, <2>3
<1> HIDE DEF z
<1>5. \A E : Foreign(s, E) => Same(E, ready, z.q)
  BY <1>2, <1>4, SameTrans
<1>6. ~(s >= next)
  BY <1>2, ServerAssumption DEF Inv, TypeOK, Sessions
<1> QED BY <1>1, <1>2, <1>3, <1>4, <1>5, <1>6, SessionStep DEF Apply

LEMMA SendEnqueueKeeps ==
  ASSUME Inv, NEW s \in Sessions, SendEnqueue(s)
  PROVE  Inv'
<1> DEFINE o == ses[s]
           r == [o EXCEPT !.due = @ - 1]
           x == With(r, ready)
           y == Enqueue(s, x)
<1>1. o.due > 0 /\ Apply(s, y) /\ UNCHANGED serverVars
  BY DEF SendEnqueue
<1>2. /\ TypeOK /\ SessionInv /\ ready \in Seq(Entry) /\ o \in SessionType
      /\ Whole(s, o, ready)
  BY DEF Inv, TypeOK, SessionInv
<1> HIDE DEF o
<1>3. /\ r \in SessionType /\ r.read = o.read /\ r.write = o.write /\ r.state = o.state
      /\ r.sock = o.sock /\ r.reports = o.reports /\ r.due = o.due - 1 /\ r.app = o.app
      /\ r.queue = o.queue /\ r.after = o.after
  <2>1. PICK n \in 0..MaxSenders : n = o.due - 1
    BY <1>1, <1>2, ServerAssumption DEF SessionType
  <2>2. r = [o EXCEPT !.due = n]
    BY <2>1
  <2> HIDE DEF r
  <2> QED BY <1>2, <2>1, <2>2 DEF SessionType
<1> HIDE DEF r
<1>4. x \in Pair /\ x.r = r /\ x.q = ready
  BY <1>2, <1>3, PairType
<1> HIDE DEF x
<1>5. /\ HasRead(s, r, ready) <=> HasRead(s, o, ready)
      /\ HasWrite(s, r, ready) <=> HasWrite(s, o, ready)
  BY <1>3 DEF HasRead, HasWrite
<1>6. Core(s, r, ready) /\ r.queue + r.due < MaxQueue + MaxSenders
  <2>1. o.queue \in Nat /\ o.due \in Nat
    BY <1>2, ServerAssumption DEF SessionType
  <2> QED BY <1>1, <1>2, <1>3, <1>5, <2>1, ServerAssumption DEF Whole, Core
<1>7. Budget(s, r, ready) < Limit
  <2>1. Budget(s, r, ready) + 1 = Budget(s, o, ready)
    <3>1. o.reports \in Nat /\ o.due \in Nat
      BY <1>2, ServerAssumption DEF SessionType
    <3> QED BY <1>1, <1>3, <1>5, <3>1 DEF Budget, One
  <2>2. Budget(s, o, ready) <= Limit /\ Budget(s, r, ready) \in Nat
    BY <1>2, <1>4, BudgetType DEF Whole
  <2> QED BY <2>1, <2>2, LimitType
<1>8. /\ y \in Pair /\ Core(s, y.r, y.q)
      /\ Budget(s, y.r, y.q) <= Budget(s, x.r, x.q) + 1
      /\ HasRead(s, y.r, y.q) <=> HasRead(s, x.r, x.q)
      /\ y.r.state = x.r.state
      /\ \A E : Foreign(s, E) => Same(E, x.q, y.q)
  BY <1>3, <1>4, <1>6, EnqueueCore
<1>9. ready # <<>> => y.q # <<>> /\ Head(y.q) = Head(ready)
  BY <1>1, <1>2, <1>4, EnqueueHead
<1> HIDE DEF y
<1>10. Budget(s, y.r, y.q) <= Limit
  BY <1>4, <1>7, <1>8, BudgetType
<1>11. Wired(s, y.r, y.q)
  <2>1. o.app
    BY <1>1, <1>2 DEF Whole, Core
  <2>2. o.state = "Connected" => HasRead(s, o, ready)
    BY <1>2, <2>1 DEF Whole, Wired
  <2> QED BY <1>3, <1>4, <1>5, <1>8, <2>2 DEF Wired
<1>12. accept = "checked" => ready # <<>>
  BY AbsentEmpty DEF Inv, AcceptInv
<1>13. ~(s >= next)
  <2>1. s < next
    BY <1>1, QueuedIsOld DEF o
  <2> QED BY <2>1, ServerAssumption DEF Inv, TypeOK, Sessions
<1> QED BY <1>1, <1>4, <1>8, <1>9, <1>10, <1>11, <1>12, <1>13, SessionStep DEF Apply, Whole

\* A step that changes neither the queue nor what it means for the session.
LEMMA RecordStep ==
  ASSUME Inv, NEW s \in Sessions, NEW r \in SessionType, ses' = [ses EXCEPT ![s] = r],
         UNCHANGED <<serverVars, ready>>,
         Whole(s, r, ready), s >= next => Fresh(s, r, ready)
  PROVE  Inv'
<1> DEFINE y == With(r, ready)
<1>1. ready \in Seq(Entry)
  BY DEF Inv, TypeOK
<1>2. y \in Pair /\ y.r = r /\ y.q = ready
  BY <1>1, PairType
<1>3. \A E : Foreign(s, E) => Same(E, ready, y.q)
  BY <1>2, SameSelf
<1>4. accept = "checked" => ready # <<>>
  BY AbsentEmpty DEF Inv, AcceptInv
<1> HIDE DEF y
<1> QED BY <1>2, <1>3, <1>4, SessionStep

LEMMA RecordSteps ==
  ASSUME Inv, NEW s \in Sessions,
         SendCheck(s) \/ SessionRelease(s) \/ \E how \in {"eof", "reset"} : PeerEnds(s, how)
  PROVE  Inv'
<1> DEFINE o == ses[s]
<1>1. TypeOK /\ o \in SessionType /\ Whole(s, o, ready) /\ (s >= next => Fresh(s, o, ready))
  BY DEF Inv, TypeOK, SessionInv
<1> HIDE DEF o
<1>2. /\ o.reports \in Nat /\ MaxQueue \in Nat /\ o.queue \in Nat
      /\ MaxSenders \in Nat /\ o.due \in Nat
  BY <1>1, ServerAssumption DEF SessionType
<1>3. CASE SendCheck(s)
  <2> DEFINE r == [o EXCEPT !.due = @ + 1]
  <2>1. /\ o.app /\ o.state = "Connected" /\ o.queue < MaxQueue /\ o.due < MaxSenders
        /\ ses' = [ses EXCEPT ![s] = r] /\ UNCHANGED <<serverVars, ready>>
    BY <1>3 DEF SendCheck, o
  <2>2. /\ r \in SessionType /\ r.read = o.read /\ r.write = o.write /\ r.state = o.state
        /\ r.sock = o.sock /\ r.reports = o.reports /\ r.due = o.due + 1 /\ r.app = o.app
        /\ r.queue = o.queue /\ r.after = o.after
    <3>1. PICK n \in 0..MaxSenders : n = o.due + 1
      BY <1>2, <2>1
    <3>2. r = [o EXCEPT !.due = n]
      BY <3>1
    <3> HIDE DEF r
    <3> QED BY <1>1, <3>1, <3>2 DEF SessionType
  <2> HIDE DEF r
  <2>3. /\ HasRead(s, r, ready) <=> HasRead(s, o, ready)
        /\ HasWrite(s, r, ready) <=> HasWrite(s, o, ready)
    BY <2>2 DEF HasRead, HasWrite
  <2>4. Core(s, r, ready) /\ Wired(s, r, ready)
    BY <1>1, <1>2, <2>1, <2>2, <2>3 DEF Whole, Core, Wired
  <2>5. Budget(s, r, ready) <= Limit
    <3>1. r.reports = 0
      BY <1>1, <2>1, <2>2 DEF Whole, Core
    <3> QED BY <1>2, <2>1, <2>2, <3>1 DEF Budget, One, Limit
  <2>6. s >= next => Fresh(s, r, ready)
    BY <1>1, <2>1 DEF Fresh
  <2> QED BY <2>1, <2>2, <2>4, <2>5, <2>6, RecordStep DEF Whole
<1>4. CASE SessionRelease(s)
  <2> DEFINE r == [o EXCEPT !.app = FALSE]
  <2>1. /\ o.app /\ o.due = 0
        /\ ses' = [ses EXCEPT ![s] = r] /\ UNCHANGED <<serverVars, ready>>
    BY <1>4 DEF SessionRelease, o
  <2>2. /\ r \in SessionType /\ r.read = o.read /\ r.write = o.write /\ r.state = o.state
        /\ r.sock = o.sock /\ r.reports = o.reports /\ r.due = o.due /\ r.app = FALSE
        /\ r.queue = o.queue /\ r.after = o.after
    BY <1>1 DEF SessionType
  <2> HIDE DEF r
  <2>3. /\ HasRead(s, r, ready) <=> HasRead(s, o, ready)
        /\ HasWrite(s, r, ready) <=> HasWrite(s, o, ready)
    BY <2>2 DEF HasRead, HasWrite
  <2>4. Core(s, r, ready) /\ Wired(s, r, ready)
    BY <1>1, <2>1, <2>2, <2>3 DEF Whole, Core, Wired
  <2>5. Budget(s, r, ready) <= Limit
    BY <1>1, <1>2, <2>2, <2>3 DEF Whole, Budget, One
  <2>6. s >= next => Fresh(s, r, ready)
    BY <1>1, <2>1 DEF Fresh
  <2> QED BY <2>1, <2>2, <2>4, <2>5, <2>6, RecordStep DEF Whole
<1>5. ASSUME NEW how \in {"eof", "reset"}, PeerEnds(s, how)
      PROVE  Inv'
  <2> DEFINE r == [o EXCEPT !.sock = how]
  <2>1. o.sock \in {"up", "eof"} /\ ses' = [ses EXCEPT ![s] = r] /\ UNCHANGED <<serverVars, ready>>
    BY <1>5 DEF PeerEnds, o
  <2>2. /\ r \in SessionType /\ r.read = o.read /\ r.write = o.write /\ r.state = o.state
        /\ r.sock = how /\ r.reports = o.reports /\ r.due = o.due /\ r.app = o.app
        /\ r.queue = o.queue /\ r.after = o.after
    BY <1>1 DEF SessionType
  <2> HIDE DEF r
  <2>3. /\ HasRead(s, r, ready) <=> HasRead(s, o, ready)
        /\ HasWrite(s, r, ready) <=> HasWrite(s, o, ready)
    BY <2>2 DEF HasRead, HasWrite
  <2>4. Core(s, r, ready) /\ Wired(s, r, ready)
    BY <1>1, <2>1, <2>2, <2>3 DEF Whole, Core, Wired
  <2>5. Budget(s, r, ready) <= Limit
    BY <1>1, <1>2, <2>2, <2>3 DEF Whole, Budget, One
  <2>6. s >= next => Fresh(s, r, ready)
    BY <1>1, <2>2, <2>3 DEF Fresh
  <2> QED BY <2>1, <2>2, <2>4, <2>5, <2>6, RecordStep DEF Whole
<1> QED BY <1>3, <1>4, <1>5

\* An operation completes: its handler is queued in its place.
LEMMA CompletionStep ==
  ASSUME Inv, NEW s \in Sessions, NEW r \in SessionType, NEW e \in Entry,
         Apply(s, With(r, Append(ready, e))), UNCHANGED serverVars,
         Whole(s, r, Append(ready, e)), s < next,
         \A E : Foreign(s, E) => e \notin E
  PROVE  Inv'
<1> DEFINE y == With(r, Append(ready, e))
<1>1. ready \in Seq(Entry)
  BY DEF Inv, TypeOK
<1>2. y \in Pair /\ y.r = r /\ y.q = Append(ready, e)
  <2>1. Append(ready, e) \in Seq(Entry)
    BY <1>1
  <2> QED BY <2>1, PairType
<1>3. \A E : Foreign(s, E) => Same(E, ready, y.q)
  BY <1>1, <1>2, SameAppend
<1>4. accept = "checked" => y.q # <<>> /\ Head(y.q) = Head(ready)
  <2>1. accept = "checked" => ready # <<>>
    BY AbsentEmpty DEF Inv, AcceptInv
  <2> QED BY <1>1, <1>2, <2>1, AppendHead
<1>5. ~(s >= next)
  BY ServerAssumption DEF Inv, TypeOK, Sessions
<1>6. ses' = [ses EXCEPT ![s] = y.r] /\ ready' = y.q
  BY DEF Apply
<1> HIDE DEF y
<1> QED BY <1>2, <1>3, <1>4, <1>5, <1>6, SessionStep

LEMMA ReadCompletesKeeps ==
  ASSUME Inv, NEW s \in Sessions, NEW ok \in BOOLEAN, ReadCompletes(s, ok)
  PROVE  Inv'
<1> DEFINE o == ses[s]
           r == [o EXCEPT !.read = "none"]
           e == Done(o.read, s, ok)
           q == Append(ready, e)
<1>1. TypeOK /\ o \in SessionType /\ Whole(s, o, ready) /\ ready \in Seq(Entry)
  BY DEF Inv, TypeOK, SessionInv
<1>2. o.read # "none" /\ o.sock # "closed" /\ Apply(s, With(r, q)) /\ UNCHANGED serverVars
  BY DEF ReadCompletes
<1> HIDE DEF o
<1>3. o.read \in {"header", "body"}
  BY <1>1, <1>2 DEF SessionType
<1>4. /\ r \in SessionType /\ r.read = "none" /\ r.write = o.write /\ r.state = o.state
      /\ r.sock = o.sock /\ r.reports = o.reports /\ r.due = o.due /\ r.app = o.app
      /\ r.queue = o.queue /\ r.after = o.after
  BY <1>1 DEF SessionType
<1>5. e \in Entry /\ e \in ReadsOf(s) /\ e \notin WritesOf(s) /\ \A E : Foreign(s, E) => e \notin E
  BY <1>3, DoneType
<1> HIDE DEF r, e
<1>6. AtMostOne(q, ReadsOf(s)) /\ ~Absent(q, ReadsOf(s)) /\ Same(WritesOf(s), ready, q)
  BY <1>1, <1>2, <1>5, AppendNew, SameAppend DEF Whole, Core
<1>7. s < next
  BY <1>2, QueuedIsOld DEF HasRead, o
<1> HIDE DEF q
<1>8. /\ HasRead(s, r, q) /\ HasRead(s, o, ready)
      /\ HasWrite(s, r, q) <=> HasWrite(s, o, ready)
  BY <1>2, <1>4, <1>6 DEF HasRead, HasWrite, Same
<1>9. Core(s, r, q)
  BY <1>1, <1>2, <1>4, <1>6, <1>8 DEF Whole, Core, Same
<1>10. Budget(s, r, q) <= Limit
  BY <1>1, <1>4, <1>8 DEF Whole, Budget, One
<1>11. Whole(s, r, q)
  BY <1>8, <1>9, <1>10 DEF Whole, Wired
<1> QED BY <1>2, <1>4, <1>5, <1>7, <1>11, CompletionStep DEF q

LEMMA WriteCompletesKeeps ==
  ASSUME Inv, NEW s \in Sessions, WriteCompletes(s)
  PROVE  Inv'
<1> DEFINE o == ses[s]
           r == [o EXCEPT !.write = FALSE]
           e == Done("write", s, o.sock # "reset")
           q == Append(ready, e)
<1>1. TypeOK /\ o \in SessionType /\ Whole(s, o, ready) /\ ready \in Seq(Entry)
  BY DEF Inv, TypeOK, SessionInv
<1>2. o.write /\ o.sock # "closed" /\ Apply(s, With(r, q)) /\ UNCHANGED serverVars
  BY DEF WriteCompletes
<1> HIDE DEF o
<1>4. /\ r \in SessionType /\ r.read = o.read /\ r.write = FALSE /\ r.state = o.state
      /\ r.sock = o.sock /\ r.reports = o.reports /\ r.due = o.due /\ r.app = o.app
      /\ r.queue = o.queue /\ r.after = o.after
  BY <1>1 DEF SessionType
<1>5. /\ e \in Entry /\ e \in WritesOf(s) /\ e \notin ReadsOf(s) /\ e \notin GoodReads(s)
      /\ \A E : Foreign(s, E) => e \notin E
  <2>1. (o.sock # "reset") \in BOOLEAN
    OBVIOUS
  <2> QED BY <2>1, DoneType
<1> HIDE DEF r, e
<1>6. /\ AtMostOne(q, WritesOf(s)) /\ ~Absent(q, WritesOf(s)) /\ Same(ReadsOf(s), ready, q)
      /\ Same(GoodReads(s), ready, q)
  BY <1>1, <1>2, <1>5, AppendNew, SameAppend DEF Whole, Core
<1>7. s < next
  BY <1>2, QueuedIsOld DEF HasWrite, o
<1> HIDE DEF q
<1>8. /\ HasWrite(s, r, q) /\ HasWrite(s, o, ready)
      /\ HasRead(s, r, q) <=> HasRead(s, o, ready)
  BY <1>2, <1>4, <1>6 DEF HasRead, HasWrite, Same
<1>9. Core(s, r, q)
  BY <1>1, <1>2, <1>4, <1>6, <1>8 DEF Whole, Core, Same
<1>10. Budget(s, r, q) <= Limit
  BY <1>1, <1>4, <1>8 DEF Whole, Budget, One
<1>11. Whole(s, r, q)
  BY <1>1, <1>4, <1>8, <1>9, <1>10 DEF Whole, Wired
<1> QED BY <1>2, <1>4, <1>5, <1>7, <1>11, CompletionStep DEF q

\* A handler of a read whose session is gone is taken from the queue alone.
LEMMA HandleReadGoneKeeps ==
  ASSUME Inv, HandleReadGone
  PROVE  Inv'
<1> DEFINE s == Head(ready).s
           x == With(ses[s], Tail(ready))
<1>1. /\ ready # <<>> /\ Head(ready).op \in {"header", "body"} /\ accept # "checked"
      /\ ready' = Tail(ready) /\ ~Alive(s) /\ UNCHANGED <<serverVars, ses>>
  BY DEF HandleReadGone, NextIs
<1>2. /\ s \in Sessions /\ x \in Pair /\ x.r = ses[s] /\ x.q = Tail(ready) /\ s < next
      /\ Core(s, x.r, x.q) /\ ~HasRead(s, x.r, x.q) /\ Budget(s, x.r, x.q) < Limit
      /\ HasWrite(s, x.r, x.q) <=> HasWrite(s, ses[s], ready)
      /\ \A E : Foreign(s, E) => Same(E, ready, x.q)
  BY <1>1, PopRead
<1> HIDE DEF s, x
<1>3. TypeOK
  BY DEF Inv
<1>4. ~ses[s].app /\ ~HasWrite(s, ses[s], ready)
  <2>1. ~ses[s].app /\ ~ses[s].write /\ ~Queued(s, {"write"})
    BY <1>1 DEF Alive
  <2>2. Absent(ready, WritesOf(s))
    BY <1>3, <2>1 DEF Queued, Absent, WritesOf, TypeOK
  <2> QED BY <2>1, <2>2 DEF HasWrite
<1>5. Whole(s, x.r, x.q)
  <2>1. Budget(s, x.r, x.q) <= Limit
    <3>1. Budget(s, x.r, x.q) < Limit
      BY <1>2
    <3>2. Budget(s, x.r, x.q) \in Nat
      BY <1>2, BudgetType
    <3> QED BY <3>1, <3>2, LimitType
  <2> QED BY <1>2, <1>4, <2>1 DEF Whole, Wired
<1>6. ses' = [ses EXCEPT ![s] = x.r]
  BY <1>1, <1>2, <1>3 DEF TypeOK
<1>7. ~(s >= next)
  BY <1>2, <1>3, ServerAssumption DEF TypeOK, Sessions
<1> QED BY <1>1, <1>2, <1>5, <1>6, <1>7, SessionStep

-----------------------------------------------------------------------------
(* The steps of the server.                                                *)

\* A server without anything new in the queue.
LEMMA ServerSteps ==
  ASSUME Inv, ServerStart \/ ServerRelease \/ ClientConnects
  PROVE  Inv'
<1>1. TypeOK /\ AcceptInv /\ SessionInv
  BY DEF Inv
<1>2. UNCHANGED <<next, ready, ses>>
  BY DEF ServerStart, ServerRelease, ClientConnects
<1>3. SessionInv'
  BY <1>1, <1>2 DEF SessionInv
<1>4. NotNext' = NotNext
  BY <1>2 DEF NotNext
<1>5. CASE ServerStart
  BY <1>1, <1>2, <1>3, <1>4, <1>5 DEF ServerStart, Inv, TypeOK, AcceptInv, AcceptStates
<1>6. CASE ServerRelease
  BY <1>1, <1>2, <1>3, <1>4, <1>6 DEF ServerRelease, Inv, TypeOK, AcceptInv
<1>7. CASE ClientConnects
  <2>1. /\ next \in Nat /\ next >= 1 /\ backlog \in Nat /\ MaxSessions \in Nat
        /\ backlog' = backlog + 1 /\ UNCHANGED <<started, held, accept, failures>>
        /\ next + backlog + One(accept \in {"queued", "checked"}) <= MaxSessions
    BY <1>1, <1>7, ServerAssumption DEF ClientConnects, TypeOK, One
  <2>2. ~Absent(ready, GoodAccepts) => accept \in {"queued", "checked"}
    <3>1. ~Absent(ready, GoodAccepts) => ~Absent(ready, Accepts)
      BY DEF Absent, GoodAccepts
    <3> QED BY <1>1, <3>1 DEF AcceptInv, TypeOK, AcceptStates
  <2>3. next + backlog' + One(~Absent(ready, GoodAccepts)) <= MaxSessions + 1
    BY <2>1, <2>2 DEF One
  <2>4. backlog' \in 0..MaxSessions
    BY <2>1 DEF One
  <2>5. TypeOK'
    BY <1>1, <1>2, <2>1, <2>4 DEF TypeOK
  <2>6. AcceptInv'
    BY <1>1, <1>2, <1>4, <2>1, <2>3 DEF AcceptInv
  <2> QED BY <1>3, <2>5, <2>6 DEF Inv
<1> QED BY <1>5, <1>6, <1>7

\* The handler of the accept loop is queued.
LEMMA AcceptQueued ==
  ASSUME Inv, NEW ok \in BOOLEAN, NEW r, accept = "pending", accept' = "queued",
         next \in Sessions, next' = next, started' = started,
         ready' = Append(ready, Done("accept", next, ok)),
         ses' = [ses EXCEPT ![next] = r], r \in SessionType,
         Whole(next, r, ready), Fresh(next, r, ready),
         next + backlog' + One(ok) <= MaxSessions + 1
  PROVE  AcceptInv' /\ SessionInv' /\ ready' \in Seq(Entry)
<1> DEFINE e == Done("accept", next, ok)
<1>1. TypeOK /\ AcceptInv /\ SessionInv /\ ready \in Seq(Entry)
  BY DEF Inv, TypeOK
<1>2. e \in Entry /\ e \in Accepts /\ e \notin NotNext /\ (e \in GoodAccepts <=> ok)
  BY DEF Done, Entry, Accepts, GoodAccepts, NotNext
<1>3. \A u : e \notin ReadsOf(u) /\ e \notin WritesOf(u) /\ e \notin GoodReads(u)
  BY DEF Done, ReadsOf, WritesOf, GoodReads
<1>4. ready' = Append(ready, e)
  OBVIOUS
<1> HIDE DEF e
<1>5. Absent(ready, Accepts) /\ Absent(ready, GoodAccepts)
  BY <1>1 DEF AcceptInv, Absent, GoodAccepts
<1>6. AtMostOne(ready', Accepts) /\ ~Absent(ready', Accepts)
  BY <1>1, <1>2, <1>4, <1>5, AppendNew
<1>7. Absent(ready', NotNext) /\ NotNext' = NotNext
  BY <1>1, <1>2, <1>4, SameAppend DEF AcceptInv, Same, NotNext
<1>8. ~ok => Absent(ready', GoodAccepts)
  BY <1>1, <1>2, <1>4, <1>5, SameAppend DEF Same
<1>9. next' + backlog' + One(~Absent(ready', GoodAccepts)) <= MaxSessions + 1
  <2>1. CASE ok
    <3>1. ~Absent(ready', GoodAccepts)
      BY <1>1, <1>2, <1>4, <2>1, AppendPresent
    <3> QED BY <2>1, <3>1 DEF One
  <2>2. CASE ~ok
    BY <1>8, <2>2 DEF One
  <2> QED BY <2>1, <2>2
<1>10. started
  BY <1>1 DEF AcceptInv, TypeOK
<1>11. AcceptInv'
  BY <1>6, <1>7, <1>9, <1>10 DEF AcceptInv
<1>12. ASSUME NEW u \in Sessions
       PROVE  Whole(u, ses'[u], ready') /\ (u >= next' => Fresh(u, ses'[u], ready'))
  <2>1. /\ Same(ReadsOf(u), ready, ready') /\ Same(WritesOf(u), ready, ready')
        /\ Same(GoodReads(u), ready, ready')
    BY <1>1, <1>2, <1>3, <1>4, SameAppend
  <2>2. CASE u = next
    BY <1>1, <2>1, <2>2, WholeKept DEF TypeOK
  <2>3. CASE u # next
    <3>1. ses'[u] = ses[u] /\ Whole(u, ses[u], ready) /\ (u >= next => Fresh(u, ses[u], ready))
      BY <1>1, <2>3 DEF TypeOK, SessionInv
    <3> QED BY <2>1, <3>1, WholeKept
  <2> QED BY <2>2, <2>3
<1> QED BY <1>1, <1>2, <1>4, <1>11, <1>12 DEF SessionInv

LEMMA AcceptSteps ==
  ASSUME Inv, AcceptSucceeds \/ AcceptFails
  PROVE  Inv'
<1>1. TypeOK /\ AcceptInv /\ SessionInv
  BY DEF Inv
<1>2. /\ accept = "pending" /\ backlog > 0 /\ accept' = "queued" /\ UNCHANGED <<started, held, next>>
      /\ next \in Nat /\ next >= 1 /\ backlog \in Nat /\ MaxSessions \in Nat
  <2>1. /\ accept = "pending" /\ backlog > 0 /\ accept' = "queued"
        /\ UNCHANGED <<started, held, next>>
    BY DEF AcceptSucceeds, AcceptFails
  <2>2. next \in Nat /\ next >= 1 /\ backlog \in Nat /\ MaxSessions \in Nat
    BY <1>1, ServerAssumption DEF TypeOK
  <2> QED BY <2>1, <2>2
<1>3. next + backlog <= MaxSessions + 1 /\ next \in Sessions
  <2>1. next + backlog <= MaxSessions + 1
    BY <1>1, <1>2 DEF AcceptInv, One
  <2> QED BY <1>2, <2>1 DEF Sessions
<1>4. Whole(next, ses[next], ready) /\ Fresh(next, ses[next], ready) /\ ses[next] \in SessionType
  BY <1>1, <1>2, <1>3 DEF SessionInv, TypeOK
<1>5. CASE AcceptSucceeds
  <2> DEFINE o == ses[next]
             r == [o EXCEPT !.sock = "up"]
  <2>1. /\ ready' = Append(ready, Done("accept", next, TRUE)) /\ backlog' = backlog - 1
        /\ ses' = [ses EXCEPT ![next] = r] /\ UNCHANGED failures
    BY <1>5 DEF AcceptSucceeds
  <2>2. /\ r \in SessionType /\ r.read = o.read /\ r.write = o.write /\ r.state = o.state
        /\ r.reports = o.reports /\ r.due = o.due /\ r.app = o.app
        /\ r.queue = o.queue /\ r.after = o.after
    BY <1>4 DEF SessionType
  <2> HIDE DEF r, o
  <2>3. Whole(next, o, ready) /\ Fresh(next, o, ready) /\ o.reports \in Nat
    BY <1>4 DEF o, SessionType
  <2>4. /\ HasRead(next, r, ready) <=> HasRead(next, o, ready)
        /\ HasWrite(next, r, ready) <=> HasWrite(next, o, ready)
    BY <2>2 DEF HasRead, HasWrite
  <2>5. Core(next, r, ready) /\ Wired(next, r, ready)
    BY <2>2, <2>3, <2>4 DEF Whole, Core, Wired, Fresh
  <2>6. Budget(next, r, ready) <= Limit
    BY <2>2, <2>3, <2>4 DEF Whole, Budget, One
  <2>7. Fresh(next, r, ready)
    BY <2>2, <2>3, <2>4 DEF Fresh
  <2>8. next + backlog' + One(TRUE) <= MaxSessions + 1
    BY <1>2, <1>3, <2>1 DEF One
  <2>9. AcceptInv' /\ SessionInv' /\ ready' \in Seq(Entry)
    BY <1>2, <1>3, <2>1, <2>2, <2>5, <2>6, <2>7, <2>8, AcceptQueued DEF Whole
  <2>10. TypeOK'
    <3>1. backlog' \in 0..MaxSessions /\ accept' \in AcceptStates
      BY <1>1, <1>2, <2>1 DEF TypeOK, AcceptStates
    <3> QED BY <1>1, <1>2, <2>1, <2>2, <2>9, <3>1 DEF TypeOK
  <2> QED BY <2>9, <2>10 DEF Inv
<1>6. CASE AcceptFails
  <2>1. /\ ready' = Append(ready, Done("accept", next, FALSE)) /\ backlog' = backlog
        /\ ses' = ses /\ failures' = failures + 1 /\ failures < MaxFailures
    BY <1>6 DEF AcceptFails
  <2>2. ses' = [ses EXCEPT ![next] = ses[next]]
    BY <1>1, <2>1 DEF TypeOK
  <2>3. next + backlog' + One(FALSE) <= MaxSessions + 1
    BY <1>2, <1>3, <2>1 DEF One
  <2>4. AcceptInv' /\ SessionInv' /\ ready' \in Seq(Entry)
    BY <1>2, <1>3, <1>4, <2>1, <2>2, <2>3, AcceptQueued
  <2>5. TypeOK'
    <3>1. failures' \in 0..MaxFailures /\ accept' \in AcceptStates
      BY <1>1, <1>2, <2>1, ServerAssumption DEF TypeOK, AcceptStates
    <3> QED BY <1>1, <1>2, <2>1, <2>4, <3>1 DEF TypeOK
  <2> QED BY <2>4, <2>5 DEF Inv
<1> QED BY <1>5, <1>6

\* The handler of the accept loop is at the head of the queue.
LEMMA PopAccept ==
  ASSUME Inv, accept \in {"queued", "checked"}, Head(ready) \in Accepts
  PROVE  /\ ready # <<>> /\ Tail(ready) \in Seq(Entry) /\ Head(ready).s = next /\ next \in Sessions
         /\ Absent(Tail(ready), Accepts) /\ Absent(Tail(ready), GoodAccepts) /\ started
         /\ Head(ready).ok => next + backlog + 1 <= MaxSessions + 1
         /\ \A u : /\ Same(ReadsOf(u), ready, Tail(ready))
                   /\ Same(WritesOf(u), ready, Tail(ready))
                   /\ Same(GoodReads(u), ready, Tail(ready))
<1>1. TypeOK /\ AcceptInv /\ ready \in Seq(Entry) /\ next \in Sessions /\ started
  BY DEF Inv, TypeOK, AcceptInv
<1>2. ready # <<>>
  BY AbsentEmpty, <1>1 DEF AcceptInv
<1>3. Head(ready) \in Entry /\ Tail(ready) \in Seq(Entry)
  BY <1>1, <1>2, TailAt
<1>4. Head(ready).s = next
  <2>1. Head(ready) \notin NotNext
    BY <1>1, <1>2, HeadPresent DEF AcceptInv
  <2> QED BY <2>1 DEF NotNext
<1>5. Absent(Tail(ready), Accepts)
  BY <1>1, <1>2, TailGone DEF AcceptInv
<1>6. Absent(Tail(ready), GoodAccepts)
  BY <1>5 DEF Absent, GoodAccepts
<1>7. Head(ready).ok => next + backlog + 1 <= MaxSessions + 1
  <2>1. Head(ready).ok => ~Absent(ready, GoodAccepts)
    BY <1>1, <1>2, HeadPresent DEF GoodAccepts
  <2> QED BY <1>1, <2>1 DEF AcceptInv, One
<1>8. \A u : Head(ready) \notin ReadsOf(u) /\ Head(ready) \notin WritesOf(u)
             /\ Head(ready) \notin GoodReads(u)
  BY DEF Accepts, ReadsOf, WritesOf, GoodReads
<1> QED BY <1>1, <1>2, <1>3, <1>4, <1>5, <1>6, <1>7, <1>8, SameTail

LEMMA HandleAcceptKeeps ==
  ASSUME Inv, HandleAccept
  PROVE  Inv'
<1>1. TypeOK /\ AcceptInv /\ SessionInv
  BY DEF Inv
<1>2. accept = "queued" /\ Head(ready).op = "accept" /\ UNCHANGED <<started, held, next, backlog, failures, ses>>
  BY DEF HandleAccept
<1>3. ready # <<>> /\ Head(ready) \in Accepts
  <2>1. ready # <<>>
    BY <1>1, <1>2, AbsentEmpty DEF AcceptInv
  <2> QED BY <1>1, <1>2, <2>1, TailAt DEF TypeOK, Accepts
<1>4. NotNext' = NotNext
  BY <1>2 DEF NotNext
<1>5. CASE InUse
  <2>1. accept' = "checked" /\ ready' = ready
    BY <1>5 DEF HandleAccept
  <2>2. SessionInv'
    BY <1>1, <1>2, <2>1 DEF SessionInv
  <2>3. AcceptInv'
    BY <1>1, <1>2, <1>3, <1>4, <2>1 DEF AcceptInv
  <2>4. TypeOK'
    BY <1>1, <1>2, <2>1 DEF TypeOK, AcceptStates
  <2> QED BY <2>2, <2>3, <2>4 DEF Inv
<1>6. CASE ~InUse
  <2>1. accept' = "none" /\ ready' = Tail(ready)
    BY <1>6 DEF HandleAccept
  <2>2. /\ ready' \in Seq(Entry) /\ Absent(ready', Accepts) /\ Absent(ready', GoodAccepts)
        /\ \A u : /\ Same(ReadsOf(u), ready, ready') /\ Same(WritesOf(u), ready, ready')
                  /\ Same(GoodReads(u), ready, ready')
    BY <1>2, <1>3, <2>1, PopAccept
  <2>3. SessionInv'
    BY <1>1, <1>2, <2>2, WholeKept DEF SessionInv
  <2>4. Absent(ready', NotNext') /\ AtMostOne(ready', Accepts)
    BY <2>2, AbsentIsFew DEF Absent, NotNext
  <2>5. next' + backlog' + One(~Absent(ready', GoodAccepts)) <= MaxSessions + 1
    <3>1. next \in Nat /\ backlog \in Nat
      BY <1>1 DEF TypeOK
    <3> QED BY <1>1, <1>2, <2>2, <3>1, ServerAssumption DEF AcceptInv, One
  <2>6. AcceptInv'
    BY <2>1, <2>2, <2>4, <2>5 DEF AcceptInv
  <2>7. TypeOK'
    BY <1>1, <1>2, <2>1, <2>2 DEF TypeOK, AcceptStates
  <2> QED BY <2>3, <2>6, <2>7 DEF Inv
<1> QED BY <1>5, <1>6

\* The session that is started has never had a read or a write.
LEMMA StartSessionWhole ==
  ASSUME NEW s \in Sessions, NEW x \in Pair, Core(s, x.r, x.q), Fresh(s, x.r, x.q)
  PROVE  LET y == StartSession(s, x)
         IN  /\ y \in Pair /\ Whole(s, y.r, y.q)
             /\ \A E : Foreign(s, E) => Same(E, x.q, y.q)
<1> DEFINE r == [x.r EXCEPT !.app = TRUE, !.state = "Connected"]
           z == With(r, x.q)
           y == StartSession(s, x)
<1>1. x.r \in SessionType /\ x.q \in Seq(Entry)
  BY PairParts
<1>2. /\ r \in SessionType /\ r.read = x.r.read /\ r.write = x.r.write /\ r.state = "Connected"
      /\ r.sock = x.r.sock /\ r.reports = x.r.reports /\ r.due = x.r.due /\ r.app = TRUE
      /\ r.queue = x.r.queue /\ r.after = x.r.after
  BY <1>1 DEF SessionType
<1>3. z \in Pair /\ z.r = r /\ z.q = x.q
  BY <1>1, <1>2, PairType
<1>4. y = StartRead(s, "header", z)
  BY DEF StartSession
<1> HIDE DEF r, z, y
<1>5. /\ HasRead(s, z.r, z.q) <=> HasRead(s, x.r, x.q)
      /\ HasWrite(s, z.r, z.q) <=> HasWrite(s, x.r, x.q)
  BY <1>2, <1>3 DEF HasRead, HasWrite
<1>6. Core(s, z.r, z.q) /\ ~HasRead(s, z.r, z.q)
  BY <1>2, <1>3, <1>5 DEF Core, Fresh
<1>7. Budget(s, z.r, z.q) < Limit
  <2>1. z.r.reports = 0
    BY <1>2, <1>3 DEF Core, Fresh
  <2> QED BY <1>2, <1>3, <1>5, <2>1, LimitType DEF Budget, One, Fresh
<1>8. /\ y \in Pair /\ Whole(s, y.r, y.q)
      /\ \A E : Foreign(s, E) => Same(E, z.q, y.q)
  BY <1>3, <1>4, <1>6, <1>7, StartReadWhole
<1> QED BY <1>3, <1>8 DEF y

LEMMA AcceptCallbackKeeps ==
  ASSUME Inv, AcceptCallback
  PROVE  Inv'
<1> DEFINE c == Head(ready)
           x == With(ses[c.s], Tail(ready))
<1>1. TypeOK /\ AcceptInv /\ SessionInv
  BY DEF Inv
<1>2. accept = "checked" /\ UNCHANGED <<started, held, backlog, failures>>
  BY DEF AcceptCallback
<1>3. /\ ready # <<>> /\ Tail(ready) \in Seq(Entry) /\ c.s = next /\ next \in Sessions
      /\ Absent(Tail(ready), Accepts) /\ Absent(Tail(ready), GoodAccepts) /\ started
      /\ c.ok => next + backlog + 1 <= MaxSessions + 1
      /\ \A u : /\ Same(ReadsOf(u), ready, Tail(ready))
                /\ Same(WritesOf(u), ready, Tail(ready))
                /\ Same(GoodReads(u), ready, Tail(ready))
  BY <1>1, <1>2, PopAccept DEF AcceptInv
<1>4. \A u \in Sessions : /\ Whole(u, ses[u], Tail(ready))
                          /\ u >= next => Fresh(u, ses[u], Tail(ready))
  BY <1>1, <1>3, WholeKept DEF SessionInv
<1>5. next \in Nat /\ backlog \in Nat /\ MaxSessions \in Nat /\ ses[next] \in SessionType
  BY <1>1, <1>3, ServerAssumption DEF TypeOK
<1>6. x \in Pair /\ x.r = ses[next] /\ x.q = Tail(ready)
  BY <1>3, <1>5, PairType
<1>7. CASE ~c.ok
  <2>1. accept' = "none" /\ ready' = Tail(ready) /\ UNCHANGED <<next, ses>>
    BY <1>6, <1>7 DEF AcceptCallback
  <2>2. SessionInv'
    BY <1>4, <2>1 DEF SessionInv
  <2>3. Absent(ready', NotNext') /\ AtMostOne(ready', Accepts)
    BY <1>3, <2>1, AbsentIsFew DEF Absent, NotNext
  <2>4. next' + backlog' + One(~Absent(ready', GoodAccepts)) <= MaxSessions + 1
    BY <1>1, <1>2, <1>3, <1>5, <2>1 DEF AcceptInv, One
  <2>5. AcceptInv'
    BY <1>3, <2>1, <2>3, <2>4 DEF AcceptInv
  <2>6. TypeOK'
    BY <1>1, <1>2, <1>3, <2>1 DEF TypeOK, AcceptStates
  <2> QED BY <2>2, <2>5, <2>6 DEF Inv
<1>8. CASE c.ok
  <2>1. PICK y : /\ y = x \/ y = StartSession(next, x)
                 /\ Apply(next, y) /\ accept' = "pending" /\ next' = next + 1
    BY <1>3, <1>8 DEF AcceptCallback, AcceptAgain
  <2>2. y \in Pair /\ Whole(next, y.r, y.q) /\ \A E : Foreign(next, E) => Same(E, Tail(ready), y.q)
    <3>1. CASE y = x
      BY <1>3, <1>4, <1>6, <3>1, SameSelf
    <3>2. CASE y = StartSession(next, x)
      <4>1. Core(next, x.r, x.q) /\ Fresh(next, x.r, x.q)
        <5>1. next >= next
          BY <1>5
        <5> QED BY <1>3, <1>4, <1>6, <5>1 DEF Whole
      <4> QED BY <1>3, <1>6, <3>2, <4>1, StartSessionWhole
    <3> QED BY <2>1, <3>1, <3>2
  <2>3. /\ ready' = y.q /\ ready' \in Seq(Entry) /\ y.r \in SessionType
        /\ ses' = [ses EXCEPT ![next] = y.r]
    BY <2>1, <2>2, PairParts DEF Apply
  <2>4. Absent(ready', Accepts) /\ Absent(ready', GoodAccepts)
    BY <1>3, <2>2, <2>3, ForeignSets DEF Same
  <2>5. ASSUME NEW u \in Sessions
        PROVE  Whole(u, ses'[u], ready') /\ (u >= next' => Fresh(u, ses'[u], ready'))
    <3>1. CASE u = next
      <4>1. ses'[u] = y.r /\ ~(u >= next')
        BY <1>1, <1>5, <2>1, <2>3, <3>1 DEF TypeOK
      <4> QED BY <2>2, <2>3, <3>1, <4>1
    <3>2. CASE u # next
      <4>1. ses'[u] = ses[u] /\ (u >= next' => u >= next)
        BY <1>1, <1>5, <2>1, <2>3, <3>2 DEF TypeOK, Sessions
      <4>2. /\ Same(ReadsOf(u), Tail(ready), ready') /\ Same(WritesOf(u), Tail(ready), ready')
            /\ Same(GoodReads(u), Tail(ready), ready')
        BY <1>3, <2>2, <2>3, <3>2, ForeignSets
      <4> QED BY <1>4, <4>1, <4>2, WholeKept
    <3> QED BY <3>1, <3>2
  <2>6. SessionInv'
    BY <2>5 DEF SessionInv
  <2>7. Absent(ready', NotNext') /\ AtMostOne(ready', Accepts)
    BY <2>4, AbsentIsFew DEF Absent, NotNext
  <2>8. next' + backlog' + One(~Absent(ready', GoodAccepts)) <= MaxSessions + 1
    BY <1>2, <1>3, <1>5, <1>8, <2>1, <2>4 DEF One
  <2>9. AcceptInv'
    BY <1>2, <1>3, <2>1, <2>4, <2>7, <2>8 DEF AcceptInv
  <2>10. TypeOK'
    <3>1. next' \in 1..(MaxSessions + 1)
      BY <1>3, <1>5, <2>1 DEF Sessions
    <3> QED BY <1>1, <1>2, <2>1, <2>3, <3>1 DEF TypeOK, AcceptStates
  <2> QED BY <2>6, <2>9, <2>10 DEF Inv
<1> QED BY <1>1, <1>7, <1>8

-----------------------------------------------------------------------------
(* The theorems.                                                           *)

LEMMA InvInit == Init => Inv
<1> SUFFICES ASSUME Init
             PROVE  Inv
  OBVIOUS
<1>1. ready = <<>> /\ next = 1 /\ backlog = 0 /\ accept = "none"
      /\ \A E : Absent(ready, E) /\ AtMostOne(ready, E)
  BY AbsentEmpty DEF Init
<1>2. TypeOK
  <2>1. NewSession \in SessionType
    BY ServerAssumption DEF NewSession, SessionType
  <2>2. ses \in [Sessions -> SessionType] /\ ready \in Seq(Entry)
    BY <2>1 DEF Init
  <2>3. 1 \in 1..(MaxSessions + 1) /\ 0 \in 0..MaxSessions /\ 0 \in 0..MaxFailures
    BY ServerAssumption
  <2>4. started \in BOOLEAN /\ held \in BOOLEAN /\ accept \in AcceptStates
        /\ next = 1 /\ backlog = 0 /\ failures = 0
    BY DEF Init, AcceptStates
  <2> QED BY <2>2, <2>3, <2>4 DEF TypeOK
<1>3. AcceptInv
  BY <1>1, ServerAssumption DEF AcceptInv, One
<1>4. ASSUME NEW s \in Sessions
      PROVE  Whole(s, ses[s], ready) /\ Fresh(s, ses[s], ready)
  <2>1. ses[s] = NewSession
    BY DEF Init
  <2>2. ~HasRead(s, ses[s], ready) /\ ~HasWrite(s, ses[s], ready)
    BY <1>1, <2>1 DEF HasRead, HasWrite, NewSession
  <2>3. Fresh(s, ses[s], ready)
    BY <2>1, <2>2 DEF Fresh, NewSession
  <2>4. Core(s, ses[s], ready)
    BY <1>1, <2>1, <2>2, ServerAssumption DEF Core, NewSession
  <2>5. Budget(s, ses[s], ready) <= Limit
    BY <2>1, <2>2, LimitType DEF Budget, One, NewSession
  <2>6. Wired(s, ses[s], ready)
    BY <2>1 DEF Wired, NewSession
  <2> QED BY <2>3, <2>4, <2>5, <2>6 DEF Whole
<1>5. SessionInv
  BY <1>4 DEF SessionInv
<1> QED BY <1>2, <1>3, <1>5 DEF Inv

LEMMA InvStep == Inv /\ [Next]_vars => Inv'
<1> SUFFICES ASSUME Inv, [Next]_vars
             PROVE  Inv'
  OBVIOUS
<1>1. CASE Server
  BY <1>1, ServerSteps, AcceptSteps DEF Server
<1>2. CASE IoThread
  BY <1>2, HandleAcceptKeeps, AcceptCallbackKeeps, HandleReadGoneKeeps, HandleHeaderKeeps,
     HandleBodyKeeps, HandleWriteKeeps DEF IoThread
<1>3. ASSUME NEW s \in Sessions, Session(s)
      PROVE  Inv'
  BY <1>3, RecordSteps, SendEnqueueKeeps, WriteCompletesKeeps, ReadCompletesKeeps DEF Session
<1>4. CASE UNCHANGED vars
  BY <1>4 DEF vars, Inv, TypeOK, AcceptInv, NotNext, SessionInv
<1> QED BY <1>1, <1>2, <1>3, <1>4 DEF Next

LEMMA InvAlways == Spec => []Inv
BY InvInit, InvStep, PTL DEF Spec

\* The variables keep their types: no session is accepted beyond those that connect, and
\* write_queue is never popped when it is empty.
THEOREM TypeCorrect == Spec => []TypeOK
<1>1. Inv => TypeOK
  BY DEF Inv
<1> QED BY <1>1, InvAlways, PTL

\* One chain of reads, which runs as long as the session is connected: the end of the
\* connection is noticed, and header and p have one user.
THEOREM OneReaderAtATime == Spec => []ConnectedHasOneReader
<1>1. Inv => ConnectedHasOneReader
  <2> SUFFICES ASSUME Inv, NEW s \in Sessions, Alive(s)
               PROVE  Reads(s) <= 1 /\ (ses[s].state = "Connected" => Reads(s) = 1)
    BY DEF ConnectedHasOneReader
  <2> DEFINE R == ReadHandlers(s)
  <2>1. TypeOK /\ Whole(s, ses[s], ready)
    BY DEF Inv, SessionInv
  <2>2. R = {i \in DOMAIN ready : ready[i] \in ReadsOf(s)}
    BY <2>1 DEF ReadHandlers, ReadsOf, TypeOK
  <2>3. Absent(ready, ReadsOf(s)) => R = {}
    BY <2>2 DEF Absent
  <2>4. ~Absent(ready, ReadsOf(s)) => \E i : R = {i}
    <3> SUFFICES ASSUME ~Absent(ready, ReadsOf(s))
                 PROVE  \E i : R = {i}
      OBVIOUS
    <3>1. PICK i \in DOMAIN ready : ready[i] \in ReadsOf(s)
      BY DEF Absent
    <3>2. R = {i}
      BY <2>1, <2>2, <3>1 DEF Whole, Core, AtMostOne
    <3> QED BY <3>2
  <2>5. /\ R = {} => Cardinality(R) = 0
        /\ (\E i : R = {i}) => Cardinality(R) = 1
    BY FS_EmptySet, FS_Singleton
  <2> HIDE DEF R
  <2>6. Absent(ready, ReadsOf(s)) => Cardinality(R) = 0
    BY <2>3, <2>5
  <2>7. ~Absent(ready, ReadsOf(s)) => Cardinality(R) = 1 /\ ses[s].read = "none"
    BY <2>1, <2>4, <2>5 DEF Whole, Core
  <2>8. Reads(s) = Cardinality(R) + (IF ses[s].read = "none" THEN 0 ELSE 1)
    BY DEF Reads, R
  <2>9. ses[s].state = "Connected" => HasRead(s, ses[s], ready)
    <3>1. ses[s].write \/ Queued(s, {"write"}) => HasWrite(s, ses[s], ready)
      BY <2>1 DEF HasWrite, Queued, Absent, WritesOf, TypeOK
    <3>2. s = next => ses[s].state = "NoState"
      <4>1. s = next => s >= next
        BY ServerAssumption DEF Sessions
      <4> QED BY <4>1 DEF Inv, SessionInv, Fresh
    <3> QED BY <2>1, <3>1, <3>2 DEF Alive, Whole, Wired
  <2> QED BY <2>6, <2>7, <2>8, <2>9 DEF HasRead
<1> QED BY <1>1, InvAlways, PTL

\* However many operations and calls of send() the end of a connection finds, each
\* chain and each call tells the application of it once at most, and it gets one
\* packet at most afterwards.
THEOREM EndReportedOncePerCall == Spec => []EndIsBounded
<1>1. Inv => EndIsBounded
  <2> SUFFICES ASSUME Inv, NEW s \in Sessions
               PROVE  ses[s].reports <= 2 + MaxSenders /\ ses[s].after <= 1
    BY DEF EndIsBounded
  <2>1. Whole(s, ses[s], ready) /\ ses[s].reports \in Nat /\ ses[s].due \in Nat
    BY ServerAssumption DEF Inv, SessionInv, TypeOK, SessionType
  <2> QED BY <2>1, ServerAssumption DEF Whole, Core, Budget, One, Limit
<1> QED BY <1>1, InvAlways, PTL
=============================================================================
