--------------------------- MODULE TcpClientProofs ---------------------------
(***************************************************************************)
(* Proofs about TcpClient, for any number of endpoints, of packets in the  *)
(* queue and of reconnections: types, that a client always has something   *)
(* that will call it, that Connected means a connection, and that a client *)
(* which only receives does one thing at a time.                           *)
(***************************************************************************)
EXTENDS TcpClient, SequenceLemmas, FiniteSetTheorems, TLAPS

\* The handlers that are queued.
Reads    == {c \in Completions : c.op \in {"header", "body"}}
Writes   == {c \in Completions : c.op = "write"}
Connects == {c \in Completions : c.op = "connect"}
TimerUp  == Done("timer", TRUE)
Parts    == {"header", "body"}

\* No attempt to connect was aborted after the descriptor had its event: closing a
\* descriptor makes the event void.
Ordered(q) == \A i, j \in DOMAIN q : q[i] = Event /\ i < j => q[j] \notin Connects
Good(q)    == q \in Seq(Completions) /\ AtMostOne(q, {Event}) /\ Ordered(q)

HasRead(r, q)  == r # <<>> \/ ~Absent(q, Reads)
HasWrite(w, q) == w = 1 \/ ~Absent(q, Writes)

\* There is one chain of writes.
Chain(w, q) == w \in {0, 1} /\ AtMostOne(q, Writes) /\ (w = 1 => Absent(q, Writes))

WriteInv ==
  /\ Chain(writing, ready)
  /\ sender = "due" => ~HasWrite(writing, ready)
  /\ HasWrite(writing, ready) \/ sender = "due" => queue > 0
  /\ sender = "checked" => queue < MaxQueue

\* What goes with each status.
StatusInv ==
  /\ status = "Resolving" <=> running = "resolving"
  /\ status = "WaitingToConnect" => timer \/ ~Absent(ready, {TimerUp})
  /\ status = "Connecting" => dialing # 0 \/ ~Absent(ready, Connects)
  /\ status = "Connected" => HasRead(reads, ready) /\ dialing = 0 /\ Absent(ready, Connects)

Inv == TypeOK /\ Good(ready) /\ WriteInv /\ StatusInv

-----------------------------------------------------------------------------
(* Entries and queues.                                                     *)

LEMMA EntryTypes ==
  /\ \A op \in {"header", "body", "write", "timer"}, ok \in BOOLEAN :
       /\ Done(op, ok) \in Completions /\ Done(op, ok).op = op /\ Done(op, ok).ok = ok
       /\ Done(op, ok) \notin Connects
       /\ Done(op, ok) \in Reads <=> op \in {"header", "body"}
       /\ Done(op, ok) \in Writes <=> op = "write"
       /\ Done(op, ok) # Event
       /\ op # "timer" \/ ~ok => Done(op, ok) # TimerUp
  /\ \A k \in 1..NEndpoints :
       /\ Connect(FALSE, k) \in Connects /\ Connect(FALSE, k) \in Completions
       /\ Connect(FALSE, k) \notin Reads /\ Connect(FALSE, k) \notin Writes
       /\ Connect(FALSE, k) # Event /\ Connect(FALSE, k) # TimerUp
  /\ Event \in Completions /\ Event \notin Reads /\ Event \notin Writes /\ Event \notin Connects
  /\ TimerUp \in Completions /\ TimerUp \notin Reads /\ TimerUp \notin Writes
  /\ TimerUp \notin Connects /\ TimerUp # Event
<1>1. ASSUME NEW op \in {"header", "body", "write", "timer"}, NEW ok \in BOOLEAN
      PROVE  /\ Done(op, ok) \in Completions /\ Done(op, ok).op = op /\ Done(op, ok).ok = ok
             /\ Done(op, ok) \notin Connects
             /\ Done(op, ok) \in Reads <=> op \in {"header", "body"}
             /\ Done(op, ok) \in Writes <=> op = "write"
             /\ Done(op, ok) # Event
             /\ op # "timer" \/ ~ok => Done(op, ok) # TimerUp
  <2>1. Done(op, ok) \in Completions /\ Done(op, ok).op = op /\ Done(op, ok).ok = ok
    BY DEF Done, Completions
  <2>2. Event.op = "io" /\ TimerUp.op = "timer" /\ TimerUp.ok = TRUE
    BY DEF Event, TimerUp, Done
  <2> QED BY <2>1, <2>2 DEF Reads, Writes, Connects
<1>2. ASSUME NEW k \in 1..NEndpoints
      PROVE  /\ Connect(FALSE, k) \in Connects /\ Connect(FALSE, k) \in Completions
             /\ Connect(FALSE, k) \notin Reads /\ Connect(FALSE, k) \notin Writes
             /\ Connect(FALSE, k) # Event /\ Connect(FALSE, k) # TimerUp
  <2>1. Connect(FALSE, k) \in Completions /\ Connect(FALSE, k).op = "connect"
    BY DEF Connect, Completions
  <2>2. Event.op = "io" /\ TimerUp.op = "timer"
    BY DEF Event, TimerUp, Done
  <2> QED BY <2>1, <2>2 DEF Reads, Writes, Connects
<1>3. /\ Event \in Completions /\ Event \notin Reads /\ Event \notin Writes /\ Event \notin Connects
      /\ TimerUp \in Completions /\ TimerUp \notin Reads /\ TimerUp \notin Writes
      /\ TimerUp \notin Connects /\ TimerUp # Event
  <2>1. Event \in Completions /\ Event.op = "io"
    BY DEF Event, Completions, Done
  <2>2. Event \notin Reads /\ Event \notin Writes /\ Event \notin Connects
    BY <2>1 DEF Reads, Writes, Connects
  <2> QED BY <1>1, <2>1, <2>2 DEF TimerUp
<1> QED BY <1>1, <1>2, <1>3

\* Entries behind a queue: nothing that connects goes behind an event.
LEMMA GoodConcat ==
  ASSUME NEW q, Good(q), NEW t \in Seq(Completions), Absent(t, {Event}),
         Absent(t, Connects) \/ Absent(q, {Event})
  PROVE  Good(q \o t)
<1>1. q \in Seq(Completions) /\ AtMostOne(q, {Event}) /\ Ordered(q)
  BY DEF Good
<1>2. q \o t \in Seq(Completions) /\ AtMostOne(q \o t, {Event})
  <2>1. q \o t \in Seq(Completions)
    BY <1>1, ConcatAt
  <2> QED BY <1>1, <2>1, ConcatAbsent
<1>3. ASSUME NEW i \in DOMAIN (q \o t), NEW j \in DOMAIN (q \o t), (q \o t)[i] = Event, i < j
      PROVE  (q \o t)[j] \notin Connects
  <2>1. /\ Len(q) \in Nat /\ Len(t) \in Nat /\ DOMAIN (q \o t) = 1..(Len(q) + Len(t))
        /\ DOMAIN q = 1..Len(q) /\ DOMAIN t = 1..Len(t)
        /\ \A k \in 1..Len(q) : (q \o t)[k] = q[k]
        /\ \A k \in 1..Len(t) : (q \o t)[Len(q) + k] = t[k]
    BY <1>1, ConcatAt
  <2>2. \A k \in DOMAIN (q \o t) : ~(k <= Len(q)) =>
            k - Len(q) \in DOMAIN t /\ (q \o t)[k] = t[k - Len(q)]
    <3> SUFFICES ASSUME NEW k \in DOMAIN (q \o t), ~(k <= Len(q))
                 PROVE  k - Len(q) \in DOMAIN t /\ (q \o t)[k] = t[k - Len(q)]
      OBVIOUS
    <3>1. k - Len(q) \in 1..Len(t) /\ Len(q) + (k - Len(q)) = k
      BY <2>1
    <3> QED BY <2>1, <3>1
  <2>3. i <= Len(q)
    BY <1>3, <2>2 DEF Absent
  <2>4. i \in DOMAIN q /\ q[i] = Event
    BY <1>3, <2>1, <2>3
  <2>5. CASE j <= Len(q)
    <3>1. j \in DOMAIN q /\ (q \o t)[j] = q[j]
      BY <2>1, <2>5
    <3> QED BY <1>1, <1>3, <2>4, <3>1 DEF Ordered
  <2>6. CASE ~(j <= Len(q))
    <3>1. Absent(t, Connects)
      BY <2>4 DEF Absent
    <3> QED BY <2>2, <2>6, <3>1 DEF Absent
  <2> QED BY <2>5, <2>6
<1> QED BY <1>2, <1>3 DEF Good, Ordered

LEMMA GoodAppend ==
  ASSUME NEW q, Good(q), NEW e \in Completions, e # Event, e \notin Connects
  PROVE  Good(Append(q, e))
<1>1. q \in Seq(Completions) /\ <<e>> \in Seq(Completions)
  BY DEF Good
<1>2. Absent(<<e>>, {Event}) /\ Absent(<<e>>, Connects)
  BY DEF Absent
<1>3. q \o <<e>> = Append(q, e)
  BY <1>1, ConcatFew
<1> QED BY <1>1, <1>2, <1>3, GoodConcat

\* An event is behind everything.
LEMMA GoodEvent ==
  ASSUME NEW q, Good(q), Absent(q, {Event})
  PROVE  Good(Append(q, Event))
<1>1. q \in Seq(Completions) /\ Event \in Completions /\ Len(q) \in Nat
  BY EntryTypes DEF Good
<1>2. Append(q, Event) \in Seq(Completions) /\ AtMostOne(Append(q, Event), {Event})
  <2>1. Event \in {Event}
    OBVIOUS
  <2>2. Append(q, Event) \in Seq(Completions)
    BY <1>1
  <2> QED BY <1>1, <2>1, <2>2, AppendNew
<1>3. ASSUME NEW i \in DOMAIN Append(q, Event), NEW j \in DOMAIN Append(q, Event),
             Append(q, Event)[i] = Event, i < j
      PROVE  FALSE
  <2>1. i \in 1..(Len(q) + 1) /\ j \in 1..(Len(q) + 1)
    BY <1>1
  <2>2. i \in DOMAIN q /\ Append(q, Event)[i] = q[i]
    BY <1>1, <1>3, <2>1
  <2> QED BY <1>3, <2>2 DEF Absent
<1> QED BY <1>2, <1>3 DEF Good, Ordered

LEMMA GoodTail ==
  ASSUME NEW q, Good(q), q # <<>>
  PROVE  /\ Good(Tail(q)) /\ Head(q) \in Completions
         /\ Head(q) = Event => Absent(Tail(q), {Event}) /\ Absent(Tail(q), Connects)
<1>1. /\ q \in Seq(Completions) /\ AtMostOne(q, {Event}) /\ Ordered(q)
      /\ Len(q) \in Nat /\ Len(q) > 0 /\ Tail(q) \in Seq(Completions) /\ Head(q) \in Completions
      /\ Head(q) = q[1] /\ DOMAIN q = 1..Len(q) /\ DOMAIN Tail(q) = 1..(Len(q) - 1)
      /\ \A i \in 1..(Len(q) - 1) : Tail(q)[i] = q[i + 1]
  BY TailAt DEF Good
<1>2. \A i \in DOMAIN Tail(q) : i + 1 \in DOMAIN q /\ 1 < i + 1 /\ Tail(q)[i] = q[i + 1]
  BY <1>1
<1>3. Ordered(Tail(q))
  <2> SUFFICES ASSUME NEW i \in DOMAIN Tail(q), NEW j \in DOMAIN Tail(q), Tail(q)[i] = Event, i < j
               PROVE  Tail(q)[j] \notin Connects
    BY DEF Ordered
  <2>1. i + 1 < j + 1
    BY <1>1
  <2> QED BY <1>1, <1>2, <2>1 DEF Ordered
<1>4. AtMostOne(Tail(q), {Event})
  <2>1. CASE Head(q) = Event
    <3>1. Absent(Tail(q), {Event})
      BY <1>1, <2>1, TailGone
    <3> QED BY <3>1, AbsentIsFew
  <2>2. CASE Head(q) # Event
    BY <1>1, <2>2, SameTail DEF Same
  <2> QED BY <2>1, <2>2
<1>5. ASSUME Head(q) = Event
      PROVE  Absent(Tail(q), {Event}) /\ Absent(Tail(q), Connects)
  <2>1. Absent(Tail(q), {Event})
    BY <1>1, <1>5, TailGone
  <2>2. 1 \in DOMAIN q /\ q[1] = Event
    BY <1>1, <1>5
  <2>3. Absent(Tail(q), Connects)
    BY <1>1, <1>2, <2>2 DEF Absent, Ordered
  <2> QED BY <2>1, <2>3
<1> QED BY <1>1, <1>3, <1>4, <1>5 DEF Good

\* Without the event, everything else stays.
LEMMA VoidIs ==
  ASSUME NEW q, Good(q)
  PROVE  /\ Good(Void(q)) /\ Void(q) \in Seq(Completions) /\ Absent(Void(q), {Event})
         /\ \A E : Event \notin E => Same(E, q, Void(q))
<1>1. q \in Seq(Completions) /\ AtMostOne(q, {Event})
  BY DEF Good
<1>2. CASE \E i \in DOMAIN q : q[i] = Event
  <2> DEFINE i == CHOOSE i \in DOMAIN q : q[i] = Event
  <2>1. i \in DOMAIN q /\ q[i] = Event
    BY <1>2
  <2>2. Void(q) = SubSeq(q, 1, i - 1) \o SubSeq(q, i + 1, Len(q))
    BY <1>2 DEF Void
  <2> HIDE DEF i
  <2>3. Void(q) \in Seq(Completions)
    BY <1>1, <2>1, <2>2, SameRemove
  <2>4. Absent(Void(q), {Event})
    BY <1>1, <2>1, <2>2, SameRemove
  <2>5. ASSUME NEW E, Event \notin E
        PROVE  Same(E, q, Void(q))
    BY <1>1, <2>1, <2>2, <2>5, SameRemove
  <2>6. Good(Void(q))
    BY <2>3, <2>4, AbsentIsFew DEF Good, Ordered, Absent
  <2> QED BY <2>3, <2>4, <2>5, <2>6
<1>3. CASE ~\E i \in DOMAIN q : q[i] = Event
  <2>1. Void(q) = q /\ Absent(q, {Event})
    BY <1>3 DEF Void, Absent
  <2> QED BY <1>1, <2>1, SameSelf
<1> QED BY <1>2, <1>3

-----------------------------------------------------------------------------
(* What the operators append.                                              *)

LEMMA ReadsDoneIs ==
  ASSUME NEW r \in Seq(Parts), NEW ok \in BOOLEAN
  PROVE  /\ ReadsDone(r, ok) \in Seq(Completions)
         /\ Absent(ReadsDone(r, ok), {Event}) /\ Absent(ReadsDone(r, ok), {TimerUp})
         /\ Absent(ReadsDone(r, ok), Writes) /\ Absent(ReadsDone(r, ok), Connects)
         /\ r # <<>> => ~Absent(ReadsDone(r, ok), Reads)
<1> DEFINE p == ReadsDone(r, ok)
<1>1. p = [i \in 1..Len(r) |-> Done(r[i], ok)] /\ Len(r) \in Nat
  BY DEF ReadsDone
<1>2. \A i \in 1..Len(r) : r[i] \in {"header", "body"}
  BY DEF Parts
<1>3. \A i \in 1..Len(r) : /\ p[i] \in Completions /\ p[i] \in Reads /\ p[i] # Event
                           /\ p[i] # TimerUp /\ p[i] \notin Writes /\ p[i] \notin Connects
  BY <1>1, <1>2, EntryTypes
<1>4. p \in [1..Len(r) -> Completions]
  BY <1>1, <1>3
<1>5. p \in Seq(Completions) /\ DOMAIN p = 1..Len(r)
  BY <1>1, <1>4, FunctionIsSeq
<1> HIDE DEF p
<1>6. r # <<>> => 1 \in 1..Len(r)
  BY <1>1
<1> QED BY <1>3, <1>5, <1>6 DEF Absent, p

LEMMA WritesDoneIs ==
  ASSUME NEW w \in {0, 1}, NEW ok \in BOOLEAN
  PROVE  /\ WritesDone(w, ok) \in Seq(Completions)
         /\ Absent(WritesDone(w, ok), {Event}) /\ Absent(WritesDone(w, ok), {TimerUp})
         /\ Absent(WritesDone(w, ok), Reads) /\ Absent(WritesDone(w, ok), Connects)
         /\ AtMostOne(WritesDone(w, ok), Writes)
         /\ Absent(WritesDone(w, ok), Writes) <=> w = 0
<1> DEFINE p == WritesDone(w, ok)
           e == Done("write", ok)
<1>1. p = [i \in 1..w |-> e]
  BY DEF WritesDone
<1>2. /\ e \in Completions /\ e \in Writes /\ e # Event /\ e # TimerUp /\ e \notin Reads
      /\ e \notin Connects
  BY EntryTypes
<1> HIDE DEF e
<1>3. p \in [1..w -> Completions] /\ w \in Nat
  BY <1>1, <1>2
<1>4. p \in Seq(Completions) /\ DOMAIN p = 1..w
  BY <1>3, FunctionIsSeq
<1>5. \A i \in DOMAIN p : p[i] = e
  BY <1>1, <1>4
<1>6. (w = 0 => DOMAIN p = {}) /\ (w = 1 => DOMAIN p = {1})
  BY <1>4
<1> HIDE DEF p
<1> QED BY <1>2, <1>4, <1>5, <1>6 DEF Absent, AtMostOne, p

\* What a descriptor that is closed leaves in the queue.
LEMMA AbortedIs ==
  ASSUME NEW r \in Seq(Parts), NEW w \in {0, 1}, NEW d \in 0..NEndpoints
  PROVE  /\ Aborted(r, w, d) \in Seq(Completions)
         /\ Absent(Aborted(r, w, d), {Event}) /\ Absent(Aborted(r, w, d), {TimerUp})
         /\ AtMostOne(Aborted(r, w, d), Writes)
         /\ Absent(Aborted(r, w, d), Writes) <=> w = 0
         /\ r # <<>> => ~Absent(Aborted(r, w, d), Reads)
<1> DEFINE a == ReadsDone(r, FALSE)
           b == IF d = 0 THEN <<>> ELSE <<Connect(FALSE, d)>>
           c == WritesDone(w, FALSE)
<1>1. Aborted(r, w, d) = (a \o b) \o c
  BY DEF Aborted
<1>2. /\ a \in Seq(Completions) /\ Absent(a, {Event}) /\ Absent(a, {TimerUp}) /\ Absent(a, Writes)
      /\ r # <<>> => ~Absent(a, Reads)
  BY ReadsDoneIs
<1>3. /\ b \in Seq(Completions) /\ Absent(b, {Event}) /\ Absent(b, {TimerUp}) /\ Absent(b, Writes)
  <2>1. CASE d = 0
    BY <2>1 DEF Absent
  <2>2. CASE d # 0
    <3>1. d \in 1..NEndpoints
      BY <2>2, ClientAssumption
    <3>2. /\ Connect(FALSE, d) \in Completions /\ Connect(FALSE, d) \notin Writes
          /\ Connect(FALSE, d) # Event /\ Connect(FALSE, d) # TimerUp
      BY <3>1, EntryTypes
    <3> DEFINE e == Connect(FALSE, d)
    <3>3. b = <<e>>
      BY <2>2
    <3> HIDE DEF e, b
    <3>4. e \in Completions
      BY <3>2 DEF e
    <3>5. b \in Seq(Completions) /\ DOMAIN b = {1} /\ b[1] = e
      BY <3>3, <3>4
    <3> QED BY <3>2, <3>5 DEF Absent, e
  <2> QED BY <2>1, <2>2
<1>4. /\ c \in Seq(Completions) /\ Absent(c, {Event}) /\ Absent(c, {TimerUp})
      /\ AtMostOne(c, Writes) /\ (Absent(c, Writes) <=> w = 0)
  BY WritesDoneIs
<1> HIDE DEF a, b, c
<1> DEFINE ab == a \o b
<1>5. /\ ab \in Seq(Completions) /\ Absent(ab, {Event}) /\ Absent(ab, {TimerUp}) /\ Absent(ab, Writes)
      /\ r # <<>> => ~Absent(ab, Reads)
  BY <1>2, <1>3, ConcatAbsent, ConcatAt
<1> HIDE DEF ab
<1>6. /\ ab \o c \in Seq(Completions) /\ Absent(ab \o c, {Event}) /\ Absent(ab \o c, {TimerUp})
      /\ AtMostOne(ab \o c, Writes) /\ (Absent(ab \o c, Writes) <=> w = 0)
      /\ r # <<>> => ~Absent(ab \o c, Reads)
  BY <1>4, <1>5, ConcatAbsent, ConcatAt
<1> QED BY <1>1, <1>6 DEF ab

\* Both queues have the same handlers, but for those of reads.
Alike(q, p) == Same(Writes, q, p) /\ Same(Connects, q, p) /\ Same({TimerUp}, q, p)

LEMMA AlikeTrans ==
  ASSUME NEW q, NEW p, NEW o, Alike(q, p), Alike(p, o)
  PROVE  Alike(q, o)
BY SameTrans DEF Alike

LEMMA AlikeSelf ==
  ASSUME NEW q
  PROVE  Alike(q, q)
BY SameSelf DEF Alike

LEMMA AlikeAppend ==
  ASSUME NEW q, Good(q), NEW e \in Completions, e \notin Writes, e \notin Connects, e # TimerUp
  PROVE  Alike(q, Append(q, e)) /\ (~Absent(q, Reads) => ~Absent(Append(q, e), Reads))
<1>1. q \in Seq(Completions) /\ <<e>> \in Seq(Completions)
  BY DEF Good
<1>2. q \o <<e>> = Append(q, e)
  BY <1>1, ConcatFew
<1>3. Absent(Append(q, e), Reads) => Absent(q, Reads)
  BY <1>1, <1>2, ConcatAbsent
<1> QED BY <1>1, <1>3, SameAppend DEF Alike

LEMMA ErrorHandlerIs ==
  ASSUME NEW q, Good(q), ErrorHandler(q)
  PROVE  /\ status' = "WaitingToConnect" /\ timer' = TRUE /\ Good(ready') /\ Alike(q, ready')
<1>1. /\ Done("timer", FALSE) \in Completions /\ Done("timer", FALSE) # Event
      /\ Done("timer", FALSE) # TimerUp /\ Done("timer", FALSE) \notin Connects
      /\ Done("timer", FALSE) \notin Writes
  BY EntryTypes
<1>2. ready' \in {q, Append(q, Done("timer", FALSE))}
  BY DEF ErrorHandler
<1>3. Good(Append(q, Done("timer", FALSE))) /\ Alike(q, Append(q, Done("timer", FALSE)))
  BY <1>1, GoodAppend, AlikeAppend
<1> QED BY <1>2, <1>3, AlikeSelf DEF ErrorHandler

LEMMA StartReadIs ==
  ASSUME NEW q, Good(q), NEW r \in Seq(Parts), NEW part \in Parts, StartRead(part, q, r)
  PROVE  Good(ready') /\ Alike(q, ready') /\ reads' \in Seq(Parts) /\ HasRead(reads', ready')
<1>1. CASE reads' = Append(r, part) /\ ready' = q
  <2>1. reads' \in Seq(Parts) /\ reads' # <<>>
    BY <1>1
  <2> QED BY <1>1, <2>1, AlikeSelf DEF HasRead
<1>2. CASE reads' = r /\ ready' = Append(q, Done(part, TRUE))
  <2>1. /\ Done(part, TRUE) \in Completions /\ Done(part, TRUE) \in Reads
        /\ Done(part, TRUE) # Event /\ Done(part, TRUE) # TimerUp
        /\ Done(part, TRUE) \notin Connects /\ Done(part, TRUE) \notin Writes
    BY EntryTypes DEF Parts
  <2>2. ~Absent(Append(q, Done(part, TRUE)), Reads)
    BY <2>1, AppendPresent DEF Good
  <2> QED BY <1>2, <2>1, <2>2, GoodAppend, AlikeAppend DEF HasRead
<1> QED BY <1>1, <1>2 DEF StartRead

LEMMA StartWriteIs ==
  ASSUME NEW q, Good(q), NEW w \in {0, 1}, ~HasWrite(w, q), StartWrite(q, w)
  PROVE  /\ Good(ready') /\ Chain(writing', ready') /\ Same(Connects, q, ready')
         /\ Same({TimerUp}, q, ready') /\ (~Absent(q, Reads) => ~Absent(ready', Reads))
<1>1. w = 0 /\ Absent(q, Writes) /\ q \in Seq(Completions)
  BY DEF HasWrite, Good
<1>2. CASE writing' = w + 1 /\ ready' = q
  <2>1. writing' = 1
    BY <1>1, <1>2
  <2> QED BY <1>1, <1>2, <2>1, SameSelf, AbsentIsFew DEF Chain
<1>3. CASE writing' = w /\ ready' = Append(q, Done("write", TRUE))
  <2> DEFINE e == Done("write", TRUE)
  <2>1. e \in Completions /\ e \in Writes /\ e # Event /\ e # TimerUp /\ e \notin Connects /\ e \notin Reads
    BY EntryTypes
  <2> HIDE DEF e
  <2>2. Good(Append(q, e))
    BY <2>1, GoodAppend
  <2>3. AtMostOne(Append(q, e), Writes)
    BY <1>1, <2>1, AppendNew
  <2>4. Same(Connects, q, Append(q, e)) /\ Same({TimerUp}, q, Append(q, e)) /\ Same(Reads, q, Append(q, e))
    BY <1>1, <2>1, SameAppend
  <2>5. ready' = Append(q, e) /\ writing' = 0
    BY <1>1, <1>3 DEF e
  <2>6. Chain(writing', ready')
    BY <2>3, <2>5 DEF Chain
  <2>7. ~Absent(q, Reads) => ~Absent(ready', Reads)
    BY <2>4, <2>5 DEF Same
  <2> QED BY <2>2, <2>4, <2>5, <2>6, <2>7
<1> QED BY <1>2, <1>3 DEF StartWrite

\* The end of a read: the next one, or the error handler.
LEMMA AfterReadIs ==
  ASSUME NEW q, Good(q), NEW r \in Seq(Parts), NEW part \in Parts, NEW ok,
         AfterRead(part, ok, q, r)
  PROVE  /\ Good(ready') /\ Alike(q, ready') /\ reads' \in Seq(Parts)
         /\ \/ UNCHANGED <<status, timer>> /\ HasRead(reads', ready')
            \/ status' = "WaitingToConnect" /\ timer' = TRUE
<1>1. CASE StartRead(IF part = "header" THEN "body" ELSE "header", q, r) /\ UNCHANGED <<status, timer>>
  <2>1. (IF part = "header" THEN "body" ELSE "header") \in Parts
    BY DEF Parts
  <2> QED BY <1>1, <2>1, StartReadIs
<1>2. CASE ErrorHandler(q) /\ reads' = r
  BY <1>2, ErrorHandlerIs
<1> QED BY <1>1, <1>2 DEF AfterRead

LEMMA AfterWriteIs ==
  ASSUME NEW q, Good(q), ~HasWrite(0, q), queue \in 1..MaxQueue, NEW ok, AfterWrite(ok, q, 0)
  PROVE  /\ Good(ready') /\ Chain(writing', ready') /\ Same(Connects, q, ready')
         /\ queue' = queue - 1 /\ queue' \in 0..MaxQueue
         /\ HasWrite(writing', ready') => queue' > 0
         /\ \/ /\ UNCHANGED <<status, timer>> /\ Same({TimerUp}, q, ready')
               /\ ~Absent(q, Reads) => ~Absent(ready', Reads)
            \/ status' = "WaitingToConnect" /\ timer' = TRUE
<1>1. queue' = queue - 1 /\ queue' \in 0..MaxQueue
  BY ClientAssumption DEF AfterWrite
<1>2. Chain(0, q)
  BY AbsentIsFew DEF Chain, HasWrite
<1>3. CASE ready' = q /\ writing' = 0 /\ UNCHANGED <<status, timer>>
  BY <1>1, <1>2, <1>3, SameSelf
<1>4. CASE queue' > 0 /\ StartWrite(q, 0) /\ UNCHANGED <<status, timer>>
  BY <1>1, <1>4, StartWriteIs
<1>5. CASE ErrorHandler(q) /\ writing' = 0
  <2>1. /\ status' = "WaitingToConnect" /\ timer' = TRUE /\ Good(ready')
        /\ Same(Writes, q, ready') /\ Same(Connects, q, ready')
    BY <1>5, ErrorHandlerIs DEF Alike
  <2>2. Chain(0, ready') /\ ~HasWrite(0, ready')
    BY <1>2, <2>1 DEF Chain, HasWrite, Same
  <2> QED BY <1>1, <1>5, <2>1, <2>2
<1> QED BY <1>3, <1>4, <1>5 DEF AfterWrite

\* The attempt is outstanding, or its handler is queued.
Attempted(k) ==
  /\ sock' \in {"connecting", "down"} /\ dialing' \in {0, k}
  /\ dialing' = 0 => ~Absent(ready', Connects)

LEMMA DialIs ==
  ASSUME NEW q, Good(q), NEW r \in Seq(Parts), NEW w, Chain(w, q), NEW d \in 0..NEndpoints,
         NEW k \in 1..NEndpoints, Dial(k, q, r, w, d)
  PROVE  /\ Good(ready') /\ Chain(writing', ready') /\ (HasWrite(writing', ready') <=> HasWrite(w, q))
         /\ Same({TimerUp}, q, ready')
         /\ reads' = <<>> /\ writing' = 0 /\ Attempted(k)
<1> DEFINE v == Void(q)
           a == Aborted(r, w, d)
           e == Connect(FALSE, k)
<1>1. /\ reads' = <<>> /\ writing' = 0
      /\ \/ ready' = v \o a /\ dialing' = k /\ sock' = "connecting"
         \/ ready' = Append(v \o a, e) /\ dialing' = 0 /\ sock' = "down"
  BY DEF Dial, Attempt
<1>2. /\ Good(v) /\ v \in Seq(Completions) /\ Absent(v, {Event})
      /\ Same(Writes, q, v) /\ Same({TimerUp}, q, v)
  BY VoidIs, EntryTypes
<1>3. /\ a \in Seq(Completions) /\ Absent(a, {Event}) /\ Absent(a, {TimerUp})
      /\ AtMostOne(a, Writes) /\ (Absent(a, Writes) <=> w = 0) /\ w \in {0, 1}
  BY AbortedIs DEF Chain
<1> HIDE DEF v, a
<1>4. Good(v \o a) /\ Absent(v \o a, {Event}) /\ v \o a \in Seq(Completions)
  BY <1>2, <1>3, GoodConcat, ConcatAbsent, ConcatAt
<1>5. AtMostOne(v, Writes) /\ (Absent(v, Writes) <=> Absent(q, Writes)) /\ (w = 1 => Absent(q, Writes))
  BY <1>2 DEF Chain, Same
<1>6. /\ AtMostOne(v \o a, Writes)
      /\ Absent(v \o a, Writes) <=> Absent(v, Writes) /\ Absent(a, Writes)
  BY <1>2, <1>3, <1>5, ConcatAbsent
<1>7. Same({TimerUp}, q, v \o a)
  <2>1. Same({TimerUp}, v, v \o a)
    BY <1>2, <1>3, ConcatAbsent DEF Same
  <2> QED BY <1>2, <2>1, SameTrans
<1>8. Chain(0, v \o a) /\ (HasWrite(0, v \o a) <=> HasWrite(w, q))
  BY <1>3, <1>5, <1>6 DEF Chain, HasWrite
<1>9. CASE ready' = v \o a /\ dialing' = k
  <2>1. k # 0
    BY ClientAssumption
  <2> QED BY <1>1, <1>4, <1>7, <1>8, <1>9, <2>1 DEF Attempted
<1>10. CASE ready' = Append(v \o a, e) /\ dialing' = 0
  <2> DEFINE o == v \o a
  <2>1. e \in Completions /\ e \in Connects /\ e \notin Writes /\ e # Event /\ e # TimerUp
    BY EntryTypes
  <2> HIDE DEF e, o
  <2>2. <<e>> \in Seq(Completions) /\ Absent(<<e>>, {Event})
    BY <2>1 DEF Absent
  <2>3. Good(o \o <<e>>) /\ o \o <<e>> = Append(o, e) /\ o \in Seq(Completions)
    BY <1>4, <2>1, <2>2, GoodConcat, ConcatFew DEF o
  <2>4. /\ ~Absent(Append(o, e), Connects) /\ Same({TimerUp}, o, Append(o, e))
        /\ Same(Writes, o, Append(o, e))
    BY <2>1, <2>3, AppendPresent, SameAppend
  <2>5. Chain(0, Append(o, e)) /\ (HasWrite(0, Append(o, e)) <=> HasWrite(w, q))
    BY <1>8, <2>4 DEF Chain, HasWrite, Same, o
  <2>6. Same({TimerUp}, q, Append(o, e))
    BY <1>7, <2>4, SameTrans DEF o
  <2>7. ready' = Append(o, e)
    BY <1>10 DEF o
  <2> QED BY <1>1, <1>10, <2>3, <2>4, <2>5, <2>6, <2>7 DEF Attempted
<1> QED BY <1>1, <1>9, <1>10

\* The end of an attempt to connect.
LEMMA AfterConnectIs ==
  ASSUME NEW q, Good(q), NEW r \in Seq(Parts), NEW w, Chain(w, q), NEW d \in 0..NEndpoints,
         NEW k \in 1..NEndpoints, NEW ok \in BOOLEAN, AfterConnect(ok, k, q, r, w, d)
  PROVE  /\ Good(ready') /\ Chain(writing', ready') /\ (HasWrite(writing', ready') <=> HasWrite(w, q))
         /\ reads' \in Seq(Parts)
         /\ \/ /\ ok /\ status' = "Connected" /\ timer' = timer /\ dialing' = d
               /\ HasRead(reads', ready') /\ Same(Connects, q, ready')
            \/ /\ ~ok /\ k < NEndpoints /\ UNCHANGED <<status, timer>>
               /\ Attempted(k + 1) /\ Same({TimerUp}, q, ready')
            \/ /\ ~ok /\ ~(k < NEndpoints) /\ status' = "WaitingToConnect" /\ timer' = TRUE
               /\ dialing' = d
<1>1. CASE /\ ok /\ status' = "Connected" /\ StartRead("header", q, r)
           /\ writing' = w /\ dialing' = d /\ UNCHANGED timer
  <2>1. "header" \in Parts
    BY DEF Parts
  <2>2. Good(ready') /\ Alike(q, ready') /\ reads' \in Seq(Parts) /\ HasRead(reads', ready')
    BY <1>1, <2>1, StartReadIs
  <2>3. Chain(w, ready') /\ (HasWrite(w, ready') <=> HasWrite(w, q)) /\ Same(Connects, q, ready')
    BY <2>2 DEF Alike, Chain, HasWrite, Same
  <2> QED BY <1>1, <2>2, <2>3
<1>2. CASE ~ok /\ MoreEndpoints(k) /\ Dial(k + 1, q, r, w, d) /\ UNCHANGED <<status, timer>>
  <2>1. /\ Good(ready') /\ Chain(writing', ready') /\ (HasWrite(writing', ready') <=> HasWrite(w, q))
        /\ Same({TimerUp}, q, ready') /\ reads' = <<>> /\ Attempted(k + 1)
    <3>1. k + 1 \in 1..NEndpoints
      BY <1>2, ClientAssumption DEF MoreEndpoints
    <3> QED BY <1>2, <3>1, DialIs
  <2>2. <<>> \in Seq(Parts)
    OBVIOUS
  <2> QED BY <1>2, <2>1, <2>2 DEF MoreEndpoints
<1>3. CASE ~ok /\ ~MoreEndpoints(k) /\ ErrorHandler(q) /\ reads' = r /\ writing' = w /\ dialing' = d
  <2>1. status' = "WaitingToConnect" /\ timer' = TRUE /\ Good(ready') /\ Alike(q, ready')
    BY <1>3, ErrorHandlerIs
  <2>2. Chain(w, ready') /\ (HasWrite(w, ready') <=> HasWrite(w, q))
    BY <2>1 DEF Alike, Chain, HasWrite, Same
  <2> QED BY <1>3, <2>1, <2>2 DEF MoreEndpoints
<1> QED BY <1>1, <1>2, <1>3 DEF AfterConnect

\* The reads that an event completes are queued.
LEMMA ReadsQueued ==
  ASSUME NEW q, Good(q), NEW r \in Seq(Parts), NEW n \in 0..Len(r), NEW ok \in BOOLEAN
  PROVE  LET p == q \o ReadsDone(First(r, n), ok)
         IN  /\ Good(p) /\ Alike(q, p) /\ Without(r, n) \in Seq(Parts)
             /\ Absent(q, {Event}) => Absent(p, {Event})
             /\ HasRead(r, q) => HasRead(Without(r, n), p)
<1> DEFINE f == First(r, n)
           l == Without(r, n)
           c == ReadsDone(f, ok)
           p == q \o c
<1>1. f \in Seq(Parts) /\ l \in Seq(Parts) /\ Len(f) = n /\ Len(l) = Len(r) - n /\ Len(r) \in Nat
  BY CutAbsent DEF First, Without
<1>2. /\ c \in Seq(Completions) /\ Absent(c, {Event}) /\ Absent(c, {TimerUp})
      /\ Absent(c, Writes) /\ Absent(c, Connects) /\ (f # <<>> => ~Absent(c, Reads))
  BY <1>1, ReadsDoneIs
<1>3. r # <<>> => l # <<>> \/ f # <<>>
  BY <1>1
<1> HIDE DEF f, l, c
<1>4. q \in Seq(Completions)
  BY DEF Good
<1>5. Good(p)
  BY <1>2, GoodConcat
<1>6. Alike(q, p)
  BY <1>2, <1>4, ConcatAbsent DEF Alike, Same
<1>7. Absent(p, {Event}) <=> Absent(q, {Event}) /\ Absent(c, {Event})
  BY <1>2, <1>4, ConcatAbsent
<1>8. Absent(p, Reads) <=> Absent(q, Reads) /\ Absent(c, Reads)
  BY <1>2, <1>4, ConcatAbsent
<1>9. HasRead(r, q) => HasRead(l, p)
  BY <1>2, <1>3, <1>8 DEF HasRead
<1> HIDE DEF p
<1> QED BY <1>1, <1>2, <1>5, <1>6, <1>7, <1>9 DEF p, c, f, l

\* So is the write that an event completes.
LEMMA WritesQueued ==
  ASSUME NEW q, Good(q), NEW w, Chain(w, q), NEW v \in 0..w, NEW ok \in BOOLEAN
  PROVE  LET p == q \o WritesDone(v, ok)
         IN  /\ Good(p) /\ Chain(w - v, p) /\ (HasWrite(w - v, p) <=> HasWrite(w, q))
             /\ Same(Connects, q, p) /\ Same({TimerUp}, q, p)
<1> DEFINE c == WritesDone(v, ok)
           p == q \o c
<1>1. w \in {0, 1} /\ v \in {0, 1} /\ w - v \in {0, 1} /\ (v = 1 => w = 1 /\ w - v = 0)
      /\ (v = 0 => w - v = w)
  BY DEF Chain
<1>2. /\ c \in Seq(Completions) /\ Absent(c, {Event}) /\ Absent(c, {TimerUp})
      /\ Absent(c, Connects) /\ AtMostOne(c, Writes) /\ (Absent(c, Writes) <=> v = 0)
  BY <1>1, WritesDoneIs
<1> HIDE DEF c
<1>3. q \in Seq(Completions)
  BY DEF Good
<1>4. Good(p)
  BY <1>2, GoodConcat
<1>5. Same(Connects, q, p) /\ Same({TimerUp}, q, p)
  BY <1>2, <1>3, ConcatAbsent DEF Same
<1>6. /\ Absent(p, Writes) <=> Absent(q, Writes) /\ Absent(c, Writes)
      /\ AtMostOne(q, Writes) /\ Absent(c, Writes) => AtMostOne(p, Writes)
      /\ Absent(q, Writes) /\ AtMostOne(c, Writes) => AtMostOne(p, Writes)
  BY <1>2, <1>3, ConcatAbsent
<1> HIDE DEF p
<1>7. Chain(w - v, p) /\ (HasWrite(w - v, p) <=> HasWrite(w, q))
  <2>1. CASE v = 0
    <3>1. w - v = w /\ Absent(c, Writes)
      BY <1>1, <1>2, <2>1
    <3> QED BY <1>6, <3>1 DEF Chain, HasWrite
  <2>2. CASE v = 1
    <3>1. w - v = 0 /\ w = 1 /\ ~Absent(c, Writes)
      BY <1>1, <1>2, <2>2
    <3> QED BY <1>2, <1>6, <3>1 DEF Chain, HasWrite
  <2> QED BY <1>1, <2>1, <2>2
<1> QED BY <1>4, <1>5, <1>7 DEF p, c

\* The handler at the head of the queue is taken.
LEMMA TakenIs ==
  ASSUME Inv, NEW op, NextIs(op)
  PROVE  /\ Good(Tail(ready)) /\ Head(ready) \in Completions /\ Head(ready).op = op
         /\ Head(ready).ok \in BOOLEAN /\ running = "idle"
         /\ op \notin Parts => Same(Reads, ready, Tail(ready))
         /\ op # "write" => Same(Writes, ready, Tail(ready))
         /\ op # "connect" => Same(Connects, ready, Tail(ready))
         /\ op = "connect" => ~Absent(ready, Connects) /\ Head(ready).at \in 1..NEndpoints
         /\ op # "timer" => Same({TimerUp}, ready, Tail(ready))
         /\ op = "write" => ~Absent(ready, Writes) /\ (AtMostOne(ready, Writes) => Absent(Tail(ready), Writes))
         /\ op = "io" => Absent(Tail(ready), {Event}) /\ Absent(Tail(ready), Connects)
<1> DEFINE h == Head(ready)
           t == Tail(ready)
<1>1. /\ ready \in Seq(Completions) /\ ready # <<>> /\ h.op = op /\ running = "idle"
      /\ Good(ready)
  BY DEF Inv, Good, NextIs
<1>2. Good(t) /\ h \in Completions /\ (h = Event => Absent(t, {Event}) /\ Absent(t, Connects))
  BY <1>1, GoodTail
<1>3. /\ op \notin Parts => h \notin Reads
      /\ op # "write" => h \notin Writes
      /\ op # "connect" => h \notin Connects
      /\ op = "connect" => h \in Connects
      /\ op = "write" => h \in Writes
  BY <1>1, <1>2 DEF Reads, Writes, Connects, Parts
<1>4. op # "timer" => h \notin {TimerUp}
  BY <1>1 DEF TimerUp, Done
<1>5. op = "io" => h = Event
  BY <1>1, <1>2 DEF Completions
<1>6. op = "connect" => h.at \in 1..NEndpoints
  <2> HIDE DEF h
  <2>1. Event.op = "io"
    BY DEF Event, Done
  <2>2. ASSUME op = "connect"
        PROVE  h \in [op : {"connect"}, ok : {FALSE}, at : 1..NEndpoints]
    BY <1>1, <1>2, <2>1, <2>2 DEF Completions
  <2> QED BY <2>2
<1> HIDE DEF h
<1>7. /\ op \notin Parts => Same(Reads, ready, t)
      /\ op # "write" => Same(Writes, ready, t)
      /\ op # "connect" => Same(Connects, ready, t)
      /\ op # "timer" => Same({TimerUp}, ready, t)
  BY <1>1, <1>3, <1>4, SameTail DEF h
<1>8. op = "connect" => ~Absent(ready, Connects)
  BY <1>1, <1>3, HeadPresent DEF h
<1>9. op = "write" => ~Absent(ready, Writes) /\ (AtMostOne(ready, Writes) => Absent(t, Writes))
  BY <1>1, <1>3, HeadPresent, TailGone DEF h
<1>10. h.ok \in BOOLEAN
  <2>1. Event.ok = TRUE
    BY DEF Event, Done
  <2> QED BY <1>2, <2>1 DEF Completions
<1> HIDE DEF t
<1> QED BY <1>1, <1>2, <1>5, <1>6, <1>7, <1>8, <1>9, <1>10 DEF h, t

-----------------------------------------------------------------------------
(* Every step keeps the invariant.                                         *)

LEMMA InitHolds ==
  ASSUME Init
  PROVE  Inv
<1>1. TypeOK
  <2>1. 0 \in 0..NEndpoints /\ 0 \in 0..MaxQueue /\ 0 \in Nat
    BY ClientAssumption
  <2>2. reads \in Seq({"header", "body"}) /\ ready \in Seq(Completions)
    BY DEF Init
  <2> QED BY <2>1, <2>2 DEF Init, TypeOK, States, SockStates
<1>2. Good(ready) /\ \A E : Absent(ready, E) /\ AtMostOne(ready, E)
  BY DEF Init, Good, Ordered, Absent, AtMostOne
<1>3. WriteInv
  BY <1>2 DEF Init, WriteInv, Chain, HasWrite
<1>4. StatusInv
  BY DEF Init, StatusInv
<1> QED BY <1>1, <1>2, <1>3, <1>4 DEF Inv

\* The application.
LEMMA ApplicationSteps ==
  ASSUME Inv, Application
  PROVE  Inv'
<1>1. TypeOK /\ Good(ready) /\ WriteInv /\ StatusInv /\ ready \in Seq(Completions)
  BY DEF Inv, Good
<1>2. CASE Start
  <2>1. TypeOK'
    BY <1>1, <1>2 DEF Start, TypeOK, States, ioVars, appVars
  <2>2. StatusInv' /\ WriteInv' /\ Good(ready')
    BY <1>1, <1>2 DEF Start, StatusInv, WriteInv, ioVars, appVars
  <2> QED BY <2>1, <2>2 DEF Inv
<1>3. CASE SendEnqueue
  <2>1. TypeOK'
    <3>1. queue + 1 \in 0..MaxQueue /\ WriteDue \in {"idle", "due"}
      BY <1>1, <1>3, ClientAssumption DEF SendEnqueue, TypeOK, WriteInv, WriteDue
    <3> QED BY <1>1, <1>3, <3>1 DEF SendEnqueue, TypeOK, ioVars
  <2>2. StatusInv' /\ Good(ready')
    BY <1>1, <1>3 DEF SendEnqueue, StatusInv, ioVars
  <2>3. WriteInv'
    <3>1. queue \in Nat /\ queue + 1 > 0
      BY <1>1, ClientAssumption DEF TypeOK
    <3>2. queue = 0 => ~HasWrite(writing, ready)
      BY <1>1, <3>1 DEF WriteInv
    <3> QED BY <1>1, <1>3, <3>1, <3>2 DEF SendEnqueue, WriteInv, WriteDue, ioVars
  <2> QED BY <2>1, <2>2, <2>3 DEF Inv
<1>6. CASE SendCheck
  <2>1. TypeOK' /\ StatusInv' /\ Good(ready')
    BY <1>1, <1>6 DEF SendCheck, TypeOK, StatusInv, ioVars
  <2>2. WriteInv'
    BY <1>1, <1>6 DEF SendCheck, WriteInv, ioVars
  <2> QED BY <2>1, <2>2 DEF Inv
<1>4. CASE SendStarts
  <2>1. writing \in {0, 1} /\ ~HasWrite(writing, ready) /\ StartWrite(ready, writing) /\ queue > 0
    BY <1>1, <1>4 DEF SendStarts, WriteInv, Chain
  <2>2. /\ Good(ready') /\ Chain(writing', ready') /\ Same(Connects, ready, ready')
        /\ Same({TimerUp}, ready, ready') /\ (~Absent(ready, Reads) => ~Absent(ready', Reads))
    BY <1>1, <2>1, StartWriteIs
  <2>3. TypeOK'
    BY <1>1, <1>4, <2>2 DEF SendStarts, TypeOK, Good, Chain
  <2>4. WriteInv'
    BY <1>4, <2>1, <2>2 DEF SendStarts, WriteInv
  <2>5. StatusInv'
    BY <1>1, <1>4, <2>2 DEF SendStarts, StatusInv, HasRead, Same
  <2> QED BY <2>2, <2>3, <2>4, <2>5 DEF Inv
<1>5. CASE Release
  <2>1. TypeOK'
    BY <1>1, <1>5 DEF Release, TypeOK, ioVars
  <2>2. StatusInv' /\ WriteInv' /\ Good(ready')
    BY <1>1, <1>5 DEF Release, StatusInv, WriteInv, ioVars
  <2> QED BY <2>1, <2>2 DEF Inv
<1> QED BY <1>2, <1>3, <1>4, <1>5, <1>6 DEF Application

\* The peer, and the system that ends a resolve.
LEMMA OutsideSteps ==
  ASSUME Inv, PeerCloses \/ PeerResets \/ Resolved
  PROVE  Inv'
<1>1. TypeOK /\ Good(ready) /\ WriteInv /\ StatusInv /\ ready \in Seq(Completions)
  BY DEF Inv, Good
<1>2. CASE PeerCloses \/ PeerResets
  <2>1. TypeOK'
    BY <1>1, <1>2 DEF PeerCloses, PeerResets, TypeOK, SockStates, ioVars, appVars
  <2>2. StatusInv' /\ WriteInv' /\ Good(ready')
    BY <1>1, <1>2 DEF PeerCloses, PeerResets, StatusInv, WriteInv, ioVars, appVars
  <2> QED BY <2>1, <2>2 DEF Inv
<1>3. CASE Resolved
  <2>1. CASE status' = "Connecting" /\ Dial(1, ready, reads, writing, dialing) /\ UNCHANGED timer
    <3>1. /\ Good(ready') /\ Chain(writing', ready')
          /\ (HasWrite(writing', ready') <=> HasWrite(writing, ready))
          /\ reads' = <<>> /\ writing' = 0 /\ Attempted(1)
      <4>1. 1 \in 1..NEndpoints
        BY ClientAssumption
      <4> QED BY <1>1, <2>1, <4>1, DialIs DEF TypeOK, WriteInv, Parts
    <3>2. TypeOK'
      BY <1>1, <1>3, <2>1, <3>1, ClientAssumption
      DEF Resolved, TypeOK, States, SockStates, Good, appVars, Attempted
    <3>3. WriteInv'
      BY <1>1, <1>3, <3>1 DEF Resolved, WriteInv, appVars
    <3>4. StatusInv'
      BY <1>3, <2>1, <3>1 DEF Resolved, StatusInv, Attempted
    <3> QED BY <3>1, <3>2, <3>3, <3>4 DEF Inv
  <2>2. CASE ErrorHandler(ready) /\ UNCHANGED <<sock, dialing, reads, writing>>
    <3>1. status' = "WaitingToConnect" /\ timer' = TRUE /\ Good(ready') /\ Alike(ready, ready')
      BY <1>1, <2>2, ErrorHandlerIs
    <3>2. TypeOK'
      BY <1>1, <1>3, <2>2, <3>1 DEF Resolved, TypeOK, States, Good, appVars
    <3>3. WriteInv'
      BY <1>1, <1>3, <2>2, <3>1 DEF Resolved, WriteInv, Chain, HasWrite, Alike, Same, appVars
    <3>4. StatusInv'
      BY <1>3, <3>1 DEF Resolved, StatusInv
    <3> QED BY <3>1, <3>2, <3>3, <3>4 DEF Inv
  <2> QED BY <1>3, <2>1, <2>2 DEF Resolved
<1> QED BY <1>2, <1>3

\* A handler of a read, in its turn or in the event.
LEMMA ReadSteps ==
  ASSUME Inv, HandleRead \/ EventRead
  PROVE  Inv'
<1>1. /\ TypeOK /\ WriteInv /\ StatusInv /\ ready \in Seq(Completions)
      /\ reads \in Seq(Parts)
  BY DEF Inv, Good, TypeOK, Parts
<1>2. /\ Good(Tail(ready)) /\ running = "idle"
      /\ Same(Writes, ready, Tail(ready)) /\ Same(Connects, ready, Tail(ready))
      /\ Same({TimerUp}, ready, Tail(ready))
      /\ \E part \in Parts, ok \in BOOLEAN, r \in Seq(Parts) : AfterRead(part, ok, Tail(ready), r)
      /\ UNCHANGED <<running, sock, dialing, writing, appVars, waits>>
  <2>1. CASE HandleRead
    <3>1. PICK part \in Parts : NextIs(part) /\ AfterRead(part, Head(ready).ok, Tail(ready), reads)
      BY <2>1 DEF HandleRead, Parts
    <3>2. part # "write" /\ part # "connect" /\ part # "timer"
      BY DEF Parts
    <3>3. /\ Good(Tail(ready)) /\ running = "idle"
          /\ Same(Writes, ready, Tail(ready)) /\ Same(Connects, ready, Tail(ready))
          /\ Same({TimerUp}, ready, Tail(ready))
      BY <3>1, <3>2, TakenIs
    <3>4. Head(ready).ok \in BOOLEAN
      BY <3>1, TakenIs
    <3>5. \E p \in Parts, ok \in BOOLEAN, r \in Seq(Parts) : AfterRead(p, ok, Tail(ready), r)
      BY <1>1, <3>1, <3>4
    <3> QED BY <2>1, <3>3, <3>5 DEF HandleRead
  <2>2. CASE EventRead
    <3>1. NextIs("io") /\ reads # <<>>
      BY <2>2 DEF EventRead
    <3>2. PICK got \in BOOLEAN : AfterRead(Head(reads), got, Tail(ready), Tail(reads))
      BY <2>2 DEF EventRead
    <3>3. Head(reads) \in Parts /\ Tail(reads) \in Seq(Parts)
      BY <1>1, <3>1
    <3>4. /\ Good(Tail(ready)) /\ running = "idle"
          /\ Same(Writes, ready, Tail(ready)) /\ Same(Connects, ready, Tail(ready))
          /\ Same({TimerUp}, ready, Tail(ready))
      <4> DEFINE op == "io"
      <4>1. op # "write" /\ op # "connect" /\ op # "timer" /\ NextIs(op)
        BY <3>1
      <4> HIDE DEF op
      <4> QED BY <4>1, TakenIs
    <3>5. \E p \in Parts, ok \in BOOLEAN, r \in Seq(Parts) : AfterRead(p, ok, Tail(ready), r)
      BY <3>2, <3>3
    <3> QED BY <2>2, <3>4, <3>5 DEF EventRead
  <2> QED BY <2>1, <2>2
<1>3. PICK part \in Parts, ok \in BOOLEAN, r \in Seq(Parts) : AfterRead(part, ok, Tail(ready), r)
  BY <1>2
<1>4. /\ Good(ready') /\ Alike(Tail(ready), ready') /\ reads' \in Seq(Parts)
      /\ \/ UNCHANGED <<status, timer>> /\ HasRead(reads', ready')
         \/ status' = "WaitingToConnect" /\ timer' = TRUE
  BY <1>2, <1>3, AfterReadIs
<1>5. Alike(ready, ready')
  BY <1>2, <1>4, AlikeTrans DEF Alike
<1>6. TypeOK'
  BY <1>1, <1>2, <1>4 DEF TypeOK, States, Good, Parts, appVars
<1>7. WriteInv'
  BY <1>1, <1>2, <1>5 DEF WriteInv, Chain, HasWrite, Alike, Same, appVars
<1>8. StatusInv'
  BY <1>1, <1>2, <1>4, <1>5 DEF StatusInv, Alike, Same
<1> QED BY <1>4, <1>6, <1>7, <1>8 DEF Inv

\* A handler of a write.
LEMMA HandleWriteStep ==
  ASSUME Inv, HandleWrite
  PROVE  Inv'
<1>1. TypeOK /\ WriteInv /\ StatusInv
  BY DEF Inv
<1>2. /\ NextIs("write") /\ AfterWrite(Head(ready).ok, Tail(ready), writing)
      /\ UNCHANGED <<running, sock, dialing, reads, sender, held, waits>>
  BY DEF HandleWrite
<1>3. /\ Good(Tail(ready)) /\ running = "idle"
      /\ Same(Reads, ready, Tail(ready)) /\ Same(Connects, ready, Tail(ready))
      /\ Same({TimerUp}, ready, Tail(ready))
      /\ ~Absent(ready, Writes) /\ (AtMostOne(ready, Writes) => Absent(Tail(ready), Writes))
  <2>1. "write" \notin Parts
    BY DEF Parts
  <2> QED BY <1>2, <2>1, TakenIs
<1>4. writing = 0 /\ ~HasWrite(0, Tail(ready)) /\ queue \in 1..MaxQueue /\ sender # "due"
  BY <1>1, <1>3, ClientAssumption DEF WriteInv, Chain, HasWrite, TypeOK
<1>5. AfterWrite(Head(ready).ok, Tail(ready), 0)
  BY <1>2, <1>4
<1>6. /\ Good(ready') /\ Chain(writing', ready') /\ Same(Connects, Tail(ready), ready')
      /\ queue' = queue - 1 /\ queue' \in 0..MaxQueue
      /\ (HasWrite(writing', ready') => queue' > 0)
      /\ \/ /\ UNCHANGED <<status, timer>> /\ Same({TimerUp}, Tail(ready), ready')
            /\ ~Absent(Tail(ready), Reads) => ~Absent(ready', Reads)
         \/ status' = "WaitingToConnect" /\ timer' = TRUE
  BY <1>3, <1>4, <1>5, AfterWriteIs
<1>7. TypeOK'
  <2>1. status' \in States /\ timer' \in BOOLEAN
    BY <1>1, <1>6 DEF TypeOK, States
  <2>2. ready' \in Seq(Completions) /\ writing' \in Nat
    BY <1>6 DEF Good, Chain
  <2> QED BY <1>1, <1>2, <1>6, <2>1, <2>2 DEF TypeOK
<1>8. WriteInv'
  <2>1. sender' = sender /\ (sender = "checked" => queue < MaxQueue)
    BY <1>1, <1>2 DEF WriteInv
  <2>2. sender = "checked" => queue' < MaxQueue
    BY <1>4, <1>6, <2>1, ClientAssumption
  <2> QED BY <1>4, <1>6, <2>1, <2>2 DEF WriteInv
<1>9. StatusInv'
  BY <1>1, <1>2, <1>3, <1>6 DEF StatusInv, HasRead, Same
<1> QED BY <1>6, <1>7, <1>8, <1>9 DEF Inv

\* The handler of an attempt to connect that was aborted or refused at once.
LEMMA HandleConnectStep ==
  ASSUME Inv, HandleConnectFailed
  PROVE  Inv'
<1>1. TypeOK /\ WriteInv /\ StatusInv /\ reads \in Seq(Parts) /\ dialing \in 0..NEndpoints
  BY DEF Inv, TypeOK, Parts
<1> DEFINE k == Head(ready).at
<1>2. /\ NextIs("connect") /\ AfterConnect(FALSE, k, Tail(ready), reads, writing, dialing)
      /\ k < NEndpoints \/ UNCHANGED sock
      /\ UNCHANGED <<running, appVars, waits>>
  BY DEF HandleConnectFailed, MoreEndpoints
<1>3. /\ Good(Tail(ready)) /\ running = "idle" /\ k \in 1..NEndpoints
      /\ Same(Writes, ready, Tail(ready)) /\ Same({TimerUp}, ready, Tail(ready))
      /\ ~Absent(ready, Connects)
  <2> DEFINE op == "connect"
  <2>1. op = "connect" /\ op # "write" /\ op # "timer" /\ NextIs(op)
    BY <1>2
  <2> HIDE DEF op, k
  <2> QED BY <2>1, TakenIs DEF k
<1> HIDE DEF k
<1>4. Chain(writing, Tail(ready)) /\ (HasWrite(writing, Tail(ready)) <=> HasWrite(writing, ready))
  BY <1>1, <1>3 DEF WriteInv, Chain, HasWrite, Same
<1>5. /\ Good(ready') /\ Chain(writing', ready')
      /\ (HasWrite(writing', ready') <=> HasWrite(writing, ready))
      /\ reads' \in Seq(Parts)
      /\ \/ /\ k < NEndpoints /\ UNCHANGED <<status, timer>>
            /\ Attempted(k + 1) /\ Same({TimerUp}, Tail(ready), ready')
         \/ ~(k < NEndpoints) /\ status' = "WaitingToConnect" /\ timer' = TRUE /\ dialing' = dialing
  BY <1>1, <1>2, <1>3, <1>4, AfterConnectIs
<1>6. TypeOK'
  <2>1. status' \in States /\ timer' \in BOOLEAN
    BY <1>1, <1>5 DEF TypeOK, States
  <2>2. ready' \in Seq(Completions) /\ writing' \in Nat
    BY <1>5 DEF Good, Chain
  <2>3. dialing' \in 0..NEndpoints /\ sock' \in SockStates
    BY <1>1, <1>2, <1>3, <1>5, ClientAssumption DEF TypeOK, SockStates, Attempted
  <2> QED BY <1>1, <1>2, <1>5, <2>1, <2>2, <2>3 DEF TypeOK, appVars, Parts
<1>7. WriteInv'
  BY <1>1, <1>2, <1>5 DEF WriteInv, appVars
<1>8. StatusInv'
  <2>1. status # "Connected" /\ status # "Resolving"
    BY <1>1, <1>3 DEF StatusInv
  <2>2. k < NEndpoints => k + 1 # 0
    BY <1>3
  <2> QED BY <1>1, <1>2, <1>3, <1>5, <2>1, <2>2 DEF StatusInv, Same, Attempted
<1> QED BY <1>5, <1>6, <1>7, <1>8 DEF Inv

\* The handlers of the timer.
LEMMA TimerSteps ==
  ASSUME Inv, HandleTimer \/ HandleTimerAborted
  PROVE  Inv'
<1>1. TypeOK /\ WriteInv /\ StatusInv
  BY DEF Inv
<1>2. /\ Good(Tail(ready)) /\ running = "idle"
      /\ Same(Writes, ready, Tail(ready)) /\ Same(Reads, ready, Tail(ready))
      /\ Same(Connects, ready, Tail(ready))
  <2> DEFINE op == "timer"
  <2>1. op \notin Parts /\ op # "write" /\ op # "connect" /\ NextIs(op)
    BY DEF HandleTimer, HandleTimerAborted, Parts
  <2> HIDE DEF op
  <2> QED BY <2>1, TakenIs
<1>3. CASE HandleTimer
  <2>1. TypeOK'
    BY <1>1, <1>2, <1>3 DEF HandleTimer, TypeOK, Good, States, appVars
  <2>2. WriteInv'
    BY <1>1, <1>2, <1>3 DEF HandleTimer, WriteInv, Chain, HasWrite, Same, appVars
  <2>3. StatusInv'
    BY <1>3 DEF HandleTimer, StatusInv
  <2>4. Good(ready')
    BY <1>2, <1>3 DEF HandleTimer
  <2> QED BY <2>1, <2>2, <2>3, <2>4 DEF Inv
<1>4. CASE HandleTimerAborted
  <2>1. /\ status' = "WaitingToConnect" /\ timer' = TRUE /\ Good(ready')
        /\ Alike(Tail(ready), ready')
    BY <1>2, <1>4, ErrorHandlerIs DEF HandleTimerAborted
  <2>2. TypeOK'
    BY <1>1, <1>4, <2>1 DEF HandleTimerAborted, TypeOK, Good, States, appVars
  <2>3. WriteInv'
    <3>1. Same(Writes, Tail(ready), ready')
      BY <2>1 DEF Alike
    <3> QED BY <1>1, <1>2, <1>4, <3>1 DEF HandleTimerAborted, WriteInv, Chain, HasWrite, Same, appVars
  <2>4. StatusInv'
    BY <1>2, <1>4, <2>1 DEF HandleTimerAborted, StatusInv
  <2> QED BY <2>1, <2>2, <2>3, <2>4 DEF Inv
<1> QED BY <1>3, <1>4

\* The event that ends the attempt to connect.
LEMMA EventConnectStep ==
  ASSUME Inv, EventConnect
  PROVE  Inv'
<1>1. TypeOK /\ WriteInv /\ StatusInv /\ reads \in Seq(Parts) /\ dialing \in 1..NEndpoints
  BY ClientAssumption DEF Inv, TypeOK, Parts, EventConnect
<1> DEFINE Queue(ok, v, n) == Tail(ready) \o WritesDone(v, ok) \o ReadsDone(First(reads, n), ok)
<1>2. PICK ok \in BOOLEAN, v \in 0..writing, n \in 0..Len(reads) :
        /\ AfterConnect(ok, dialing, Queue(ok, v, n), Without(reads, n), writing - v, 0)
        /\ IF ok THEN sock' = "up" ELSE ~MoreEndpoints(dialing) => sock' = "down"
  BY DEF EventConnect
<1>3. NextIs("io") /\ UNCHANGED <<running, appVars, waits>>
  BY DEF EventConnect
<1>4. /\ Good(Tail(ready)) /\ running = "idle" /\ Absent(Tail(ready), Connects)
      /\ Same(Writes, ready, Tail(ready)) /\ Same({TimerUp}, ready, Tail(ready))
  <2> DEFINE op == "io"
  <2>1. op = "io" /\ op # "write" /\ op # "timer" /\ NextIs(op)
    BY <1>3
  <2> HIDE DEF op
  <2> QED BY <2>1, TakenIs
<1>5. Chain(writing, Tail(ready)) /\ (HasWrite(writing, Tail(ready)) <=> HasWrite(writing, ready))
  BY <1>1, <1>4 DEF WriteInv, Chain, HasWrite, Same
<1> DEFINE p == Tail(ready) \o WritesDone(v, ok)
           q == p \o ReadsDone(First(reads, n), ok)
           r == Without(reads, n)
           w == writing - v
<1>6. /\ Good(p) /\ Chain(w, p) /\ (HasWrite(w, p) <=> HasWrite(writing, Tail(ready)))
      /\ Same(Connects, Tail(ready), p) /\ Same({TimerUp}, Tail(ready), p)
  BY <1>4, <1>5, WritesQueued
<1> HIDE DEF p, w
<1>7. Good(q) /\ Alike(p, q) /\ r \in Seq(Parts)
  BY <1>1, <1>6, ReadsQueued
<1>8. AfterConnect(ok, dialing, q, r, w, 0)
  BY <1>2 DEF p, w
<1> HIDE DEF q, r
<1>9. /\ Chain(w, q) /\ (HasWrite(w, q) <=> HasWrite(writing, ready))
      /\ Absent(q, Connects) /\ Same({TimerUp}, ready, q)
  BY <1>4, <1>5, <1>6, <1>7 DEF Alike, Chain, HasWrite, Same
<1>10. 0 \in 0..NEndpoints
  BY ClientAssumption
<1>11. /\ Good(ready') /\ Chain(writing', ready')
       /\ (HasWrite(writing', ready') <=> HasWrite(w, q)) /\ reads' \in Seq(Parts)
       /\ \/ /\ ok /\ status' = "Connected" /\ timer' = timer /\ dialing' = 0
             /\ HasRead(reads', ready') /\ Same(Connects, q, ready')
          \/ /\ ~ok /\ dialing < NEndpoints /\ UNCHANGED <<status, timer>>
             /\ Attempted(dialing + 1) /\ Same({TimerUp}, q, ready')
          \/ /\ ~ok /\ ~(dialing < NEndpoints) /\ status' = "WaitingToConnect" /\ timer' = TRUE
             /\ dialing' = 0
  BY <1>1, <1>7, <1>8, <1>9, <1>10, AfterConnectIs
<1>12. TypeOK'
  <2>1. status' \in States /\ timer' \in BOOLEAN
    BY <1>1, <1>11 DEF TypeOK, States
  <2>2. ready' \in Seq(Completions) /\ writing' \in Nat
    BY <1>11 DEF Good, Chain
  <2>3. dialing' \in 0..NEndpoints
    BY <1>1, <1>10, <1>11, ClientAssumption DEF Attempted
  <2>4. sock' \in SockStates
    BY <1>2, <1>11 DEF SockStates, MoreEndpoints, Attempted
  <2> QED BY <1>1, <1>3, <1>11, <2>1, <2>2, <2>3, <2>4 DEF TypeOK, appVars, Parts
<1>13. WriteInv'
  BY <1>1, <1>3, <1>9, <1>11 DEF WriteInv, appVars
<1>14. StatusInv'
  <2>1. status # "Connected" /\ status # "Resolving" /\ dialing + 1 # 0
    BY <1>1, <1>4 DEF StatusInv
  <2>2. running' = "idle"
    BY <1>3, <1>4
  <2>3. CASE ok
    BY <1>9, <1>11, <2>2, <2>3 DEF StatusInv, Same
  <2>4. CASE ~ok
    BY <1>1, <1>9, <1>11, <2>1, <2>2, <2>4 DEF StatusInv, Same, Attempted
  <2> QED BY <2>3, <2>4
<1> QED BY <1>11, <1>12, <1>13, <1>14 DEF Inv

\* The event that ends a write, and the reads with it.
LEMMA EventWriteStep ==
  ASSUME Inv, EventWrite
  PROVE  Inv'
<1>1. TypeOK /\ WriteInv /\ StatusInv /\ reads \in Seq(Parts) /\ writing = 1
  BY DEF Inv, TypeOK, Parts, EventWrite, WriteInv, Chain
<1>2. /\ NextIs("io") /\ UNCHANGED <<running, sock, dialing, sender, held, waits>>
      /\ dialing = 0
  BY DEF EventWrite
<1>3. PICK got \in BOOLEAN, n \in 0..Len(reads) :
        /\ AfterWrite(sock \in {"up", "eof"},
                      Tail(ready) \o ReadsDone(First(reads, n), got), 0)
        /\ reads' = Without(reads, n)
  <2>1. writing - 1 = 0
    BY <1>1
  <2> QED BY <2>1 DEF EventWrite
<1>4. /\ Good(Tail(ready)) /\ running = "idle"
      /\ Same(Reads, ready, Tail(ready)) /\ Same(Writes, ready, Tail(ready))
      /\ Same(Connects, ready, Tail(ready)) /\ Same({TimerUp}, ready, Tail(ready))
  <2> DEFINE op == "io"
  <2>1. op \notin Parts /\ op # "write" /\ op # "connect" /\ op # "timer" /\ NextIs(op)
    BY <1>2 DEF Parts
  <2> HIDE DEF op
  <2> QED BY <2>1, TakenIs
<1> DEFINE q == Tail(ready) \o ReadsDone(First(reads, n), got)
<1>5. /\ Good(q) /\ Alike(Tail(ready), q) /\ Without(reads, n) \in Seq(Parts)
      /\ (HasRead(reads, Tail(ready)) => HasRead(Without(reads, n), q))
  BY <1>1, <1>4, ReadsQueued
<1>6. AfterWrite(sock \in {"up", "eof"}, q, 0)
  BY <1>3
<1> HIDE DEF q
<1>7. ~HasWrite(0, q) /\ queue \in 1..MaxQueue /\ sender # "due"
  <2>1. Absent(ready, Writes) /\ HasWrite(writing, ready)
    BY <1>1 DEF WriteInv, Chain, HasWrite
  <2>2. Absent(q, Writes)
    BY <1>4, <1>5, <2>1 DEF Alike, Same
  <2> QED BY <1>1, <2>1, <2>2, ClientAssumption DEF WriteInv, HasWrite, TypeOK
<1>8. /\ Good(ready') /\ Chain(writing', ready') /\ Same(Connects, q, ready')
      /\ queue' = queue - 1 /\ queue' \in 0..MaxQueue
      /\ (HasWrite(writing', ready') => queue' > 0)
      /\ \/ /\ UNCHANGED <<status, timer>> /\ Same({TimerUp}, q, ready')
            /\ ~Absent(q, Reads) => ~Absent(ready', Reads)
         \/ status' = "WaitingToConnect" /\ timer' = TRUE
  BY <1>5, <1>6, <1>7, AfterWriteIs
<1>9. TypeOK'
  <2>1. status' \in States /\ timer' \in BOOLEAN
    BY <1>1, <1>8 DEF TypeOK, States
  <2>2. ready' \in Seq(Completions) /\ writing' \in Nat
    BY <1>8 DEF Good, Chain
  <2>3. reads' \in Seq({"header", "body"})
    BY <1>3, <1>5 DEF Parts
  <2> QED BY <1>1, <1>2, <1>8, <2>1, <2>2, <2>3 DEF TypeOK
<1>10. WriteInv'
  <2>1. sender' = sender /\ (sender = "checked" => queue < MaxQueue)
    BY <1>1, <1>2 DEF WriteInv
  <2>2. sender = "checked" => queue' < MaxQueue
    BY <1>7, <1>8, <2>1, ClientAssumption
  <2> QED BY <1>7, <1>8, <2>1, <2>2 DEF WriteInv
<1>11. StatusInv'
  <2>1. HasRead(reads, ready) => HasRead(reads', q)
    BY <1>3, <1>4, <1>5 DEF HasRead, Same
  <2>2. (Absent(ready, Connects) <=> Absent(ready', Connects)) /\ Same({TimerUp}, ready, q)
    BY <1>4, <1>5, <1>8 DEF Alike, Same
  <2>3. CASE UNCHANGED <<status, timer>> /\ Same({TimerUp}, q, ready')
             /\ (~Absent(q, Reads) => ~Absent(ready', Reads))
    <3>1. HasRead(reads', q) => HasRead(reads', ready')
      BY <2>3 DEF HasRead
    <3> QED BY <1>1, <1>2, <2>1, <2>2, <2>3, <3>1 DEF StatusInv, Same
  <2>4. CASE status' = "WaitingToConnect" /\ timer' = TRUE
    BY <1>2, <1>4, <2>4 DEF StatusInv
  <2> QED BY <1>8, <2>3, <2>4
<1> QED BY <1>8, <1>9, <1>10, <1>11 DEF Inv

\* The io thread asks the kernel.
LEMMA PollStep ==
  ASSUME Inv, NEW e \in SUBSET {"io", "timer"}, Poll(e)
  PROVE  Inv'
<1>1. TypeOK /\ WriteInv /\ StatusInv /\ Good(ready) /\ ready \in Seq(Completions)
  BY DEF Inv, Good
<1> DEFINE a == IF "io" \in e THEN <<Event>> ELSE <<>>
           b == IF "timer" \in e THEN <<TimerUp>> ELSE <<>>
           p == ready \o a
<1>2. /\ ready' = p \o b /\ timer' = (timer /\ "timer" \notin e)
      /\ UNCHANGED <<status, running, sock, dialing, reads, writing, appVars>>
  BY DEF Poll, TimerUp
<1>3. Absent(ready, {Event})
  BY DEF Poll, Pending, Absent, Event, Done
<1>4. /\ Event \in Completions /\ Event \notin Reads /\ Event \notin Writes /\ Event \notin Connects
      /\ TimerUp \in Completions /\ TimerUp \notin Reads /\ TimerUp \notin Writes
      /\ TimerUp \notin Connects /\ TimerUp # Event
  BY EntryTypes
<1>5. Good(p) /\ Alike(ready, p) /\ Same(Reads, ready, p)
  <2>1. CASE "io" \in e
    <3>1. p = Append(ready, Event)
      BY <1>1, <1>4, <2>1, ConcatFew
    <3>2. Event \notin {TimerUp}
      BY <1>4
    <3> QED BY <1>1, <1>3, <1>4, <3>1, <3>2, GoodEvent, SameAppend DEF Alike
  <2>2. CASE "io" \notin e
    <3>1. p = ready
      BY <1>1, <1>4, <2>2, ConcatFew
    <3> QED BY <1>1, <3>1, AlikeSelf, SameSelf
  <2> QED BY <2>1, <2>2
<1> HIDE DEF p
<1>6. /\ Good(ready') /\ Same(Reads, p, ready') /\ Same(Writes, p, ready') /\ Same(Connects, p, ready')
      /\ "timer" \in e => ~Absent(ready', {TimerUp})
      /\ "timer" \notin e => ready' = p
  <2>1. p \in Seq(Completions)
    BY <1>5 DEF Good
  <2>2. CASE "timer" \in e
    <3>1. ready' = Append(p, TimerUp) /\ TimerUp \in {TimerUp}
      BY <1>2, <1>4, <2>1, <2>2, ConcatFew
    <3> QED BY <1>4, <1>5, <2>1, <2>2, <3>1, GoodAppend, SameAppend, AppendPresent
  <2>3. CASE "timer" \notin e
    <3>1. ready' = p
      BY <1>2, <1>4, <2>1, <2>3, ConcatFew
    <3> QED BY <1>5, <2>3, <3>1, SameSelf
  <2> QED BY <2>2, <2>3
<1>7. /\ Same(Reads, ready, ready') /\ Same(Writes, ready, ready') /\ Same(Connects, ready, ready')
      /\ timer \/ ~Absent(ready, {TimerUp}) => timer' \/ ~Absent(ready', {TimerUp})
  BY <1>2, <1>5, <1>6, SameTrans DEF Alike, Same
<1>8. TypeOK'
  <2>1. timer' \in BOOLEAN /\ waits' \in Nat
    BY <1>1 DEF Poll, TypeOK
  <2> QED BY <1>1, <1>2, <1>6, <2>1 DEF TypeOK, Good, appVars
<1>9. WriteInv'
  BY <1>1, <1>2, <1>7 DEF WriteInv, Chain, HasWrite, Same, appVars
<1>10. StatusInv'
  BY <1>1, <1>2, <1>7 DEF StatusInv, HasRead, Same
<1> QED BY <1>6, <1>8, <1>9, <1>10 DEF Inv

LEMMA InvHolds == Spec => []Inv
<1>1. Init => Inv
  BY InitHolds
<1>2. Inv /\ [Next]_vars => Inv'
  <2> SUFFICES ASSUME Inv, [Next]_vars
               PROVE  Inv'
    OBVIOUS
  <2>1. CASE Application \/ Resolved \/ PeerCloses \/ PeerResets
    BY <2>1, ApplicationSteps, OutsideSteps
  <2>2. CASE Handler
    BY <2>2, ReadSteps, HandleWriteStep, HandleConnectStep, TimerSteps, EventConnectStep,
       EventWriteStep DEF Handler
  <2>3. CASE Polls
    BY <2>3, PollStep DEF Polls
  <2>4. CASE UNCHANGED vars
    BY <2>4 DEF Inv, TypeOK, WriteInv, StatusInv, vars
  <2> QED BY <2>1, <2>2, <2>3, <2>4 DEF Next
<1> QED BY <1>1, <1>2, PTL DEF Spec

-----------------------------------------------------------------------------
(* What this gives.                                                        *)

\* The variables keep their types.
THEOREM TypeCorrect == Spec => []TypeOK
<1>1. Inv => TypeOK
  BY DEF Inv
<1> QED BY <1>1, InvHolds, PTL

\* Whatever the status of a client says, the operation that will call it back is
\* outstanding or its handler is queued: the client never loses the thread.
THEOREM AlwaysCalledBack == Spec => []NeverStranded
<1>1. Inv => NeverStranded
  <2> SUFFICES ASSUME Inv
               PROVE  NeverStranded
    OBVIOUS
  <2>1. ready \in Seq(Completions) /\ StatusInv
    BY DEF Inv, Good
  <2>2. ~Absent(ready, {TimerUp}) => PendingAs("timer", TRUE)
    BY DEF Absent, PendingAs, TimerUp, Done
  <2>3. ~Absent(ready, Connects) => Pending("connect")
    BY DEF Absent, Pending, Connects
  <2>4. ~Absent(ready, Reads) => ReadPending
    BY DEF Absent, Pending, ReadPending, Reads
  <2> QED BY <2>1, <2>2, <2>3, <2>4 DEF NeverStranded, StatusInv, HasRead
<1> QED BY <1>1, InvHolds, PTL

\* A client that reports Connected is not still trying to connect.
THEOREM ConnectedIsConnected == Spec => []ConnectedMeansConnection
<1>1. Inv => ConnectedMeansConnection
  BY DEF Inv, StatusInv, ConnectedMeansConnection
<1> QED BY <1>1, InvHolds, PTL

-----------------------------------------------------------------------------
(* A client that only receives.                                            *)

Free      == dialing = 0 /\ reads = <<>> /\ timer = FALSE
Fresh     == status = "NoState" /\ running = "idle" /\ Free /\ ready = <<>>
Resolves  == status = "Resolving" /\ running = "resolving" /\ Free /\ ready = <<>>
Dials     == /\ status = "Connecting" /\ running = "idle"
             /\ dialing \in 1..NEndpoints /\ reads = <<>> /\ timer = FALSE
             /\ ready \in {<<>>, <<Event>>}
Refused   == /\ status = "Connecting" /\ running = "idle" /\ Free
             /\ \E k \in 1..NEndpoints : ready = <<Connect(FALSE, k)>>
Receives  == /\ status = "Connected" /\ running = "idle"
             /\ dialing = 0 /\ timer = FALSE
             /\ \E part \in Parts : reads = <<part>>
             /\ ready \in {<<>>, <<Event>>}
Reads1    == /\ status = "Connected" /\ running = "idle" /\ Free
             /\ \E part \in Parts, ok \in BOOLEAN : ready = <<Done(part, ok)>>
Waits     == /\ status = "WaitingToConnect" /\ running = "idle"
             /\ dialing = 0 /\ reads = <<>> /\ timer = TRUE /\ ready = <<>>
WaitOver  == status = "WaitingToConnect" /\ running = "idle" /\ Free /\ ready = <<TimerUp>>

\* It does one thing at a time.
Silent == writing = 0 /\ sender = "idle" /\ queue = 0
Lone   == /\ Silent
          /\ Fresh \/ Resolves \/ Dials \/ Refused \/ Receives \/ Reads1 \/ Waits \/ WaitOver

LEMMA HeadIs ==
  ASSUME NEW S, NEW e \in S
  PROVE  Head(<<e>>) = e /\ Tail(<<e>>) = <<>> /\ <<e>> # <<>>
OBVIOUS

LEMMA ConcatShort ==
  ASSUME NEW e
  PROVE  /\ <<>> \o <<>> = <<>> /\ <<>> \o <<>> \o <<>> = <<>>
         /\ <<>> \o <<e>> \o <<>> = <<e>> /\ <<>> \o <<>> \o <<e>> = <<e>>
OBVIOUS

\* What is queued when one thing is under way.
LEMMA QueueIs ==
  ASSUME NEW op, NextIs(op)
  PROVE  /\ ready # <<>>
         /\ ready = <<Event>> => op = "io" /\ Tail(ready) = <<>>
         /\ ready = <<TimerUp>> => op = "timer" /\ Head(ready).ok = TRUE /\ Tail(ready) = <<>>
         /\ \A part \in Parts, ok \in BOOLEAN :
              ready = <<Done(part, ok)>> => op = part /\ Tail(ready) = <<>>
         /\ \A k \in 1..NEndpoints :
              ready = <<Connect(FALSE, k)>> => op = "connect" /\ Head(ready) = Connect(FALSE, k)
                                               /\ Tail(ready) = <<>>
<1>1. Event.op = "io" /\ TimerUp.op = "timer" /\ TimerUp.ok = TRUE
  BY DEF Event, TimerUp, Done
<1>2. \A part \in Parts, ok \in BOOLEAN : Done(part, ok).op = part
  BY DEF Done
<1>3. ASSUME NEW e, ready = <<e>>
      PROVE  e.op = op /\ Head(ready) = e /\ Tail(ready) = <<>>
  <2>1. Head(ready) = e /\ Tail(ready) = <<>>
    BY <1>3
  <2> QED BY <2>1 DEF NextIs
<1>4. ready = <<Event>> => op = "io" /\ Tail(ready) = <<>>
  BY <1>1, <1>3
<1>5. ready = <<TimerUp>> => op = "timer" /\ Head(ready).ok = TRUE /\ Tail(ready) = <<>>
  BY <1>1, <1>3
<1>6. \A part \in Parts, ok \in BOOLEAN :
        ready = <<Done(part, ok)>> => op = part /\ Tail(ready) = <<>>
  BY <1>2, <1>3
<1>7. \A k \in 1..NEndpoints :
        ready = <<Connect(FALSE, k)>> => op = "connect" /\ Head(ready) = Connect(FALSE, k)
                                         /\ Tail(ready) = <<>>
  <2>1. \A k \in 1..NEndpoints : Connect(FALSE, k).op = "connect"
    BY DEF Connect
  <2> QED BY <1>3, <2>1
<1> QED BY <1>4, <1>5, <1>6, <1>7 DEF NextIs

\* The error handler waits.
LEMMA LoneError ==
  ASSUME timer = FALSE, ErrorHandler(<<>>), reads' = <<>>, dialing' = 0, running' = "idle"
  PROVE  Waits'
BY DEF ErrorHandler, Waits

\* The next read.
LEMMA LoneRead ==
  ASSUME status' = "Connected", NEW part \in Parts, StartRead(part, <<>>, <<>>), timer' = FALSE,
         dialing' = 0, running' = "idle"
  PROVE  Receives' \/ Reads1'
<1>1. CASE reads' = Append(<<>>, part) /\ ready' = <<>>
  <2>1. reads' = <<part>>
    BY <1>1
  <2> QED BY <1>1, <2>1 DEF Receives
<1>2. CASE reads' = <<>> /\ ready' = Append(<<>>, Done(part, TRUE))
  <2>1. ready' = <<Done(part, TRUE)>>
    BY <1>2
  <2> QED BY <1>2, <2>1 DEF Reads1, Free
<1> QED BY <1>1, <1>2 DEF StartRead

LEMMA LoneAfterRead ==
  ASSUME status = "Connected", timer = FALSE, NEW part \in Parts, NEW ok,
         AfterRead(part, ok, <<>>, <<>>), dialing' = 0, running' = "idle"
  PROVE  Receives' \/ Reads1' \/ Waits'
<1>1. CASE ErrorHandler(<<>>) /\ reads' = <<>>
  BY <1>1, LoneError
<1>2. CASE StartRead(IF part = "header" THEN "body" ELSE "header", <<>>, <<>>) /\ UNCHANGED <<status, timer>>
  <2>1. (IF part = "header" THEN "body" ELSE "header") \in Parts
    BY DEF Parts
  <2> QED BY <1>2, <2>1, LoneRead
<1> QED BY <1>1, <1>2 DEF AfterRead

\* A new attempt finds nothing to abort.
LEMMA LoneDial ==
  ASSUME NEW k \in 1..NEndpoints, Dial(k, <<>>, <<>>, 0, 0), status' = "Connecting", timer' = FALSE,
         running' = "idle"
  PROVE  (Dials' \/ Refused') /\ writing' = 0
<1>1. Void(<<>>) = <<>>
  BY DEF Void
<1>2. ReadsDone(<<>>, FALSE) = <<>> /\ WritesDone(0, FALSE) = <<>>
  BY DEF ReadsDone, WritesDone
<1>3. Aborted(<<>>, 0, 0) = <<>> /\ <<>> \o <<>> = <<>>
  BY <1>2, ConcatShort DEF Aborted
<1>4. /\ reads' = <<>> /\ writing' = 0
      /\ \/ dialing' = k /\ ready' = <<>>
         \/ dialing' = 0 /\ ready' = Append(<<>>, Connect(FALSE, k))
  BY <1>1, <1>3 DEF Dial, Attempt
<1>5. Append(<<>>, Connect(FALSE, k)) = <<Connect(FALSE, k)>>
  OBVIOUS
<1> QED BY <1>4, <1>5 DEF Dials, Refused, Free

LEMMA LoneStep ==
  ASSUME MaxQueue = 0, Lone, [Next]_vars
  PROVE  Lone' /\ (status = "Connected" /\ status' # "Connected" => status' = "WaitingToConnect")
<1> DEFINE Keeps == status = "Connected" /\ status' # "Connected" => status' = "WaitingToConnect"
<1>1. CASE Start
  <2>1. Fresh /\ Resolves' /\ Silent'
    BY <1>1 DEF Start, Lone, Silent, Fresh, Resolves, Dials, Refused, Receives, Reads1, Waits, WaitOver,
       Free, ioVars, appVars
  <2> QED BY <2>1 DEF Lone, Fresh
<1>2. CASE SendCheck \/ SendEnqueue
  BY <1>2 DEF SendCheck, SendEnqueue, Lone, Silent
<1>3. CASE SendStarts
  BY <1>3 DEF SendStarts, Lone, Silent
<1>4. CASE Release \/ PeerCloses \/ PeerResets \/ UNCHANGED vars
  <2>1. UNCHANGED <<status, running, dialing, reads, writing, timer, ready, sender, queue>>
    BY <1>4 DEF Release, PeerCloses, PeerResets, vars, ioVars, appVars
  <2> QED BY <2>1 DEF Lone, Silent, Fresh, Resolves, Dials, Refused, Receives, Reads1, Waits, WaitOver, Free
<1>5. CASE Resolved
  <2>1. /\ Resolves /\ Silent /\ running' = "idle" /\ UNCHANGED <<appVars, waits>>
        /\ reads = <<>> /\ dialing = 0 /\ writing = 0 /\ ready = <<>> /\ timer = FALSE
    BY <1>5 DEF Resolved, Lone, Silent, Fresh, Resolves, Dials, Refused, Receives, Reads1, Waits, WaitOver, Free
  <2>2. CASE status' = "Connecting" /\ Dial(1, ready, reads, writing, dialing) /\ UNCHANGED timer
    <3>1. 1 \in 1..NEndpoints /\ Dial(1, <<>>, <<>>, 0, 0)
      BY <2>1, <2>2, ClientAssumption
    <3>2. (Dials' \/ Refused') /\ writing' = 0
      BY <2>1, <2>2, <3>1, LoneDial
    <3> QED BY <2>1, <3>2 DEF Lone, Silent, appVars, Resolves
  <2>3. CASE ErrorHandler(ready) /\ UNCHANGED <<sock, dialing, reads, writing>>
    <3>1. Waits'
      BY <2>1, <2>3, LoneError
    <3> QED BY <2>1, <2>3, <3>1 DEF Lone, Silent, appVars, Resolves
  <2> QED BY <1>5, <2>2, <2>3 DEF Resolved
<1>6. CASE HandleRead
  <2>1. PICK part \in Parts : NextIs(part) /\ AfterRead(part, Head(ready).ok, Tail(ready), reads)
    BY <1>6 DEF HandleRead, Parts
  <2>2. part # "io" /\ part # "timer" /\ part # "connect"
    BY DEF Parts
  <2>3. Reads1 /\ Tail(ready) = <<>> /\ Silent
    BY <2>1, <2>2, QueueIs DEF Lone, Fresh, Resolves, Dials, Refused, Receives, Reads1, Waits, WaitOver, Free
  <2>4. /\ status = "Connected" /\ timer = FALSE /\ AfterRead(part, Head(ready).ok, <<>>, <<>>)
        /\ dialing' = 0 /\ running' = "idle"
    BY <1>6, <2>1, <2>3 DEF Reads1, Free, HandleRead
  <2>5. Receives' \/ Reads1' \/ Waits'
    BY <2>4, LoneAfterRead
  <2>6. Silent'
    BY <1>6, <2>3 DEF HandleRead, Silent, appVars
  <2> QED BY <2>5, <2>6 DEF Lone, Receives, Reads1, Waits
<1>7. CASE HandleWrite \/ HandleTimerAborted
  <2>1. PICK op \in {"write", "timer"} :
          NextIs(op) /\ (op = "timer" => ~Head(ready).ok)
    BY <1>7 DEF HandleWrite, HandleTimerAborted
  <2>2. op # "io" /\ op \notin Parts
    BY DEF Parts
  <2> QED BY <2>1, <2>2, QueueIs
      DEF Lone, Fresh, Resolves, Dials, Refused, Receives, Reads1, Waits, WaitOver, Free
<1>8. CASE HandleTimer
  <2>1. NextIs("timer") /\ "timer" # "io" /\ "timer" \notin Parts
    BY <1>8 DEF HandleTimer, Parts
  <2>2. WaitOver /\ Tail(ready) = <<>> /\ Silent
    BY <2>1, QueueIs DEF Lone, Fresh, Resolves, Dials, Refused, Receives, Reads1, Waits, WaitOver, Free
  <2>3. Resolves' /\ Silent'
    BY <1>8, <2>2 DEF HandleTimer, WaitOver, Resolves, Free, Silent, appVars
  <2> QED BY <2>2, <2>3 DEF Lone, WaitOver
<1>9. CASE EventConnect
  <2>1. NextIs("io") /\ dialing # 0 /\ "io" # "timer" /\ "io" \notin Parts
    BY <1>9 DEF EventConnect, Parts
  <2>2. Dials /\ Tail(ready) = <<>> /\ Silent
    BY <2>1, QueueIs DEF Lone, Fresh, Resolves, Dials, Refused, Receives, Reads1, Waits, WaitOver, Free
  <2>3. PICK ok \in BOOLEAN, w \in 0..writing, n \in 0..Len(reads) :
          AfterConnect(ok, dialing, Tail(ready) \o WritesDone(w, ok) \o ReadsDone(First(reads, n), ok),
                       Without(reads, n), writing - w, 0)
    BY <1>9 DEF EventConnect
  <2>4. w = 0 /\ n = 0 /\ writing - w = 0 /\ reads = <<>>
    <3>1. writing = 0 /\ reads = <<>> /\ Len(reads) = 0
      BY <2>2 DEF Silent, Dials
    <3>2. w \in 0..0 /\ n \in 0..0
      BY <3>1
    <3>3. w = 0 /\ n = 0
      BY <3>2
    <3> QED BY <3>1, <3>3
  <2>5. First(<<>>, 0) = <<>> /\ Without(<<>>, 0) = <<>>
    BY DEF First, Without
  <2>6. WritesDone(0, ok) = <<>> /\ ReadsDone(<<>>, ok) = <<>>
    BY DEF WritesDone, ReadsDone
  <2>7. AfterConnect(ok, dialing, <<>>, <<>>, 0, 0)
    <3>1. Tail(ready) \o WritesDone(w, ok) \o ReadsDone(First(reads, n), ok) = <<>>
      BY <2>2, <2>4, <2>5, <2>6, ConcatShort
    <3>2. Without(reads, n) = <<>>
      BY <2>4, <2>5
    <3> QED BY <2>3, <2>4, <3>1, <3>2
  <2>8. /\ running' = "idle" /\ timer = FALSE /\ status = "Connecting" /\ dialing \in 1..NEndpoints
        /\ UNCHANGED <<sender, queue>>
    BY <1>9, <2>2 DEF EventConnect, Dials, appVars
  <2>9. CASE ok /\ status' = "Connected" /\ StartRead("header", <<>>, <<>>)
             /\ writing' = 0 /\ dialing' = 0 /\ UNCHANGED timer
    <3>1. "header" \in Parts
      BY DEF Parts
    <3>2. Receives' \/ Reads1'
      BY <2>8, <2>9, <3>1, LoneRead
    <3> QED BY <2>2, <2>8, <2>9, <3>2 DEF Lone, Silent
  <2>10. CASE MoreEndpoints(dialing) /\ Dial(dialing + 1, <<>>, <<>>, 0, 0) /\ UNCHANGED <<status, timer>>
    <3>1. dialing + 1 \in 1..NEndpoints
      BY <2>8, <2>10, ClientAssumption DEF MoreEndpoints
    <3>2. (Dials' \/ Refused') /\ writing' = 0
      BY <2>8, <2>10, <3>1, LoneDial
    <3> QED BY <2>2, <2>8, <3>2 DEF Lone, Silent
  <2>11. CASE ErrorHandler(<<>>) /\ reads' = <<>> /\ writing' = 0 /\ dialing' = 0
    <3>1. Waits'
      BY <2>8, <2>11, LoneError
    <3> QED BY <2>2, <2>8, <2>11, <3>1 DEF Lone, Silent
  <2> QED BY <2>7, <2>9, <2>10, <2>11 DEF AfterConnect
<1>10. CASE EventWrite
  BY <1>10 DEF EventWrite, Lone, Silent
<1>11. CASE EventRead
  <2>1. NextIs("io") /\ reads # <<>> /\ "io" # "timer" /\ "io" \notin Parts
    BY <1>11 DEF EventRead, Parts
  <2>2. Receives /\ Tail(ready) = <<>> /\ Silent
    BY <2>1, QueueIs DEF Lone, Fresh, Resolves, Dials, Refused, Receives, Reads1, Waits, WaitOver, Free
  <2>3. PICK part \in Parts : reads = <<part>>
    BY <2>2 DEF Receives
  <2>4. Head(reads) = part /\ Tail(reads) = <<>>
    BY <2>3, HeadIs
  <2>5. PICK got \in BOOLEAN : AfterRead(part, got, <<>>, <<>>)
    BY <1>11, <2>2, <2>4 DEF EventRead
  <2>6. /\ status = "Connected" /\ timer = FALSE /\ dialing' = 0 /\ running' = "idle"
        /\ UNCHANGED <<writing, sender, queue>>
    BY <1>11, <2>2 DEF EventRead, Receives, appVars
  <2>7. Receives' \/ Reads1' \/ Waits'
    BY <2>5, <2>6, LoneAfterRead
  <2> QED BY <2>2, <2>6, <2>7 DEF Lone, Silent, Receives, Reads1, Waits
<1>12. CASE Polls
  <2>1. PICK e \in SUBSET {"io", "timer"} : e # {} /\ Poll(e)
    BY <1>12 DEF Polls
  <2>2. UNCHANGED <<status, running, dialing, reads, writing, sender, queue>>
    BY <2>1 DEF Poll, appVars
  <2>3. Silent'
    BY <2>2 DEF Lone, Silent
  <2>4. CASE "io" \in e
    <3>1. Dials \/ Receives
      <4>1. running = "idle" /\ writing = 0 /\ (dialing # 0 \/ reads # <<>>)
        BY <2>1, <2>4 DEF Poll, Lone, Silent
      <4>2. ~(Fresh \/ Resolves \/ Refused \/ Reads1 \/ Waits \/ WaitOver)
        BY <4>1 DEF Fresh, Resolves, Reads1, Refused, Waits, WaitOver, Free
      <4> QED BY <4>2 DEF Lone
    <3>2. ready = <<>>
      <4>1. ~Pending("io")
        BY <2>1 DEF Poll
      <4>2. <<Event>>[1].op = "io" /\ 1 \in DOMAIN <<Event>>
        BY DEF Event, Done
      <4> QED BY <3>1, <4>1, <4>2 DEF Dials, Receives, Pending
    <3>3. "timer" \notin e /\ timer = FALSE
      BY <2>1, <3>1 DEF Poll, Dials, Receives
    <3>4. ready' = <<Event>> /\ timer' = FALSE
      BY <2>1, <2>4, <3>2, <3>3, ConcatShort DEF Poll
    <3> QED BY <2>2, <2>3, <3>1, <3>4 DEF Lone, Dials, Receives
  <2>5. CASE "io" \notin e
    <3>1. "timer" \in e
      BY <2>1, <2>5
    <3>2. Waits
      BY <2>1, <3>1 DEF Poll, Lone, Fresh, Resolves, Dials, Refused, Receives, Reads1, WaitOver, Free
    <3>3. ready' = <<TimerUp>> /\ timer' = FALSE
      BY <2>1, <2>5, <3>1, <3>2, ConcatShort DEF Poll, Waits, TimerUp
    <3> QED BY <2>2, <2>3, <3>2, <3>3 DEF Lone, Waits, WaitOver, Free
  <2> QED BY <2>4, <2>5
<1>13. CASE HandleConnectFailed
  <2>1. NextIs("connect") /\ "connect" # "io" /\ "connect" # "timer" /\ "connect" \notin Parts
    BY <1>13 DEF HandleConnectFailed, Parts
  <2>2. Refused /\ Silent
    BY <2>1, QueueIs DEF Lone, Fresh, Resolves, Dials, Refused, Receives, Reads1, Waits, WaitOver, Free
  <2>3. PICK k \in 1..NEndpoints : ready = <<Connect(FALSE, k)>>
    BY <2>2 DEF Refused
  <2>4. Head(ready).at = k /\ Tail(ready) = <<>>
    BY <2>1, <2>3, QueueIs DEF Connect
  <2>5. /\ running' = "idle" /\ timer = FALSE /\ status = "Connecting"
        /\ UNCHANGED <<sender, queue>>
        /\ AfterConnect(FALSE, k, <<>>, <<>>, 0, 0)
    BY <1>13, <2>2, <2>4 DEF HandleConnectFailed, Refused, Free, Silent, appVars
  <2>6. CASE MoreEndpoints(k) /\ Dial(k + 1, <<>>, <<>>, 0, 0) /\ UNCHANGED <<status, timer>>
    <3>1. k + 1 \in 1..NEndpoints
      BY <2>6, ClientAssumption DEF MoreEndpoints
    <3>2. (Dials' \/ Refused') /\ writing' = 0
      BY <2>5, <2>6, <3>1, LoneDial
    <3> QED BY <2>2, <2>5, <3>2 DEF Lone, Silent
  <2>7. CASE ErrorHandler(<<>>) /\ reads' = <<>> /\ writing' = 0 /\ dialing' = 0
    <3>1. Waits'
      BY <2>5, <2>7, LoneError
    <3> QED BY <2>2, <2>5, <2>7, <3>1 DEF Lone, Silent
  <2> QED BY <2>5, <2>6, <2>7 DEF AfterConnect
<1> QED BY <1>1, <1>2, <1>3, <1>4, <1>5, <1>6, <1>7, <1>8, <1>9, <1>10, <1>11, <1>12, <1>13
    DEF Next, Application, Handler

LEMMA LoneHolds ==
  ASSUME MaxQueue = 0
  PROVE  Spec => []Lone
<1>1. Init => Lone
  BY DEF Init, Lone, Silent, Fresh, Free
<1>2. Lone /\ [Next]_vars => Lone'
  BY LoneStep
<1> QED BY <1>1, <1>2, PTL DEF Spec

\* One activity at a time: a client that is alive, was started and never sends has
\* one thing under way: a resolve, an attempt to connect, a read, a wait, or the
\* handler of one of them.
THEOREM OneAtATime ==
  ASSUME MaxQueue = 0
  PROVE  Spec => []OneActivity
<1>1. Lone => OneActivity
  <2> SUFFICES ASSUME Lone, status # "NoState"
               PROVE  (IF running = "resolving" THEN 1 ELSE 0)
                        + Cardinality({i \in DOMAIN ready : ready[i] # Event})
                        + (IF dialing # 0 THEN 1 ELSE 0) + Len(reads) + writing
                        + (IF timer THEN 1 ELSE 0) = 1
    BY DEF OneActivity
  <2> DEFINE handlers == {i \in DOMAIN ready : ready[i] # Event}
  <2>1. (Resolves \/ Dials \/ Receives \/ Waits) => Cardinality(handlers) = 0
    <3>1. (Resolves \/ Dials \/ Receives \/ Waits) => handlers = {}
      BY DEF Resolves, Dials, Refused, Receives, Waits
    <3> QED BY <3>1, FS_EmptySet
  <2>2. (Reads1 \/ WaitOver \/ Refused) => Cardinality(handlers) = 1
    <3>1. ASSUME NEW c, ready = <<c>>, c # Event
          PROVE  handlers = {1}
      BY <3>1
    <3>2. \A part \in Parts, ok \in BOOLEAN : Done(part, ok) # Event
      BY EntryTypes DEF Parts
    <3>3. TimerUp # Event
      BY EntryTypes
    <3>5. \A k \in 1..NEndpoints : Connect(FALSE, k) # Event
      BY EntryTypes
    <3>4. (Reads1 \/ WaitOver \/ Refused) => handlers = {1}
      BY <3>1, <3>2, <3>3, <3>5 DEF Reads1, WaitOver, Refused
    <3> QED BY <3>4, FS_Singleton
  <2> HIDE DEF handlers
  <2>3. \A part \in Parts : Len(<<part>>) = 1
    OBVIOUS
  <2>4. CASE Resolves
    BY <2>1, <2>4 DEF Resolves, Free, Lone, Silent, handlers
  <2>5. CASE Dials
    BY <2>1, <2>5 DEF Dials, Lone, Silent, handlers
  <2>6. CASE Receives
    BY <2>1, <2>3, <2>6 DEF Receives, Lone, Silent, handlers
  <2>7. CASE Waits
    BY <2>1, <2>7 DEF Waits, Lone, Silent, handlers
  <2>8. CASE Reads1
    BY <2>2, <2>8 DEF Reads1, Free, Lone, Silent, handlers
  <2>9. CASE WaitOver
    BY <2>2, <2>9 DEF WaitOver, Free, Lone, Silent, handlers
  <2>10. CASE Refused
    <3>1. Cardinality(handlers) = 1
      BY <2>2, <2>10
    <3>2. running = "idle" /\ dialing = 0 /\ reads = <<>> /\ timer = FALSE /\ writing = 0
      BY <2>10 DEF Refused, Free, Lone, Silent
    <3> QED BY <3>1, <3>2 DEF handlers
  <2> QED BY <2>4, <2>5, <2>6, <2>7, <2>8, <2>9, <2>10 DEF Lone, Fresh
<1> QED BY <1>1, LoneHolds, PTL

\* A client that never sends leaves Connected only for WaitingToConnect.
THEOREM GivenUpByError ==
  ASSUME MaxQueue = 0
  PROVE  Spec => LeavesConnectedByError
<1>1. Lone /\ [Next]_vars
        => [status = "Connected" /\ status' # "Connected" => status' = "WaitingToConnect"]_vars
  BY LoneStep
<1> QED BY <1>1, LoneHolds, PTL DEF Spec, LeavesConnectedByError
=============================================================================
