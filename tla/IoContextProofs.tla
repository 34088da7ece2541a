-------------------------- MODULE IoContextProofs --------------------------
(***************************************************************************)
(* Proofs about IoContext, for any number of operations, sockets and units *)
(* that become available: types, the count of outstanding work, and that   *)
(* it implements AsyncOps.                                                 *)
(***************************************************************************)
EXTENDS IoContext, SequenceLemmas, FiniteSetTheorems, TLAPS

\* What goes with the position of each thread.
ControlInv ==
  /\ Len(type) = Len(result)
  /\ io \notin {"handler", "post"} => pwork = 0
  /\ io # "handler" => cur = 0
  /\ cur # 0 => cur \in DOMAIN result /\ runs[cur] # 0
  /\ io # "post" => rest = <<>>
  /\ app.at \in {"new", "idle"} => app.ops = <<>>
  /\ app.at = "completes" => Len(app.ops) = 1

Holds(s, o) == IF Absent(s, {o}) THEN 0 ELSE 1

\* Where the operation o is: as long as it is pending in the queue of its type, then,
\* until its handler runs, in one of four places.
Placed(o) ==
  Holds(opq, o) + Holds(private, o) + Holds(rest, o) + Holds(app.ops, o)

PlacedWell(o) ==
  /\ AtMostOne(opq, {o}) /\ AtMostOne(private, {o})
  /\ AtMostOne(rest, {o}) /\ AtMostOne(app.ops, {o})
  /\ Placed(o) <= 1
  /\ Placed(o) = 1 => /\ o \in DOMAIN result /\ result[o] \in {"ok", "aborted"}
                      /\ runs[o] = 0
  /\ \A t \in Types : /\ AtMostOne(q[t], {o})
                      /\ ~Absent(q[t], {o}) => /\ o \in DOMAIN result /\ type[o] = t
                                               /\ result[o] = "pending" /\ runs[o] = 0
  /\ o \notin DOMAIN result => runs[o] = 0

PlaceInv == \A o \in Ops : PlacedWell(o)

-----------------------------------------------------------------------------
(* Types.                                                                  *)

\* What the queues of the scheduler may hold.
Entry   == Ops \cup {Task, Desc}
Private == Ops \cup {Desc}
Results == {"pending", "ok", "aborted"}

LEMMA EntryType ==
  /\ Task \in Entry /\ Desc \in Entry /\ Desc \in Private /\ MaxOps \in Nat /\ MaxUnits \in Nat
  /\ Ops \subseteq Entry /\ Ops \subseteq Private /\ Private \subseteq Entry
  /\ Task \notin Ops /\ Desc \notin Ops /\ Task # Desc
  /\ \A o \in Ops : o \in Nat /\ o # 0
BY IoAssumption DEF Entry, Private, Task, Desc, Ops

\* A queue of a part of the entries.
LEMMA SeqWider ==
  ASSUME NEW S, NEW T, S \subseteq T, NEW s \in Seq(S)
  PROVE  s \in Seq(T)
OBVIOUS

\* perform_io never completes more operations than there are, nor takes more units.
LEMMA CompletedType ==
  ASSUME NEW t \in Types, NEW n \in Nat, NEW l \in Nat
  PROVE  /\ Completed(t, n, l).n \in 0..n /\ Completed(t, n, l).exhausted \in BOOLEAN
         /\ Taken(t, Completed(t, n, l), l) \in 0..l
<1> DEFINE w == Want(t)
           full == l \div w
<1>1. w \in {1, 2}
  BY DEF Want
<1> HIDE DEF w
<1>2. full \in Nat /\ full * w <= l
  <2>1. CASE w = 1
    BY <2>1
  <2>2. CASE w = 2
    BY <2>2
  <2> QED BY <1>1, <2>1, <2>2
<1> HIDE DEF full
<1>3. CASE n <= full
  <2>1. Completed(t, n, l) = [n |-> n, exhausted |-> FALSE]
    BY <1>3 DEF Completed, full, w
  <2>2. n * w <= l
    BY <1>1, <1>2, <1>3
  <2> QED BY <1>1, <2>1, <2>2 DEF Taken, w
<1>4. CASE ~(n <= full) /\ l % w = 0
  <2>1. Completed(t, n, l) = [n |-> full, exhausted |-> FALSE]
    BY <1>4 DEF Completed, full, w
  <2> QED BY <1>1, <1>2, <1>4, <2>1 DEF Taken, w
<1>5. CASE ~(n <= full) /\ l % w # 0
  <2>1. Completed(t, n, l) = [n |-> full + 1, exhausted |-> TRUE]
    BY <1>5 DEF Completed, full, w
  <2> QED BY <1>2, <1>5, <2>1 DEF Taken
<1> QED BY <1>3, <1>4, <1>5

LEMMA WakeType ==
  ASSUME TypeOK, Wake
  PROVE  signal' \in BOOLEAN /\ tint' \in BOOLEAN /\ irq' \in BOOLEAN
BY DEF Wake, TypeOK

LEMMA PostType ==
  ASSUME TypeOK, NEW ops \in Seq(Entry), Post(ops)
  PROVE  /\ opq' = opq \o ops /\ opq' \in Seq(Entry)
         /\ signal' \in BOOLEAN /\ tint' \in BOOLEAN /\ irq' \in BOOLEAN
<1>1. opq' = opq \o ops /\ opq \in Seq(Entry)
  BY DEF Post, TypeOK, Entry
<1> QED BY <1>1, ConcatAt, WakeType DEF Post

\* The variables of an operation on the socket.
OperationType ==
  /\ q' \in [Types -> Seq(Ops)] /\ spec' \in [Types -> BOOLEAN]
  /\ open' \in BOOLEAN /\ opens' \in 0..MaxOpens /\ out' \in BOOLEAN
  /\ level' \in [Types -> 0..MaxUnits] /\ edge' \in BOOLEAN
  /\ events' \subseteq Types /\ units' \in 0..MaxEvents
  /\ type' \in Seq(Types) /\ Len(type') <= MaxOps
  /\ result' \in Seq(Results) /\ runs' \in [Ops -> Nat]
  /\ Len(type') = Len(result')

LEMMA StartType ==
  ASSUME TypeOK, ControlInv, NEW t \in Types, StartedQueued(t) \/ StartedImmediate(t)
  PROVE  /\ OperationType /\ Len(type') = Len(type) + 1 /\ Len(type') \in Ops
         /\ \E r \in Results : result' = Append(result, r)
         /\ type' = Append(type, t) /\ runs' = runs
<1>1. /\ q \in [Types -> Seq(Ops)] /\ spec \in [Types -> BOOLEAN] /\ level \in [Types -> 0..MaxUnits]
      /\ type \in Seq(Types) /\ result \in Seq(Results) /\ Len(type) = Len(result)
      /\ Len(type) \in Nat
  BY DEF TypeOK, ControlInv, Results
<1>2. Len(type) < MaxOps /\ type' = Append(type, t) /\ runs' = runs
      /\ UNCHANGED <<open, opens, events, units>>
  BY DEF StartedQueued, StartedImmediate
<1>3. PICK r \in Results : result' = Append(result, r)
  BY DEF StartedQueued, StartedImmediate, Results
<1>4. /\ Len(type') = Len(type) + 1 /\ Len(result') = Len(result) + 1 /\ type' \in Seq(Types)
      /\ result' \in Seq(Results) /\ Len(type') <= MaxOps
  BY <1>1, <1>2, <1>3, IoAssumption
<1>5. Len(type) + 1 \in Ops
  BY <1>1, <1>2, IoAssumption DEF Ops
<1>6. CASE StartedQueued(t)
  <2>1. q' = [q EXCEPT ![t] = Append(@, Len(type) + 1)] /\ UNCHANGED <<spec, level>>
        /\ out' = (IF q[t] = <<>> THEN OutAfter(t) ELSE out)
        /\ edge' = (IF out' # out THEN Rearmed(out', level) ELSE edge)
    BY <1>6 DEF StartedQueued
  <2>2. q' \in [Types -> Seq(Ops)]
    <3>1. Append(q[t], Len(type) + 1) \in Seq(Ops)
      BY <1>1, <1>5
    <3> QED BY <1>1, <2>1, <3>1
  <2>3. out' \in BOOLEAN /\ edge' \in BOOLEAN
    BY <2>1 DEF OutAfter, Rearmed, TypeOK
  <2> QED BY <1>1, <1>2, <1>3, <1>4, <1>5, <2>1, <2>2, <2>3 DEF OperationType, TypeOK
<1>7. CASE StartedImmediate(t)
  <2> DEFINE done == Completed(t, 1, level[t])
  <2>1. /\ UNCHANGED <<q, out, edge>>
        /\ \/ /\ spec' = [spec EXCEPT ![t] = ~done.exhausted]
              /\ level' = [level EXCEPT ![t] = @ - Taken(t, done, @)]
           \/ UNCHANGED <<spec, level>>
    BY <1>7 DEF StartedImmediate
  <2>2. level[t] \in Nat /\ level[t] \in 0..MaxUnits
    BY <1>1, IoAssumption
  <2>3. done.exhausted \in BOOLEAN /\ Taken(t, done, level[t]) \in 0..level[t]
    BY <2>2, CompletedType
  <2> HIDE DEF done
  <2>4. level[t] - Taken(t, done, level[t]) \in 0..MaxUnits
    BY <2>2, <2>3, IoAssumption
  <2>5. spec' \in [Types -> BOOLEAN] /\ level' \in [Types -> 0..MaxUnits]
    BY <1>1, <2>1, <2>3, <2>4
  <2> QED BY <1>1, <1>2, <1>3, <1>4, <1>5, <2>1, <2>5 DEF OperationType, TypeOK
<1> QED BY <1>6, <1>7

LEMMA ClosedType ==
  ASSUME TypeOK, ControlInv, Closed
  PROVE  OperationType /\ DOMAIN result' = DOMAIN result /\ runs' = runs /\ type' = type
<1>1. /\ result \in Seq(Results) /\ Len(type) = Len(result) /\ Len(result) \in Nat
      /\ DOMAIN result = 1..Len(result)
  BY DEF TypeOK, ControlInv, Results
<1>2. result' = [o \in DOMAIN result |-> IF result[o] = "pending" THEN "aborted" ELSE result[o]]
  BY DEF Closed
<1>3. result' \in [1..Len(result) -> Results]
  BY <1>1, <1>2 DEF Results
<1>4. result' \in Seq(Results) /\ Len(result') = Len(result) /\ DOMAIN result' = DOMAIN result
  BY <1>1, <1>3, FunctionIsSeq
<1>5. q' \in [Types -> Seq(Ops)] /\ level' \in [Types -> 0..MaxUnits]
  BY IoAssumption DEF Closed, AfterAbort
<1> QED BY <1>1, <1>4, <1>5 DEF Closed, OperationType, TypeOK

\* All operations of a descriptor that is closed.
LEMMA AllOps ==
  ASSUME TypeOK
  PROVE  q["read"] \o q["write"] \in Seq(Ops) /\ q["read"] \o q["write"] \in Seq(Entry)
<1>1. q["read"] \in Seq(Ops) /\ q["write"] \in Seq(Ops)
  BY DEF TypeOK, Types
<1>2. q["read"] \o q["write"] \in Seq(Ops)
  BY <1>1, ConcatAt
<1> QED BY <1>2, SeqWider, EntryType

\* The entry of an operation that waits to be run.
LEMMA PlacedOnce ==
  ASSUME PlaceInv, NEW o \in Ops
  PROVE  /\ Placed(o) \in {0, 1}
         /\ \/ ~Absent(opq, {o}) \/ ~Absent(private, {o}) \/ ~Absent(rest, {o})
            \/ ~Absent(app.ops, {o})
            => /\ Placed(o) = 1 /\ o \in DOMAIN result /\ result[o] \in {"ok", "aborted"}
               /\ runs[o] = 0
<1>1. \A s : Holds(s, o) \in {0, 1} /\ (~Absent(s, {o}) => Holds(s, o) = 1)
  BY DEF Holds
<1>2. Placed(o) <= 1 /\ (Placed(o) = 1 => /\ o \in DOMAIN result /\ result[o] \in {"ok", "aborted"}
                                         /\ runs[o] = 0)
  BY DEF PlaceInv, PlacedWell
<1>3. PICK a \in {0, 1}, b \in {0, 1}, c \in {0, 1}, d \in {0, 1} :
        a = Holds(opq, o) /\ b = Holds(private, o) /\ c = Holds(rest, o) /\ d = Holds(app.ops, o)
  BY <1>1
<1>4. Placed(o) = a + b + c + d
  BY <1>3 DEF Placed
<1>5. Placed(o) \in {0, 1} /\ (a = 1 \/ b = 1 \/ c = 1 \/ d = 1 => Placed(o) = 1)
  BY <1>2, <1>3, <1>4
<1> QED BY <1>1, <1>2, <1>3, <1>5

\* What perform_io takes from the queue of each type, and what is left.
DoneOf(t) == IF t \in events THEN Completed(t, Len(q[t]), level[t])
             ELSE [n |-> 0, exhausted |-> FALSE]
TakenOf(t) == SubSeq(q[t], 1, DoneOf(t).n)
LeftOf(t)  == SubSeq(q[t], DoneOf(t).n + 1, Len(q[t]))
TakenOps   == TakenOf("write") \o TakenOf("read")

LEMMA PerformType ==
  ASSUME TypeOK, NEW t \in Types
  PROVE  /\ DoneOf(t).n \in 0..Len(q[t]) /\ DoneOf(t).exhausted \in BOOLEAN
         /\ level[t] - Taken(t, DoneOf(t), level[t]) \in 0..MaxUnits
         /\ q[t] \in Seq(Ops) /\ TakenOf(t) \in Seq(Ops) /\ LeftOf(t) \in Seq(Ops)
<1>1. q[t] \in Seq(Ops) /\ level[t] \in 0..MaxUnits /\ level[t] \in Nat /\ Len(q[t]) \in Nat
  BY IoAssumption DEF TypeOK
<1>2. /\ DoneOf(t).n \in 0..Len(q[t]) /\ DoneOf(t).exhausted \in BOOLEAN
      /\ Taken(t, DoneOf(t), level[t]) \in 0..level[t]
  <2>1. CASE t \in events
    BY <1>1, <2>1, CompletedType DEF DoneOf
  <2>2. CASE t \notin events
    <3>1. DoneOf(t) = [n |-> 0, exhausted |-> FALSE]
      BY <2>2 DEF DoneOf
    <3> QED BY <1>1, <3>1 DEF Taken, Want
  <2> QED BY <2>1, <2>2
<1>3. level[t] - Taken(t, DoneOf(t), level[t]) \in 0..MaxUnits
  BY <1>1, <1>2, IoAssumption
<1> QED BY <1>1, <1>2, <1>3, CutAbsent DEF TakenOf, LeftOf

LEMMA PerformIs ==
  ASSUME TypeOK, PerformIo
  PROVE  /\ io = "perform" /\ io' = "post" /\ rest' = TakenOps /\ TakenOps \in Seq(Ops)
         /\ q' = [t \in Types |-> LeftOf(t)]
         /\ spec' = [t \in Types |-> IF t \in events THEN SpecAfter(t, DoneOf(t)) ELSE spec[t]]
         /\ level' = [t \in Types |-> level[t] - Taken(t, DoneOf(t), level[t])]
         /\ pwork' = Compensation(Len(TakenOps))
         /\ result' = [o \in DOMAIN result |-> IF ~Absent(TakenOps, {o}) THEN "ok" ELSE result[o]]
         /\ events' = {}
<1>1. TakenOps \in Seq(Ops)
  BY PerformType, ConcatAt DEF Types, TakenOps
<1>2. \A o : ~Absent(TakenOps, {o}) <=> \E i \in DOMAIN TakenOps : TakenOps[i] = o
  BY DEF Absent
<1> DEFINE done == [t \in Types |-> IF t \in events THEN Completed(t, Len(q[t]), level[t])
                                  ELSE [n |-> 0, exhausted |-> FALSE]]
<1>3. \A t \in Types : done[t] = DoneOf(t)
  BY DEF DoneOf
<1>4. LET ops == SubSeq(q["write"], 1, done["write"].n) \o SubSeq(q["read"], 1, done["read"].n)
      IN  /\ q' = [t \in Types |-> SubSeq(q[t], done[t].n + 1, Len(q[t]))]
          /\ spec' = [t \in Types |-> IF t \in events THEN SpecAfter(t, done[t]) ELSE spec[t]]
          /\ level' = [t \in Types |-> level[t] - Taken(t, done[t], level[t])]
          /\ pwork' = Compensation(Len(ops)) /\ rest' = ops
          /\ result' = [o \in DOMAIN result |-> IF \E i \in DOMAIN ops : ops[i] = o THEN "ok"
                                                ELSE result[o]]
          /\ io = "perform" /\ io' = "post" /\ events' = {}
  BY DEF PerformIo
<1> HIDE DEF done
<1>5. SubSeq(q["write"], 1, done["write"].n) \o SubSeq(q["read"], 1, done["read"].n) = TakenOps
  BY <1>3 DEF TakenOps, TakenOf, Types
<1>6. /\ rest' = TakenOps /\ pwork' = Compensation(Len(TakenOps))
      /\ io = "perform" /\ io' = "post" /\ events' = {}
  BY <1>4, <1>5
<1>7. result' = [o \in DOMAIN result |-> IF ~Absent(TakenOps, {o}) THEN "ok" ELSE result[o]]
  BY <1>2, <1>4, <1>5
<1>8. q' = [t \in Types |-> LeftOf(t)]
  BY <1>3, <1>4 DEF LeftOf
<1>9. /\ spec' = [t \in Types |-> IF t \in events THEN SpecAfter(t, DoneOf(t)) ELSE spec[t]]
      /\ level' = [t \in Types |-> level[t] - Taken(t, DoneOf(t), level[t])]
  BY <1>3, <1>4
<1> QED BY <1>1, <1>6, <1>7, <1>8, <1>9

\* The operations that have not finished, among them the one that runs and the one
\* that has completed at once.
LEMMA UnfinishedFinite ==
  ASSUME TypeOK
  PROVE  IsFiniteSet(Unfinished) /\ Cardinality(Unfinished) \in Nat
<1>1. Len(type) \in Nat /\ DOMAIN type = 1..Len(type)
  BY DEF TypeOK
<1>2. IsFiniteSet(DOMAIN type)
  BY <1>1, FS_Interval
<1>3. Unfinished \subseteq DOMAIN type
  BY DEF Unfinished
<1> QED BY <1>2, <1>3, FS_Subset, FS_CardinalityType

\* The count that a handler gives back is not the last one.
LEMMA WorkLeft ==
  ASSUME TypeOK, ControlInv, PlaceInv, WorkCounted, io = "handler"
  PROVE  work + pwork \in Nat /\ work + pwork >= 2
<1>0. work \in Nat /\ pwork \in Nat /\ IsFiniteSet(Unfinished) /\ Cardinality(Unfinished) \in Nat
  BY UnfinishedFinite DEF TypeOK
<1>1. work + pwork = 1 + Cardinality(Unfinished) - NotCounted + (IF cur = 0 THEN 1 ELSE 0)
  <2>1. work + pwork = 1 + Cardinality(Unfinished) - NotCounted + (IF cur = 0 THEN 1 ELSE 0) + 0
    BY DEF WorkCounted
  <2>2. NotCounted \in {0, 1}
    BY DEF NotCounted
  <2> QED BY <1>0, <2>1, <2>2
<1>2. cur # 0 => cur \in Unfinished
  BY DEF ControlInv, Unfinished, TypeOK
<1>3. app.at = "completes" => \E o \in Unfinished : o # cur
  <2> SUFFICES ASSUME app.at = "completes"
               PROVE  \E o \in Unfinished : o # cur
    OBVIOUS
  <2>1. app.ops \in Seq(Ops) /\ Len(app.ops) = 1
    BY DEF TypeOK, ControlInv
  <2>2. app.ops[1] \in Ops /\ ~Absent(app.ops, {app.ops[1]})
    <3>1. app.ops # <<>> /\ Head(app.ops) = app.ops[1] /\ Head(app.ops) \in Ops
      BY <2>1
    <3> QED BY <2>1, <3>1, HeadPresent
  <2>3. app.ops[1] \in DOMAIN result /\ runs[app.ops[1]] = 0
    BY <2>2, PlacedOnce
  <2>4. DOMAIN result = DOMAIN type
    BY DEF TypeOK, ControlInv
  <2>5. app.ops[1] # cur
    BY <2>2, <2>3, EntryType DEF ControlInv
  <2> QED BY <2>3, <2>4, <2>5 DEF Unfinished
<1>4. \A o \in Unfinished : Cardinality(Unfinished) >= 1
  BY <1>0, FS_EmptySet
<1>5. \A o, p \in Unfinished : o # p => Cardinality(Unfinished) >= 2
  <2> SUFFICES ASSUME NEW o \in Unfinished, NEW p \in Unfinished, o # p
               PROVE  Cardinality(Unfinished) >= 2
    OBVIOUS
  <2>1. /\ IsFiniteSet(Unfinished \ {o}) /\ Cardinality(Unfinished \ {o}) = Cardinality(Unfinished) - 1
        /\ p \in Unfinished \ {o}
    BY <1>0, FS_RemoveElement
  <2>2. Cardinality(Unfinished \ {o}) # 0 /\ Cardinality(Unfinished \ {o}) \in Nat
    BY <2>1, FS_EmptySet, FS_CardinalityType
  <2> QED BY <1>0, <2>1, <2>2
<1>6. CASE app.at = "completes"
  BY <1>0, <1>1, <1>2, <1>3, <1>4, <1>5, <1>6 DEF NotCounted
<1>7. CASE app.at # "completes"
  BY <1>0, <1>1, <1>2, <1>4, <1>7 DEF NotCounted
<1> QED BY <1>6, <1>7

LEMMA TypeStep ==
  ASSUME TypeOK, ControlInv, PlaceInv, WorkCounted, [Next]_vars
  PROVE  TypeOK' /\ ControlInv'
<1> USE DEF schedVars, descVars, kernVars, histVars
<1>a. /\ opq \in Seq(Entry) /\ private \in Seq(Private) /\ rest \in Seq(Ops)
      /\ app \in [at : {"new", "idle", "completes", "closes"}, ops : Seq(Ops)]
      /\ app.ops \in Seq(Ops) /\ cur \in Ops \cup {0} /\ work \in Nat /\ pwork \in Nat
      /\ runs \in [Ops -> Nat] /\ type \in Seq(Types) /\ result \in Seq(Results)
      /\ Len(type) = Len(result)
  BY DEF TypeOK, ControlInv, Entry, Private, Results
<1>b. rest \in Seq(Entry) /\ app.ops \in Seq(Entry) /\ private \in Seq(Entry)
  BY <1>a, EntryType, SeqWider
<1>1. CASE RunEmpty
  BY <1>1 DEF RunEmpty, TypeOK, ControlInv, IoStates
<1>2. CASE WaitEnds
  BY <1>2 DEF WaitEnds, TypeOK, ControlInv, IoStates
<1>3. CASE RunTask
  <2>1. Tail(opq) \in Seq(Entry)
    BY <1>3, <1>a DEF RunTask
  <2>2. signal' \in BOOLEAN /\ tint' \in BOOLEAN /\ io' \in {"poll", "block"} /\ io = "top"
    BY <1>3 DEF RunTask, TypeOK
  <2>3. opq' \in Seq(Entry)
    BY <1>3, <2>1 DEF RunTask
  <2>4. UNCHANGED <<private, work, pwork, cur, rest, app, descVars, kernVars, histVars>>
    BY <1>3 DEF RunTask
  <2> QED BY <2>2, <2>3, <2>4 DEF TypeOK, ControlInv, IoStates, Entry
<1>4. CASE RunOperation
  <2>1. opq # <<>> /\ opq' = Tail(opq) /\ Head(opq) # Task /\ io = "top"
    BY <1>4 DEF RunOperation
  <2>2. Head(opq) \in Entry /\ Tail(opq) \in Seq(Entry)
    BY <1>a, <2>1, TailAt
  <2>3. signal' \in BOOLEAN /\ tint' \in BOOLEAN /\ irq' \in BOOLEAN
    <3>1. Wake \/ UNCHANGED <<signal, tint, irq>>
      BY <1>4 DEF RunOperation
    <3> QED BY <3>1, WakeType DEF TypeOK
  <2>4. UNCHANGED <<private, work, pwork, rest, app, descVars, level, edge, events, units,
                    type, result>>
    BY <1>4 DEF RunOperation
  <2>5. CASE Head(opq) = Desc
    <3>1. io' = "perform" /\ cur' = 0 /\ runs' = runs
      BY <1>4, <2>1, <2>5 DEF RunOperation, ControlInv
    <3> QED BY <2>1, <2>2, <2>3, <2>4, <3>1 DEF TypeOK, ControlInv, IoStates, Entry
  <2>6. CASE Head(opq) # Desc
    <3>1. Head(opq) \in Ops
      BY <2>1, <2>2, <2>6 DEF Entry
    <3>2. Head(opq) # 0
      BY <3>1, EntryType
    <3>3. io' = "handler" /\ cur' = Head(opq) /\ runs' = [runs EXCEPT ![cur'] = @ + 1]
      BY <1>4, <2>6, <3>2 DEF RunOperation
    <3>4. Head(opq) \in DOMAIN result /\ runs[Head(opq)] = 0
      <4>1. ~Absent(opq, {Head(opq)})
        BY <1>a, <2>1, HeadPresent
      <4> QED BY <3>1, <4>1, PlacedOnce
    <3>5. runs' \in [Ops -> Nat] /\ runs'[cur'] = 1
      BY <1>a, <3>1, <3>3, <3>4
    <3>6. TypeOK'
      BY <2>1, <2>2, <2>3, <2>4, <3>1, <3>3, <3>5 DEF TypeOK, IoStates, Entry
    <3>7. ControlInv'
      BY <2>1, <2>4, <3>3, <3>4, <3>5 DEF ControlInv
    <3> QED BY <3>6, <3>7
  <2> QED BY <2>5, <2>6
<1>5. CASE TaskCleanup
  <2>1. opq' = opq \o private \o <<Task>> /\ private' = <<>> /\ work' = work + pwork /\ pwork' = 0
        /\ tint' = TRUE /\ io' = "top" /\ io = "cleanup"
        /\ UNCHANGED <<signal, cur, rest, app, descVars, kernVars, histVars>>
    BY <1>5 DEF TaskCleanup
  <2>2. opq' \in Seq(Entry)
    <3>1. <<Task>> \in Seq(Entry) /\ opq \o private \in Seq(Entry)
      BY <1>a, <1>b, EntryType
    <3> QED BY <2>1, <3>1, ConcatAt
  <2> QED BY <1>a, <2>1, <2>2 DEF TypeOK, ControlInv, IoStates, Entry
<1>6. CASE EpollWait
  <2>1. /\ private' \in {private, Append(private, Desc)} /\ events' \in {events, Ready}
        /\ irq' = FALSE /\ edge' = FALSE /\ io' = "cleanup" /\ io \in {"poll", "block"}
        /\ UNCHANGED <<opq, work, pwork, signal, tint, cur, rest, app, descVars, level, units, histVars>>
    BY <1>6 DEF EpollWait
  <2>2. private' \in Seq(Private)
    <3>1. Append(private, Desc) \in Seq(Private)
      BY <1>a, EntryType
    <3> QED BY <1>a, <2>1, <3>1
  <2>3. events' \subseteq Types
    BY <2>1 DEF Ready, TypeOK
  <2> QED BY <2>1, <2>2, <2>3 DEF TypeOK, ControlInv, IoStates, Private
<1>7. CASE PerformIo
  <2>1. /\ io = "perform" /\ io' = "post" /\ rest' = TakenOps /\ TakenOps \in Seq(Ops)
        /\ q' = [t \in Types |-> LeftOf(t)]
        /\ spec' = [t \in Types |-> IF t \in events THEN SpecAfter(t, DoneOf(t)) ELSE spec[t]]
        /\ level' = [t \in Types |-> level[t] - Taken(t, DoneOf(t), level[t])]
        /\ pwork' = Compensation(Len(TakenOps)) /\ events' = {}
        /\ result' = [o \in DOMAIN result |-> IF ~Absent(TakenOps, {o}) THEN "ok" ELSE result[o]]
    BY <1>7, PerformIs
  <2>2. UNCHANGED <<opq, private, work, signal, tint, cur, app, open, opens, out, edge, irq, units,
                    type, runs>>
    BY <1>7 DEF PerformIo
  <2>3. q' \in [Types -> Seq(Ops)] /\ level' \in [Types -> 0..MaxUnits]
    BY <2>1, PerformType
  <2>4. spec' \in [Types -> BOOLEAN]
    BY <2>1, PerformType DEF SpecAfter, TypeOK
  <2>5. pwork' \in Nat
    BY <2>1 DEF Compensation
  <2>6. result' \in Seq(Results) /\ Len(result') = Len(result) /\ DOMAIN result' = DOMAIN result
    <3>1. DOMAIN result = 1..Len(result) /\ Len(result) \in Nat
      BY <1>a
    <3>2. result' \in [1..Len(result) -> Results]
      BY <1>a, <2>1, <3>1 DEF Results
    <3> QED BY <3>1, <3>2, FunctionIsSeq
  <2> QED BY <1>a, <2>1, <2>2, <2>3, <2>4, <2>5, <2>6 DEF TypeOK, ControlInv, IoStates, Results
<1>8. CASE PostRest
  <2>1. /\ io = "post" /\ io' = "handler" /\ rest' = <<>>
        /\ cur' = (IF rest = <<>> THEN 0 ELSE Head(rest))
        /\ runs' = (IF rest = <<>> THEN runs ELSE [runs EXCEPT ![cur'] = @ + 1])
        /\ UNCHANGED <<private, work, pwork, app, descVars, level, edge, events, units, type, result>>
    BY <1>8 DEF PostRest
  <2>2. opq' \in Seq(Entry) /\ signal' \in BOOLEAN /\ tint' \in BOOLEAN /\ irq' \in BOOLEAN
    <3>1. CASE Len(rest) > 1
      <4>1. Tail(rest) \in Seq(Entry)
        BY <1>b, <3>1
      <4>2. Post(Tail(rest))
        BY <1>8, <3>1 DEF PostRest
      <4> QED BY <4>1, <4>2, PostType
    <3>2. CASE ~(Len(rest) > 1)
      BY <1>8, <1>a, <3>2 DEF PostRest, TypeOK
    <3> QED BY <3>1, <3>2
  <2>3. cur' \in Ops \cup {0} /\ runs' \in [Ops -> Nat]
        /\ (cur' # 0 => cur' \in DOMAIN result /\ runs'[cur'] # 0)
    <3>1. CASE rest = <<>>
      BY <1>a, <2>1, <3>1
    <3>2. CASE rest # <<>>
      <4>1. Head(rest) \in Ops /\ ~Absent(rest, {Head(rest)}) /\ cur' = Head(rest)
        BY <1>a, <2>1, <3>2, HeadPresent, TailAt
      <4>2. Head(rest) \in DOMAIN result /\ runs[Head(rest)] = 0
        BY <4>1, PlacedOnce
      <4>3. runs' \in [Ops -> Nat] /\ runs'[cur'] = 1
        BY <1>a, <2>1, <3>2, <4>1, <4>2
      <4> QED BY <4>1, <4>2, <4>3
    <3> QED BY <3>1, <3>2
  <2>4. rest' \in Seq(Ops)
    BY <2>1
  <2>5. TypeOK'
    BY <2>1, <2>2, <2>3, <2>4 DEF TypeOK, IoStates, Entry
  <2>6. ControlInv'
    BY <2>1, <2>3 DEF ControlInv
  <2> QED BY <2>5, <2>6
<1>9. CASE WorkCleanup
  <2>1. /\ work' = (work + pwork) - 1 /\ pwork' = 0 /\ opq' = opq \o private /\ private' = <<>>
        /\ cur' = 0 /\ io' \in {"stopped", "top"} /\ io = "handler"
        /\ UNCHANGED <<signal, tint, rest, app, descVars, kernVars, histVars>>
    BY <1>9 DEF WorkCleanup
  <2>2. opq' \in Seq(Entry)
    BY <1>a, <1>b, <2>1, ConcatAt
  <2>3. work + pwork >= 1
    BY <2>1, WorkLeft
  <2>4. work' \in Nat
    BY <1>a, <2>1, <2>3
  <2> QED BY <2>1, <2>2, <2>4 DEF TypeOK, ControlInv, IoStates, Entry
<1>10. ASSUME NEW t \in Types, HandlerQueues(t) \/ HandlerCompletes(t)
       PROVE  TypeOK' /\ ControlInv'
  <2>1. StartedQueued(t) \/ StartedImmediate(t)
    BY <1>10 DEF HandlerQueues, HandlerCompletes
  <2>2. OperationType /\ Len(type') \in Ops /\ runs' = runs
        /\ \E r \in Results : result' = Append(result, r)
    BY <2>1, StartType
  <2>3. cur \in DOMAIN result => cur \in DOMAIN result'
    BY <1>a, <2>2
  <2>4. UNCHANGED <<io, cur, rest, app>> /\ io = "handler"
    BY <1>10 DEF HandlerQueues, HandlerCompletes
  <2>5. /\ opq' \in Seq(Entry) /\ private' \in Seq(Private) /\ work' \in Nat /\ pwork' \in Nat
        /\ signal' \in BOOLEAN /\ tint' \in BOOLEAN /\ irq' \in BOOLEAN
    <3>1. CASE UNCHANGED <<opq, signal, tint, irq, private, pwork>> /\ work' = work + 1
      BY <1>a, <3>1 DEF TypeOK
    <3>2. CASE UNCHANGED <<opq, work, signal, tint, irq>> /\ pwork' = pwork + 1
               /\ private' = Append(private, Len(type'))
      BY <1>a, <2>2, <3>2, EntryType DEF TypeOK
    <3>3. CASE UNCHANGED <<pwork, private>> /\ work' = work + 1 /\ Post(<<Len(type')>>)
      <4>1. <<Len(type')>> \in Seq(Entry)
        BY <2>2, EntryType
      <4>2. /\ opq' \in Seq(Entry) /\ signal' \in BOOLEAN /\ tint' \in BOOLEAN
            /\ irq' \in BOOLEAN
        BY <3>3, <4>1, PostType
      <4>3. private' \in Seq(Private) /\ work' \in Nat /\ pwork' \in Nat
        BY <1>a, <3>3
      <4> QED BY <4>2, <4>3
    <3> QED BY <1>10, <3>1, <3>2, <3>3 DEF HandlerQueues, HandlerCompletes
  <2>6. TypeOK'
    BY <2>2, <2>4, <2>5 DEF TypeOK, OperationType, Entry, Private, Results
  <2>7. ControlInv'
    BY <2>2, <2>3, <2>4 DEF ControlInv, OperationType
  <2> QED BY <2>6, <2>7
<1>11. CASE HandlerCloses
  <2>1. OperationType /\ DOMAIN result' = DOMAIN result /\ runs' = runs
    BY <1>11, ClosedType DEF HandlerCloses
  <2>2. UNCHANGED <<private, work, pwork, io, cur, rest, app>>
    BY <1>11 DEF HandlerCloses
  <2>3. opq' \in Seq(Entry) /\ signal' \in BOOLEAN /\ tint' \in BOOLEAN /\ irq' \in BOOLEAN
    <3>1. CASE Post(q["read"] \o q["write"])
      BY <3>1, AllOps, PostType
    <3>2. CASE UNCHANGED <<opq, signal, tint, irq>>
      BY <1>a, <3>2 DEF TypeOK
    <3> QED BY <1>11, <3>1, <3>2 DEF HandlerCloses
  <2>4. TypeOK'
    BY <2>1, <2>2, <2>3 DEF TypeOK, OperationType, Entry, Results
  <2>5. ControlInv'
    BY <2>1, <2>2 DEF ControlInv, OperationType
  <2> QED BY <2>4, <2>5
<1>12. ASSUME NEW t \in Types, AppQueues(t) \/ AppCompletes(t)
       PROVE  TypeOK' /\ ControlInv'
  <2>1. StartedQueued(t) \/ StartedImmediate(t)
    BY <1>12 DEF AppQueues, AppCompletes
  <2>2. OperationType /\ Len(type') \in Ops /\ runs' = runs
        /\ \E r \in Results : result' = Append(result, r)
    BY <2>1, StartType
  <2>3. cur \in DOMAIN result => cur \in DOMAIN result'
    BY <1>a, <2>2
  <2>4. UNCHANGED <<opq, private, pwork, signal, tint, irq, io, cur, rest>> /\ app = NoPost
        /\ work' \in {work, work + 1}
        /\ app' \in {NoPost, [at |-> "completes", ops |-> <<Len(type')>>]}
    BY <1>12 DEF AppQueues, AppCompletes
  <2>5. app' \in [at : {"new", "idle", "completes", "closes"}, ops : Seq(Ops)]
    <3>1. <<Len(type')>> \in Seq(Ops)
      BY <2>2
    <3>2. <<>> \in Seq(Ops)
      OBVIOUS
    <3>3. /\ NoPost \in [at : {"new", "idle", "completes", "closes"}, ops : Seq(Ops)]
          /\ [at |-> "completes", ops |-> <<Len(type')>>]
               \in [at : {"new", "idle", "completes", "closes"}, ops : Seq(Ops)]
      BY <3>1, <3>2 DEF NoPost
    <3> QED BY <2>4, <3>3
  <2>6. /\ app'.at \in {"new", "idle"} => app'.ops = <<>>
        /\ app'.at = "completes" => Len(app'.ops) = 1
    BY <2>4 DEF NoPost
  <2>7. work' \in Nat
    BY <1>a, <2>4
  <2>8. TypeOK'
    BY <2>2, <2>4, <2>5, <2>7 DEF TypeOK, OperationType, Results
  <2>9. ControlInv'
    BY <2>2, <2>3, <2>4, <2>6 DEF ControlInv, OperationType
  <2> QED BY <2>8, <2>9
<1>13. CASE AppCloses
  <2>1. OperationType /\ DOMAIN result' = DOMAIN result /\ runs' = runs
    BY <1>13, ClosedType DEF AppCloses
  <2>2. app' = [at |-> "closes", ops |-> q["read"] \o q["write"]]
        /\ UNCHANGED <<opq, private, work, pwork, signal, tint, irq, io, cur, rest>>
    BY <1>13 DEF AppCloses
  <2>3. app' \in [at : {"new", "idle", "completes", "closes"}, ops : Seq(Ops)] /\ app'.at = "closes"
    BY <2>2, AllOps
  <2>4. TypeOK'
    BY <2>1, <2>2, <2>3 DEF TypeOK, OperationType, Results
  <2>5. ControlInv'
    BY <2>1, <2>2, <2>3 DEF ControlInv, OperationType
  <2> QED BY <2>4, <2>5
<1>14. CASE AppPosts \/ AppInitTask
  <2>1. /\ app' = NoPost /\ work' \in {work, work + 1}
        /\ UNCHANGED <<private, pwork, io, cur, rest, descVars, level, edge, events, units, histVars>>
    BY <1>14 DEF AppPosts, AppInitTask
  <2>2. opq' \in Seq(Entry) /\ signal' \in BOOLEAN /\ tint' \in BOOLEAN /\ irq' \in BOOLEAN
    <3>1. CASE Post(app.ops)
      BY <1>b, <3>1, PostType
    <3>2. CASE Post(<<Task>>)
      <4>1. <<Task>> \in Seq(Entry)
        BY EntryType
      <4> QED BY <3>2, <4>1, PostType
    <3>3. CASE UNCHANGED <<opq, signal, tint, irq>>
      BY <1>a, <3>3 DEF TypeOK
    <3> QED BY <1>14, <3>1, <3>2, <3>3 DEF AppPosts, AppInitTask
  <2>3. app' \in [at : {"new", "idle", "completes", "closes"}, ops : Seq(Ops)] /\ app'.at = "idle"
        /\ app'.ops = <<>>
    BY <2>1 DEF NoPost
  <2>4. work' \in Nat
    BY <1>a, <2>1
  <2>5. TypeOK'
    BY <2>1, <2>2, <2>3, <2>4 DEF TypeOK, Entry
  <2>6. ControlInv'
    BY <2>1, <2>3 DEF ControlInv
  <2> QED BY <2>5, <2>6
<1>15. CASE Opened
  <2>1. opens' \in 0..MaxOpens /\ level' \in [Types -> 0..MaxUnits] /\ spec' \in [Types -> BOOLEAN]
    BY <1>15, IoAssumption DEF Opened, Types, TypeOK
  <2>2. /\ open' = TRUE /\ out' = FALSE /\ edge' = FALSE
        /\ UNCHANGED <<schedVars, io, cur, rest, app, q, irq, events, units, histVars>>
    BY <1>15 DEF Opened
  <2>3. TypeOK'
    BY <2>1, <2>2 DEF TypeOK
  <2>4. ControlInv'
    BY <2>2 DEF ControlInv
  <2> QED BY <2>3, <2>4
<1>16. ASSUME NEW t \in Types, PeerActs(t)
       PROVE  TypeOK' /\ ControlInv'
  <2>1. level' = [level EXCEPT ![t] = level[t] + 1] /\ level[t] < MaxUnits /\ units < MaxEvents
        /\ units' = units + 1 /\ edge' = (edge \/ Registered(t))
        /\ UNCHANGED <<schedVars, io, cur, rest, app, descVars, irq, events, histVars>>
    BY <1>16 DEF PeerActs
  <2>2. level[t] + 1 \in 0..MaxUnits /\ units' \in 0..MaxEvents /\ edge' \in BOOLEAN
    BY <2>1, IoAssumption DEF TypeOK, Registered
  <2>3. level' \in [Types -> 0..MaxUnits]
    BY <2>1, <2>2 DEF TypeOK
  <2>4. TypeOK'
    BY <2>1, <2>2, <2>3 DEF TypeOK
  <2>5. ControlInv'
    BY <2>1 DEF ControlInv
  <2> QED BY <2>4, <2>5
<1>17. CASE UNCHANGED vars
  <2>1. TypeOK'
    BY <1>17 DEF vars, TypeOK
  <2>2. ControlInv'
    BY <1>17 DEF vars, ControlInv
  <2> QED BY <2>1, <2>2
<1> QED BY <1>1, <1>2, <1>3, <1>4, <1>5, <1>6, <1>7, <1>8, <1>9, <1>10, <1>11, <1>12, <1>13,
           <1>14, <1>15, <1>16, <1>17 DEF Next, IoThread, Handler, App, AppOpens, HandlerOpens

-----------------------------------------------------------------------------
(* Where each operation is.                                                *)

LEMMA HoldsNumber ==
  ASSUME NEW o, NEW s
  PROVE  Holds(s, o) \in {0, 1} /\ (Holds(s, o) = 0 <=> Absent(s, {o}))
BY DEF Holds

LEMMA HoldsOne ==
  ASSUME NEW S, NEW o, NEW e \in S
  PROVE  /\ <<e>> \in Seq(S) /\ AtMostOne(<<e>>, {o}) /\ Holds(<<e>>, o) = IF e = o THEN 1 ELSE 0
         /\ AtMostOne(<<>>, {o}) /\ Holds(<<>>, o) = 0
BY DEF Holds, Absent, AtMostOne

\* A queue behind another.
LEMMA HoldsConcat ==
  ASSUME NEW S, NEW o, NEW s \in Seq(S), NEW t \in Seq(S), AtMostOne(s, {o}), AtMostOne(t, {o}),
         Holds(s, o) + Holds(t, o) <= 1
  PROVE  /\ s \o t \in Seq(S) /\ AtMostOne(s \o t, {o})
         /\ Holds(s \o t, o) = Holds(s, o) + Holds(t, o)
<1>1. PICK a \in {0, 1}, b \in {0, 1} : a = Holds(s, o) /\ b = Holds(t, o)
  BY HoldsNumber
<1>2. (a = 0 <=> Absent(s, {o})) /\ (b = 0 <=> Absent(t, {o}))
  BY <1>1, HoldsNumber
<1>3. a = 0 \/ b = 0
  BY <1>1
<1>4. /\ Absent(s \o t, {o}) <=> a = 0 /\ b = 0
      /\ AtMostOne(s \o t, {o})
  BY <1>2, <1>3, ConcatAbsent
<1>5. s \o t \in Seq(S)
  OBVIOUS
<1>6. Holds(s \o t, o) = a + b
  BY <1>3, <1>4 DEF Holds
<1> QED BY <1>1, <1>4, <1>5, <1>6

\* The head of a queue leaves it.
LEMMA HoldsTail ==
  ASSUME NEW S, NEW o, NEW s \in Seq(S), s # <<>>, AtMostOne(s, {o})
  PROVE  /\ Tail(s) \in Seq(S) /\ AtMostOne(Tail(s), {o}) /\ Head(s) \in S
         /\ Head(s) = o => Holds(s, o) = 1 /\ Holds(Tail(s), o) = 0
         /\ Head(s) # o => Holds(Tail(s), o) = Holds(s, o)
<1>1. Tail(s) \in Seq(S) /\ Head(s) \in S
  BY TailAt
<1>2. CASE Head(s) = o
  <2>1. Absent(Tail(s), {o}) /\ ~Absent(s, {o})
    BY <1>2, TailGone, HeadPresent
  <2>2. AtMostOne(Tail(s), {o})
    BY <2>1, AbsentIsFew
  <2> QED BY <1>1, <1>2, <2>1, <2>2 DEF Holds
<1>3. CASE Head(s) # o
  <2>1. Same({o}, s, Tail(s))
    BY <1>3, SameTail
  <2> QED BY <1>1, <1>3, <2>1 DEF Holds, Same
<1> QED BY <1>2, <1>3

\* A queue is cut in two.
LEMMA HoldsCut ==
  ASSUME NEW S, NEW o, NEW s \in Seq(S), NEW n \in 0..Len(s), AtMostOne(s, {o})
  PROVE  LET p == SubSeq(s, 1, n)
             r == SubSeq(s, n + 1, Len(s))
         IN  /\ p \in Seq(S) /\ r \in Seq(S) /\ AtMostOne(p, {o}) /\ AtMostOne(r, {o})
             /\ Holds(p, o) + Holds(r, o) = Holds(s, o)
<1> DEFINE p == SubSeq(s, 1, n)
           r == SubSeq(s, n + 1, Len(s))
<1>1. /\ p \in Seq(S) /\ r \in Seq(S) /\ AtMostOne(p, {o}) /\ AtMostOne(r, {o})
      /\ Absent(s, {o}) <=> Absent(p, {o}) /\ Absent(r, {o})
      /\ Absent(p, {o}) \/ Absent(r, {o})
  BY CutAbsent
<1> HIDE DEF p, r
<1>2. Holds(p, o) + Holds(r, o) = Holds(s, o)
  BY <1>1 DEF Holds
<1> QED BY <1>1, <1>2 DEF p, r

\* An operation that goes from one of the queues to another.
LEMMA Moved ==
  ASSUME NEW o \in Ops, PlacedWell(o), Placed(o)' = Placed(o), runs'[o] = runs[o],
         UNCHANGED <<q, type, result>>,
         AtMostOne(opq', {o}), AtMostOne(private', {o}), AtMostOne(rest', {o}),
         AtMostOne(app'.ops, {o})
  PROVE  PlacedWell(o)'
BY DEF PlacedWell

\* An operation whose handler is to run.
LEMMA Ran ==
  ASSUME NEW o \in Ops, PlacedWell(o), Placed(o) = 1, Placed(o)' = 0,
         UNCHANGED <<q, type, result>>,
         AtMostOne(opq', {o}), AtMostOne(private', {o}), AtMostOne(rest', {o}),
         AtMostOne(app'.ops, {o})
  PROVE  PlacedWell(o)'
<1>1. o \in DOMAIN result /\ result[o] # "pending"
  BY DEF PlacedWell
<1> QED BY <1>1 DEF PlacedWell

\* The four places, and how many of them an operation has.
LEMMA Places ==
  ASSUME NEW o \in Ops, TypeOK, PlacedWell(o)
  PROVE  \E a \in {0, 1}, b \in {0, 1}, c \in {0, 1}, d \in {0, 1} :
           /\ a = Holds(opq, o) /\ b = Holds(private, o) /\ c = Holds(rest, o)
           /\ d = Holds(app.ops, o) /\ Placed(o) = a + b + c + d /\ a + b + c + d <= 1
<1>1. PICK a \in {0, 1}, b \in {0, 1}, c \in {0, 1}, d \in {0, 1} :
        /\ a = Holds(opq, o) /\ b = Holds(private, o) /\ c = Holds(rest, o)
        /\ d = Holds(app.ops, o)
  BY HoldsNumber
<1>2. Placed(o) = a + b + c + d
  BY <1>1 DEF Placed
<1>3. Placed(o) <= 1
  BY DEF PlacedWell
<1> QED BY <1>1, <1>2, <1>3

\* The part p of the queue for t.
From(p, t, o) == p \in Seq(Ops) /\ AtMostOne(p, {o}) /\ Holds(p, o) <= Holds(q[t], o)

\* What is true of operations from both queues, p and r: none of them is anywhere else.
Apart(p, r, o) ==
  /\ p \o r \in Seq(Ops) /\ AtMostOne(p \o r, {o})
  /\ Holds(p \o r, o) = Holds(p, o) + Holds(r, o)
  /\ Holds(p \o r, o) = 1 => /\ o \in DOMAIN result /\ result[o] = "pending" /\ runs[o] = 0
                             /\ Placed(o) = 0

LEMMA TwoQueues ==
  ASSUME NEW o \in Ops, TypeOK, PlacedWell(o), NEW s \in Types, NEW t \in Types \ {s},
         NEW p, NEW r, From(p, s, o), From(r, t, o)
  PROVE  Apart(p, r, o)
<1>1. PICK a \in {0, 1}, b \in {0, 1}, c \in {0, 1}, d \in {0, 1} :
        /\ a = Holds(p, o) /\ b = Holds(r, o) /\ c = Holds(q[s], o) /\ d = Holds(q[t], o)
  BY HoldsNumber
<1>2. /\ c = 1 => o \in DOMAIN result /\ type[o] = s /\ result[o] = "pending" /\ runs[o] = 0
      /\ d = 1 => o \in DOMAIN result /\ type[o] = t /\ result[o] = "pending" /\ runs[o] = 0
  BY <1>1, HoldsNumber DEF PlacedWell
<1>3. a + b <= 1
  BY <1>1, <1>2 DEF From
<1>4. /\ p \o r \in Seq(Ops) /\ AtMostOne(p \o r, {o})
      /\ Holds(p \o r, o) = Holds(p, o) + Holds(r, o)
  <2>1. Holds(p, o) + Holds(r, o) <= 1
    BY <1>1, <1>3
  <2> QED BY <2>1, HoldsConcat DEF From
<1>5. a + b = 1 => c = 1 \/ d = 1
  BY <1>1 DEF From
<1>6. result[o] = "pending" => Placed(o) = 0
  <2>1. Placed(o) \in {0, 1}
    BY Places
  <2>2. Placed(o) = 1 => result[o] \in {"ok", "aborted"}
    BY DEF PlacedWell
  <2> QED BY <2>1, <2>2
<1> QED BY <1>1, <1>2, <1>4, <1>5, <1>6 DEF Apart

\* close(): all operations that wait.
LEMMA ClosedPlaces ==
  ASSUME NEW o \in Ops, TypeOK, PlacedWell(o), Closed
  PROVE  LET ops == q["read"] \o q["write"]
         IN  /\ ops \in Seq(Ops) /\ ops \in Seq(Entry) /\ AtMostOne(ops, {o})
             /\ Holds(ops, o) + Placed(o) <= 1
             /\ /\ AtMostOne(opq', {o}) /\ AtMostOne(private', {o}) /\ AtMostOne(rest', {o})
                /\ AtMostOne(app'.ops, {o}) /\ Placed(o)' = Placed(o) + Holds(ops, o)
                => PlacedWell(o)'
<1> DEFINE ops == q["read"] \o q["write"]
<1>1. From(q["read"], "read", o) /\ From(q["write"], "write", o)
  <2>1. \A s : Holds(s, o) <= Holds(s, o)
    BY DEF Holds
  <2> QED BY <2>1 DEF TypeOK, PlacedWell, From, Types
<1>2. /\ ops \in Seq(Ops) /\ AtMostOne(ops, {o})
      /\ Holds(ops, o) = Holds(q["read"], o) + Holds(q["write"], o)
      /\ Holds(ops, o) = 1 => /\ o \in DOMAIN result /\ result[o] = "pending" /\ runs[o] = 0
                             /\ Placed(o) = 0
  <2>1. "read" \in Types /\ "write" \in Types \ {"read"}
    BY DEF Types
  <2>2. Apart(q["read"], q["write"], o)
    BY <1>1, <2>1, TwoQueues
  <2> QED BY <2>2 DEF Apart
<1>3. ops \in Seq(Entry)
  BY AllOps
<1>4. /\ q' = [t \in Types |-> <<>>] /\ UNCHANGED <<type, runs>>
      /\ result' = [i \in DOMAIN result |-> IF result[i] = "pending" THEN "aborted" ELSE result[i]]
  BY DEF Closed, AfterAbort
<1> HIDE DEF ops
<1>5. Holds(ops, o) \in {0, 1} /\ Placed(o) \in {0, 1}
  <2>1. Holds(ops, o) \in {0, 1}
    BY HoldsNumber
  <2> QED BY <2>1, Places
<1>6. ASSUME AtMostOne(opq', {o}), AtMostOne(private', {o}), AtMostOne(rest', {o}),
             AtMostOne(app'.ops, {o}), Placed(o)' = Placed(o) + Holds(ops, o)
      PROVE  PlacedWell(o)'
  <2>1. \A t \in Types : q'[t] = <<>> /\ AtMostOne(q'[t], {o}) /\ Absent(q'[t], {o})
    BY <1>4, AbsentEmpty
  <2>2. DOMAIN result' = DOMAIN result
    BY <1>4
  <2>3. o \in DOMAIN result => result'[o] = IF result[o] = "pending" THEN "aborted" ELSE result[o]
    BY <1>4
  <2>4. Placed(o)' <= 1
    BY <1>2, <1>5, <1>6
  <2>5. Placed(o)' = 1 => o \in DOMAIN result' /\ result'[o] \in {"ok", "aborted"} /\ runs'[o] = 0
    <3>1. CASE Holds(ops, o) = 1
      BY <1>2, <1>4, <2>2, <2>3, <3>1
    <3>2. CASE Holds(ops, o) = 0
      BY <1>4, <1>5, <1>6, <2>2, <2>3, <3>2 DEF PlacedWell
    <3> QED BY <1>5, <3>1, <3>2
  <2>6. o \notin DOMAIN result' => runs'[o] = 0
    BY <1>4, <2>2 DEF PlacedWell
  <2> QED BY <1>6, <2>1, <2>4, <2>5, <2>6 DEF PlacedWell
<1>7. Holds(ops, o) + Placed(o) <= 1
  BY <1>2, <1>5
<1> QED BY <1>2, <1>3, <1>6, <1>7 DEF ops

\* The number of a new operation is nowhere yet.
LEMMA NewPlace ==
  ASSUME TypeOK, ControlInv, NEW o \in Ops, PlacedWell(o), o = Len(type) + 1
  PROVE  /\ o \notin DOMAIN result /\ Placed(o) = 0 /\ runs[o] = 0
         /\ \A t \in Types : Absent(q[t], {o})
<1>1. Len(type) \in Nat /\ DOMAIN result = 1..Len(type)
  BY DEF TypeOK, ControlInv
<1>2. o \notin DOMAIN result
  BY <1>1
<1>3. Placed(o) # 1
  BY <1>2 DEF PlacedWell
<1>4. Placed(o) = 0
  BY <1>3, Places
<1> QED BY <1>2, <1>4 DEF PlacedWell

\* An operation that waits in its queue.
LEMMA QueuedPlaces ==
  ASSUME TypeOK, ControlInv, NEW o \in Ops, PlacedWell(o), NEW t \in Types, StartedQueued(t),
         UNCHANGED <<opq, private, rest>>, app'.ops = app.ops
  PROVE  PlacedWell(o)'
<1>1. /\ Len(type) \in Nat /\ DOMAIN result = 1..Len(type) /\ DOMAIN type = 1..Len(type)
      /\ type \in Seq(Types) /\ result \in Seq(Results) /\ Len(result) = Len(type)
      /\ q \in [Types -> Seq(Ops)] /\ q[t] \in Seq(Ops)
  BY DEF TypeOK, ControlInv, Results
<1>2. /\ q' = [q EXCEPT ![t] = Append(q[t], Len(type) + 1)] /\ runs' = runs
      /\ type' = Append(type, t) /\ result' = Append(result, "pending")
  BY DEF StartedQueued
<1>3. Len(type) + 1 \in Ops
  BY StartType
<1>4. /\ DOMAIN result' = 1..(Len(type) + 1)
      /\ result'[Len(type) + 1] = "pending" /\ type'[Len(type) + 1] = t
      /\ \A i \in DOMAIN result : result'[i] = result[i] /\ type'[i] = type[i]
  <2>1. "pending" \in Results
    BY DEF Results
  <2> QED BY <1>1, <1>2, <2>1
<1>5. Placed(o)' = Placed(o)
  BY DEF Placed
<1>6. /\ AtMostOne(opq', {o}) /\ AtMostOne(private', {o}) /\ AtMostOne(rest', {o})
      /\ AtMostOne(app'.ops, {o})
  BY DEF PlacedWell
<1>7. q'[t] = Append(q[t], Len(type) + 1) /\ \A s \in Types \ {t} : q'[s] = q[s]
  BY <1>1, <1>2
<1>8. CASE o = Len(type) + 1
  <2>1. /\ o \notin DOMAIN result /\ Placed(o) = 0 /\ runs[o] = 0
        /\ \A s \in Types : Absent(q[s], {o})
    BY <1>8, NewPlace
  <2>2. AtMostOne(q'[t], {o})
    <3>1. AtMostOne(Append(q[t], o), {o})
      BY <1>1, <2>1, AppendNew
    <3> QED BY <1>7, <1>8, <3>1
  <2>3. \A s \in Types \ {t} : Absent(q'[s], {o}) /\ AtMostOne(q'[s], {o})
    BY <1>7, <2>1, AbsentIsFew
  <2>4. o \in DOMAIN result' /\ type'[o] = t /\ result'[o] = "pending" /\ runs'[o] = 0
    BY <1>1, <1>2, <1>4, <1>8, <2>1
  <2> QED BY <1>5, <1>6, <2>1, <2>2, <2>3, <2>4 DEF PlacedWell
<1>9. CASE o # Len(type) + 1
  <2>1. Same({o}, q[t], q'[t])
    <3>1. Len(type) + 1 \notin {o}
      BY <1>9
    <3> QED BY <1>1, <1>3, <1>7, <3>1, SameAppend
  <2>2. \A s \in Types : Same({o}, q[s], q'[s])
    BY <1>7, <2>1, SameSelf
  <2>3. o \in DOMAIN result' <=> o \in DOMAIN result
    BY <1>1, <1>4, <1>9
  <2>4. o \in DOMAIN result => result'[o] = result[o] /\ type'[o] = type[o]
    BY <1>4
  <2>5. \A s \in Types : /\ AtMostOne(q'[s], {o})
                         /\ ~Absent(q'[s], {o}) => /\ o \in DOMAIN result' /\ type'[o] = s
                                                   /\ result'[o] = "pending" /\ runs'[o] = 0
    BY <1>2, <2>2, <2>3, <2>4 DEF PlacedWell, Same
  <2> QED BY <1>2, <1>5, <1>6, <2>3, <2>4, <2>5 DEF PlacedWell
<1> QED BY <1>8, <1>9

\* One that completes at once.
LEMMA ImmediatePlaces ==
  ASSUME TypeOK, ControlInv, NEW o \in Ops, PlacedWell(o), NEW t \in Types, StartedImmediate(t),
         AtMostOne(opq', {o}), AtMostOne(private', {o}), AtMostOne(rest', {o}),
         AtMostOne(app'.ops, {o}),
         Placed(o)' = Placed(o) + Holds(<<Len(type')>>, o)
  PROVE  PlacedWell(o)'
<1>1. /\ Len(type) \in Nat /\ DOMAIN result = 1..Len(type) /\ DOMAIN type = 1..Len(type)
      /\ type \in Seq(Types) /\ result \in Seq(Results) /\ Len(result) = Len(type)
  BY DEF TypeOK, ControlInv, Results
<1>2. PICK r \in {"ok", "aborted"} : /\ q' = q /\ runs' = runs /\ type' = Append(type, t)
                                   /\ result' = Append(result, r)
  BY DEF StartedImmediate
<1>3. Len(type') = Len(type) + 1 /\ Len(type') \in Ops
  BY StartType
<1>4. /\ DOMAIN result' = 1..(Len(type) + 1) /\ result'[Len(type) + 1] = r
      /\ \A i \in DOMAIN result : result'[i] = result[i] /\ type'[i] = type[i]
  <2>1. r \in Results
    BY DEF Results
  <2> QED BY <1>1, <1>2, <2>1
<1>5. Holds(<<Len(type')>>, o) = IF Len(type') = o THEN 1 ELSE 0
  BY <1>3, HoldsOne
<1>6. CASE o = Len(type) + 1
  <2>1. /\ o \notin DOMAIN result /\ Placed(o) = 0 /\ runs[o] = 0
        /\ \A s \in Types : Absent(q[s], {o})
    BY <1>6, NewPlace
  <2>2. Placed(o)' = 1
    BY <1>3, <1>5, <1>6, <2>1
  <2>3. o \in DOMAIN result' /\ result'[o] \in {"ok", "aborted"} /\ runs'[o] = 0
    BY <1>1, <1>2, <1>4, <1>6, <2>1
  <2>4. \A s \in Types : Absent(q'[s], {o}) /\ AtMostOne(q'[s], {o})
    BY <1>2, <2>1, AbsentIsFew
  <2>5. Placed(o)' <= 1
    BY <2>2
  <2>6. Placed(o)' = 1 => /\ o \in DOMAIN result' /\ result'[o] \in {"ok", "aborted"}
                         /\ runs'[o] = 0
    BY <2>3
  <2>7. ASSUME NEW s \in Types
        PROVE  /\ AtMostOne(q'[s], {o})
               /\ ~Absent(q'[s], {o}) => /\ o \in DOMAIN result' /\ type'[o] = s
                                         /\ result'[o] = "pending" /\ runs'[o] = 0
    BY <2>4
  <2>8. o \notin DOMAIN result' => runs'[o] = 0
    BY <2>3
  <2> QED BY <2>5, <2>6, <2>7, <2>8 DEF PlacedWell
<1>7. CASE o # Len(type) + 1
  <2>1. Placed(o)' = Placed(o)
    <3>1. Placed(o) \in {0, 1}
      BY Places
    <3> QED BY <1>3, <1>5, <1>7, <3>1
  <2>2. o \in DOMAIN result' <=> o \in DOMAIN result
    BY <1>1, <1>4, <1>7
  <2>3. o \in DOMAIN result => result'[o] = result[o] /\ type'[o] = type[o]
    BY <1>4
  <2>4. runs'[o] = runs[o] /\ (o \notin DOMAIN result' => runs'[o] = 0)
    BY <1>2, <2>2 DEF PlacedWell
  <2>5. Placed(o)' <= 1 /\ (Placed(o)' = 1 => /\ o \in DOMAIN result'
                                             /\ result'[o] \in {"ok", "aborted"} /\ runs'[o] = 0)
    BY <2>1, <2>2, <2>3, <2>4 DEF PlacedWell
  <2>6. ASSUME NEW s \in Types
        PROVE  /\ AtMostOne(q'[s], {o})
               /\ ~Absent(q'[s], {o}) => /\ o \in DOMAIN result' /\ type'[o] = s
                                         /\ result'[o] = "pending" /\ runs'[o] = 0
    BY <1>2, <2>2, <2>3, <2>4 DEF PlacedWell
  <2> QED BY <2>4, <2>5, <2>6 DEF PlacedWell
<1> QED BY <1>6, <1>7

\* perform_io takes operations that are pending from both queues, and leaves the others.
LEMMA TakenPending ==
  ASSUME TypeOK, NEW o \in Ops, PlacedWell(o)
  PROVE  /\ \A t \in Types : /\ AtMostOne(LeftOf(t), {o})
                              /\ Holds(TakenOf(t), o) + Holds(LeftOf(t), o) = Holds(q[t], o)
         /\ AtMostOne(TakenOps, {o})
         /\ Holds(TakenOps, o) = Holds(TakenOf("write"), o) + Holds(TakenOf("read"), o)
         /\ Holds(TakenOps, o) = 1 => /\ o \in DOMAIN result /\ result[o] = "pending" /\ runs[o] = 0
                                     /\ Placed(o) = 0
<1>1. ASSUME NEW t \in Types
      PROVE  /\ From(TakenOf(t), t, o) /\ AtMostOne(LeftOf(t), {o})
             /\ Holds(TakenOf(t), o) + Holds(LeftOf(t), o) = Holds(q[t], o)
  <2>1. q[t] \in Seq(Ops) /\ DoneOf(t).n \in 0..Len(q[t]) /\ AtMostOne(q[t], {o})
    BY PerformType DEF PlacedWell
  <2>2. /\ TakenOf(t) \in Seq(Ops) /\ AtMostOne(TakenOf(t), {o}) /\ AtMostOne(LeftOf(t), {o})
        /\ Holds(TakenOf(t), o) + Holds(LeftOf(t), o) = Holds(q[t], o)
    BY <2>1, HoldsCut DEF TakenOf, LeftOf
  <2>3. PICK a \in {0, 1}, b \in {0, 1}, c \in {0, 1} :
          a = Holds(TakenOf(t), o) /\ b = Holds(LeftOf(t), o) /\ c = Holds(q[t], o)
    BY HoldsNumber
  <2>4. a <= c
    BY <2>2, <2>3
  <2> QED BY <2>2, <2>3, <2>4 DEF From
<1>2. /\ AtMostOne(TakenOps, {o})
      /\ Holds(TakenOps, o) = Holds(TakenOf("write"), o) + Holds(TakenOf("read"), o)
      /\ Holds(TakenOps, o) = 1 => /\ o \in DOMAIN result /\ result[o] = "pending" /\ runs[o] = 0
                                  /\ Placed(o) = 0
  <2>1. "write" \in Types /\ "read" \in Types \ {"write"}
    BY DEF Types
  <2>2. Apart(TakenOf("write"), TakenOf("read"), o)
    BY <1>1, <2>1, TwoQueues
  <2> QED BY <2>2 DEF Apart, TakenOps
<1> QED BY <1>1, <1>2

\* perform_io: what completes was pending, what is left still is.
LEMMA PerformPlaces ==
  ASSUME TypeOK, ControlInv, NEW o \in Ops, PlacedWell(o), PerformIo
  PROVE  PlacedWell(o)'
<1>1. /\ io = "perform" /\ rest' = TakenOps /\ q' = [t \in Types |-> LeftOf(t)]
      /\ result' = [i \in DOMAIN result |-> IF ~Absent(TakenOps, {i}) THEN "ok" ELSE result[i]]
      /\ UNCHANGED <<opq, private, app, type, runs>>
  BY PerformIs DEF PerformIo
<1>2. rest = <<>>
  BY <1>1 DEF ControlInv
<1>3. \A t \in Types : /\ AtMostOne(LeftOf(t), {o})
                      /\ Holds(TakenOf(t), o) + Holds(LeftOf(t), o) = Holds(q[t], o)
  BY TakenPending
<1>4. /\ AtMostOne(TakenOps, {o})
      /\ Holds(TakenOps, o) = Holds(TakenOf("write"), o) + Holds(TakenOf("read"), o)
      /\ Holds(TakenOps, o) = 1 => /\ o \in DOMAIN result /\ result[o] = "pending" /\ runs[o] = 0
                                  /\ Placed(o) = 0
  BY TakenPending
<1>5. Placed(o) \in {0, 1} /\ Holds(TakenOps, o) \in {0, 1}
  <2>1. Placed(o) \in {0, 1}
    BY Places
  <2>2. Holds(TakenOps, o) \in {0, 1}
    BY HoldsNumber
  <2> QED BY <2>1, <2>2
<1>6. Placed(o)' = Placed(o) + Holds(TakenOps, o)
  <2>1. PICK a \in {0, 1}, b \in {0, 1}, d \in {0, 1}, e \in {0, 1} :
          /\ a = Holds(opq, o) /\ b = Holds(private, o) /\ d = Holds(app.ops, o)
          /\ e = Holds(TakenOps, o)
    BY HoldsNumber
  <2>2. Holds(rest, o) = 0
    BY <1>2, HoldsOne
  <2>3. Placed(o) = a + b + d
    BY <2>1, <2>2 DEF Placed
  <2>4. Placed(o)' = a + b + e + d
    BY <1>1, <2>1 DEF Placed
  <2> QED BY <2>1, <2>3, <2>4
<1>7. Placed(o)' <= 1
  BY <1>4, <1>5, <1>6
<1>8. DOMAIN result' = DOMAIN result
  BY <1>1
<1>9. o \in DOMAIN result => result'[o] = IF Holds(TakenOps, o) = 1 THEN "ok" ELSE result[o]
  BY <1>1, <1>5, HoldsNumber
<1>10. Placed(o)' = 1 => o \in DOMAIN result' /\ result'[o] \in {"ok", "aborted"} /\ runs'[o] = 0
  <2>1. CASE Holds(TakenOps, o) = 1
    BY <1>1, <1>4, <1>8, <1>9, <2>1
  <2>2. CASE Holds(TakenOps, o) = 0
    BY <1>1, <1>5, <1>6, <1>8, <1>9, <2>2 DEF PlacedWell
  <2> QED BY <1>5, <2>1, <2>2
<1>11. ASSUME NEW t \in Types
       PROVE  /\ AtMostOne(q'[t], {o})
              /\ ~Absent(q'[t], {o}) => /\ o \in DOMAIN result' /\ type'[o] = t
                                        /\ result'[o] = "pending" /\ runs'[o] = 0
  <2>1. q'[t] = LeftOf(t) /\ AtMostOne(q'[t], {o})
    BY <1>1, <1>3
  <2>2. SUFFICES ASSUME ~Absent(LeftOf(t), {o})
                 PROVE  /\ o \in DOMAIN result' /\ type'[o] = t
                        /\ result'[o] = "pending" /\ runs'[o] = 0
    BY <2>1
  <2>3. PICK a \in {0, 1}, b \in {0, 1}, c \in {0, 1} :
          a = Holds(TakenOf(t), o) /\ b = Holds(LeftOf(t), o) /\ c = Holds(q[t], o)
    BY HoldsNumber
  <2>4. b = 1
    BY <2>2, <2>3 DEF Holds
  <2>5. a = 0 /\ c = 1
    <3>1. a + b = c
      BY <1>3, <2>3
    <3> QED BY <2>3, <2>4, <3>1
  <2>6. o \in DOMAIN result /\ type[o] = t /\ result[o] = "pending" /\ runs[o] = 0
    <3>1. ~Absent(q[t], {o})
      BY <2>3, <2>5 DEF Holds
    <3> QED BY <3>1 DEF PlacedWell
  <2>7. ASSUME NEW s \in Types, s # t
        PROVE  Holds(TakenOf(s), o) = 0
    <3>1. Absent(q[s], {o})
      BY <2>6, <2>7 DEF PlacedWell
    <3>2. PICK d \in {0, 1}, e \in {0, 1} : d = Holds(TakenOf(s), o) /\ e = Holds(LeftOf(s), o)
      BY HoldsNumber
    <3>3. d + e = 0
      BY <1>3, <3>1, <3>2 DEF Holds
    <3> QED BY <3>2, <3>3
  <2>8. Holds(TakenOps, o) = 0
    <3>1. "write" \in Types /\ "read" \in Types /\ t \in {"write", "read"}
      BY DEF Types
    <3>2. Holds(TakenOf("write"), o) = 0 /\ Holds(TakenOf("read"), o) = 0
      BY <2>3, <2>5, <2>7, <3>1
    <3> QED BY <1>4, <3>2
  <2> QED BY <1>1, <1>8, <1>9, <2>6, <2>8
<1>12. o \notin DOMAIN result' => runs'[o] = 0
  BY <1>1, <1>8 DEF PlacedWell
<1>13. /\ AtMostOne(opq', {o}) /\ AtMostOne(private', {o}) /\ AtMostOne(rest', {o})
       /\ AtMostOne(app'.ops, {o})
  BY <1>1, <1>4 DEF PlacedWell
<1> QED BY <1>7, <1>10, <1>11, <1>12, <1>13 DEF PlacedWell

\* A queue that holds the operation o as often as n says, once or not at all.
Has(s, o, n) == s \in Seq(Entry) /\ AtMostOne(s, {o}) /\ Holds(s, o) = n

LEMMA HasConcat ==
  ASSUME NEW o, NEW s, NEW t, NEW m \in {0, 1}, NEW n \in {0, 1}, Has(s, o, m), Has(t, o, n),
         m + n <= 1
  PROVE  Has(s \o t, o, m + n)
<1>1. /\ s \in Seq(Entry) /\ AtMostOne(s, {o}) /\ (m = 0 <=> Absent(s, {o}))
      /\ t \in Seq(Entry) /\ AtMostOne(t, {o}) /\ (n = 0 <=> Absent(t, {o}))
  BY HoldsNumber DEF Has
<1>2. m = 0 \/ n = 0
  OBVIOUS
<1>3. Absent(s \o t, {o}) <=> m = 0 /\ n = 0
  BY <1>1, ConcatAbsent
<1>4. AtMostOne(s \o t, {o})
  BY <1>1, <1>2, ConcatAbsent
<1>5. s \o t \in Seq(Entry)
  BY <1>1
<1>6. Holds(s \o t, o) = m + n
  BY <1>2, <1>3 DEF Holds
<1> QED BY <1>4, <1>5, <1>6 DEF Has

LEMMA PlaceStep ==
  ASSUME TypeOK, ControlInv, PlaceInv, [Next]_vars
  PROVE  PlaceInv'
<1> USE DEF schedVars, descVars, kernVars, histVars
<1> SUFFICES ASSUME NEW o \in Ops
             PROVE  PlacedWell(o)'
  BY DEF PlaceInv
<1>a. PlacedWell(o)
  BY DEF PlaceInv
<1>b. /\ opq \in Seq(Entry) /\ private \in Seq(Entry) /\ rest \in Seq(Entry)
      /\ app.ops \in Seq(Entry)
  BY EntryType, SeqWider DEF TypeOK, Entry, Private
<1>c. PICK a \in {0, 1}, b \in {0, 1}, c \in {0, 1}, d \in {0, 1} :
        /\ a = Holds(opq, o) /\ b = Holds(private, o) /\ c = Holds(rest, o)
        /\ d = Holds(app.ops, o) /\ Placed(o) = a + b + c + d /\ a + b + c + d <= 1
  BY <1>a, Places
<1>d. /\ AtMostOne(opq, {o}) /\ AtMostOne(private, {o}) /\ AtMostOne(rest, {o})
      /\ AtMostOne(app.ops, {o})
  BY <1>a DEF PlacedWell
<1>e. Holds(<<>>, o) = 0 /\ AtMostOne(<<>>, {o}) /\ o # Task /\ o # Desc /\ o # 0
  BY HoldsOne, EntryType
<1>f. /\ <<Task>> \in Seq(Entry) /\ AtMostOne(<<Task>>, {o}) /\ Holds(<<Task>>, o) = 0
      /\ <<Desc>> \in Seq(Entry) /\ AtMostOne(<<Desc>>, {o}) /\ Holds(<<Desc>>, o) = 0
  BY <1>e, HoldsOne, EntryType
<1>g. Has(opq, o, a) /\ Has(private, o, b) /\ Has(rest, o, c) /\ Has(app.ops, o, d)
  BY <1>b, <1>c, <1>d DEF Has
<1>h. Has(<<Task>>, o, 0) /\ Has(<<Desc>>, o, 0)
  BY <1>f DEF Has
<1>1. CASE UNCHANGED <<opq, private, rest, app, q, type, result, runs>>
  BY <1>1, <1>a DEF PlacedWell, Placed
<1>2. CASE RunTask
  <2>1. /\ opq # <<>> /\ opq' = Tail(opq) /\ Head(opq) = Task
        /\ UNCHANGED <<private, rest, app, q, type, result, runs>>
    BY <1>2 DEF RunTask
  <2>2. AtMostOne(opq', {o}) /\ Holds(opq', o) = Holds(opq, o)
    BY <1>b, <1>d, <1>e, <2>1, HoldsTail
  <2>3. Placed(o)' = Placed(o)
    BY <2>1, <2>2 DEF Placed
  <2> QED BY <1>a, <1>d, <2>1, <2>2, <2>3, Moved
<1>3. CASE RunOperation
  <2>1. /\ opq # <<>> /\ opq' = Tail(opq) /\ Head(opq) # Task
        /\ UNCHANGED <<private, rest, app, q, type, result>>
    BY <1>3 DEF RunOperation
  <2>2. /\ AtMostOne(opq', {o}) /\ Head(opq) \in Entry
        /\ Head(opq) = o => Holds(opq, o) = 1 /\ Holds(opq', o) = 0
        /\ Head(opq) # o => Holds(opq', o) = Holds(opq, o)
    BY <1>b, <1>d, <2>1, HoldsTail
  <2>3. CASE Head(opq) = o
    <3>1. Placed(o) = 1 /\ b = 0 /\ c = 0 /\ d = 0
      BY <1>c, <2>2, <2>3
    <3>2. Placed(o)' = 0
      BY <1>c, <2>1, <2>2, <2>3, <3>1 DEF Placed
    <3> QED BY <1>a, <1>d, <2>1, <2>2, <3>1, <3>2, Ran
  <2>4. CASE Head(opq) # o
    <3>1. Placed(o)' = Placed(o)
      BY <2>1, <2>2, <2>4 DEF Placed
    <3>2. runs'[o] = runs[o]
      <4>1. runs' = IF cur' # 0 THEN [runs EXCEPT ![cur'] = @ + 1] ELSE runs
        BY <1>3 DEF RunOperation
      <4>2. cur' = 0 \/ cur' = Head(opq)
        BY <1>3 DEF RunOperation, ControlInv
      <4> QED BY <2>4, <4>1, <4>2 DEF TypeOK
    <3> QED BY <1>a, <1>d, <2>1, <2>2, <3>1, <3>2, Moved
  <2> QED BY <2>3, <2>4
<1>4. CASE TaskCleanup
  <2>1. /\ opq' = opq \o private \o <<Task>> /\ private' = <<>>
        /\ UNCHANGED <<rest, app, q, type, result, runs>>
    BY <1>4 DEF TaskCleanup
  <2>2. a + b <= 1
    BY <1>c
  <2>3. Has(opq \o private, o, a + b) /\ a + b \in {0, 1} /\ (a + b) + 0 = a + b
    BY <1>c, <1>g, <2>2, HasConcat
  <2>4. Has((opq \o private) \o <<Task>>, o, (a + b) + 0)
    BY <1>h, <2>2, <2>3, HasConcat
  <2>5. AtMostOne(opq', {o}) /\ Holds(opq', o) = a + b
    BY <2>1, <2>3, <2>4 DEF Has
  <2>6. Placed(o)' = Placed(o)
    BY <1>c, <1>e, <2>1, <2>5 DEF Placed
  <2> QED BY <1>a, <1>d, <1>e, <2>1, <2>5, <2>6, Moved
<1>5. CASE WorkCleanup
  <2>1. /\ opq' = opq \o private /\ private' = <<>>
        /\ UNCHANGED <<rest, app, q, type, result, runs>>
    BY <1>5 DEF WorkCleanup
  <2>2. a + b <= 1
    BY <1>c
  <2>3. AtMostOne(opq', {o}) /\ Holds(opq', o) = a + b
    <3>1. Has(opq \o private, o, a + b)
      BY <1>c, <1>g, <2>2, HasConcat
    <3> QED BY <2>1, <3>1 DEF Has
  <2>4. Placed(o)' = Placed(o)
    BY <1>c, <1>e, <2>1, <2>3 DEF Placed
  <2> QED BY <1>a, <1>d, <1>e, <2>1, <2>3, <2>4, Moved
<1>6. CASE EpollWait
  <2>1. /\ private' \in {private, Append(private, Desc)}
        /\ UNCHANGED <<opq, rest, app, q, type, result, runs>>
    BY <1>6 DEF EpollWait
  <2>2. Append(private, Desc) = private \o <<Desc>>
    BY <1>b, EntryType, ConcatFew
  <2>3. b + 0 = b /\ b <= 1
    BY <1>c
  <2>4. Has(private \o <<Desc>>, o, b + 0)
    BY <1>g, <1>h, <2>3, HasConcat
  <2>5. AtMostOne(private', {o}) /\ Holds(private', o) = b
    BY <1>c, <1>d, <2>1, <2>2, <2>3, <2>4 DEF Has
  <2>6. Placed(o)' = Placed(o)
    BY <1>c, <2>1, <2>5 DEF Placed
  <2> QED BY <1>a, <1>d, <2>1, <2>5, <2>6, Moved
<1>7. CASE PerformIo
  BY <1>7, <1>a, PerformPlaces
<1>8. CASE PostRest
  <2>1. /\ rest' = <<>> /\ UNCHANGED <<private, app, q, type, result>>
        /\ opq' = (IF Len(rest) > 1 THEN opq \o Tail(rest) ELSE opq)
        /\ cur' = (IF rest = <<>> THEN 0 ELSE Head(rest))
        /\ runs' = (IF rest = <<>> THEN runs ELSE [runs EXCEPT ![cur'] = @ + 1])
    BY <1>8 DEF PostRest, Post
  <2>2. CASE rest = <<>>
    <3>1. Len(rest) = 0 /\ opq' = opq /\ runs' = runs
      BY <2>1, <2>2
    <3>2. Placed(o)' = Placed(o)
      BY <2>1, <2>2, <3>1 DEF Placed
    <3> QED BY <1>a, <1>d, <1>e, <2>1, <3>1, <3>2, Moved
  <2>3. CASE rest # <<>>
    <3>1. /\ Tail(rest) \in Seq(Entry) /\ AtMostOne(Tail(rest), {o})
          /\ Head(rest) = o => Holds(rest, o) = 1 /\ Holds(Tail(rest), o) = 0
          /\ Head(rest) # o => Holds(Tail(rest), o) = Holds(rest, o)
      BY <1>b, <1>d, <2>3, HoldsTail
    <3>2. PICK e \in {0, 1} : e = Holds(Tail(rest), o)
      BY HoldsNumber
    <3>3. a + e <= 1 /\ Has(Tail(rest), o, e)
      <4>1. Has(Tail(rest), o, e)
        BY <3>1, <3>2 DEF Has
      <4>2. e <= c
        BY <1>c, <3>1, <3>2
      <4> QED BY <1>c, <4>1, <4>2
    <3>4. opq' = opq \o Tail(rest)
      <4>1. Len(rest) \in Nat /\ (~(Len(rest) > 1) => Tail(rest) = <<>>)
        BY <1>b, <2>3
      <4> QED BY <1>b, <2>1, <4>1, ConcatFew
    <3>5. AtMostOne(opq', {o}) /\ Holds(opq', o) = a + e
      <4>1. Has(opq \o Tail(rest), o, a + e)
        BY <1>g, <3>3, HasConcat
      <4> QED BY <3>4, <4>1 DEF Has
    <3>6. Placed(o)' = a + b + e + d
      BY <1>c, <1>e, <2>1, <3>2, <3>5 DEF Placed
    <3>7. CASE Head(rest) = o
      <4>1. Placed(o) = 1 /\ Placed(o)' = 0
        BY <1>c, <3>1, <3>2, <3>6, <3>7
      <4> QED BY <1>a, <1>d, <1>e, <2>1, <3>5, <4>1, Ran
    <3>8. CASE Head(rest) # o
      <4>1. Placed(o)' = Placed(o)
        BY <1>c, <3>1, <3>2, <3>6, <3>8
      <4>2. runs'[o] = runs[o]
        BY <2>1, <2>3, <3>8 DEF TypeOK
      <4> QED BY <1>a, <1>d, <1>e, <2>1, <3>5, <4>1, <4>2, Moved
    <3> QED BY <3>7, <3>8
  <2> QED BY <2>2, <2>3
<1>9. ASSUME NEW t \in Types, HandlerQueues(t) \/ AppQueues(t)
      PROVE  PlacedWell(o)'
  <2>1. StartedQueued(t) /\ UNCHANGED <<opq, private, rest>> /\ app'.ops = app.ops
    BY <1>9 DEF HandlerQueues, AppQueues
  <2> QED BY <1>a, <2>1, QueuedPlaces
<1>10. ASSUME NEW t \in Types, HandlerCompletes(t) \/ AppCompletes(t)
       PROVE  PlacedWell(o)'
  <2>1. StartedImmediate(t) /\ Len(type') \in Ops /\ Len(type') = Len(type) + 1
    BY <1>10, StartType DEF HandlerCompletes, AppCompletes
  <2>2. /\ <<Len(type')>> \in Seq(Entry) /\ AtMostOne(<<Len(type')>>, {o})
        /\ Len(type') \in Entry
    BY <2>1, EntryType, HoldsOne
  <2>3. PICK e \in {0, 1} : e = Holds(<<Len(type')>>, o) /\ Has(<<Len(type')>>, o, e)
    BY <2>2, HoldsNumber DEF Has
  <2>4. a + b + c + d + e <= 1
    <3>1. CASE o = Len(type) + 1
      <4>1. Placed(o) = 0
        BY <1>a, <3>1, NewPlace
      <4> QED BY <1>c, <2>3, <4>1
    <3>2. CASE o # Len(type) + 1
      <4>1. e = 0
        BY <2>1, <2>3, <3>2, HoldsOne
      <4> QED BY <1>c, <4>1
    <3> QED BY <3>1, <3>2
  <2>5. CASE UNCHANGED <<opq, rest, app>> /\ private' = Append(private, Len(type'))
    <3>1. private' = private \o <<Len(type')>>
      BY <1>b, <2>2, <2>5, ConcatFew
    <3>2. b + e <= 1
      BY <1>c, <2>4
    <3>3. AtMostOne(private', {o}) /\ Holds(private', o) = b + e
      <4>1. Has(private \o <<Len(type')>>, o, b + e)
        BY <1>g, <2>3, <3>2, HasConcat
      <4> QED BY <3>1, <4>1 DEF Has
    <3>4. Placed(o)' = Placed(o) + e
      BY <1>c, <2>5, <3>3 DEF Placed
    <3> QED BY <1>a, <1>d, <2>1, <2>3, <2>5, <3>3, <3>4, ImmediatePlaces
  <2>6. CASE UNCHANGED <<private, rest, app>> /\ opq' = opq \o <<Len(type')>>
    <3>1. a + e <= 1
      BY <1>c, <2>4
    <3>2. AtMostOne(opq', {o}) /\ Holds(opq', o) = a + e
      <4>1. Has(opq \o <<Len(type')>>, o, a + e)
        BY <1>g, <2>3, <3>1, HasConcat
      <4> QED BY <2>6, <4>1 DEF Has
    <3>3. Placed(o)' = Placed(o) + e
      BY <1>c, <2>6, <3>2 DEF Placed
    <3> QED BY <1>a, <1>d, <2>1, <2>3, <2>6, <3>2, <3>3, ImmediatePlaces
  <2>7. CASE UNCHANGED <<opq, private, rest>> /\ app.ops = <<>> /\ app'.ops = <<Len(type')>>
    <3>1. d = 0
      BY <1>c, <1>e, <2>7
    <3>2. Placed(o)' = Placed(o) + e
      BY <1>c, <2>3, <2>7, <3>1 DEF Placed
    <3> QED BY <1>a, <1>d, <2>1, <2>2, <2>3, <2>7, <3>2, ImmediatePlaces
  <2> QED BY <1>10, <2>5, <2>6, <2>7 DEF HandlerCompletes, AppCompletes, NoPost, Post
<1>11. CASE HandlerCloses \/ AppCloses
  <2> DEFINE ops == q["read"] \o q["write"]
  <2>1. Closed
    BY <1>11 DEF HandlerCloses, AppCloses
  <2>2. /\ ops \in Seq(Entry) /\ AtMostOne(ops, {o}) /\ Holds(ops, o) + Placed(o) <= 1
        /\ /\ AtMostOne(opq', {o}) /\ AtMostOne(private', {o}) /\ AtMostOne(rest', {o})
           /\ AtMostOne(app'.ops, {o}) /\ Placed(o)' = Placed(o) + Holds(ops, o)
           => PlacedWell(o)'
    BY <1>a, <2>1, ClosedPlaces
  <2>3. \/ UNCHANGED <<private, rest, app>> /\ opq' = opq \o ops
        \/ UNCHANGED <<private, rest, app, opq>> /\ ops = <<>>
        \/ UNCHANGED <<opq, private, rest>> /\ app.ops = <<>> /\ app'.ops = ops
    <3>1. CASE HandlerCloses
      BY <3>1 DEF HandlerCloses, Post
    <3>2. CASE AppCloses
      BY <3>2 DEF AppCloses, NoPost
    <3> QED BY <1>11, <3>1, <3>2
  <2> HIDE DEF ops
  <2>4. PICK e \in {0, 1} : e = Holds(ops, o) /\ Has(ops, o, e)
    BY <2>2, HoldsNumber DEF Has
  <2>5. a + b + c + d + e <= 1
    BY <1>c, <2>2, <2>4
  <2>6. CASE UNCHANGED <<private, rest, app>> /\ opq' = opq \o ops
    <3>1. a + e <= 1
      BY <1>c, <2>5
    <3>2. AtMostOne(opq', {o}) /\ Holds(opq', o) = a + e
      <4>1. Has(opq \o ops, o, a + e)
        BY <1>g, <2>4, <3>1, HasConcat
      <4> QED BY <2>6, <4>1 DEF Has
    <3>3. Placed(o)' = Placed(o) + e
      BY <1>c, <2>6, <3>2 DEF Placed
    <3> QED BY <1>d, <2>2, <2>4, <2>6, <3>2, <3>3
  <2>7. CASE UNCHANGED <<private, rest, app, opq>> /\ ops = <<>>
    <3>1. e = 0
      BY <1>e, <2>4, <2>7
    <3>2. Placed(o)' = Placed(o) + e
      BY <1>c, <2>7, <3>1 DEF Placed
    <3> QED BY <1>d, <2>2, <2>4, <2>7, <3>2
  <2>8. CASE UNCHANGED <<opq, private, rest>> /\ app.ops = <<>> /\ app'.ops = ops
    <3>1. d = 0
      BY <1>c, <1>e, <2>8
    <3>2. Placed(o)' = Placed(o) + e
      BY <1>c, <2>4, <2>8, <3>1 DEF Placed
    <3> QED BY <1>d, <2>2, <2>4, <2>8, <3>2
  <2> QED BY <2>3, <2>6, <2>7, <2>8
<1>12. CASE AppPosts
  <2>1. app' = NoPost /\ UNCHANGED <<private, rest, q, type, result, runs>>
        /\ (opq' = opq \o app.ops \/ (opq' = opq /\ app.ops = <<>>))
    BY <1>12 DEF AppPosts, Post
  <2>2. app'.ops = <<>>
    BY <2>1 DEF NoPost
  <2>3. a + d <= 1
    BY <1>c
  <2>4. AtMostOne(opq', {o}) /\ Holds(opq', o) = a + d
    <3>1. CASE opq' = opq \o app.ops
      <4>1. Has(opq \o app.ops, o, a + d)
        BY <1>g, <2>3, HasConcat
      <4> QED BY <3>1, <4>1 DEF Has
    <3>2. CASE opq' = opq /\ app.ops = <<>>
      <4>1. d = 0
        BY <1>c, <1>e, <3>2
      <4> QED BY <1>c, <1>d, <3>2, <4>1
    <3> QED BY <2>1, <3>1, <3>2
  <2>5. Placed(o)' = Placed(o)
    BY <1>c, <1>e, <2>1, <2>2, <2>4 DEF Placed
  <2> QED BY <1>a, <1>d, <1>e, <2>1, <2>2, <2>4, <2>5, Moved
<1>13. CASE AppInitTask
  <2>1. app' = NoPost /\ UNCHANGED <<private, rest, q, type, result, runs>>
        /\ opq' = opq \o <<Task>> /\ app.ops = <<>>
    BY <1>13 DEF AppInitTask, Post, ControlInv
  <2>2. app'.ops = <<>>
    BY <2>1 DEF NoPost
  <2>3. a + 0 = a /\ a <= 1
    BY <1>c
  <2>4. AtMostOne(opq', {o}) /\ Holds(opq', o) = a
    <3>1. Has(opq \o <<Task>>, o, a + 0)
      BY <1>g, <1>h, <2>3, HasConcat
    <3> QED BY <2>1, <2>3, <3>1 DEF Has
  <2>5. Placed(o)' = Placed(o)
    BY <1>c, <2>1, <2>2, <2>4 DEF Placed
  <2> QED BY <1>a, <1>d, <1>e, <2>1, <2>2, <2>4, <2>5, Moved
<1>14. CASE RunEmpty \/ WaitEnds \/ Opened \/ UNCHANGED vars \/ \E t \in Types : PeerActs(t)
  BY <1>1, <1>14 DEF RunEmpty, WaitEnds, Opened, PeerActs, vars
<1> QED BY <1>2, <1>3, <1>4, <1>5, <1>6, <1>7, <1>8, <1>9, <1>10, <1>11, <1>12, <1>13, <1>14
        DEF Next, IoThread, Handler, App, AppOpens, HandlerOpens

-----------------------------------------------------------------------------
(* The count of outstanding work.                                          *)

\* The one more that perform_io counts when it completes nothing.
NoHandler   == IF io = "handler" /\ cur = 0 THEN 1 ELSE 0
NoCompletion == IF io = "post" /\ rest = <<>> THEN 1 ELSE 0

LEMMA WorkIs ==
  ASSUME TypeOK, WorkCounted
  PROVE  \E n \in Nat, m \in {0, 1}, a \in {0, 1}, b \in {0, 1} :
           /\ n = Cardinality(Unfinished) /\ m = NotCounted /\ a = NoHandler /\ b = NoCompletion
           /\ work + pwork = 1 + n - m + a + b /\ work \in Nat /\ pwork \in Nat
<1>1. PICK n \in Nat, m \in {0, 1}, a \in {0, 1}, b \in {0, 1} :
        n = Cardinality(Unfinished) /\ m = NotCounted /\ a = NoHandler /\ b = NoCompletion
  BY UnfinishedFinite DEF NotCounted, NoHandler, NoCompletion
<1>2. work + pwork = 1 + n - m + a + b
  BY <1>1 DEF WorkCounted, NoHandler, NoCompletion
<1> QED BY <1>1, <1>2 DEF TypeOK

LEMMA WorkFrom ==
  ASSUME NEW n \in Nat, NEW m \in {0, 1}, NEW a \in {0, 1}, NEW b \in {0, 1},
         Cardinality(Unfinished') = n, NotCounted' = m, NoHandler' = a, NoCompletion' = b,
         work' + pwork' = 1 + n - m + a + b, io' # "stopped"
  PROVE  WorkCounted'
BY DEF WorkCounted, NoHandler, NoCompletion

\* A handler begins: the operation is still to be finished.
LEMMA BeginsUnfinished ==
  ASSUME TypeOK, ControlInv, NEW h \in Ops, h \in DOMAIN result, runs[h] = 0, cur = 0, cur' = h,
         runs' = [runs EXCEPT ![h] = @ + 1], type' = type
  PROVE  Unfinished' = Unfinished
<1>1. DOMAIN type = DOMAIN result /\ 0 \notin DOMAIN type /\ DOMAIN type \subseteq Ops
      /\ runs \in [Ops -> Nat]
  <2>1. Len(type) \in Nat /\ Len(type) <= MaxOps /\ DOMAIN type = 1..Len(type)
        /\ DOMAIN type = DOMAIN result
    BY DEF TypeOK, ControlInv
  <2>2. DOMAIN type \subseteq 1..MaxOps
    BY <2>1, IoAssumption
  <2> QED BY <2>1, <2>2 DEF TypeOK, Ops
<1>2. ASSUME NEW o \in DOMAIN type
      PROVE  (runs'[o] = 0 \/ o = cur') <=> (runs[o] = 0 \/ o = cur)
  BY <1>1
<1> QED BY <1>2 DEF Unfinished

\* One more operation.
LEMMA StartUnfinished ==
  ASSUME TypeOK, ControlInv, PlaceInv, NEW t \in Types, StartedQueued(t) \/ StartedImmediate(t),
         cur' = cur
  PROVE  Cardinality(Unfinished') = Cardinality(Unfinished) + 1
<1>1. /\ type \in Seq(Types) /\ Len(type) \in Nat /\ DOMAIN type = 1..Len(type)
      /\ DOMAIN result = 1..Len(type)
  BY DEF TypeOK, ControlInv
<1>2. type' = Append(type, t) /\ runs' = runs /\ Len(type) + 1 \in Ops
  BY StartType
<1> DEFINE n == Len(type) + 1
<1>3. DOMAIN type' = DOMAIN type \cup {n} /\ n \notin DOMAIN type
  BY <1>1, <1>2
<1>4. runs[n] = 0
  BY <1>1, <1>2, <1>3 DEF PlaceInv, PlacedWell
<1> HIDE DEF n
<1>5. Unfinished' = Unfinished \cup {n} /\ n \notin Unfinished
  BY <1>2, <1>3, <1>4 DEF Unfinished
<1> QED BY <1>5, UnfinishedFinite, FS_AddElement

\* The handler has run.
LEMMA EndUnfinished ==
  ASSUME TypeOK, ControlInv, cur # 0, cur' = 0, UNCHANGED <<type, runs>>
  PROVE  Cardinality(Unfinished') = Cardinality(Unfinished) - 1
<1>1. /\ Len(type) \in Nat /\ DOMAIN type = 1..Len(type) /\ DOMAIN type = DOMAIN result
      /\ runs[cur] # 0 /\ cur \in DOMAIN type
  BY DEF TypeOK, ControlInv
<1>2. Unfinished' = Unfinished \ {cur} /\ cur \in Unfinished
  BY <1>1 DEF Unfinished
<1> QED BY <1>2, UnfinishedFinite, FS_RemoveElement

LEMMA WorkStep ==
  ASSUME TypeOK, ControlInv, PlaceInv, WorkCounted, TypeOK', ControlInv', [Next]_vars
  PROVE  WorkCounted'
<1> USE DEF schedVars, descVars, kernVars, histVars
<1>a. PICK n \in Nat, m \in {0, 1}, a \in {0, 1}, b \in {0, 1} :
        /\ n = Cardinality(Unfinished) /\ m = NotCounted /\ a = NoHandler /\ b = NoCompletion
        /\ work + pwork = 1 + n - m + a + b /\ work \in Nat /\ pwork \in Nat
  BY WorkIs
<1>b. work' \in Nat /\ pwork' \in Nat /\ io # "stopped"
  BY DEF TypeOK, WorkCounted
<1>1. CASE /\ UNCHANGED <<type, runs, cur>> /\ NotCounted' = NotCounted
           /\ NoHandler' = NoHandler /\ NoCompletion' = NoCompletion
           /\ work' + pwork' = work + pwork /\ io' # "stopped"
  <2>1. Unfinished' = Unfinished
    BY <1>1 DEF Unfinished
  <2> QED BY <1>1, <1>a, <2>1, WorkFrom
<1>2. CASE RunEmpty \/ WaitEnds \/ RunTask \/ EpollWait
  <2>1. /\ UNCHANGED <<type, runs, cur, app, work, pwork>>
        /\ io \notin {"handler", "post"} /\ io' \notin {"handler", "post", "stopped"}
    BY <1>2 DEF RunEmpty, WaitEnds, RunTask, EpollWait
  <2> QED BY <1>1, <2>1 DEF NotCounted, NoHandler, NoCompletion
<1>3. CASE TaskCleanup
  <2>1. /\ UNCHANGED <<type, runs, cur, app>> /\ work' = work + pwork /\ pwork' = 0
        /\ io = "cleanup" /\ io' = "top"
    BY <1>3 DEF TaskCleanup
  <2>2. work' + pwork' = work + pwork
    BY <1>a, <2>1
  <2> QED BY <1>1, <2>1, <2>2 DEF NotCounted, NoHandler, NoCompletion
<1>4. CASE HandlerCloses \/ AppCloses
  <2>1. UNCHANGED <<type, runs, cur, work, pwork, io, rest>>
    BY <1>4 DEF HandlerCloses, AppCloses, Closed
  <2>2. NotCounted' = NotCounted
    <3>1. CASE HandlerCloses
      BY <3>1 DEF HandlerCloses, NotCounted
    <3>2. CASE AppCloses
      <4>1. app.at = "idle" /\ app'.at = "closes"
        BY <3>2 DEF AppCloses, NoPost
      <4> QED BY <4>1 DEF NotCounted
    <3> QED BY <1>4, <3>1, <3>2
  <2> QED BY <1>1, <1>b, <2>1, <2>2 DEF NoHandler, NoCompletion
<1>5. CASE AppInitTask \/ Opened \/ UNCHANGED vars \/ \E t \in Types : PeerActs(t)
  <2>1. UNCHANGED <<type, runs, cur, work, pwork, io, rest>>
    BY <1>5 DEF AppInitTask, Opened, PeerActs, vars
  <2>2. NotCounted' = NotCounted
    <3>1. CASE AppInitTask
      <4>1. app.at = "new" /\ app'.at = "idle"
        BY <3>1 DEF AppInitTask, NoPost
      <4> QED BY <4>1 DEF NotCounted
    <3>2. CASE app' = app
      BY <3>2 DEF NotCounted
    <3> QED BY <1>5, <3>1, <3>2 DEF Opened, PeerActs, vars
  <2> QED BY <1>1, <1>b, <2>1, <2>2 DEF NoHandler, NoCompletion
<1>6. CASE RunOperation
  <2>1. /\ UNCHANGED <<work, pwork, type, app>> /\ io = "top" /\ opq # <<>> /\ Head(opq) # 0
        /\ cur = 0
    BY <1>6 DEF RunOperation, ControlInv, Task
  <2>2. CASE Head(opq) = Desc
    <3>1. io' = "perform" /\ cur' = cur /\ runs' = runs
      BY <1>6, <2>1, <2>2 DEF RunOperation
    <3> QED BY <1>1, <2>1, <3>1 DEF NotCounted, NoHandler, NoCompletion
  <2>3. CASE Head(opq) # Desc
    <3>1. opq \in Seq(Entry)
      BY DEF TypeOK, Entry
    <3>2. Head(opq) \in Ops /\ ~Absent(opq, {Head(opq)})
      BY <2>1, <2>3, <3>1, TailAt, HeadPresent DEF Entry, Task
    <3>3. Head(opq) \in DOMAIN result /\ runs[Head(opq)] = 0
      BY <3>2, PlacedOnce
    <3>4. io' = "handler" /\ cur' = Head(opq) /\ runs' = [runs EXCEPT ![Head(opq)] = @ + 1]
      BY <1>6, <2>1, <2>3 DEF RunOperation
    <3>5. Unfinished' = Unfinished
      BY <2>1, <3>2, <3>3, <3>4, BeginsUnfinished
    <3>6. NotCounted' = m /\ NoHandler' = a /\ NoCompletion' = b /\ io' # "stopped"
      BY <1>a, <2>1, <3>4 DEF NotCounted, NoHandler, NoCompletion
    <3>7. work' + pwork' = 1 + n - m + a + b
      BY <1>a, <2>1
    <3> QED BY <1>a, <3>5, <3>6, <3>7, WorkFrom
  <2> QED BY <2>2, <2>3
<1>7. CASE PerformIo
  <2>1. /\ io = "perform" /\ io' = "post" /\ rest' = TakenOps /\ TakenOps \in Seq(Ops)
        /\ pwork' = Compensation(Len(TakenOps))
    BY <1>7, PerformIs
  <2>2. UNCHANGED <<work, cur, app, type, runs>>
    BY <1>7 DEF PerformIo
  <2>3. pwork = 0 /\ a = 0 /\ b = 0
    BY <1>a, <2>1 DEF ControlInv, NoHandler, NoCompletion
  <2>4. Unfinished' = Unfinished /\ NotCounted' = m /\ NoHandler' = 0
    BY <1>a, <2>1, <2>2 DEF Unfinished, NotCounted, NoHandler
  <2>5. PICK c \in {0, 1} : c = NoCompletion' /\ c = pwork'
    <3>1. Len(TakenOps) = 0 <=> TakenOps = <<>>
      BY <2>1
    <3> QED BY <2>1, <3>1 DEF NoCompletion, Compensation
  <2>6. work' + pwork' = 1 + n - m + 0 + c
    BY <1>a, <2>2, <2>3, <2>5
  <2> QED BY <1>a, <2>1, <2>4, <2>5, <2>6, WorkFrom
<1>8. CASE PostRest
  <2>1. /\ io = "post" /\ io' = "handler" /\ cur = 0
        /\ cur' = (IF rest = <<>> THEN 0 ELSE Head(rest))
        /\ runs' = (IF rest = <<>> THEN runs ELSE [runs EXCEPT ![cur'] = @ + 1])
        /\ UNCHANGED <<work, pwork, app, type>>
    BY <1>8 DEF PostRest, ControlInv
  <2>2. NotCounted' = m /\ a = 0 /\ NoCompletion' = 0
    BY <1>a, <2>1 DEF NotCounted, NoHandler, NoCompletion
  <2>3. CASE rest = <<>>
    <3>1. b = 1 /\ NoHandler' = 1 /\ Unfinished' = Unfinished
      BY <1>a, <2>1, <2>3 DEF NoCompletion, NoHandler, Unfinished
    <3>2. work' + pwork' = 1 + n - m + 1 + 0
      BY <1>a, <2>1, <2>2, <3>1
    <3> QED BY <1>a, <2>1, <2>2, <3>1, <3>2, WorkFrom
  <2>4. CASE rest # <<>>
    <3>1. rest \in Seq(Ops)
      BY DEF TypeOK
    <3>2. Head(rest) \in Ops /\ ~Absent(rest, {Head(rest)}) /\ Head(rest) # 0
      BY <2>4, <3>1, TailAt, HeadPresent, EntryType
    <3>3. Head(rest) \in DOMAIN result /\ runs[Head(rest)] = 0
      BY <3>2, PlacedOnce
    <3>4. Unfinished' = Unfinished
      BY <2>1, <2>4, <3>2, <3>3, BeginsUnfinished
    <3>5. b = 0 /\ NoHandler' = 0
      BY <1>a, <2>1, <2>4, <3>2 DEF NoCompletion, NoHandler
    <3>6. work' + pwork' = 1 + n - m + 0 + 0
      BY <1>a, <2>1, <2>2, <3>5
    <3> QED BY <1>a, <2>1, <2>2, <3>4, <3>5, <3>6, WorkFrom
  <2> QED BY <2>3, <2>4
<1>9. CASE WorkCleanup
  <2>1. /\ work' = (work + pwork) - 1 /\ pwork' = 0 /\ cur' = 0 /\ io = "handler"
        /\ io' = (IF work' = 0 THEN "stopped" ELSE "top")
        /\ UNCHANGED <<rest, app, type, runs>>
    BY <1>9 DEF WorkCleanup
  <2>2. work + pwork >= 2
    BY <2>1, WorkLeft
  <2>3. work' # 0 /\ work' + pwork' = (work + pwork) - 1
    BY <1>a, <2>1, <2>2
  <2>4. /\ io' = "top" /\ NotCounted' = m /\ NoHandler' = 0 /\ NoCompletion' = 0 /\ b = 0
        /\ a = (IF cur = 0 THEN 1 ELSE 0)
    BY <1>a, <2>1, <2>3 DEF NotCounted, NoHandler, NoCompletion
  <2>5. CASE cur = 0
    <3>1. Unfinished' = Unfinished
      BY <2>1, <2>5 DEF Unfinished
    <3>2. work' + pwork' = 1 + n - m + 0 + 0
      BY <1>a, <2>3, <2>4, <2>5
    <3> QED BY <1>a, <2>4, <3>1, <3>2, WorkFrom
  <2>6. CASE cur # 0
    <3>1. Cardinality(Unfinished') = n - 1
      BY <1>a, <2>1, <2>6, EndUnfinished
    <3>2. n - 1 \in Nat
      <4>1. n >= 1
        BY <1>a, <2>2, <2>4, <2>6
      <4> QED BY <4>1
    <3>3. work' + pwork' = 1 + (n - 1) - m + 0 + 0
      BY <1>a, <2>3, <2>4, <2>6
    <3> QED BY <2>4, <3>1, <3>2, <3>3, WorkFrom
  <2> QED BY <2>5, <2>6
<1>10. ASSUME NEW t \in Types, HandlerQueues(t) \/ HandlerCompletes(t) \/ AppQueues(t)
       PROVE  WorkCounted'
  <2>1. UNCHANGED <<io, cur, rest, app>> /\ (StartedQueued(t) \/ StartedImmediate(t))
    BY <1>10 DEF HandlerQueues, HandlerCompletes, AppQueues
  <2>2. \/ work' = work + 1 /\ pwork' = pwork
        \/ work' = work /\ pwork' = pwork + 1
    BY <1>10 DEF HandlerQueues, HandlerCompletes, AppQueues
  <2>3. Cardinality(Unfinished') = n + 1
    BY <1>a, <2>1, StartUnfinished
  <2>4. NotCounted' = m /\ NoHandler' = a /\ NoCompletion' = b /\ io' # "stopped"
    BY <1>a, <1>b, <2>1 DEF NotCounted, NoHandler, NoCompletion
  <2>5. work' + pwork' = 1 + (n + 1) - m + a + b /\ n + 1 \in Nat
    BY <1>a, <2>2
  <2> QED BY <2>3, <2>4, <2>5, WorkFrom
<1>11. ASSUME NEW t \in Types, AppCompletes(t)
       PROVE  WorkCounted'
  <2>1. /\ UNCHANGED <<io, cur, rest, work, pwork>> /\ StartedImmediate(t)
        /\ app = NoPost /\ app' = [at |-> "completes", ops |-> <<Len(type')>>]
    BY <1>11 DEF AppCompletes
  <2>2. Cardinality(Unfinished') = n + 1
    BY <1>a, <2>1, StartUnfinished
  <2>3. app.at = "idle" /\ app'.at = "completes"
    BY <2>1 DEF NoPost
  <2>4. m = 0 /\ NotCounted' = 1 /\ NoHandler' = a /\ NoCompletion' = b /\ io' # "stopped"
    BY <1>a, <1>b, <2>1, <2>3 DEF NotCounted, NoHandler, NoCompletion
  <2>5. work' + pwork' = 1 + (n + 1) - 1 + a + b /\ n + 1 \in Nat
    BY <1>a, <2>1, <2>4
  <2> QED BY <2>2, <2>4, <2>5, WorkFrom
<1>12. CASE AppPosts
  <2>1. /\ UNCHANGED <<io, cur, rest, pwork, type, runs>>
        /\ work' = (IF app.at = "completes" THEN work + 1 ELSE work) /\ app' = NoPost
    BY <1>12 DEF AppPosts
  <2>2. /\ NotCounted' = 0 /\ m = (IF app.at = "completes" THEN 1 ELSE 0)
        /\ NoHandler' = a /\ NoCompletion' = b /\ io' # "stopped" /\ Unfinished' = Unfinished
    BY <1>a, <1>b, <2>1 DEF NotCounted, NoHandler, NoCompletion, Unfinished, NoPost
  <2>3. work' + pwork' = 1 + n - 0 + a + b
    BY <1>a, <2>1, <2>2
  <2> QED BY <1>a, <2>2, <2>3, WorkFrom
<1> QED BY <1>2, <1>3, <1>4, <1>5, <1>6, <1>7, <1>8, <1>9, <1>10, <1>11, <1>12
        DEF Next, IoThread, Handler, App, AppOpens, HandlerOpens

LEMMA Start ==
  ASSUME Init
  PROVE  TypeOK /\ ControlInv /\ PlaceInv /\ WorkCounted
<1>1. TypeOK
  <2>1. /\ app = [at |-> "new", ops |-> <<>>] /\ q = [t \in Types |-> <<>>]
        /\ level = [t \in Types |-> 0] /\ spec = [t \in Types |-> TRUE]
        /\ runs = [o \in Ops |-> 0] /\ 0 \in 0..MaxUnits
    BY IoAssumption DEF Init, NoPost
  <2>2. \A S : <<>> \in Seq(S)
    OBVIOUS
  <2>3. app \in [at : {"new", "idle", "completes", "closes"}, ops : Seq(Ops)]
    BY <2>1, <2>2
  <2>4. /\ q \in [Types -> Seq(Ops)] /\ level \in [Types -> 0..MaxUnits]
        /\ spec \in [Types -> BOOLEAN] /\ runs \in [Ops -> Nat]
    BY <2>1, <2>2
  <2>5. opens \in 0..MaxOpens /\ units \in 0..MaxEvents /\ Len(type) <= MaxOps
    BY IoAssumption DEF Init
  <2>6. /\ opq \in Seq(Ops \cup {Task, Desc}) /\ private \in Seq(Ops \cup {Desc})
        /\ rest \in Seq(Ops) /\ type \in Seq(Types) /\ result \in Seq({"pending", "ok", "aborted"})
    BY <2>2 DEF Init
  <2> QED BY <2>3, <2>4, <2>5, <2>6 DEF Init, TypeOK, IoStates
<1>2. ControlInv
  BY DEF Init, ControlInv, NoPost
<1>3. PlaceInv
  <2> SUFFICES ASSUME NEW o \in Ops
               PROVE  PlacedWell(o)
    BY DEF PlaceInv
  <2>1. /\ opq = <<>> /\ private = <<>> /\ rest = <<>> /\ app.ops = <<>> /\ runs[o] = 0
        /\ \A t \in Types : q[t] = <<>>
    BY DEF Init, NoPost
  <2>2. Holds(<<>>, o) = 0 /\ Absent(<<>>, {o}) /\ AtMostOne(<<>>, {o})
    BY HoldsOne, AbsentEmpty
  <2>3. Placed(o) = 0
    BY <2>1, <2>2 DEF Placed
  <2>4. \A t \in Types : Absent(q[t], {o}) /\ AtMostOne(q[t], {o})
    BY <2>1, <2>2
  <2>5. /\ AtMostOne(opq, {o}) /\ AtMostOne(private, {o}) /\ AtMostOne(rest, {o})
        /\ AtMostOne(app.ops, {o})
    BY <2>1, <2>2
  <2> QED BY <2>1, <2>3, <2>4, <2>5 DEF PlacedWell
<1>4. WorkCounted
  <2>1. Unfinished = {}
    BY DEF Init, Unfinished
  <2>2. Cardinality(Unfinished) = 0
    BY <2>1, FS_EmptySet
  <2>3. NotCounted = 0 /\ io = "top" /\ work + pwork = 1
    BY DEF Init, NotCounted, NoPost
  <2> QED BY <2>2, <2>3 DEF WorkCounted
<1> QED BY <1>1, <1>2, <1>3, <1>4

\* The inductive invariant.
Inv == TypeOK /\ ControlInv /\ PlaceInv /\ WorkCounted

LEMMA Invariant == Spec => []Inv
<1>1. Init => Inv
  BY Start DEF Inv
<1>2. Inv /\ [Next]_vars => Inv'
  BY TypeStep, PlaceStep, WorkStep DEF Inv
<1> QED BY <1>1, <1>2, PTL DEF Spec

\* The variables keep their types; no number of a queue is out of range.
THEOREM TypeCorrect == Spec => []TypeOK
<1>1. Inv => TypeOK
  BY DEF Inv
<1> QED BY <1>1, Invariant, PTL

\* The count of outstanding work is that of the operations that have not finished
\* and the guard, for any number of operations on any number of sockets, so run()
\* never returns (work_cleanup, compensating_work_started).
THEOREM RunNeverReturns == Spec => []WorkCounted
<1>1. Inv => WorkCounted
  BY DEF Inv
<1> QED BY <1>1, Invariant, PTL

-----------------------------------------------------------------------------
(* IoContext implements AsyncOps.                                          *)

LEMMA StateIs ==
  ASSUME TypeOK, ControlInv
  PROVE  /\ DOMAIN result = 1..Len(type) /\ Len(type) \in Nat /\ DOMAIN result \subseteq Ops
         /\ result \in Seq(Results) /\ Len(result) = Len(type)
         /\ \A o \in Ops : State[o] = IF o \in DOMAIN result THEN result[o] ELSE "idle"
<1>1. /\ DOMAIN result = 1..Len(type) /\ Len(type) \in Nat /\ Len(type) <= MaxOps
      /\ result \in Seq(Results) /\ Len(result) = Len(type)
  BY DEF TypeOK, ControlInv, Results
<1>2. DOMAIN result \subseteq Ops
  BY <1>1, IoAssumption DEF Ops
<1> QED BY <1>1, <1>2 DEF State

\* A handler begins.
LEMMA RunsOne ==
  ASSUME TypeOK, ControlInv, PlaceInv, NEW h \in Ops, Placed(h) = 1, result' = result,
         runs' = [runs EXCEPT ![h] = @ + 1]
  PROVE  Abstract!Run(h)
<1>1. h \in DOMAIN result /\ result[h] \in {"ok", "aborted"} /\ runs[h] = 0
  BY DEF PlaceInv, PlacedWell
<1>2. State[h] \in {"ok", "aborted"}
  BY <1>1, StateIs
<1>3. runs' = [runs EXCEPT ![h] = 1]
  BY <1>1 DEF TypeOK
<1>4. State' = State
  BY DEF State
<1> QED BY <1>1, <1>2, <1>3, <1>4 DEF Abstract!Run

LEMMA StartsOne ==
  ASSUME TypeOK, ControlInv, NEW t \in Types, StartedQueued(t) \/ StartedImmediate(t)
  PROVE  Abstract!Start(Len(type) + 1)
<1> DEFINE n == Len(type) + 1
<1>1. n \in Ops /\ runs' = runs /\ \E r \in Results : result' = Append(result, r)
  BY StartType
<1>2. PICK r \in Results : result' = Append(result, r)
  BY <1>1
<1>3. /\ DOMAIN result = 1..Len(type) /\ Len(type) \in Nat /\ result \in Seq(Results)
      /\ Len(result) = Len(type) /\ n \notin DOMAIN result
  BY StateIs
<1>4. /\ DOMAIN result' = DOMAIN result \cup {n} /\ result'[n] = r
      /\ \A o \in DOMAIN result : result'[o] = result[o]
  BY <1>2, <1>3
<1> HIDE DEF n
<1>5. State[n] = "idle"
  BY <1>1, <1>3 DEF State
<1>6. State' = [State EXCEPT ![n] = r]
  BY <1>1, <1>3, <1>4 DEF State
<1>7. r \in Abstract!OpStates \ {"idle"}
  BY <1>2 DEF Results, Abstract!OpStates
<1>8. Abstract!Start(n)
  BY <1>1, <1>5, <1>6, <1>7 DEF Abstract!Start
<1> QED BY <1>8 DEF n

LEMMA ClosesAll ==
  ASSUME TypeOK, ControlInv, Closed
  PROVE  Abstract!Close
<1>1. /\ result' = [o \in DOMAIN result |-> IF result[o] = "pending" THEN "aborted" ELSE result[o]]
      /\ runs' = runs
  BY DEF Closed
<1>2. State' = [o \in Ops |-> IF State[o] = "pending" THEN "aborted" ELSE State[o]]
  BY <1>1 DEF State
<1> QED BY <1>1, <1>2 DEF Abstract!Close

LEMMA CompletesSome ==
  ASSUME TypeOK, ControlInv, PlaceInv, PerformIo
  PROVE  \E S \in SUBSET Ops : Abstract!Complete(S)
<1> DEFINE S == {o \in Ops : Holds(TakenOps, o) = 1}
<1>1. /\ result' = [o \in DOMAIN result |-> IF ~Absent(TakenOps, {o}) THEN "ok" ELSE result[o]]
      /\ runs' = runs
  BY PerformIs DEF PerformIo
<1>2. \A o \in S : o \in DOMAIN result /\ result[o] = "pending"
  BY TakenPending DEF PlaceInv
<1>3. \A o \in S : State[o] = "pending"
  BY <1>2 DEF State
<1>4. \A o \in Ops : o \in S <=> ~Absent(TakenOps, {o})
  BY DEF Holds
<1> HIDE DEF S
<1>5. S \subseteq Ops
  BY DEF S
<1>6. State' = [o \in Ops |-> IF o \in S THEN "ok" ELSE State[o]]
  BY <1>1, <1>2, <1>4 DEF State
<1>7. Abstract!Complete(S)
  BY <1>1, <1>3, <1>6 DEF Abstract!Complete
<1> QED BY <1>5, <1>7

LEMMA StepImplements ==
  ASSUME Inv, [Next]_vars
  PROVE  [Abstract!Next]_<<State, runs>>
<1> USE DEF histVars
<1>a. TypeOK /\ ControlInv /\ PlaceInv
  BY DEF Inv
<1>b. ASSUME NEW s \in Seq(Entry), s # <<>>, Head(s) \in Ops, s = opq \/ s = rest
      PROVE  Placed(Head(s)) = 1
  <2>1. ~Absent(s, {Head(s)})
    BY <1>b, HeadPresent
  <2> QED BY <1>a, <1>b, <2>1, PlacedOnce
<1>1. CASE UNCHANGED <<result, runs>>
  BY <1>1 DEF State
<1>2. CASE RunOperation
  <2>1. opq # <<>> /\ Head(opq) # Task /\ result' = result /\ opq \in Seq(Entry) /\ cur = 0
    BY <1>2, <1>a DEF RunOperation, TypeOK, ControlInv, Entry
  <2>2. CASE Head(opq) = Desc
    BY <1>1, <1>2, <2>1, <2>2 DEF RunOperation
  <2>3. CASE Head(opq) # Desc
    <3>1. Head(opq) \in Ops /\ Head(opq) # 0
      BY <2>1, <2>3, TailAt, EntryType DEF Entry
    <3>2. runs' = [runs EXCEPT ![Head(opq)] = @ + 1]
      BY <1>2, <2>3, <3>1 DEF RunOperation
    <3>3. Abstract!Run(Head(opq))
      BY <1>a, <1>b, <2>1, <3>1, <3>2, RunsOne
    <3> QED BY <3>1, <3>3 DEF Abstract!Next
  <2> QED BY <2>2, <2>3
<1>3. CASE PostRest
  <2>1. CASE rest = <<>>
    BY <1>1, <1>3, <2>1 DEF PostRest
  <2>2. CASE rest # <<>>
    <3>1. rest \in Seq(Ops) /\ rest \in Seq(Entry) /\ Head(rest) \in Ops
      BY <1>a, <2>2, EntryType, SeqWider, TailAt DEF TypeOK
    <3>2. result' = result /\ runs' = [runs EXCEPT ![Head(rest)] = @ + 1]
      BY <1>3, <2>2 DEF PostRest
    <3>3. Abstract!Run(Head(rest))
      BY <1>a, <1>b, <2>2, <3>1, <3>2, RunsOne
    <3> QED BY <3>1, <3>3 DEF Abstract!Next
  <2> QED BY <2>1, <2>2
<1>4. CASE PerformIo
  BY <1>4, <1>a, CompletesSome DEF Abstract!Next
<1>5. ASSUME NEW t \in Types,
             HandlerQueues(t) \/ HandlerCompletes(t) \/ AppQueues(t) \/ AppCompletes(t)
      PROVE  [Abstract!Next]_<<State, runs>>
  <2>1. StartedQueued(t) \/ StartedImmediate(t)
    BY <1>5 DEF HandlerQueues, HandlerCompletes, AppQueues, AppCompletes
  <2>2. Len(type) + 1 \in Ops
    BY <1>a, <2>1, StartType
  <2>3. Abstract!Start(Len(type) + 1)
    BY <1>a, <2>1, StartsOne
  <2> QED BY <2>2, <2>3 DEF Abstract!Next
<1>6. CASE HandlerCloses \/ AppCloses
  <2>1. Closed
    BY <1>6 DEF HandlerCloses, AppCloses
  <2> QED BY <1>a, <2>1, ClosesAll DEF Abstract!Next
<1>7. CASE RunEmpty \/ WaitEnds \/ RunTask \/ TaskCleanup \/ EpollWait \/ WorkCleanup \/ AppPosts
           \/ AppInitTask \/ Opened \/ UNCHANGED vars \/ \E t \in Types : PeerActs(t)
  BY <1>1, <1>7 DEF RunEmpty, WaitEnds, RunTask, TaskCleanup, EpollWait, WorkCleanup, AppPosts,
                    AppInitTask, Opened, PeerActs, vars
<1> QED BY <1>2, <1>3, <1>4, <1>5, <1>6, <1>7 DEF Next, IoThread, Handler, App, AppOpens, HandlerOpens

\* Every operation completes, or is aborted with all the others when the socket is
\* closed, and only then has its handler run, and once: whatever thread starts it, and
\* wherever it is when the socket is closed.
THEOREM IoImplementsAsyncOps == Spec => ImplementsAsyncOps
<1>1. Init => Abstract!Init
  <2> SUFFICES ASSUME Init
               PROVE  Abstract!Init
    OBVIOUS
  <2>1. State = [o \in Ops |-> "idle"]
    BY DEF Init, State
  <2> QED BY <2>1 DEF Init, Abstract!Init
<1>2. Inv /\ [Next]_vars => [Abstract!Next]_<<State, runs>>
  BY StepImplements
<1> QED BY <1>1, <1>2, Invariant, PTL DEF Spec, ImplementsAsyncOps, Abstract!Spec
=============================================================================
