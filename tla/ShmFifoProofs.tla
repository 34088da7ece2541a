--------------------------- MODULE ShmFifoProofs ---------------------------
(***************************************************************************)
(* Proofs about ShmFifo, for any number of senders and receivers and any   *)
(* size of the ring, over crashes and restarts: types, mutual exclusion,   *)
(* and the bound of the semaphore that counts packets; until a crash, that *)
(* it agrees with the indices; and without overrun, that the ring is a     *)
(* bounded first-in first-out queue.                                       *)
(***************************************************************************)
EXTENDS ShmFifo, SequenceLemmas, FiniteSetTheorems, TLAPS

\* What makes SemBound inductive: between sem_getvalue and sem_post receivers
\* may lower the semaphore, but nobody raises it.
CountInv ==
  \A s \in Senders : pc[s] = "counted" => sem <= sval[s] /\ sval[s] <= NBuf

Inv == TypeOK /\ MutualExclusion /\ SemBound /\ CountInv

-----------------------------------------------------------------------------
(* Types.                                                                  *)

LEMMA NextIndexType ==
  ASSUME NEW i \in Index
  PROVE  NextIndex(i) \in Index
BY ShmAssumption DEF NextIndex, Index

\* A thread stays within its own half of the program.
LEMMA GotoType ==
  ASSUME TypeOK, NEW t \in Threads, NEW l, Goto(t, l),
         t \in Senders => l \in SendPC, t \in Receivers => l \in RecvPC
  PROVE  /\ pc' \in [Threads -> SendPC \cup RecvPC]
         /\ \A s \in Senders : pc'[s] \in SendPC
         /\ \A r \in Receivers : pc'[r] \in RecvPC
BY DEF TypeOK, Goto, Threads

LEMMA TypeInit == Init => TypeOK
BY ShmAssumption
   DEF Init, InitialTokens, TypeOK, Index, Threads, SendPC, RecvPC

LEMMA TypeStep == TypeOK /\ [Next]_vars => TypeOK'
<1> SUFFICES ASSUME TypeOK, [Next]_vars
             PROVE  TypeOK'
  OBVIOUS
<1> USE ShmAssumption DEF memory, history
<1>1. ASSUME NEW s \in Senders, SendStep(s)
      PROVE  TypeOK'
  <2>1. s \in Threads /\ s \notin Receivers
    BY DEF Threads
  <2>2. CASE SendLock(s)
    BY <2>1, <2>2, GotoType DEF SendLock, Lock, SendPC, TypeOK
  <2>3. CASE SendWrite(s)
    BY <2>1, <2>3, GotoType, NextIndexType DEF SendWrite, SendPC, TypeOK
  <2>4. CASE SendGetValue(s)
    BY <2>1, <2>4, GotoType DEF SendGetValue, SendPC, TypeOK
  <2>5. CASE SendPost(s)
    BY <2>1, <2>5, GotoType, NextIndexType DEF SendPost, SendPC, TypeOK
  <2>6. CASE SendUnlock(s)
    BY <2>1, <2>6, GotoType DEF SendUnlock, Unlock, SendPC, TypeOK
  <2> QED BY <1>1, <2>2, <2>3, <2>4, <2>5, <2>6 DEF SendStep
<1>2. ASSUME NEW r \in Receivers, ReceiveStep(r)
      PROVE  TypeOK'
  <2>1. r \in Threads /\ r \notin Senders
    BY DEF Threads
  <2>2. CASE ReceiveWait(r)
    BY <2>1, <2>2, GotoType DEF ReceiveWait, RecvPC, TypeOK
  <2>3. CASE ReceiveLock(r)
    BY <2>1, <2>3, GotoType DEF ReceiveLock, Lock, RecvPC, TypeOK
  <2>4. CASE ReceiveCopy(r)
    <3>1. slots[ridx] \in Nat
      BY DEF TypeOK
    <3>2. received' \in Seq(Nat)
      BY <2>4, <3>1 DEF ReceiveCopy, TypeOK
    <3> QED BY <2>1, <2>4, <3>2, GotoType DEF ReceiveCopy, RecvPC, TypeOK
  <2>5. CASE ReceiveAdvance(r)
    BY <2>1, <2>5, GotoType, NextIndexType DEF ReceiveAdvance, RecvPC, TypeOK
  <2>6. CASE ReceiveUnlock(r)
    BY <2>1, <2>6, GotoType DEF ReceiveUnlock, Unlock, RecvPC, TypeOK
  <2> QED BY <1>2, <2>2, <2>3, <2>4, <2>5, <2>6 DEF ReceiveStep
<1>3. ASSUME NEW r \in Receivers, ReceiverCrashes(r)
      PROVE  TypeOK'
  BY <1>3 DEF ReceiverCrashes, Kill, TypeOK, Threads, SendPC, RecvPC
<1>4. ASSUME NEW r \in Receivers, ReceiverRestarts(r)
      PROVE  TypeOK'
  <2>1. r \in Threads /\ r \notin Senders
    BY DEF Threads
  <2> QED BY <1>4, <2>1, GotoType DEF ReceiverRestarts, RecvPC, TypeOK
<1>5. CASE SenderCrashes
  BY <1>5 DEF SenderCrashes, Kill, TypeOK, Threads, SendPC, RecvPC
<1>6. CASE SenderRestarts \/ SenderStarted
  <2>1. sidx' \in Index /\ ridx' \in Index
    <3>1. sidx' \in {0, sidx} /\ ridx' \in {0, ridx}
      BY <1>6 DEF SenderRestarts, SenderStarted
    <3>2. 0 \in Index
      BY ShmAssumption DEF Index
    <3> QED BY <3>1, <3>2 DEF TypeOK
  <2>2. PICK l \in {"starting", "idle"} : SendersTo(l)
    BY <1>6 DEF SenderRestarts, SenderStarted
  <2>3. /\ pc' \in [Threads -> SendPC \cup RecvPC]
        /\ \A s \in Senders : pc'[s] \in SendPC
        /\ \A r \in Receivers : pc'[r] \in RecvPC
    BY <2>2 DEF SendersTo, TypeOK, Threads, SendPC, RecvPC
  <2>4. UNCHANGED <<slots, sem, mutex, sval, sent, received, crashes>>
    BY <1>6 DEF SenderRestarts, SenderStarted
  <2> QED BY <2>1, <2>3, <2>4 DEF TypeOK
<1>7. CASE UNCHANGED vars
  BY <1>7 DEF vars, TypeOK
<1> QED BY <1>1, <1>2, <1>3, <1>4, <1>5, <1>6, <1>7 DEF Next

\* The variables keep their types; in particular both indices stay in the ring.
THEOREM TypeCorrect == Spec => []TypeOK
BY TypeInit, TypeStep, PTL DEF Spec

-----------------------------------------------------------------------------
(* Mutual exclusion.                                                       *)

\* A step of one thread inside the ring keeps everybody else outside.
LEMMA MoveInside ==
  ASSUME TypeOK, MutualExclusion, NEW t \in Threads, NEW l,
         pc[t] \in Inside, Goto(t, l), UNCHANGED mutex
  PROVE  MutualExclusion'
BY DEF TypeOK, MutualExclusion, Goto

LEMMA MoveOutside ==
  ASSUME TypeOK, MutualExclusion, NEW t \in Threads, NEW l,
         l \notin Inside, Goto(t, l), UNCHANGED mutex
  PROVE  MutualExclusion'
BY DEF TypeOK, MutualExclusion, Goto

LEMMA Enter ==
  ASSUME TypeOK, MutualExclusion, NEW t \in Threads, NEW l, Lock(t, l)
  PROVE  MutualExclusion'
BY DEF TypeOK, MutualExclusion, Lock, Goto

LEMMA Leave ==
  ASSUME TypeOK, MutualExclusion, NEW t \in Threads, pc[t] \in Inside, Unlock(t)
  PROVE  MutualExclusion'
BY DEF TypeOK, MutualExclusion, Unlock, Goto, Inside

LEMMA ExclusionStep ==
  TypeOK /\ MutualExclusion /\ [Next]_vars => MutualExclusion'
<1> SUFFICES ASSUME TypeOK, MutualExclusion, [Next]_vars
             PROVE  MutualExclusion'
  OBVIOUS
<1>1. ASSUME NEW s \in Senders, SendStep(s)
      PROVE  MutualExclusion'
  <2>1. s \in Threads
    BY DEF Threads
  <2>2. CASE SendLock(s)
    BY <2>1, <2>2, Enter DEF SendLock
  <2>3. CASE SendWrite(s) \/ SendGetValue(s) \/ SendPost(s)
    BY <2>1, <2>3, MoveInside DEF SendWrite, SendGetValue, SendPost, Inside
  <2>4. CASE SendUnlock(s)
    BY <2>1, <2>4, Leave DEF SendUnlock, Inside
  <2> QED BY <1>1, <2>2, <2>3, <2>4 DEF SendStep
<1>2. ASSUME NEW r \in Receivers, ReceiveStep(r)
      PROVE  MutualExclusion'
  <2>1. r \in Threads
    BY DEF Threads
  <2>2. CASE ReceiveWait(r)
    <3>1. Goto(r, "waited") /\ UNCHANGED mutex
      BY <2>2 DEF ReceiveWait, memory
    <3>2. "waited" \notin Inside
      BY DEF Inside
    <3> QED BY <2>1, <3>1, <3>2, MoveOutside
  <2>3. CASE ReceiveLock(r)
    BY <2>1, <2>3, Enter DEF ReceiveLock
  <2>4. CASE ReceiveCopy(r) \/ ReceiveAdvance(r)
    BY <2>1, <2>4, MoveInside DEF ReceiveCopy, ReceiveAdvance, Inside
  <2>5. CASE ReceiveUnlock(r)
    BY <2>1, <2>5, Leave DEF ReceiveUnlock, Inside
  <2> QED BY <1>2, <2>2, <2>3, <2>4, <2>5 DEF ReceiveStep
<1>3. ASSUME NEW P, Kill(P)
      PROVE  MutualExclusion'
  BY <1>3 DEF Kill, MutualExclusion, Inside
<1>4. ASSUME NEW r \in Receivers, ReceiverRestarts(r)
      PROVE  MutualExclusion'
  <2>1. r \in Threads /\ "idle" \notin Inside
    BY DEF Threads, Inside
  <2> QED BY <1>4, <2>1, MoveOutside DEF ReceiverRestarts
<1>5. CASE SenderRestarts \/ SenderStarted
  BY <1>5 DEF SenderRestarts, SenderStarted, SendersAt, SendersTo, MutualExclusion, Inside
<1>6. CASE UNCHANGED vars
  BY <1>6 DEF vars, MutualExclusion
<1> QED
  BY <1>1, <1>2, <1>3, <1>4, <1>5, <1>6 DEF Next, ReceiverCrashes, SenderCrashes

LEMMA ExclusionInit == Init => MutualExclusion
BY DEF Init, MutualExclusion, Inside

\* The second semaphore keeps every two threads from working on the ring at
\* once, wherever processes are killed and started again.
THEOREM OneInside == Spec => []MutualExclusion
<1>1. TypeOK /\ MutualExclusion /\ [Next]_vars => (TypeOK /\ MutualExclusion)'
  BY TypeStep, ExclusionStep
<1> QED BY TypeInit, ExclusionInit, <1>1, PTL DEF Spec

-----------------------------------------------------------------------------
(* The semaphore that counts packets.                                      *)

\* No step but that of the sender raises the semaphore or takes a sender to
\* the place where it has read its value.
LEMMA CountKept ==
  ASSUME Inv, sem' \in Nat, sem' <= sem, UNCHANGED sval,
         \A s \in Senders : pc'[s] = "counted" => pc[s] = "counted"
  PROVE  SemBound' /\ CountInv'
BY ShmAssumption DEF Inv, TypeOK, SemBound, CountInv

LEMMA CountStep == Inv /\ [Next]_vars => SemBound' /\ CountInv'
<1> SUFFICES ASSUME Inv, [Next]_vars
             PROVE  SemBound' /\ CountInv'
  OBVIOUS
<1> USE DEF memory, history
<1>1. ASSUME NEW s \in Senders, SendStep(s)
      PROVE  SemBound' /\ CountInv'
  <2>1. s \in Threads /\ sem \in Nat /\ sval \in [Senders -> Nat] /\ sem <= NBuf
        /\ pc \in [Threads -> SendPC \cup RecvPC]
    BY DEF Inv, TypeOK, Threads, SemBound
  <2>2. CASE SendLock(s) \/ SendWrite(s) \/ SendUnlock(s)
    <3>1. sem' = sem /\ sem <= sem /\ UNCHANGED sval
      BY <2>1, <2>2 DEF SendLock, SendWrite, SendUnlock
    <3>2. \A u \in Senders : pc'[u] = "counted" => pc[u] = "counted"
      BY <2>1, <2>2
         DEF SendLock, Lock, SendWrite, SendUnlock, Unlock, Goto, Threads
    <3> QED BY <2>1, <3>1, <3>2, CountKept
  <2>3. CASE SendGetValue(s)
    <3>1. sem' = sem /\ sval' = [sval EXCEPT ![s] = sem]
          /\ pc' = [pc EXCEPT ![s] = "counted"]
      BY <2>3 DEF SendGetValue, Goto
    <3>2. \A u \in Senders : u # s => pc'[u] = pc[u] /\ sval'[u] = sval[u]
      BY <2>1, <3>1 DEF Threads
    <3> QED BY <2>1, <3>1, <3>2, ShmAssumption DEF Inv, SemBound, CountInv
  <2>4. CASE SendPost(s)
    <3>1. pc[s] = "counted" /\ pc' = [pc EXCEPT ![s] = "posted"] /\ sval' = sval
      BY <2>4 DEF SendPost, Goto
    <3>2. sem <= sval[s] /\ sval[s] <= NBuf /\ sval[s] \in Nat
      BY <2>1, <3>1 DEF Inv, CountInv
    <3>3. sem' \in Nat /\ sem' <= NBuf
      BY <2>1, <2>4, <3>2, ShmAssumption DEF SendPost, Full
    <3>4. \A u \in Senders : pc'[u] # "counted"
      BY <2>1, <3>1 DEF Inv, MutualExclusion, Inside, Threads
    <3> QED BY <3>3, <3>4 DEF SemBound, CountInv
  <2> QED BY <1>1, <2>2, <2>3, <2>4 DEF SendStep
<1>2. ASSUME NEW r \in Receivers, ReceiveStep(r) \/ ReceiverRestarts(r)
      PROVE  SemBound' /\ CountInv'
  <2>1. r \notin Senders /\ sem \in Nat /\ pc \in [Threads -> SendPC \cup RecvPC]
    BY ShmAssumption DEF Inv, TypeOK
  <2>2. \A s \in Senders : pc'[s] = pc[s]
    BY <1>2, <2>1 DEF ReceiveStep, ReceiverRestarts, ReceiveWait, ReceiveLock, Lock,
       ReceiveCopy, ReceiveAdvance, ReceiveUnlock, Unlock, Goto, Threads
  <2>3. sem' \in Nat /\ sem' <= sem /\ UNCHANGED sval
    BY <1>2, <2>1 DEF ReceiveStep, ReceiverRestarts, ReceiveWait, ReceiveLock,
       ReceiveCopy, ReceiveAdvance, ReceiveUnlock
  <2> QED BY <2>2, <2>3, CountKept
<1>3. ASSUME NEW P, Kill(P)
      PROVE  SemBound' /\ CountInv'
  <2>1. sem' = sem /\ sem \in Nat /\ sem <= sem /\ UNCHANGED sval
    BY <1>3 DEF Kill, Inv, TypeOK
  <2>2. \A s \in Senders : pc'[s] = "counted" => pc[s] = "counted"
    BY <1>3 DEF Kill, Threads
  <2> QED BY <2>1, <2>2, CountKept
<1>4. CASE SenderRestarts \/ SenderStarted
  BY <1>4, CountKept DEF SenderRestarts, SenderStarted, SendersAt, SendersTo, Threads, Inv, TypeOK
<1>5. CASE UNCHANGED vars
  BY <1>5 DEF vars, Inv, SemBound, CountInv
<1> QED
  BY <1>1, <1>2, <1>3, <1>4, <1>5 DEF Next, ReceiverCrashes, SenderCrashes

LEMMA CountInit == Init => SemBound /\ CountInv
BY ShmAssumption DEF Init, InitialTokens, SemBound, CountInv, Threads

\* sem_getvalue followed by sem_post never takes the semaphore beyond the
\* number of slots: the sender that has read its value is the only one that
\* raises it.
THEOREM SemaphoreBounded == Spec => []SemBound
<1>1. Init => Inv
  BY TypeInit, ExclusionInit, CountInit DEF Inv
<1>2. Inv /\ [Next]_vars => Inv'
  BY TypeStep, ExclusionStep, CountStep DEF Inv
<1>3. Inv => SemBound
  BY DEF Inv
<1> QED BY <1>1, <1>2, <1>3, PTL DEF Spec
-----------------------------------------------------------------------------
(* Indices of the ring.                                                    *)

LEMMA DivMod ==
  ASSUME NEW n \in Nat \ {0}, NEW a \in Nat
  PROVE  /\ a = n * (a \div n) + (a % n)
         /\ a % n \in 0..(n - 1) /\ a \div n \in Nat
OBVIOUS

LEMMA ModUnique ==
  ASSUME NEW n \in Nat \ {0}, NEW q \in Nat, NEW r \in 0..(n - 1)
  PROVE  (n * q + r) % n = r
OBVIOUS

\* A distance can be added before or after the index wraps.
LEMMA ModAdd ==
  ASSUME NEW n \in Nat \ {0}, NEW a \in Nat, NEW b \in Nat
  PROVE  ((a % n) + b) % n = (a + b) % n
<1>1. PICK q \in Nat, r \in 0..(n - 1) : a = n * q + r /\ a % n = r
  BY DivMod
<1>2. PICK p \in Nat, s \in 0..(n - 1) : r + b = n * p + s /\ (r + b) % n = s
  <2>1. r + b \in Nat
    OBVIOUS
  <2> QED BY <2>1, DivMod
<1>3. n * (q + p) = n * q + n * p /\ q + p \in Nat
  OBVIOUS
<1>4. a + b = n * (q + p) + s
  BY <1>1, <1>2, <1>3
<1>5. (n * (q + p) + s) % n = s
  BY <1>3, ModUnique
<1> QED BY <1>1, <1>2, <1>4, <1>5

\* Less than a turn of the ring apart, two indices differ.
LEMMA ModApart ==
  ASSUME NEW n \in Nat \ {0}, NEW a \in Nat, NEW b \in Nat, a < b, b < a + n
  PROVE  a % n # b % n
<1> SUFFICES ASSUME a % n = b % n
             PROVE  FALSE
  OBVIOUS
<1>1. PICK q \in Nat, r \in 0..(n - 1) : a = n * q + r /\ a % n = r
  BY DivMod
<1>2. PICK p \in Nat, s \in 0..(n - 1) : b = n * p + s /\ b % n = s
  BY DivMod
<1>3. n * (p - q) = n * p - n * q
  OBVIOUS
<1>4. 0 < n * (p - q) /\ n * (p - q) < n
  BY <1>1, <1>2, <1>3
<1>5. CASE p - q <= 0
  BY <1>4, <1>5
<1>6. CASE p - q >= 1
  BY <1>4, <1>6
<1> QED BY <1>5, <1>6

\* The index that is t slots behind i, when i or t moves on.
LEMMA IndexFurther ==
  ASSUME NEW i \in Index, NEW t \in Nat
  PROVE  NextIndex((i + t) % NBuf) = (i + (t + 1)) % NBuf
<1>1. i + t \in Nat /\ 1 \in Nat /\ (i + t) + 1 = i + (t + 1) /\ NBuf \in Nat \ {0}
  BY ShmAssumption DEF Index
<1>2. (((i + t) % NBuf) + 1) % NBuf = ((i + t) + 1) % NBuf
  BY <1>1, ModAdd
<1> QED BY <1>1, <1>2 DEF NextIndex

LEMMA IndexCloser ==
  ASSUME NEW i \in Index, NEW t \in Nat, t > 0
  PROVE  (i + t) % NBuf = (NextIndex(i) + (t - 1)) % NBuf
<1>1. i + 1 \in Nat /\ t - 1 \in Nat /\ (i + 1) + (t - 1) = i + t /\ NBuf \in Nat \ {0}
  BY ShmAssumption DEF Index
<1>2. (((i + 1) % NBuf) + (t - 1)) % NBuf = ((i + 1) + (t - 1)) % NBuf
  BY <1>1, ModAdd
<1> QED BY <1>1, <1>2 DEF NextIndex

-----------------------------------------------------------------------------
(* The semaphore and the distance of the indices.                          *)

\* A process that is dead was killed.
DeadInv == crashes = 0 => \A t \in Threads : pc[t] \notin {"dead", "starting"}

TokenInv == Inv /\ DeadInv /\ TokensMatchIndices

\* The receivers that hold a token, or have used it and not moved the index yet.
Readers == {r \in Receivers : pc[r] \in {"waited", "locked", "copied"}}

LEMMA ReadersFinite ==
  /\ IsFiniteSet(Readers) /\ Cardinality(Readers) \in Nat
  /\ Reading = Cardinality(Readers)
BY ShmAssumption, FS_Subset, FS_CardinalityType DEF Readers, Reading
Promised == {"waited", "locked", "copied"}

\* Where one thread goes changes Reading by one at most.
LEMMA ReadingGoto ==
  ASSUME TypeOK, NEW t \in Threads, NEW l, Goto(t, l)
  PROVE  /\ Reading \in Nat /\ Reading' \in Nat
         /\ t \in Receivers /\ pc[t] \notin Promised /\ l \in Promised => Reading' = Reading + 1
         /\ t \in Receivers /\ pc[t] \in Promised /\ l \notin Promised => Reading' = Reading - 1
         /\ t \in Senders \/ (pc[t] \in Promised <=> l \in Promised) => Reading' = Reading
<1> DEFINE A == {r \in Receivers : pc[r] \in Promised}
           B == {r \in Receivers : pc'[r] \in Promised}
<1>1. Reading = Cardinality(A) /\ Reading' = Cardinality(B)
  BY DEF Reading, Promised
<1>2. IsFiniteSet(A)
  BY ShmAssumption, FS_Subset
<1>3. \A r \in Receivers : pc'[r] = IF r = t THEN l ELSE pc[r]
  BY DEF TypeOK, Goto, Threads
<1>4. ASSUME t \in Receivers, pc[t] \notin Promised, l \in Promised
      PROVE  Reading' = Reading + 1
  <2>1. B = A \cup {t} /\ t \notin A
    BY <1>3, <1>4
  <2> QED BY <1>1, <1>2, <2>1, FS_AddElement
<1>5. ASSUME t \in Receivers, pc[t] \in Promised, l \notin Promised
      PROVE  Reading' = Reading - 1
  <2>1. B = A \ {t} /\ t \in A
    BY <1>3, <1>5
  <2>2. Cardinality(A \ {t}) = Cardinality(A) - 1
    BY <1>2, <2>1, FS_RemoveElement
  <2> QED BY <1>1, <2>1, <2>2
<1>6. ASSUME t \in Senders \/ (pc[t] \in Promised <=> l \in Promised)
      PROVE  Reading' = Reading
  <2>1. B = A
    BY <1>3, <1>6, ShmAssumption
  <2> QED BY <1>1, <2>1
<1>7. IsFiniteSet(B)
  BY ShmAssumption, FS_Subset
<1>8. Reading \in Nat /\ Reading' \in Nat
  BY <1>1, <1>2, <1>7, FS_CardinalityType
<1> QED BY <1>4, <1>5, <1>6, <1>8

\* The sender inside the ring is the only one that may have a packet to post.
LEMMA PostingGoto ==
  ASSUME TypeOK, MutualExclusion, NEW s \in Senders, pc[s] \in Inside, NEW l, Goto(s, l)
  PROVE  /\ Posting  = IF pc[s] \in {"written", "counted"} THEN 1 ELSE 0
         /\ Posting' = IF l \in {"written", "counted"} THEN 1 ELSE 0
BY DEF TypeOK, MutualExclusion, Posting, Inside, Goto, Threads

LEMMA PostingKept ==
  ASSUME \A s \in Senders : pc[s] \in {"written", "counted"} <=> pc'[s] \in {"written", "counted"}
  PROVE  Posting' = Posting
BY DEF Posting
LEMMA DistanceType ==
  ASSUME TypeOK
  PROVE  sem \in Nat /\ Reading \in Nat /\ Posting \in {0, 1} /\ Distance \in Nat
BY ReadersFinite DEF TypeOK, Posting, Distance

LEMMA DeadStep == TypeOK /\ DeadInv /\ [Next]_vars => DeadInv'
<1> SUFFICES ASSUME TypeOK, DeadInv, [Next]_vars, crashes' = 0
             PROVE  \A t \in Threads : pc'[t] \notin {"dead", "starting"}
  BY DEF DeadInv
<1> USE DEF memory, history, Goto, DeadInv, TypeOK
<1>1. ASSUME NEW s \in Senders, SendStep(s)
      PROVE  \A t \in Threads : pc'[t] \notin {"dead", "starting"}
  BY <1>1 DEF SendStep, SendLock, Lock, SendWrite, SendGetValue, SendPost, SendUnlock, Unlock
<1>2. ASSUME NEW r \in Receivers, ReceiveStep(r) \/ ReceiverRestarts(r)
      PROVE  \A t \in Threads : pc'[t] \notin {"dead", "starting"}
  BY <1>2 DEF ReceiveStep, ReceiveWait, ReceiveLock, Lock, ReceiveCopy, ReceiveAdvance,
              ReceiveUnlock, Unlock, ReceiverRestarts
<1>3. CASE SenderRestarts \/ SenderStarted
  BY <1>3 DEF SenderRestarts, SenderStarted, SendersAt, SendersTo
<1>4. ASSUME NEW P, Kill(P)
      PROVE  FALSE
  BY <1>4 DEF Kill
<1>5. CASE UNCHANGED vars
  BY <1>5 DEF vars
<1> QED BY <1>1, <1>2, <1>3, <1>4, <1>5 DEF Next, ReceiverCrashes, SenderCrashes

\* Steps that move neither an index nor a packet between its counts.
LEMMA TokensKept ==
  ASSUME TokenInv, UNCHANGED <<sidx, ridx, crashes>>, Distance' = Distance
  PROVE  TokensMatchIndices'
BY DEF TokenInv, TokensMatchIndices

LEMMA TokenStep == TokenInv /\ [Next]_vars => TokensMatchIndices'
<1> SUFFICES ASSUME TokenInv, [Next]_vars, crashes' = 0
             PROVE  TokensMatchIndices'
  BY DEF TokensMatchIndices
<1> USE DEF memory, history
<1>a. /\ TypeOK /\ MutualExclusion /\ TypeOK' /\ sidx \in Index /\ ridx \in Index
      /\ sem \in Nat /\ Reading \in Nat /\ Posting \in {0, 1}
  BY TypeStep, DistanceType DEF TokenInv, Inv, TypeOK
<1>b. crashes = 0 => sidx = (ridx + Distance) % NBuf
  BY DEF TokenInv, TokensMatchIndices
<1>1. ASSUME NEW s \in Senders, SendStep(s)
      PROVE  TokensMatchIndices'
  <2>1. s \in Threads /\ s \notin Receivers
    BY ShmAssumption DEF Threads
  <2>2. ASSUME NEW l, Goto(s, l)
        PROVE  Reading' = Reading
    BY <1>a, <2>1, <2>2, ReadingGoto
  <2>3. CASE SendLock(s)
    <3>1. Goto(s, "locked") /\ pc[s] = "idle" /\ sem' = sem /\ UNCHANGED <<sidx, ridx, crashes>>
      BY <2>3 DEF SendLock, Lock
    <3>2. Posting' = Posting
      BY <1>a, <2>1, <3>1, PostingKept DEF Goto, TypeOK
    <3> QED BY <2>2, <3>1, <3>2, TokensKept DEF Distance
  <2>4. CASE SendWrite(s)
    <3>1. /\ Goto(s, "written") /\ pc[s] = "locked" /\ sem' = sem /\ ridx' = ridx
          /\ sidx' = NextIndex(sidx) /\ crashes' = crashes
      BY <2>4 DEF SendWrite
    <3>2. Posting = 0 /\ Posting' = 1
      BY <1>a, <3>1, PostingGoto DEF Inside
    <3>3. Distance \in Nat /\ Distance' = Distance + 1
      BY <1>a, <2>2, <3>1, <3>2 DEF Distance
    <3>4. sidx' = (ridx + (Distance + 1)) % NBuf
      BY <1>a, <1>b, <3>1, <3>3, IndexFurther
    <3> QED BY <3>1, <3>3, <3>4 DEF TokensMatchIndices
  <2>5. CASE SendGetValue(s)
    <3>1. Goto(s, "counted") /\ pc[s] = "written" /\ sem' = sem /\ UNCHANGED <<sidx, ridx, crashes>>
      BY <2>5 DEF SendGetValue
    <3>2. Posting' = Posting
      BY <1>a, <3>1, PostingGoto DEF Inside
    <3> QED BY <2>2, <3>1, <3>2, TokensKept DEF Distance
  <2>6. CASE SendPost(s)
    <3>1. Goto(s, "posted") /\ pc[s] = "counted" /\ UNCHANGED <<sidx, crashes>>
      BY <2>6 DEF SendPost
    <3>2. Posting = 1 /\ Posting' = 0
      BY <1>a, <3>1, PostingGoto DEF Inside
    <3>3. CASE sem' = sem + 1 /\ ridx' = ridx
      <4>1. Distance' = Distance
        BY <1>a, <2>2, <3>1, <3>2, <3>3 DEF Distance
      <4> QED BY <3>1, <3>3, <4>1, TokensKept
    <3>4. CASE ridx' = NextIndex(ridx) /\ sem' = sem
      <4>1. Distance \in Nat /\ Distance > 0 /\ Distance' = Distance - 1
        BY <1>a, <2>2, <3>1, <3>2, <3>4 DEF Distance
      <4>2. sidx = (NextIndex(ridx) + (Distance - 1)) % NBuf
        BY <1>a, <1>b, <3>1, <4>1, IndexCloser
      <4> QED BY <3>1, <3>4, <4>1, <4>2 DEF TokensMatchIndices
    <3> QED BY <2>6, <3>3, <3>4 DEF SendPost
  <2>7. CASE SendUnlock(s)
    <3>1. Goto(s, "idle") /\ pc[s] = "posted" /\ sem' = sem /\ UNCHANGED <<sidx, ridx, crashes>>
      BY <2>7 DEF SendUnlock, Unlock
    <3>2. Posting' = Posting
      BY <1>a, <3>1, PostingGoto DEF Inside
    <3> QED BY <2>2, <3>1, <3>2, TokensKept DEF Distance
  <2> QED BY <1>1, <2>3, <2>4, <2>5, <2>6, <2>7 DEF SendStep
<1>2. ASSUME NEW r \in Receivers, ReceiveStep(r)
      PROVE  TokensMatchIndices'
  <2>1. r \in Threads /\ r \notin Senders
    BY ShmAssumption DEF Threads
  <2>2. Posting' = Posting
    <3>1. PICK l : Goto(r, l)
      BY <1>2 DEF ReceiveStep, ReceiveWait, ReceiveLock, Lock, ReceiveCopy, ReceiveAdvance,
                  ReceiveUnlock, Unlock
    <3>2. \A s \in Senders : pc'[s] = pc[s]
      BY <1>a, <2>1, <3>1 DEF Goto, TypeOK, Threads
    <3> QED BY <3>2, PostingKept
  <2>3. CASE ReceiveWait(r)
    <3>1. /\ Goto(r, "waited") /\ pc[r] = "idle" /\ sem > 0 /\ sem' = sem - 1
          /\ UNCHANGED <<sidx, ridx, crashes>>
      BY <2>3 DEF ReceiveWait
    <3>2. Reading' = Reading + 1
      BY <1>a, <2>1, <3>1, ReadingGoto DEF Promised
    <3>3. Distance' = Distance
      BY <1>a, <2>2, <3>1, <3>2 DEF Distance
    <3> QED BY <3>1, <3>3, TokensKept
  <2>4. CASE ReceiveLock(r) \/ ReceiveCopy(r) \/ ReceiveUnlock(r)
    <3>1. sem' = sem /\ UNCHANGED <<sidx, ridx, crashes>>
      BY <2>4 DEF ReceiveLock, ReceiveCopy, ReceiveUnlock
    <3>2. PICK l : Goto(r, l) /\ (pc[r] \in Promised <=> l \in Promised)
      BY <2>4 DEF ReceiveLock, Lock, ReceiveCopy, ReceiveUnlock, Unlock, Promised
    <3>3. Reading' = Reading
      BY <1>a, <2>1, <3>2, ReadingGoto
    <3>4. Distance' = Distance
      BY <1>a, <2>2, <3>1, <3>3 DEF Distance
    <3> QED BY <3>1, <3>4, TokensKept
  <2>5. CASE ReceiveAdvance(r)
    <3>1. /\ Goto(r, "advanced") /\ pc[r] = "copied" /\ sem' = sem
          /\ ridx' = NextIndex(ridx) /\ UNCHANGED <<sidx, crashes>>
      BY <2>5 DEF ReceiveAdvance
    <3>2. Reading' = Reading - 1 /\ Reading' \in Nat
      BY <1>a, <2>1, <3>1, ReadingGoto DEF Promised
    <3>3. Distance \in Nat /\ Distance > 0 /\ Distance' = Distance - 1
      BY <1>a, <2>2, <3>1, <3>2 DEF Distance
    <3>4. sidx = (NextIndex(ridx) + (Distance - 1)) % NBuf
      BY <1>a, <1>b, <3>1, <3>3, IndexCloser
    <3> QED BY <3>1, <3>3, <3>4 DEF TokensMatchIndices
  <2> QED BY <1>2, <2>3, <2>4, <2>5 DEF ReceiveStep
<1>3. ASSUME NEW P, Kill(P)
      PROVE  FALSE
  BY <1>3 DEF Kill, TokenInv, Inv, TypeOK
<1>4. ASSUME NEW r \in Receivers, ReceiverRestarts(r)
      PROVE  FALSE
  BY <1>4 DEF ReceiverRestarts, TokenInv, DeadInv, Threads
<1>5. CASE SenderRestarts \/ SenderStarted
  BY <1>5 DEF SenderRestarts, SenderStarted, SendersAt, SendersTo, TokenInv, DeadInv, Threads
<1>6. CASE UNCHANGED vars
  <2>1. UNCHANGED <<sidx, ridx, crashes, sem, pc>>
    BY <1>6 DEF vars
  <2>2. Distance' = Distance
    BY <2>1 DEF Distance, Reading, Posting
  <2> QED BY <2>1, <2>2, TokensKept
<1> QED BY <1>1, <1>2, <1>3, <1>4, <1>5, <1>6 DEF Next, ReceiverCrashes, SenderCrashes

LEMMA TokenInit == Init => DeadInv /\ TokensMatchIndices
<1> SUFFICES ASSUME Init
             PROVE  DeadInv /\ TokensMatchIndices
  OBVIOUS
<1>1. Readers = {} /\ Posting = 0
  BY DEF Init, Readers, Posting, Threads
<1>2. Reading = 0
  BY <1>1, ReadersFinite, FS_EmptySet
<1>3. 0 = 0 % NBuf
  BY ShmAssumption
<1> QED BY <1>1, <1>2, <1>3 DEF Init, InitialTokens, DeadInv, TokensMatchIndices, Distance

\* Until a process is killed the semaphore and the indices agree, whatever calls are
\* in progress and however often the sender overruns the ring.
THEOREM SemaphoreInStep == Spec => []TokensMatchIndices
<1>1. Init => TokenInv
  BY TypeInit, ExclusionInit, CountInit, TokenInit DEF Inv, TokenInv
<1>2. TokenInv /\ [Next]_vars => TokenInv'
  BY TypeStep, ExclusionStep, CountStep, DeadStep, TokenStep DEF Inv, TokenInv
<1>3. TokenInv => TokensMatchIndices
  BY DEF TokenInv
<1> QED BY <1>1, <1>2, <1>3, PTL DEF Spec
-----------------------------------------------------------------------------
(* The bounded queue: the user does not send into a full ring, and no process *)
(* is killed.                                                              *)

\* The receiver whose packet is copied, while the index has not moved yet.
Copied == \E r \in Receivers : pc[r] = "copied"
NotCopied == Reading - (IF Copied THEN 1 ELSE 0)

\* What is in the ring is promised, posted or about to be posted; it reaches from
\* First to sidx; and a sender that has passed the user's check has a free slot.
QueueInv ==
  /\ crashes = 0
  /\ Len(received) <= sent /\ Unread <= NBuf
  /\ Unread = sem + NotCopied + Posting
  /\ sidx = (First + Unread) % NBuf
  /\ \A s \in Senders : /\ pc[s] = "locked" => Unread < NBuf
                        /\ pc[s] = "counted" => sval[s] < NBuf
  /\ \A i \in DOMAIN received : received[i] = i
  /\ \A i \in 1..Unread : InRing[i] = Len(received) + i

RefInv == Inv /\ DeadInv /\ QueueInv
LEMMA RefTypes ==
  ASSUME RefInv
  PROVE  /\ TypeOK /\ MutualExclusion
         /\ sidx \in Index /\ ridx \in Index /\ First \in Index /\ Index \subseteq Nat
         /\ sem \in Nat /\ sent \in Nat /\ Len(received) \in Nat /\ Unread \in 0..NBuf
         /\ received \in Seq(Nat) /\ slots \in [Index -> Nat]
         /\ Reading \in Nat /\ Posting \in {0, 1} /\ NotCopied \in Int
         /\ NBuf \in Nat \ {0}
<1>1. TypeOK /\ MutualExclusion
  BY DEF RefInv, Inv
<1>2. /\ sidx \in Index /\ ridx \in Index /\ sem \in Nat /\ sent \in Nat
      /\ received \in Seq(Nat) /\ slots \in [Index -> Nat]
  BY <1>1 DEF TypeOK
<1>3. NBuf \in Nat \ {0} /\ Index \subseteq Nat
  BY ShmAssumption DEF Index
<1>4. First \in Index
  BY <1>2, NextIndexType DEF First
<1>5. Len(received) \in Nat
  BY <1>2
<1>6. Unread \in 0..NBuf
  BY <1>2, <1>3, <1>5 DEF RefInv, QueueInv, Unread
<1>7. Reading \in Nat /\ Posting \in {0, 1} /\ NotCopied \in Int
  BY <1>1, DistanceType DEF NotCopied
<1> QED BY <1>1, <1>2, <1>3, <1>4, <1>5, <1>6, <1>7

\* Both sides of an equation of counts, less the same.
LEMMA SameLess ==
  ASSUME NEW a \in Nat, NEW b \in Nat, NEW c \in Nat,
         NEW d \in Nat, NEW e \in Nat, NEW f \in Nat, NEW k \in Nat,
         a + b + c = d + e + f
  PROVE  a + (b - k) + c = d + (e - k) + f
OBVIOUS

\* A step that leaves the ring alone is a stutter of the bounded queue.
LEMMA RingKept ==
  ASSUME RefInv, UNCHANGED <<sidx, ridx, slots, sent, received, crashes>>,
         (Copied' <=> Copied),
         Distance' = Distance,
         sem' \in Nat, Reading' \in Nat, Posting' \in {0, 1},
         \A s \in Senders : /\ pc'[s] = "locked" => Unread < NBuf
                            /\ pc'[s] = "counted" => sval'[s] < NBuf
  PROVE  QueueInv' /\ UNCHANGED <<InRing, received>>
<1>1. First' = First /\ Unread' = Unread
  BY DEF First, Unread, Copied
<1>2. InRing' = InRing
  BY <1>1 DEF InRing
<1>3. sem' + NotCopied' + Posting' = sem + NotCopied + Posting
  <2>1. /\ sem \in Nat /\ Reading \in Nat /\ Posting \in Nat
        /\ sem' \in Nat /\ Reading' \in Nat /\ Posting' \in Nat
    <3>1. sem \in Nat /\ Reading \in Nat /\ Posting \in {0, 1}
      BY RefTypes
    <3> QED BY <3>1
  <2>2. PICK k \in Nat : NotCopied = Reading - k /\ NotCopied' = Reading' - k
    <3>1. CASE Copied
      BY <3>1 DEF NotCopied
    <3>2. CASE ~Copied
      BY <3>2 DEF NotCopied
    <3> QED BY <3>1, <3>2
  <2>3. sem' + Reading' + Posting' = sem + Reading + Posting
    BY DEF Distance
  <2>4. PICK a \in Nat, b \in Nat, c \in Nat : a = sem' /\ b = Reading' /\ c = Posting'
    BY <2>1
  <2>5. a + b + c = sem + Reading + Posting
    BY <2>3, <2>4
  <2>6. a + (b - k) + c = sem + (Reading - k) + Posting
    BY <2>1, <2>5, SameLess
  <2>7. NotCopied' = b - k
    BY <2>2, <2>4
  <2> QED BY <2>2, <2>4, <2>6, <2>7
<1>4. sem' + NotCopied' + Posting' = Unread'
  BY <1>1, <1>3 DEF RefInv, QueueInv
<1> QED BY <1>1, <1>2, <1>4 DEF RefInv, QueueInv

\* The packet is behind all that are in the ring, in a slot that none of them has.
LEMMA WriteIsPut ==
  ASSUME RefInv, NEW s \in Senders, SendWrite(s)
  PROVE  QueueInv' /\ Abstract!Put
<1> USE DEF memory, history
<1>1. /\ TypeOK /\ MutualExclusion /\ sidx \in Index /\ First \in Index /\ Index \subseteq Nat
      /\ sem \in Nat /\ sent \in Nat /\ Len(received) \in Nat /\ Unread \in 0..NBuf
      /\ Reading \in Nat /\ slots \in [Index -> Nat] /\ received \in Seq(Nat)
      /\ NBuf \in Nat \ {0} /\ s \in Threads
  BY RefTypes DEF Threads
<1>2. /\ pc[s] = "locked" /\ Goto(s, "written") /\ sent' = sent + 1
      /\ slots' = [slots EXCEPT ![sidx] = sent + 1] /\ sidx' = NextIndex(sidx)
      /\ UNCHANGED <<ridx, sem, sval, received, crashes>>
  BY DEF SendWrite
<1>3. Unread < NBuf /\ sidx = (First + Unread) % NBuf /\ sent = Len(received) + Unread
  <2>1. Unread < NBuf
    BY <1>2 DEF RefInv, QueueInv
  <2>2. sidx = (First + Unread) % NBuf
    BY DEF RefInv, QueueInv
  <2>3. sent = Len(received) + Unread
    BY <1>1 DEF Unread
  <2> QED BY <2>1, <2>2, <2>3
<1>4. Unread' = Unread + 1
  BY <1>1, <1>2 DEF Unread
<1>5. Reading' = Reading /\ Posting = 0 /\ Posting' = 1
  BY <1>1, <1>2, ReadingGoto, PostingGoto DEF Inside
<1>6. \A r \in Receivers : pc'[r] = pc[r]
  BY <1>1, <1>2, ShmAssumption DEF Goto, TypeOK
<1>7. (Copied' <=> Copied) /\ First' = First
  BY <1>2, <1>6 DEF Copied, First
<1>8. sidx' = (First + (Unread + 1)) % NBuf
  <2>1. Unread \in Nat
    BY <1>1
  <2> QED BY <1>1, <1>2, <1>3, <2>1, IndexFurther
<1>9. ASSUME NEW i \in 1..Unread
      PROVE  slots'[(First + i - 1) % NBuf] = slots[(First + i - 1) % NBuf]
  <2>1. First + i - 1 \in Nat /\ First + Unread \in Nat /\ First + i - 1 < First + Unread
        /\ First + Unread < (First + i - 1) + NBuf
    BY <1>1, <1>3
  <2>2. (First + i - 1) % NBuf # sidx
    BY <1>1, <1>3, <2>1, ModApart
  <2> QED BY <1>1, <1>2, <2>2
<1>10. slots'[(First + (Unread + 1) - 1) % NBuf] = sent + 1
  <2>1. First + (Unread + 1) - 1 = First + Unread
    BY <1>1
  <2> QED BY <1>1, <1>2, <1>3, <2>1
<1>11. InRing \in Seq(Nat) /\ Len(InRing) = Unread
  <2>1. \A i \in 1..Unread : (First + i - 1) % NBuf \in Index
    BY <1>1, DivMod, ShmAssumption DEF Index
  <2>2. InRing \in [1..Unread -> Nat]
    BY <1>1, <2>1 DEF InRing
  <2> QED BY <1>1, <2>2, FunctionIsSeq
<1>12. InRing' = Append(InRing, sent + 1)
  <2>1. InRing' = [i \in 1..(Unread + 1) |-> slots'[(First + i - 1) % NBuf]]
    BY <1>4, <1>7 DEF InRing
  <2>2. ASSUME NEW i \in 1..Unread
        PROVE  InRing'[i] = InRing[i]
    <3>1. i \in 1..(Unread + 1)
      BY <1>1
    <3>2. InRing'[i] = slots'[(First + i - 1) % NBuf]
      BY <2>1, <3>1
    <3> QED BY <1>9, <3>2 DEF InRing
  <2>3. InRing'[Unread + 1] = sent + 1
    BY <1>1, <1>10, <2>1
  <2>4. InRing' \in [1..(Unread + 1) -> Nat]
    <3>1. \A i \in 1..Unread : InRing[i] \in Nat
      BY <1>11
    <3>2. \A i \in 1..(Unread + 1) : InRing'[i] \in Nat
      BY <1>1, <2>2, <2>3, <3>1
    <3> QED BY <2>1, <3>2
  <2>5. InRing' \in Seq(Nat) /\ Len(InRing') = Unread + 1
    BY <1>1, <2>4, FunctionIsSeq
  <2> QED BY <1>1, <1>11, <2>2, <2>3, <2>5, IsAppend
<1>13. Abstract!Put
  BY <1>1, <1>2, <1>3, <1>11, <1>12 DEF Abstract!Put
<1>14. \A i \in 1..Unread' : InRing'[i] = Len(received) + i
  <2>1. \A i \in 1..Unread : InRing[i] = Len(received) + i
    BY DEF RefInv, QueueInv
  <2>2. Append(InRing, sent + 1)[Unread + 1] = sent + 1
        /\ \A i \in 1..Unread : Append(InRing, sent + 1)[i] = InRing[i]
    BY <1>1, <1>11
  <2>3. sent + 1 = Len(received) + (Unread + 1)
    BY <1>1, <1>3
  <2>4. \A i \in 1..Unread' : i \in 1..Unread \/ i = Unread + 1
    BY <1>1, <1>4
  <2> QED BY <1>12, <2>1, <2>2, <2>3, <2>4
<1>15. \A u \in Senders : pc'[u] \notin {"locked", "counted"}
  BY <1>1, <1>2 DEF MutualExclusion, Inside, Goto, TypeOK, Threads
<1>16. Unread' = sem' + NotCopied' + Posting'
  <2>1. NotCopied' = NotCopied /\ NotCopied \in Int
    BY <1>1, <1>5, <1>7 DEF NotCopied
  <2>2. Unread = sem + NotCopied + Posting
    BY DEF RefInv, QueueInv
  <2>3. sem' = sem
    BY <1>2
  <2> QED BY <1>1, <1>4, <1>5, <2>1, <2>2, <2>3
<1>17. Len(received') <= sent' /\ Unread' <= NBuf /\ crashes' = 0
  <2>1. Len(received) <= sent
    BY <1>1, <1>3
  <2>2. Len(received') <= sent'
    BY <1>1, <1>2, <2>1
  <2>3. Unread' <= NBuf
    BY <1>1, <1>3, <1>4
  <2>4. crashes' = 0
    BY <1>2 DEF RefInv, QueueInv
  <2> QED BY <2>2, <2>3, <2>4
<1> QED BY <1>2, <1>4, <1>7, <1>8, <1>13, <1>14, <1>15, <1>16, <1>17
        DEF QueueInv, RefInv

\* The receiver inside the ring copies the oldest packet; there is one, because the
\* receiver has used a token for it.
LEMMA CopyIsTake ==
  ASSUME RefInv, NEW r \in Receivers, ReceiveCopy(r)
  PROVE  QueueInv' /\ Abstract!Take
<1> USE DEF memory, history
<1>1. /\ TypeOK /\ MutualExclusion /\ sidx \in Index /\ ridx \in Index /\ Index \subseteq Nat
      /\ sem \in Nat /\ sent \in Nat /\ Len(received) \in Nat /\ Unread \in 0..NBuf
      /\ Reading \in Nat /\ Posting \in {0, 1}
      /\ slots \in [Index -> Nat] /\ received \in Seq(Nat)
      /\ NBuf \in Nat \ {0} /\ r \in Threads /\ r \notin Senders
  BY RefTypes, ShmAssumption DEF Threads
<1>2. /\ pc[r] = "locked" /\ Goto(r, "copied") /\ received' = Append(received, slots[ridx])
      /\ UNCHANGED <<sidx, ridx, slots, sem, mutex, sval, sent, crashes>>
  BY DEF ReceiveCopy
<1>3. ~Copied /\ Copied' /\ First = ridx /\ First' = NextIndex(ridx)
  <2>1. ~Copied
    BY <1>1, <1>2 DEF MutualExclusion, Inside, Copied, Threads
  <2>2. Copied'
    BY <1>1, <1>2 DEF Goto, TypeOK, Copied
  <2> QED BY <1>2, <2>1, <2>2 DEF Copied, First
<1>4. Reading' = Reading /\ Reading > 0
  <2>1. Reading' = Reading
    BY <1>1, <1>2, ReadingGoto DEF Promised
  <2>2. r \in Readers
    BY <1>2 DEF Readers
  <2> QED BY <2>1, <2>2, ReadersFinite, FS_EmptySet
<1>5. Unread > 0 /\ sent = Len(received) + Unread
  <2>1. NotCopied = Reading
    BY <1>1, <1>3 DEF NotCopied
  <2>2. Unread = sem + NotCopied + Posting
    BY DEF RefInv, QueueInv
  <2>3. Unread > 0
    BY <1>1, <1>4, <2>1, <2>2
  <2>4. sent = Len(received) + Unread
    BY <1>1 DEF Unread
  <2> QED BY <2>3, <2>4
<1>6. Len(received') = Len(received) + 1 /\ Unread' = Unread - 1
  BY <1>1, <1>2 DEF Unread
<1>7. sidx' = (First' + Unread') % NBuf
  BY <1>1, <1>2, <1>3, <1>5, <1>6, IndexCloser DEF RefInv, QueueInv
<1>8. InRing \in Seq(Nat) /\ Len(InRing) = Unread
  <2>1. \A i \in 1..Unread : (First + i - 1) % NBuf \in Index
    BY <1>1, <1>3, DivMod, ShmAssumption DEF Index
  <2>2. InRing \in [1..Unread -> Nat]
    BY <1>1, <2>1 DEF InRing
  <2> QED BY <1>1, <2>2, FunctionIsSeq
<1>9. Head(InRing) = slots[ridx]
  <2>1. First + 1 - 1 = ridx /\ ridx % NBuf = ridx
    <3>1. ridx \in 0..(NBuf - 1)
      BY <1>1 DEF Index
    <3> QED BY <1>1, <1>3, <3>1
  <2> QED BY <1>1, <1>5, <2>1 DEF InRing
<1>10. InRing' = Tail(InRing)
  <2>1. ASSUME NEW i \in 1..(Unread - 1)
        PROVE  slots[(NextIndex(ridx) + i - 1) % NBuf] = InRing[i + 1]
    <3>1. i - 1 \in Nat /\ ridx + 1 \in Nat /\ i + 1 \in 1..Unread
          /\ (ridx + 1) + (i - 1) = ridx + (i + 1) - 1
      BY <1>1
    <3>2. (((ridx + 1) % NBuf) + (i - 1)) % NBuf = ((ridx + 1) + (i - 1)) % NBuf
      BY <1>1, <3>1, ModAdd
    <3>3. ((ridx + 1) % NBuf) + (i - 1) = ((ridx + 1) % NBuf) + i - 1
      BY <1>1, <3>1, DivMod
    <3> QED BY <1>3, <3>1, <3>2, <3>3 DEF InRing, NextIndex
  <2>2. InRing' = [i \in 1..(Unread - 1) |-> InRing[i + 1]]
    BY <1>2, <1>3, <1>6, <2>1 DEF InRing
  <2>3. \A i \in 1..(Unread - 1) : InRing[i + 1] \in Nat
    BY <1>1, <1>8
  <2>4. InRing' \in Seq(Nat) /\ Len(InRing') = Unread - 1
    BY <1>1, <1>5, <2>2, <2>3, FunctionIsSeq
  <2>5. \A i \in 1..Len(InRing') : InRing'[i] = InRing[i + 1]
    BY <2>2, <2>4
  <2>6. InRing # <<>> /\ Len(InRing') = Len(InRing) - 1
    BY <1>1, <1>5, <1>8, <2>4
  <2> QED BY <1>8, <2>4, <2>5, <2>6, IsTail
<1>11. Abstract!Take
  BY <1>1, <1>2, <1>5, <1>8, <1>9, <1>10 DEF Abstract!Take
<1>12. \A i \in DOMAIN received' : received'[i] = i
  <2>1. slots[ridx] = Len(received) + 1
    <3>1. \A i \in 1..Unread : InRing[i] = Len(received) + i
      BY DEF RefInv, QueueInv
    <3>2. 1 \in 1..Unread /\ Head(InRing) = InRing[1]
      BY <1>1, <1>5, <1>8
    <3> QED BY <1>9, <3>1, <3>2
  <2>2. \A i \in DOMAIN received : received[i] = i
    BY DEF RefInv, QueueInv
  <2>3. received' = Append(received, slots[ridx]) /\ slots[ridx] \in Nat
    BY <1>1, <1>2
  <2>4. \A i \in DOMAIN received' : i \in DOMAIN received \/ i = Len(received) + 1
    BY <1>1, <2>3
  <2>5. received'[Len(received) + 1] = slots[ridx]
    BY <1>1, <2>3
  <2>6. \A i \in DOMAIN received : received'[i] = received[i]
    BY <1>1, <2>3
  <2> QED BY <2>1, <2>2, <2>4, <2>5, <2>6
<1>13. \A i \in 1..Unread' : InRing'[i] = Len(received') + i
  <2>1. \A i \in 1..Unread : InRing[i] = Len(received) + i
    BY DEF RefInv, QueueInv
  <2>2. \A i \in 1..(Unread - 1) : InRing'[i] = InRing[i + 1] /\ i + 1 \in 1..Unread
    BY <1>1, <1>5, <1>8, <1>10, TailAt
  <2> QED BY <1>1, <1>5, <1>6, <2>1, <2>2
<1>14. \A u \in Senders : pc'[u] = pc[u]
  BY <1>1, <1>2 DEF Goto, TypeOK
<1>15. Posting' = Posting
  BY <1>14, PostingKept
<1>16. Unread' = sem' + NotCopied' + Posting'
  <2>1. NotCopied = Reading /\ NotCopied' = Reading - 1
    BY <1>1, <1>3, <1>4 DEF NotCopied
  <2>2. Unread = sem + NotCopied + Posting
    BY DEF RefInv, QueueInv
  <2>3. sem' = sem
    BY <1>2
  <2> QED BY <1>1, <1>6, <1>15, <2>1, <2>2, <2>3
<1>17. \A u \in Senders : /\ pc'[u] = "locked" => Unread' < NBuf
                          /\ pc'[u] = "counted" => sval'[u] < NBuf
  <2>1. Unread' < NBuf
    BY <1>1, <1>6
  <2>2. \A u \in Senders : pc[u] = "counted" => sval[u] < NBuf
    BY DEF RefInv, QueueInv
  <2> QED BY <1>2, <1>14, <2>1, <2>2
<1>18. Len(received') <= sent' /\ Unread' <= NBuf /\ crashes' = 0
  <2>1. Len(received') <= sent'
    BY <1>1, <1>2, <1>5, <1>6
  <2>2. Unread' <= NBuf
    BY <1>1, <1>6
  <2>3. crashes' = 0
    BY <1>2 DEF RefInv, QueueInv
  <2> QED BY <2>1, <2>2, <2>3
<1>19. QueueInv'
  <2>1. crashes' = 0 /\ Len(received') <= sent' /\ Unread' <= NBuf
    BY <1>18
  <2>2. Unread' = sem' + NotCopied' + Posting'
    BY <1>16
  <2>3. \A i \in DOMAIN received' : received'[i] = i
    BY <1>12
  <2>4. \A i \in 1..Unread' : InRing'[i] = Len(received') + i
    BY <1>13
  <2>5. \A u \in Senders : /\ pc'[u] = "locked" => Unread' < NBuf
                           /\ pc'[u] = "counted" => sval'[u] < NBuf
    BY <1>17
  <2>6. sidx' = (First' + Unread') % NBuf
    BY <1>7
  <2> QED BY <2>1, <2>2, <2>3, <2>4, <2>5, <2>6 DEF QueueInv
<1> QED BY <1>11, <1>19

\* The slot of the packet that was copied is given up when the index moves: First
\* stays where it is.
LEMMA AdvanceIsStutter ==
  ASSUME RefInv, NEW r \in Receivers, ReceiveAdvance(r)
  PROVE  QueueInv' /\ UNCHANGED <<InRing, received>>
<1> USE DEF memory, history
<1>1. /\ TypeOK /\ MutualExclusion /\ ridx \in Index /\ sem \in Nat /\ Unread \in 0..NBuf
      /\ Reading \in Nat /\ Posting \in {0, 1} /\ NBuf \in Nat \ {0}
      /\ r \in Threads /\ r \notin Senders
  BY RefTypes, ShmAssumption DEF Threads
<1>2. /\ pc[r] = "copied" /\ Goto(r, "advanced") /\ ridx' = NextIndex(ridx)
      /\ UNCHANGED <<sidx, slots, sem, mutex, sval, sent, received, crashes>>
  BY DEF ReceiveAdvance
<1>3. Copied /\ ~Copied'
  <2>1. Copied
    BY <1>2 DEF Copied
  <2>2. \A u \in Receivers : u # r => pc[u] # "copied"
    BY <1>1, <1>2 DEF MutualExclusion, Inside, Threads
  <2>3. \A u \in Receivers : pc'[u] # "copied"
    BY <1>1, <1>2, <2>2 DEF Goto, TypeOK, Threads
  <2> QED BY <2>1, <2>3 DEF Copied
<1>4. First' = First /\ Unread' = Unread
  BY <1>2, <1>3 DEF First, Copied, Unread
<1>5. InRing' = InRing
  BY <1>2, <1>4 DEF InRing
<1>6. Reading' = Reading - 1
  BY <1>1, <1>2, ReadingGoto DEF Promised
<1>7. NotCopied' = NotCopied
  BY <1>1, <1>3, <1>6 DEF NotCopied
<1>8. \A u \in Senders : pc'[u] = pc[u]
  BY <1>1, <1>2 DEF Goto, TypeOK
<1>9. Posting' = Posting
  BY <1>8, PostingKept
<1> QED BY <1>2, <1>4, <1>5, <1>7, <1>8, <1>9 DEF RefInv, QueueInv

\* Every step is a step of the bounded queue or leaves it as it is.
LEMMA RefStep ==
  ASSUME RefInv, MayLap = FALSE, MaxCrashes = 0, [Next]_vars
  PROVE  QueueInv' /\ [Abstract!Next]_<<InRing, received>>
<1> USE DEF memory, history
<1> DEFINE Goal == QueueInv' /\ [Abstract!Next]_<<InRing, received>>
<1>1. /\ TypeOK /\ MutualExclusion /\ TypeOK' /\ MutualExclusion'
      /\ sem \in Nat /\ sem' \in Nat /\ sent \in Nat /\ Len(received) \in Nat
      /\ Unread \in 0..NBuf /\ Reading \in Nat /\ Posting \in {0, 1} /\ Posting' \in {0, 1}
      /\ NotCopied \in Int /\ NBuf \in Nat \ {0}
  <2>1. TypeOK' /\ MutualExclusion'
    BY TypeStep, ExclusionStep DEF RefInv, Inv
  <2>2. sem' \in Nat /\ Posting' \in {0, 1}
    BY <2>1 DEF TypeOK, Posting
  <2> QED BY RefTypes, <2>1, <2>2
<1>2. /\ Unread = sem + NotCopied + Posting /\ crashes = 0
      /\ \A u \in Senders : /\ pc[u] = "locked" => Unread < NBuf
                            /\ pc[u] = "counted" => sval[u] < NBuf
  BY DEF RefInv, QueueInv
<1>3. \A t \in Threads : pc[t] \notin {"dead", "starting"}
  BY <1>2 DEF RefInv, DeadInv
<1>4. ASSUME UNCHANGED <<sidx, ridx, slots, sent, received, crashes>>, (Copied' <=> Copied),
             Distance' = Distance, Reading' \in Nat,
             \A u \in Senders : /\ pc'[u] = "locked" => Unread < NBuf
                                /\ pc'[u] = "counted" => sval'[u] < NBuf
      PROVE  Goal
  BY <1>1, <1>4, RingKept
<1>5. NotCopied >= 0
  <2>1. CASE Copied
    <3>1. Readers # {}
      BY <2>1 DEF Copied, Readers
    <3> QED BY <1>1, <3>1, ReadersFinite, FS_EmptySet DEF NotCopied
  <2>2. CASE ~Copied
    BY <1>1, <2>2 DEF NotCopied
  <2> QED BY <2>1, <2>2
<1>6. ASSUME NEW s \in Senders, SendStep(s)
      PROVE  Goal
  <2>1. s \in Threads /\ s \notin Receivers
    BY ShmAssumption DEF Threads
  <2>2. ASSUME NEW l, Goto(s, l)
        PROVE  /\ Reading' = Reading /\ Reading' \in Nat /\ (Copied' <=> Copied)
               /\ \A u \in Senders : pc'[u] = IF u = s THEN l ELSE pc[u]
    <3>1. Reading' = Reading /\ Reading' \in Nat
      BY <1>1, <2>1, <2>2, ReadingGoto
    <3>2. \A u \in Threads : pc'[u] = IF u = s THEN l ELSE pc[u]
      BY <1>1, <2>2 DEF Goto, TypeOK
    <3> QED BY <2>1, <3>1, <3>2 DEF Copied, Threads
  <2>3. CASE SendLock(s)
    <3>1. /\ Goto(s, "locked") /\ pc[s] = "idle" /\ sent < Len(received) + NBuf
          /\ UNCHANGED <<sidx, ridx, slots, sem, sval, sent, received, crashes>>
      BY <2>3 DEF SendLock, Lock
    <3>2. Unread < NBuf
      BY <1>1, <3>1 DEF Unread
    <3>3. Posting' = Posting
      BY <2>2, <3>1, PostingKept
    <3>4. Distance' = Distance
      BY <2>2, <3>1, <3>3 DEF Distance
    <3>5. \A u \in Senders : /\ pc'[u] = "locked" => Unread < NBuf
                             /\ pc'[u] = "counted" => sval'[u] < NBuf
      BY <1>2, <2>2, <3>1, <3>2
    <3> QED BY <1>4, <2>2, <3>1, <3>4, <3>5
  <2>4. CASE SendWrite(s)
    BY <2>4, WriteIsPut DEF Abstract!Next
  <2>5. CASE SendGetValue(s)
    <3>1. /\ Goto(s, "counted") /\ pc[s] = "written" /\ sval' = [sval EXCEPT ![s] = sem]
          /\ UNCHANGED <<sidx, ridx, slots, sem, sent, received, crashes>>
      BY <2>5 DEF SendGetValue
    <3>2. Posting = 1 /\ Posting' = 1
      BY <1>1, <3>1, PostingGoto DEF Inside
    <3>3. sem < NBuf
      BY <1>1, <1>2, <1>5, <3>2
    <3>4. Distance' = Distance
      BY <2>2, <3>1, <3>2 DEF Distance
    <3>5. \A u \in Senders : sval'[u] = IF u = s THEN sem ELSE sval[u]
      BY <1>1, <3>1 DEF TypeOK
    <3>6. \A u \in Senders : /\ pc'[u] = "locked" => Unread < NBuf
                             /\ pc'[u] = "counted" => sval'[u] < NBuf
      BY <1>2, <2>2, <3>1, <3>3, <3>5
    <3> QED BY <1>4, <2>2, <3>1, <3>4, <3>6
  <2>6. CASE SendPost(s)
    <3>1. Goto(s, "posted") /\ pc[s] = "counted"
          /\ UNCHANGED <<sidx, slots, sval, sent, received, crashes>>
      BY <2>6 DEF SendPost
    <3>2. ~Full(sval[s])
      BY <1>1, <1>2, <3>1 DEF Full, TypeOK
    <3>3. sem' = sem + 1 /\ ridx' = ridx
      BY <2>6, <3>2 DEF SendPost
    <3>4. Posting = 1 /\ Posting' = 0
      BY <1>1, <3>1, PostingGoto DEF Inside
    <3>5. Distance' = Distance
      BY <1>1, <2>2, <3>1, <3>3, <3>4 DEF Distance
    <3>6. \A u \in Senders : /\ pc'[u] = "locked" => Unread < NBuf
                             /\ pc'[u] = "counted" => sval'[u] < NBuf
      BY <1>2, <2>2, <3>1
    <3> QED BY <1>4, <2>2, <3>1, <3>3, <3>5, <3>6
  <2>7. CASE SendUnlock(s)
    <3>1. /\ Goto(s, "idle") /\ pc[s] = "posted"
          /\ UNCHANGED <<sidx, ridx, slots, sem, sval, sent, received, crashes>>
      BY <2>7 DEF SendUnlock, Unlock
    <3>2. Posting' = Posting
      BY <2>2, <3>1, PostingKept
    <3>3. Distance' = Distance
      BY <2>2, <3>1, <3>2 DEF Distance
    <3>4. \A u \in Senders : /\ pc'[u] = "locked" => Unread < NBuf
                             /\ pc'[u] = "counted" => sval'[u] < NBuf
      BY <1>2, <2>2, <3>1
    <3> QED BY <1>4, <2>2, <3>1, <3>3, <3>4
  <2> QED BY <1>6, <2>3, <2>4, <2>5, <2>6, <2>7 DEF SendStep
<1>7. ASSUME NEW r \in Receivers, ReceiveStep(r)
      PROVE  Goal
  <2>1. r \in Threads /\ r \notin Senders
    BY ShmAssumption DEF Threads
  <2>2. ASSUME NEW l, Goto(r, l)
        PROVE  /\ Posting' = Posting /\ \A u \in Senders : pc'[u] = pc[u]
               /\ \A u \in Receivers : pc'[u] = IF u = r THEN l ELSE pc[u]
    <3>1. \A u \in Threads : pc'[u] = IF u = r THEN l ELSE pc[u]
      BY <1>1, <2>2 DEF Goto, TypeOK
    <3>2. \A u \in Senders : pc'[u] = pc[u]
      BY <2>1, <3>1 DEF Threads
    <3>3. \A u \in Receivers : pc'[u] = IF u = r THEN l ELSE pc[u]
      BY <3>1 DEF Threads
    <3> QED BY <3>2, <3>3, PostingKept
  <2>3. ASSUME NEW l, Goto(r, l), pc[r] # "copied", l # "copied", UNCHANGED sval
        PROVE  /\ (Copied' <=> Copied)
               /\ \A u \in Senders : /\ pc'[u] = "locked" => Unread < NBuf
                                     /\ pc'[u] = "counted" => sval'[u] < NBuf
    BY <1>2, <2>2, <2>3 DEF Copied
  <2>4. CASE ReceiveWait(r)
    <3>1. /\ Goto(r, "waited") /\ pc[r] = "idle" /\ sem > 0 /\ sem' = sem - 1
          /\ UNCHANGED <<sidx, ridx, slots, sval, sent, received, crashes>>
      BY <2>4 DEF ReceiveWait
    <3>2. Reading' = Reading + 1 /\ Reading' \in Nat
      BY <1>1, <2>1, <3>1, ReadingGoto DEF Promised
    <3>3. Distance' = Distance
      <4>1. PICK a \in Nat, b \in Nat, c \in {0, 1} : a = sem' /\ b = Reading' /\ c = Posting'
        BY <1>1, <3>2
      <4>2. a = sem - 1 /\ b = Reading + 1 /\ c = Posting
        BY <2>2, <3>1, <3>2, <4>1
      <4>3. a + b + c = sem + Reading + Posting
        BY <1>1, <4>2
      <4> QED BY <4>1, <4>3 DEF Distance
    <3> QED BY <1>4, <2>3, <3>1, <3>2, <3>3
  <2>5. CASE ReceiveLock(r)
    <3>1. /\ Goto(r, "locked") /\ pc[r] = "waited"
          /\ UNCHANGED <<sidx, ridx, slots, sem, sval, sent, received, crashes>>
      BY <2>5 DEF ReceiveLock, Lock
    <3>2. Reading' = Reading /\ Reading' \in Nat
      BY <1>1, <2>1, <3>1, ReadingGoto DEF Promised
    <3>3. Distance' = Distance
      BY <1>1, <2>2, <3>1, <3>2 DEF Distance
    <3> QED BY <1>4, <2>3, <3>1, <3>2, <3>3
  <2>6. CASE ReceiveCopy(r)
    BY <2>6, CopyIsTake DEF Abstract!Next
  <2>7. CASE ReceiveAdvance(r)
    BY <2>7, AdvanceIsStutter
  <2>8. CASE ReceiveUnlock(r)
    <3>1. /\ Goto(r, "idle") /\ pc[r] = "advanced"
          /\ UNCHANGED <<sidx, ridx, slots, sem, sval, sent, received, crashes>>
      BY <2>8 DEF ReceiveUnlock, Unlock
    <3>2. Reading' = Reading /\ Reading' \in Nat
      BY <1>1, <2>1, <3>1, ReadingGoto DEF Promised
    <3>3. Distance' = Distance
      BY <1>1, <2>2, <3>1, <3>2 DEF Distance
    <3> QED BY <1>4, <2>3, <3>1, <3>2, <3>3
  <2> QED BY <1>7, <2>4, <2>5, <2>6, <2>7, <2>8 DEF ReceiveStep
<1>8. ASSUME NEW P, Kill(P)
      PROVE  FALSE
  BY <1>1, <1>2, <1>8 DEF Kill
<1>9. ASSUME NEW r \in Receivers, ReceiverRestarts(r)
      PROVE  FALSE
  BY <1>3, <1>9 DEF ReceiverRestarts, Threads
<1>10. CASE SenderRestarts \/ SenderStarted
  BY <1>3, <1>10 DEF SenderRestarts, SenderStarted, SendersAt, SendersTo, Threads
<1>11. CASE UNCHANGED vars
  <2>1. UNCHANGED vars
    BY <1>11
  <2>2. UNCHANGED <<sidx, ridx, slots, sem, pc, sval, sent, received, crashes>>
    BY <2>1 DEF vars
  <2>3. Reading' = Reading /\ Posting' = Posting /\ (Copied' <=> Copied)
    BY <2>2 DEF Reading, Posting, Copied
  <2>4. Distance' = Distance /\ Reading' \in Nat
    BY <1>1, <2>2, <2>3 DEF Distance
  <2> QED BY <1>2, <1>4, <2>2, <2>3, <2>4
<1> QED BY <1>6, <1>7, <1>8, <1>9, <1>10, <1>11 DEF Next, ReceiverCrashes, SenderCrashes

LEMMA RefInit == Init => QueueInv /\ Abstract!Init
<1> SUFFICES ASSUME Init
             PROVE  QueueInv /\ Abstract!Init
  OBVIOUS
<1>1. Readers = {} /\ Posting = 0 /\ ~Copied
  BY DEF Init, Readers, Posting, Threads, Copied
<1>2. Reading = 0 /\ NotCopied = 0
  BY <1>1, ReadersFinite, FS_EmptySet DEF NotCopied
<1>3. Len(received) = 0 /\ sent = 0 /\ Unread = 0 /\ sem = 0 /\ sidx = 0 /\ crashes = 0
  <2>1. received = <<>> /\ sent = 0 /\ sem = 0 /\ sidx = 0 /\ crashes = 0
    BY DEF Init, InitialTokens
  <2>2. Len(received) = 0
    BY <2>1
  <2>3. Unread = sent - Len(received)
    BY DEF Unread
  <2>4. Unread = 0
    BY <2>1, <2>2, <2>3
  <2> QED BY <2>1, <2>2, <2>4
<1>4. First = 0
  BY <1>1 DEF First, Copied, Init
<1>5. 0 = (0 + 0) % NBuf /\ 0 < NBuf /\ 1..0 = {}
  BY ShmAssumption
<1>6. InRing = <<>>
  BY <1>3, <1>5 DEF InRing
<1>7. \A s \in Senders : pc[s] = "idle"
  BY DEF Init, Threads
<1>8. QueueInv
  BY <1>1, <1>2, <1>3, <1>4, <1>5, <1>7, ShmAssumption DEF QueueInv, Init
<1>9. Abstract!Init
  BY <1>6 DEF Init, Abstract!Init
<1> QED BY <1>8, <1>9

LEMMA RefInductive ==
  ASSUME MayLap = FALSE, MaxCrashes = 0
  PROVE  Spec => []RefInv
<1>1. Init => RefInv
  BY TypeInit, ExclusionInit, CountInit, TokenInit, RefInit DEF Inv, RefInv
<1>2. RefInv /\ [Next]_vars => RefInv'
  BY TypeStep, ExclusionStep, CountStep, DeadStep, RefStep DEF Inv, RefInv
<1> QED BY <1>1, <1>2, PTL DEF Spec

\* As long as the user sends only while a slot is free, and no process is killed, the
\* ring, the two indices and the two semaphores are a bounded first-in first-out queue.
THEOREM RingImplementsFifo ==
  ASSUME MayLap = FALSE, MaxCrashes = 0
  PROVE  Spec => ImplementsFifo
<1>1. Init => Abstract!Init
  BY RefInit
<1>2. RefInv /\ [Next]_vars => [Abstract!Next]_<<InRing, received>>
  BY RefStep
<1> QED BY <1>1, <1>2, RefInductive, PTL DEF Spec, ImplementsFifo, Abstract!Spec

\* Then every packet arrives once and in the order of sending, which the run shm_order
\* refutes for a sender that overruns the ring.
THEOREM InOrder ==
  ASSUME MayLap = FALSE, MaxCrashes = 0
  PROVE  Spec => []Fifo
<1>1. RefInv => Fifo
  <2> SUFFICES ASSUME RefInv, NEW i \in DOMAIN received, NEW j \in DOMAIN received, i < j
               PROVE  received[i] < received[j]
    BY DEF Fifo
  <2> QED BY DEF RefInv, QueueInv
<1> QED BY <1>1, RefInductive, PTL
=============================================================================
