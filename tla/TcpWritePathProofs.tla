------------------------- MODULE TcpWritePathProofs -------------------------
(***************************************************************************)
(* Proofs about TcpWritePath: type correctness, that there is never more   *)
(* than one write under way and never a front() or pop_front() of an empty *)
(* queue, that packets reach the wire in the order of their acceptance,    *)
(* and that none is lost while nothing fails, for every set of sender      *)
(* threads and every bound.                                                *)
(***************************************************************************)
EXTENDS TcpWritePath, SequenceLemmas, TLAPS

\* Who may touch the front of the queue next: a write the kernel has, one
\* whose handler is due, a sender or handle_write about to start one.
Baton == \/ writing # <<>> \/ completed # <<>> \/ io = "more"
         \/ \E t \in Senders : pc[t] = "start"

\* The baton exists only while write_in_progress is set and there is a packet
\* for it, and there is one baton: the inductive form of SingleWriter and
\* FrontDefined.
BatonInv ==
  /\ SingleWriter
  /\ Baton => write_in_progress /\ write_queue # <<>>

\* The inductive form of InOrder: the wire, the packet of the write under
\* way and the queue are ordered among each other, and the queue in itself.
OrderInv ==
  /\ InOrder
  /\ \A i, j \in DOMAIN write_queue : i < j => write_queue[i] < write_queue[j]
  /\ \A i \in DOMAIN writing :
       /\ \A k \in DOMAIN wire : wire[k] < writing[i]
       /\ \A k \in DOMAIN write_queue : writing[i] <= write_queue[k]
  /\ \A i \in DOMAIN completed :
       /\ \A k \in DOMAIN wire : wire[k] <= completed[i].msg
       /\ completed[i].done = "part" => \A k \in DOMAIN wire : wire[k] < completed[i].msg
       /\ \A k \in DOMAIN write_queue : completed[i].msg <= write_queue[k]
  /\ writing = <<>> /\ completed = <<>> =>
       \A i \in DOMAIN wire, j \in DOMAIN write_queue :
         wire[i] < write_queue[j]

Inv == TypeOK /\ BatonInv /\ OrderInv

-----------------------------------------------------------------------------
(* What the operators shared by the actions do to a state with one baton.  *)

\* A sequence over a set is a sequence over every larger set.
LEMMA SeqMonotone ==
  ASSUME NEW S, NEW T, S \subseteq T, NEW s \in Seq(S)
  PROVE  s \in Seq(T)
OBVIOUS

LEMMA AppendNonempty ==
  ASSUME NEW S, NEW q \in Seq(S), NEW e
  PROVE  Append(q, e) # <<>>
<1>1. Len(Append(q, e)) = Len(q) + 1 /\ Len(q) \in Nat
  OBVIOUS
<1>2. Len(Append(q, e)) # 0 /\ Len(<<>>) = 0
  BY <1>1
<1> QED BY <1>2, Zenon

\* Of two sequences with one element between them, where it is in the first.
LEMMA OneElement ==
  ASSUME NEW S, NEW T, NEW s \in Seq(S), NEW u \in Seq(T),
         Len(s) + Len(u) <= 1, s # <<>>
  PROVE  Len(s) = 1 /\ s[1] \in S /\ s = <<s[1]>> /\ u = <<>>
<1>1. Len(s) \in Nat /\ Len(u) \in Nat /\ Len(s) # 0
  OBVIOUS
<1>2. Len(s) = 1 /\ Len(u) = 0
  <2>1. \A m, n \in Nat : m + n <= 1 /\ m # 0 => m = 1 /\ n = 0
    OBVIOUS
  <2> QED BY <1>1, <2>1
<1>3. s[1] \in S
  BY <1>2
<1>4. s = <<s[1]>>
  BY <1>2
<1> QED BY <1>2, <1>3, <1>4

\* A write in the kernel, or a finished one, is the only one there is.
LEMMA OneWriting ==
  ASSUME TypeOK, BatonInv, writing # <<>>
  PROVE  \E m \in 1..accepted : writing = <<m>> /\ completed = <<>>
<1> DEFINE M == 1..accepted
           C == [msg : M, done : Outcomes]
<1>1. /\ writing \in Seq(M) /\ completed \in Seq(C)
      /\ Len(writing) + Len(completed) <= 1
  BY DEF TypeOK, BatonInv, SingleWriter
<1>2. writing[1] \in M /\ writing = <<writing[1]>> /\ completed = <<>>
  <2> HIDE DEF M, C
  <2> QED BY <1>1, OneElement
<1> QED BY <1>2

LEMMA OneCompleted ==
  ASSUME TypeOK, BatonInv, completed # <<>>
  PROVE  \E c \in [msg : 1..accepted, done : Outcomes] :
           completed = <<c>> /\ writing = <<>>
<1> DEFINE M == 1..accepted
           C == [msg : M, done : Outcomes]
<1>1. /\ writing \in Seq(M) /\ completed \in Seq(C)
      /\ Len(completed) + Len(writing) <= 1
  BY DEF TypeOK, BatonInv, SingleWriter
<1>2. completed[1] \in C /\ completed = <<completed[1]>> /\ writing = <<>>
  <2> HIDE DEF M, C
  <2> QED BY <1>1, OneElement
<1> QED BY <1>2

\* AbortWrites turns the one write the kernel may have into a failed completion.
LEMMA AbortEffect ==
  ASSUME TypeOK, BatonInv, AbortWrites
  PROVE  /\ writing' = <<>>
         /\ \/ writing = <<>> /\ completed' = completed
            \/ \E m \in 1..accepted :
                 /\ writing = <<m>> /\ completed = <<>>
                 /\ completed' = <<Failed(m)>>
<1>1. CASE writing = <<>>
  <2>1. [i \in DOMAIN writing |-> Failed(writing[i])] = <<>>
    BY <1>1
  <2> QED BY <1>1, <2>1 DEF AbortWrites, TypeOK
<1>2. CASE writing # <<>>
  <2>1. PICK m \in 1..accepted : writing = <<m>> /\ completed = <<>>
    BY <1>2, OneWriting
  <2>2. [i \in DOMAIN writing |-> Failed(writing[i])] = <<Failed(m)>>
    BY <2>1
  <2> QED BY <2>1, <2>2 DEF AbortWrites
<1> QED BY <1>1, <1>2

\* The error handler changes no write, or aborts them all.
LEMMA ErrorEffect ==
  ASSUME TypeOK, NEW d \in SockStates, ErrorHandler(d)
  PROVE  /\ state' \in States /\ sock' \in SockStates /\ timer' \in TimerStates
         /\ UNCHANGED <<writing, completed>> \/ AbortWrites
BY DEF ErrorHandler, SessionError, ClientError, TypeOK, States, SockStates, TimerStates

\* do_write, where no write is under way, hands its packet to the kernel or
\* finishes at once with an error.
LEMMA StartEffect ==
  ASSUME NEW m, NEW q, writing = <<>>, q = <<>>, StartWrite(m, q)
  PROVE  \/ writing' = <<m>> /\ completed' = <<>>
         \/ writing' = <<>> /\ completed' = <<Failed(m)>>
BY DEF StartWrite

-----------------------------------------------------------------------------
(* Type correctness.                                                       *)

\* What is shared by every step that leaves accepted alone.
LEMMA AbortType ==
  ASSUME TypeOK, BatonInv, AbortWrites
  PROVE  /\ writing' \in Seq(1..accepted)
         /\ completed' \in Seq([msg : 1..accepted, done : Outcomes])
<1> DEFINE C == [msg : 1..accepted, done : Outcomes]
<1>1. writing' \in Seq(1..accepted)
  <2>1. writing' = <<>>
    BY AbortEffect
  <2> QED BY <2>1
<1>2. completed' \in Seq(C)
  <2>1. CASE completed' = completed
    BY <2>1 DEF TypeOK
  <2>2. CASE \E m \in 1..accepted : completed' = <<Failed(m)>>
    <3>1. PICK m \in 1..accepted : completed' = <<Failed(m)>>
      BY <2>2
    <3>2. Failed(m) \in C
      BY DEF Failed, Finished, Outcomes
    <3> QED BY <3>1, <3>2
  <2> QED BY <2>1, <2>2, AbortEffect
<1> QED BY <1>1, <1>2

LEMMA StartType ==
  ASSUME TypeOK, NEW q, writing = <<>>, q = <<>>, NEW m \in 1..accepted,
         StartWrite(m, q)
  PROVE  /\ writing' \in Seq(1..accepted)
         /\ completed' \in Seq([msg : 1..accepted, done : Outcomes])
<1> DEFINE C == [msg : 1..accepted, done : Outcomes]
<1>1. Failed(m) \in C
  BY DEF Failed, Finished, Outcomes
<1>2. \/ writing' = <<m>> /\ completed' = <<>>
      \/ writing' = <<>> /\ completed' = <<Failed(m)>>
  BY StartEffect
<1>3. /\ <<m>> \in Seq(1..accepted) /\ <<>> \in Seq(1..accepted)
      /\ <<Failed(m)>> \in Seq(C) /\ <<>> \in Seq(C)
  BY <1>1
<1>4. writing' \in Seq(1..accepted) /\ completed' \in Seq(C)
  BY <1>2, <1>3, Zenon
<1> QED BY <1>4

\* The front of the queue is an accepted packet whenever there is one.
LEMMA FrontType ==
  ASSUME TypeOK, write_queue # <<>>
  PROVE  /\ Head(write_queue) \in 1..accepted
         /\ Head(write_queue) = write_queue[1]
         /\ Tail(write_queue) \in Seq(1..accepted)
BY DEF TypeOK

LEMMA TypeInit == Init => TypeOK
<1> SUFFICES ASSUME Init PROVE TypeOK
  OBVIOUS
<1>1. pc \in [Senders -> {"idle", "checked", "start"}]
  BY DEF Init
<1>2. /\ accepted \in Nat
      /\ write_queue \in Seq(1..accepted) /\ writing \in Seq(1..accepted)
      /\ wire \in Seq(1..accepted)
      /\ completed \in Seq([msg : 1..accepted, done : Outcomes])
  BY DEF Init
<1> QED BY <1>1, <1>2 DEF Init, TypeOK, States, SockStates, TimerStates

LEMMA TypeStep ==
  ASSUME TypeOK, BatonInv, [Next]_vars
  PROVE  TypeOK'
<1> USE DEF TypeOK, threadVars, queueVars, sockVars, budgetVars
<1>1. ASSUME NEW t \in Senders, CheckState(t) PROVE TypeOK'
  BY <1>1 DEF CheckState
<1>2. ASSUME NEW t \in Senders, EnqueueWrite(t) PROVE TypeOK'
  <2> DEFINE C(n) == [msg : 1..n, done : Outcomes]
  <2>1. /\ accepted' \in Nat
        /\ 1..accepted \subseteq 1..accepted'
        /\ accepted + 1 \in 1..accepted'
    BY <1>2 DEF EnqueueWrite, AcceptPacket
  <2>2. C(accepted) \subseteq C(accepted')
    BY <2>1
  <2>3. /\ write_queue \in Seq(1..accepted') /\ <<>> \in Seq(1..accepted')
        /\ writing \in Seq(1..accepted') /\ wire \in Seq(1..accepted')
    BY <2>1, SeqMonotone
  <2>4. completed \in Seq(C(accepted'))
    <3>1. completed \in Seq(C(accepted))
      OBVIOUS
    <3> HIDE DEF C, TypeOK
    <3> QED BY <2>2, <3>1, SeqMonotone
  <2>5. write_queue' \in Seq(1..accepted')
    <3>1. \A q \in Seq(1..accepted') : Append(q, accepted + 1) \in Seq(1..accepted')
      BY <2>1
    <3> QED BY <1>2, <2>3, <3>1 DEF EnqueueWrite, Queued
  <2>6. UNCHANGED <<sockVars, drop_pending, io, writing, completed, wire,
                    budgetVars>>
    BY <1>2 DEF EnqueueWrite
  <2>7. /\ write_in_progress' \in BOOLEAN
        /\ pc' \in [Senders -> {"idle", "checked", "start"}]
    BY <1>2 DEF EnqueueWrite
  <2> QED BY <2>1, <2>3, <2>4, <2>5, <2>6, <2>7
<1>3. ASSUME NEW t \in Senders, DoWrite(t) PROVE TypeOK'
  <2>1. writing = <<>> /\ completed = <<>> /\ write_queue # <<>>
    BY <1>3 DEF DoWrite, BatonInv, Baton, SingleWriter
  <2>2. /\ writing' \in Seq(1..accepted)
        /\ completed' \in Seq([msg : 1..accepted, done : Outcomes])
    BY <1>3, <2>1, FrontType, StartType DEF DoWrite
  <2> QED BY <1>3, <2>2 DEF DoWrite
<1>4. ASSUME NEW p \in BOOLEAN, SetDropPending(p) PROVE TypeOK'
  BY <1>4 DEF SetDropPending
<1>5. CASE HandleWrite
  <2>1. write_queue # <<>>
    BY <1>5 DEF HandleWrite, BatonInv, Baton
  <2>2. Tail(write_queue) \in Seq(1..accepted)
    BY <2>1, FrontType
  <2>3. Tail(completed) \in Seq([msg : 1..accepted, done : Outcomes])
    BY <1>5 DEF HandleWrite
  <2> QED BY <1>5, <2>2, <2>3 DEF HandleWrite, InProgressAfter
<1>6. CASE HandleWriteFailed
  <2>1. ErrorHandler(sock) /\ sock \in SockStates
    BY <1>6 DEF HandleWriteFailed
  <2>2. /\ writing' \in Seq(1..accepted)
        /\ completed' \in Seq([msg : 1..accepted, done : Outcomes])
    BY <2>1, ErrorEffect, AbortType
  <2> QED BY <1>6, <2>1, <2>2, ErrorEffect DEF HandleWriteFailed
<1>7. CASE HandleWriteMore
  <2>1. writing = <<>> /\ completed = <<>> /\ write_queue # <<>>
    BY <1>7 DEF HandleWriteMore, BatonInv, Baton, SingleWriter
  <2>2. /\ writing' \in Seq(1..accepted)
        /\ completed' \in Seq([msg : 1..accepted, done : Outcomes])
    BY <1>7, <2>1, FrontType, StartType DEF HandleWriteMore
  <2> QED BY <1>7, <2>2 DEF HandleWriteMore
<1>8. CASE ReceiveFailed
  <2>1. PICK d \in SockStates : ErrorHandler(d)
    BY <1>8 DEF ReceiveFailed, SockStates
  <2>2. /\ writing' \in Seq(1..accepted)
        /\ completed' \in Seq([msg : 1..accepted, done : Outcomes])
    BY <2>1, ErrorEffect, AbortType
  <2> QED BY <1>8, <2>1, <2>2, ErrorEffect DEF ReceiveFailed
<1>9. CASE BeginConnect
  <2>1. /\ writing' \in Seq(1..accepted)
        /\ completed' \in Seq([msg : 1..accepted, done : Outcomes])
    BY <1>9, AbortType DEF BeginConnect, Dial
  <2>2. expired' \in BOOLEAN /\ state' \in States /\ sock' \in SockStates
    BY <1>9 DEF BeginConnect, Dial, States, SockStates
  <2>3. /\ attempts' \in Nat /\ reconnects' \in Nat
        /\ UNCHANGED <<reading, timer, drop_pending, queueVars, threadVars, accepted, wire, faults>>
    BY <1>9 DEF BeginConnect
  <2> QED BY <2>1, <2>2, <2>3
<1>10. CASE CallbackTimerAborted
  <2>1. ErrorHandler(sock) /\ sock \in SockStates
    BY <1>10 DEF CallbackTimerAborted
  <2>2. /\ writing' \in Seq(1..accepted)
        /\ completed' \in Seq([msg : 1..accepted, done : Outcomes])
    BY <2>1, ErrorEffect, AbortType
  <2> QED BY <1>10, <2>1, <2>2, ErrorEffect DEF CallbackTimerAborted
<1>11. CASE CallbackConnect
  <2>1. CASE ErrorHandler("down")
    <3>1. /\ writing' \in Seq(1..accepted)
          /\ completed' \in Seq([msg : 1..accepted, done : Outcomes])
          /\ state' \in States /\ sock' \in SockStates
          /\ timer' \in TimerStates
      BY <2>1, ErrorEffect, AbortType DEF SockStates
    <3> QED BY <1>11, <3>1 DEF CallbackConnect
  <2>2. CASE state' = "Connected" /\ sock' = "up"
             /\ UNCHANGED <<timer, writing, completed, faults>>
    BY <1>11, <2>2 DEF CallbackConnect, States, SockStates
  <2> QED BY <1>11, <2>1, <2>2 DEF CallbackConnect
<1>12. CASE CallbackConnectStale
  <2>1. CASE ErrorHandler(sock)
    <3>1. /\ writing' \in Seq(1..accepted)
          /\ completed' \in Seq([msg : 1..accepted, done : Outcomes])
          /\ state' \in States /\ sock' \in SockStates
          /\ timer' \in TimerStates
      BY <2>1, ErrorEffect, AbortType
    <3> QED BY <1>12, <3>1 DEF CallbackConnectStale
  <2>2. CASE state' = "Connected" /\ UNCHANGED <<sock, timer, writing, completed>>
    BY <1>12, <2>2 DEF CallbackConnectStale, States
  <2> QED BY <1>12, <2>1, <2>2 DEF CallbackConnectStale
<1>13. CASE WriteSucceeds
  <2> DEFINE C == [msg : 1..accepted, done : Outcomes]
  <2>1. /\ Head(writing) \in 1..accepted
        /\ Tail(writing) \in Seq(1..accepted)
    BY <1>13 DEF WriteSucceeds
  <2>2. Finished(Head(writing), "all") \in C
    BY <2>1 DEF Finished, Outcomes
  <2>3. completed' \in Seq(C)
    BY <1>13, <2>2 DEF WriteSucceeds
  <2> QED BY <1>13, <2>1, <2>3 DEF WriteSucceeds
<1>14. CASE WriteFails
  <2>1. /\ writing' \in Seq(1..accepted)
        /\ completed' \in Seq([msg : 1..accepted, done : Outcomes])
    BY <1>14, AbortType DEF WriteFails
  <2> QED BY <1>14, <2>1 DEF WriteFails, SockStates
<1>15. CASE UNCHANGED vars
  BY <1>15 DEF vars
<1>16. CASE WriteRest
  <2>1. PICK c \in [msg : 1..accepted, done : Outcomes] : completed = <<c>> /\ writing = <<>>
    BY <1>16, OneCompleted DEF WriteRest
  <2>2. Head(completed) = c /\ Tail(completed) = <<>> /\ c.msg \in 1..accepted
    BY <2>1
  <2>3. /\ writing' \in Seq(1..accepted)
        /\ completed' \in Seq([msg : 1..accepted, done : Outcomes])
    BY <1>16, <2>1, <2>2, StartType DEF WriteRest
  <2> QED BY <1>16, <2>3 DEF WriteRest
<1>17. CASE WaitEnds
  BY <1>17 DEF WaitEnds, TimerStates
<1>18. CASE ResolveFails
  <2>1. ErrorHandler(sock) /\ sock \in SockStates
    BY <1>18 DEF ResolveFails
  <2>2. /\ writing' \in Seq(1..accepted)
        /\ completed' \in Seq([msg : 1..accepted, done : Outcomes])
    BY <2>1, ErrorEffect, AbortType
  <2>3. expired' \in BOOLEAN /\ state' \in States /\ sock' \in SockStates /\ timer' \in TimerStates
    BY <1>18, <2>1, ErrorEffect DEF ResolveFails
  <2>4. /\ faults' \in Nat
        /\ UNCHANGED <<attempts, reading, drop_pending, queueVars, threadVars, accepted, wire,
                       reconnects>>
    BY <1>18 DEF ResolveFails
  <2> QED BY <2>2, <2>3, <2>4
<1>19. CASE NextEndpoint
  <2>1. /\ writing' \in Seq(1..accepted)
        /\ completed' \in Seq([msg : 1..accepted, done : Outcomes])
    BY <1>19, AbortType DEF NextEndpoint, Dial
  <2> QED BY <1>19, <2>1 DEF NextEndpoint, Dial, SockStates
<1>20. CASE WritePartly
  <2> DEFINE C == [msg : 1..accepted, done : Outcomes]
  <2>1. /\ Head(writing) \in 1..accepted
        /\ Tail(writing) \in Seq(1..accepted)
    BY <1>20 DEF WritePartly
  <2>2. Finished(Head(writing), "part") \in C
    BY <2>1 DEF Finished, Outcomes
  <2>3. completed' \in Seq(C)
    BY <1>20, <2>2 DEF WritePartly
  <2> QED BY <1>20, <2>1, <2>3 DEF WritePartly
<1> QED
  BY <1>1, <1>2, <1>3, <1>4, <1>5, <1>6, <1>7, <1>8, <1>9, <1>10, <1>11,
     <1>12, <1>13, <1>14, <1>15, <1>16, <1>17, <1>18, <1>19, <1>20
  DEF Next, SenderStep, IoStep

-----------------------------------------------------------------------------
(* One writer, and never without a packet at the front of the queue.       *)

\* A step that aborts writes, or none, and leaves the queue and the threads
\* alone moves the baton at most from the kernel to the handler.
LEMMA BatonKept ==
  ASSUME TypeOK, BatonInv, UNCHANGED <<writing, completed>> \/ AbortWrites,
         UNCHANGED <<write_queue, write_in_progress, pc>>,
         io' \in {io, "idle"}
  PROVE  BatonInv'
<1>1. CASE UNCHANGED <<writing, completed>>
  BY <1>1 DEF TypeOK, BatonInv, Baton, SingleWriter
<1>2. CASE AbortWrites
  <2>1. CASE writing = <<>> /\ writing' = <<>> /\ completed' = completed
    BY <2>1 DEF TypeOK, BatonInv, Baton, SingleWriter
  <2>2. ASSUME NEW m, writing = <<m>>, completed = <<>>, writing' = <<>>,
               completed' = <<Failed(m)>>
        PROVE  BatonInv'
    BY <2>2 DEF TypeOK, BatonInv, Baton, SingleWriter
  <2> QED BY <1>2, <2>1, <2>2, AbortEffect
<1> QED BY <1>1, <1>2

\* A step that starts the write of the baton's packet hands the baton on.
LEMMA BatonStarted ==
  ASSUME TypeOK, BatonInv, NEW q, writing = <<>>, q = <<>>, Baton,
         NEW m, StartWrite(m, q), UNCHANGED <<write_queue, write_in_progress>>,
         io' # "more", \A t \in Senders : pc'[t] # "start"
  PROVE  BatonInv'
<1>1. CASE writing' = <<m>> /\ completed' = <<>>
  BY <1>1 DEF BatonInv, Baton, SingleWriter
<1>2. CASE writing' = <<>> /\ completed' = <<Failed(m)>>
  BY <1>2 DEF BatonInv, Baton, SingleWriter
<1> QED BY <1>1, <1>2, StartEffect

LEMMA BatonStep ==
  ASSUME TypeOK, BatonInv, [Next]_vars
  PROVE  BatonInv'
<1> USE DEF threadVars, queueVars, sockVars, budgetVars
<1>1. ASSUME NEW t \in Senders, CheckState(t) PROVE BatonInv'
  BY <1>1 DEF CheckState, TypeOK, BatonInv, Baton, SingleWriter
<1>2. ASSUME NEW t \in Senders, EnqueueWrite(t) PROVE BatonInv'
  <2>1. write_queue' # <<>> /\ write_in_progress'
    <3>1. write_queue \in Seq(1..accepted) /\ <<>> \in Seq(1..accepted)
      BY DEF TypeOK
    <3>2. /\ Append(<<>>, accepted + 1) # <<>>
          /\ Append(write_queue, accepted + 1) # <<>>
      BY <3>1, AppendNonempty, Zenon
    <3> QED BY <1>2, <3>2 DEF EnqueueWrite, Queued
  <2>2. CASE write_in_progress
    BY <1>2, <2>1, <2>2 DEF EnqueueWrite, MustStart, TypeOK, BatonInv, Baton,
                          SingleWriter
  <2>3. CASE ~write_in_progress
    BY <1>2, <2>1, <2>3 DEF EnqueueWrite, MustStart, TypeOK, BatonInv, Baton,
                          SingleWriter
  <2> QED BY <2>2, <2>3
<1>3. ASSUME NEW t \in Senders, DoWrite(t) PROVE BatonInv'
  <2>1. writing = <<>> /\ completed = <<>> /\ Baton /\ io # "more"
    BY <1>3 DEF DoWrite, BatonInv, Baton, SingleWriter
  <2>2. \A u \in Senders : pc'[u] # "start"
    BY <1>3 DEF DoWrite, TypeOK, BatonInv, SingleWriter
  <2> QED BY <1>3, <2>1, <2>2, BatonStarted DEF DoWrite
<1>4. ASSUME NEW p \in BOOLEAN, SetDropPending(p) PROVE BatonInv'
  BY <1>4 DEF SetDropPending, BatonInv, Baton, SingleWriter
<1>5. CASE HandleWrite
  <2>1. /\ writing = <<>> /\ writing' = <<>>
        /\ completed' = <<>>
        /\ \A t \in Senders : pc[t] # "start" /\ pc'[t] # "start"
        /\ write_in_progress
    <3>1. PICK c : completed = <<c>> /\ writing = <<>>
      BY <1>5, OneCompleted DEF HandleWrite
    <3> QED BY <1>5, <3>1 DEF HandleWrite, BatonInv, Baton, SingleWriter
  <2>2. io' = "more" => write_queue' # <<>> /\ write_in_progress'
    BY <1>5, <2>1 DEF HandleWrite, InProgressAfter
  <2> QED BY <2>1, <2>2 DEF BatonInv, Baton, SingleWriter
<1>6. CASE HandleWriteFailed
  <2>1. ErrorHandler(sock) /\ sock \in SockStates
    BY <1>6 DEF HandleWriteFailed, TypeOK
  <2> QED BY <1>6, <2>1, ErrorEffect, BatonKept DEF HandleWriteFailed
<1>7. CASE HandleWriteMore
  <2>1. writing = <<>> /\ completed = <<>> /\ Baton
    BY <1>7 DEF HandleWriteMore, BatonInv, Baton, SingleWriter
  <2>2. \A u \in Senders : pc'[u] # "start"
    BY <1>7 DEF HandleWriteMore, BatonInv, SingleWriter
  <2> QED BY <1>7, <2>1, <2>2, BatonStarted DEF HandleWriteMore
<1>8. CASE ReceiveFailed
  <2>1. PICK d \in SockStates : ErrorHandler(d)
    BY <1>8 DEF ReceiveFailed, SockStates, TypeOK
  <2> QED BY <1>8, <2>1, ErrorEffect, BatonKept DEF ReceiveFailed
<1>9. CASE BeginConnect
  BY <1>9, BatonKept DEF BeginConnect, Dial
<1>10. CASE CallbackTimerAborted
  <2>1. ErrorHandler(sock) /\ sock \in SockStates
    BY <1>10 DEF CallbackTimerAborted, TypeOK
  <2> QED BY <1>10, <2>1, ErrorEffect, BatonKept DEF CallbackTimerAborted
<1>11. CASE CallbackConnect
  <2>1. UNCHANGED <<writing, completed>> \/ AbortWrites
    BY <1>11, ErrorEffect DEF CallbackConnect, SockStates
  <2> QED BY <1>11, <2>1, BatonKept DEF CallbackConnect
<1>12. CASE CallbackConnectStale
  <2>1. UNCHANGED <<writing, completed>> \/ AbortWrites
    BY <1>12, ErrorEffect DEF CallbackConnectStale, TypeOK
  <2> QED BY <1>12, <2>1, BatonKept DEF CallbackConnectStale
<1>13. CASE WriteSucceeds
  <2>1. PICK m : writing = <<m>> /\ completed = <<>>
    BY <1>13, OneWriting DEF WriteSucceeds
  <2>2. writing' = <<>> /\ \E c : completed' = <<c>>
    BY <1>13, <2>1 DEF WriteSucceeds
  <2>3. /\ write_in_progress /\ write_queue # <<>> /\ io # "more"
        /\ \A t \in Senders : pc[t] # "start"
    BY <1>13 DEF WriteSucceeds, BatonInv, Baton, SingleWriter
  <2>4. UNCHANGED <<write_in_progress, write_queue, pc, io>>
    BY <1>13 DEF WriteSucceeds
  <2> QED BY <2>2, <2>3, <2>4 DEF BatonInv, Baton, SingleWriter
<1>14. CASE WriteFails
  BY <1>14, BatonKept DEF WriteFails
<1>15. CASE UNCHANGED vars
  BY <1>15 DEF vars, BatonInv, Baton, SingleWriter
<1>16. CASE WriteRest
  <2>1. PICK c : completed = <<c>> /\ writing = <<>>
    BY <1>16, OneCompleted DEF WriteRest
  <2>2. Tail(completed) = <<>> /\ Baton
    BY <2>1 DEF Baton
  <2>3. io' # "more" /\ \A t \in Senders : pc'[t] # "start"
    BY <1>16 DEF WriteRest, BatonInv, SingleWriter
  <2> QED BY <1>16, <2>1, <2>2, <2>3, BatonStarted DEF WriteRest
<1>17. CASE WaitEnds
  BY <1>17, BatonKept DEF WaitEnds
<1>18. CASE ResolveFails
  <2>1. ErrorHandler(sock) /\ sock \in SockStates
    BY <1>18 DEF ResolveFails, TypeOK
  <2> QED BY <1>18, <2>1, ErrorEffect, BatonKept DEF ResolveFails
<1>19. CASE NextEndpoint
  BY <1>19, BatonKept DEF NextEndpoint, Dial
<1>20. CASE WritePartly
  <2>1. PICK m : writing = <<m>> /\ completed = <<>>
    BY <1>20, OneWriting DEF WritePartly
  <2>2. writing' = <<>> /\ \E c : completed' = <<c>>
    BY <1>20, <2>1 DEF WritePartly
  <2>3. /\ write_in_progress /\ write_queue # <<>> /\ io # "more"
        /\ \A t \in Senders : pc[t] # "start"
    BY <1>20 DEF WritePartly, BatonInv, Baton, SingleWriter
  <2>4. UNCHANGED <<write_in_progress, write_queue, pc, io>>
    BY <1>20 DEF WritePartly
  <2> QED BY <2>2, <2>3, <2>4 DEF BatonInv, Baton, SingleWriter
<1> QED
  BY <1>1, <1>2, <1>3, <1>4, <1>5, <1>6, <1>7, <1>8, <1>9, <1>10, <1>11,
     <1>12, <1>13, <1>14, <1>15, <1>16, <1>17, <1>18, <1>19, <1>20
  DEF Next, SenderStep, IoStep

LEMMA BatonInit == Init => BatonInv
BY DEF Init, BatonInv, Baton, SingleWriter

LEMMA TypeAndBaton == Spec => [](TypeOK /\ BatonInv)
<1>1. TypeOK /\ BatonInv /\ [Next]_vars => (TypeOK /\ BatonInv)'
  BY TypeStep, BatonStep
<1> QED BY TypeInit, BatonInit, <1>1, PTL DEF Spec

\* The variables keep their types, and every number in the queue, in a write
\* or on the wire is that of an accepted packet.
THEOREM TypeCorrect == Spec => []TypeOK
BY TypeAndBaton, PTL

\* The handshake on write_in_progress between enqueue_write and handle_write
\* keeps at most one async_write under way, however many threads call send().
THEOREM OneWriterAtATime == Spec => []SingleWriter
<1>1. BatonInv => SingleWriter
  BY DEF BatonInv
<1> QED BY TypeAndBaton, <1>1, PTL

\* do_write and handle_write never read or pop the front of an empty queue,
\* although drop_pending clears the queue under them.
THEOREM FrontAlwaysDefined == Spec => []FrontDefined
<1>1. BatonInv => FrontDefined
  BY DEF BatonInv, Baton, FrontDefined
<1> QED BY TypeAndBaton, <1>1, PTL

-----------------------------------------------------------------------------
(* The order of the packets on the wire.                                   *)

\* Tail moves every element one place to the front.
LEMMA TailElements ==
  ASSUME NEW S, NEW q \in Seq(S), q # <<>>
  PROVE  /\ Tail(q) \in Seq(S)
         /\ \A i \in DOMAIN Tail(q) : /\ i \in Nat \ {0}
                                     /\ i + 1 \in DOMAIN q
                                     /\ Tail(q)[i] = q[i + 1]
         /\ 1 \in DOMAIN q
OBVIOUS

LEMMA AppendElements ==
  ASSUME NEW S, NEW q \in Seq(S), NEW e \in S
  PROVE  /\ Append(q, e) \in Seq(S)
         /\ \A i \in DOMAIN Append(q, e) :
              \/ i \in DOMAIN q /\ Append(q, e)[i] = q[i]
              \/ /\ i = Len(q) + 1 /\ Append(q, e)[i] = e
                 /\ \A j \in DOMAIN q : j < i
OBVIOUS

\* Aborted writes complete with the packet they had.
LEMMA OrderKept ==
  ASSUME TypeOK, BatonInv, OrderInv,
         UNCHANGED <<writing, completed>> \/ AbortWrites,
         UNCHANGED <<write_queue, wire>>
  PROVE  OrderInv'
<1>1. CASE UNCHANGED <<writing, completed>>
  BY <1>1 DEF OrderInv, InOrder
<1>2. CASE writing = <<>> /\ writing' = <<>> /\ completed' = completed
  BY <1>2 DEF OrderInv, InOrder
<1>3. ASSUME NEW m \in 1..accepted, writing = <<m>>, completed = <<>>,
             writing' = <<>>, completed' = <<Failed(m)>>
      PROVE  OrderInv'
  <2>1. /\ \A k \in DOMAIN wire : wire[k] < m
        /\ \A k \in DOMAIN write_queue : m <= write_queue[k]
    BY <1>3 DEF OrderInv
  <2>2. \A k \in DOMAIN wire : wire[k] <= m
    BY <2>1 DEF TypeOK
  <2>3. \A i \in DOMAIN completed' : completed'[i].msg = m
    BY <1>3 DEF Failed, Finished, Outcomes
  <2> QED BY <1>3, <2>1, <2>2, <2>3 DEF OrderInv, InOrder
<1> QED BY <1>1, <1>2, <1>3, AbortEffect

\* A write starts, or goes on, with a packet the wire has not reached.
LEMMA OrderOngoing ==
  ASSUME TypeOK, OrderInv, NEW m \in Nat, NEW q, writing = <<>>, q = <<>>, StartWrite(m, q),
         \A k \in DOMAIN wire : wire[k] < m,
         \A k \in DOMAIN write_queue : m <= write_queue[k],
         UNCHANGED <<write_queue, wire>>
  PROVE  OrderInv'
<1>2. /\ \A k \in DOMAIN wire : wire[k] < m
      /\ \A k \in DOMAIN write_queue : m <= write_queue[k]
  OBVIOUS
<1>3. \A k \in DOMAIN wire : wire[k] <= m
  BY <1>2 DEF TypeOK
<1>4. CASE writing' = <<m>> /\ completed' = <<>>
  BY <1>2, <1>4 DEF OrderInv, InOrder
<1>5. CASE writing' = <<>> /\ completed' = <<Failed(m)>>
  <2>1. \A i \in DOMAIN completed' : completed'[i].msg = m
    BY <1>5 DEF Failed, Finished, Outcomes
  <2> QED BY <1>2, <1>3, <1>5, <2>1 DEF OrderInv, InOrder
<1> QED BY <1>4, <1>5, StartEffect

LEMMA OrderStarted ==
  ASSUME TypeOK, OrderInv, writing = <<>>, completed = <<>>,
         write_queue # <<>>, StartWrite(Head(write_queue), completed),
         UNCHANGED <<write_queue, wire>>
  PROVE  OrderInv'
<1> DEFINE m == Head(write_queue)
<1>1. /\ 1 \in DOMAIN write_queue /\ m = write_queue[1] /\ m \in Nat
      /\ \A k \in DOMAIN write_queue : k = 1 \/ 1 < k
  BY DEF TypeOK
<1>2. /\ \A k \in DOMAIN wire : wire[k] < m
      /\ \A k \in DOMAIN write_queue : m <= write_queue[k]
  <2>1. \A k \in DOMAIN write_queue : write_queue[k] \in Nat
    BY DEF TypeOK
  <2> QED BY <1>1, <2>1 DEF OrderInv
<1> HIDE DEF m
<1>3. StartWrite(m, completed)
  BY DEF m
<1> QED BY <1>1, <1>2, <1>3, OrderOngoing

\* The new packet is larger than every packet there is.
LEMMA OrderEnqueue ==
  ASSUME TypeOK, OrderInv, NEW t \in Senders, EnqueueWrite(t)
  PROVE  OrderInv'
<1> DEFINE n == accepted + 1
           q == IF drop_pending THEN <<>> ELSE write_queue
<1>1. /\ n \in Nat /\ q \in Seq(Nat) /\ write_queue' = Append(q, n)
      /\ UNCHANGED <<writing, completed, wire>>
  <2>1. write_queue \in Seq(Nat)
    BY SeqMonotone DEF TypeOK
  <2> QED BY <2>1 DEF TypeOK, EnqueueWrite, Queued
<1>2. /\ \A k \in DOMAIN write_queue :
           write_queue[k] \in Nat /\ write_queue[k] < n
      /\ \A k \in DOMAIN wire : wire[k] \in Nat /\ wire[k] < n
      /\ \A k \in DOMAIN writing : writing[k] \in Nat /\ writing[k] <= n
      /\ \A k \in DOMAIN completed :
           completed[k].msg \in Nat /\ completed[k].msg <= n
  <2>1. accepted \in Nat /\ \A x \in 1..accepted : x \in Nat /\ x < n /\ x <= n
    BY DEF TypeOK
  <2>2. /\ \A k \in DOMAIN write_queue : write_queue[k] \in 1..accepted
        /\ \A k \in DOMAIN wire : wire[k] \in 1..accepted
        /\ \A k \in DOMAIN writing : writing[k] \in 1..accepted
    BY DEF TypeOK
  <2>3. \A k \in DOMAIN completed : completed[k].msg \in 1..accepted
    <3> DEFINE M == 1..accepted
               C == [msg : M, done : Outcomes]
    <3> SUFFICES ASSUME NEW k \in DOMAIN completed PROVE completed[k].msg \in M
      OBVIOUS
    <3>1. completed \in Seq(C)
      BY DEF TypeOK
    <3>2. completed[k] \in C
      <4> HIDE DEF C
      <4> QED BY <3>1
    <3> HIDE DEF M
    <3> QED BY <3>2
  <2> HIDE DEF n
  <2> QED BY <2>1, <2>2, <2>3
<1>3. \A i \in DOMAIN q : i \in DOMAIN write_queue /\ q[i] = write_queue[i]
  OBVIOUS
<1>4. \A i \in DOMAIN write_queue' :
        \/ /\ i \in DOMAIN q /\ i \in DOMAIN write_queue
           /\ write_queue'[i] = write_queue[i]
        \/ /\ i = Len(q) + 1 /\ write_queue'[i] = n
           /\ \A j \in DOMAIN q : j < i
  <2> HIDE DEF n, q
  <2> QED BY <1>1, <1>3, AppendElements
<1> HIDE DEF n, q
<1>5. \A i, j \in DOMAIN write_queue' :
        i < j => write_queue'[i] < write_queue'[j]
  <2> SUFFICES ASSUME NEW i \in DOMAIN write_queue',
                      NEW j \in DOMAIN write_queue', i < j
               PROVE  write_queue'[i] < write_queue'[j]
    OBVIOUS
  <2>1. i \in Nat /\ j \in Nat /\ Len(q) \in Nat
    BY <1>1
  <2>2. CASE j \in DOMAIN q /\ i \in DOMAIN q
    BY <1>3, <1>4, <2>1, <2>2, <1>1 DEF OrderInv
  <2>3. CASE j = Len(q) + 1 /\ i \in DOMAIN q
    BY <1>1, <1>2, <1>3, <1>4, <2>1, <2>3
  <2>4. CASE i = Len(q) + 1
    BY <1>1, <1>4, <2>1, <2>4
  <2> QED BY <1>4, <2>2, <2>3, <2>4
<1>6. \A i \in DOMAIN writing' :
        /\ \A k \in DOMAIN wire' : wire'[k] < writing'[i]
        /\ \A k \in DOMAIN write_queue' : writing'[i] <= write_queue'[k]
  BY <1>1, <1>2, <1>4 DEF OrderInv
<1>7. \A i \in DOMAIN completed' :
        /\ \A k \in DOMAIN wire' : wire'[k] <= completed'[i].msg
        /\ \A k \in DOMAIN write_queue' : completed'[i].msg <= write_queue'[k]
  BY <1>1, <1>2, <1>4 DEF OrderInv
<1>8. writing' = <<>> /\ completed' = <<>> =>
        \A i \in DOMAIN wire', j \in DOMAIN write_queue' :
          wire'[i] < write_queue'[j]
  BY <1>1, <1>2, <1>4 DEF OrderInv
<1> QED BY <1>1, <1>5, <1>6, <1>7, <1>8 DEF OrderInv, InOrder

\* handle_write pops the packet whose write has finished: what is left is
\* larger than everything on the wire.
LEMMA OrderHandled ==
  ASSUME TypeOK, BatonInv, OrderInv, HandleWrite
  PROVE  OrderInv'
<1>1. PICK c \in [msg : 1..accepted, done : Outcomes] :
        completed = <<c>> /\ writing = <<>>
  BY OneCompleted DEF HandleWrite
<1>2. /\ writing' = <<>> /\ completed' = <<>> /\ UNCHANGED wire
      /\ write_queue' = Tail(write_queue)
  BY <1>1 DEF HandleWrite
<1>3. write_queue \in Seq(Nat) /\ write_queue # <<>>
  <2>1. write_queue \in Seq(Nat)
    BY SeqMonotone DEF TypeOK
  <2> QED BY <2>1 DEF HandleWrite, BatonInv, Baton
<1>4. /\ \A k \in DOMAIN wire : wire[k] \in Nat /\ wire[k] <= c.msg
      /\ c.msg \in Nat
      /\ 1 \in DOMAIN write_queue /\ c.msg <= write_queue[1]
  BY <1>1, <1>3 DEF OrderInv, TypeOK
<1>5. \A i \in DOMAIN write_queue' :
        /\ i \in Nat /\ i + 1 \in DOMAIN write_queue /\ 1 < i + 1
        /\ write_queue'[i] = write_queue[i + 1] /\ write_queue[i + 1] \in Nat
  BY <1>2, <1>3, TailElements
<1>6. \A i, j \in DOMAIN write_queue' :
        i < j => write_queue'[i] < write_queue'[j]
  BY <1>5 DEF OrderInv
<1>7. \A i \in DOMAIN wire', j \in DOMAIN write_queue' :
        wire'[i] < write_queue'[j]
  <2> SUFFICES ASSUME NEW i \in DOMAIN wire', NEW j \in DOMAIN write_queue'
               PROVE  wire'[i] < write_queue'[j]
    OBVIOUS
  <2>1. write_queue[1] < write_queue[j + 1] /\ write_queue[1] \in Nat
    BY <1>3, <1>4, <1>5 DEF OrderInv
  <2> QED BY <1>2, <1>4, <1>5, <2>1
<1> QED BY <1>2, <1>6, <1>7 DEF OrderInv, InOrder

\* The packet of the write that succeeds is larger than what the wire holds.
LEMMA OrderWritten ==
  ASSUME TypeOK, BatonInv, OrderInv, WriteSucceeds
  PROVE  OrderInv'
<1>1. PICK m \in 1..accepted : writing = <<m>> /\ completed = <<>>
  BY OneWriting DEF WriteSucceeds
<1>2. /\ writing' = <<>> /\ wire' = Append(wire, m) /\ UNCHANGED write_queue
      /\ completed' = <<Finished(m, "all")>>
  <2>1. Head(writing) = m /\ Tail(writing) = <<>>
    BY <1>1
  <2>2. Append(completed, Finished(m, "all")) = <<Finished(m, "all")>>
    BY <1>1
  <2>3. writing' = <<>> /\ wire' = Append(wire, m) /\ UNCHANGED write_queue
    BY <2>1 DEF WriteSucceeds, queueVars
  <2>4. completed' = Append(completed, Finished(m, "all"))
    BY <2>1 DEF WriteSucceeds
  <2> QED BY <2>2, <2>3, <2>4, Zenon
<1>3. m \in Nat /\ wire \in Seq(Nat)
  BY SeqMonotone DEF TypeOK
<1>4. /\ \A k \in DOMAIN wire : wire[k] \in Nat /\ wire[k] < m
      /\ \A k \in DOMAIN write_queue : m <= write_queue[k]
  BY <1>1, <1>3 DEF OrderInv
<1>5. \A i \in DOMAIN wire' :
        \/ i \in DOMAIN wire /\ wire'[i] = wire[i]
        \/ i = Len(wire) + 1 /\ wire'[i] = m /\ \A j \in DOMAIN wire : j < i
  BY <1>2, <1>3, AppendElements
<1>6. \A i, j \in DOMAIN wire' : i < j => wire'[i] < wire'[j]
  <2> SUFFICES ASSUME NEW i \in DOMAIN wire', NEW j \in DOMAIN wire', i < j
               PROVE  wire'[i] < wire'[j]
    OBVIOUS
  <2>1. i \in Nat /\ j \in Nat /\ Len(wire) \in Nat
    BY <1>2, <1>3
  <2>2. CASE j \in DOMAIN wire /\ i \in DOMAIN wire
    BY <1>3, <1>5, <2>1, <2>2 DEF OrderInv, InOrder
  <2>3. CASE j = Len(wire) + 1 /\ i \in DOMAIN wire
    BY <1>3, <1>4, <1>5, <2>1, <2>3
  <2>4. CASE i = Len(wire) + 1
    BY <1>3, <1>5, <2>1, <2>4
  <2> QED BY <1>5, <2>2, <2>3, <2>4
<1>7. \A k \in DOMAIN wire' : wire'[k] <= m
  BY <1>3, <1>4, <1>5
<1>8. \A i \in DOMAIN completed' : completed'[i].msg = m /\ completed'[i].done = "all"
  BY <1>2 DEF Finished
<1>9. writing' = <<>> /\ completed' # <<>>
  BY <1>2
<1> QED BY <1>2, <1>4, <1>6, <1>7, <1>8, <1>9 DEF OrderInv, InOrder

\* The rest of a packet of which a part is written.
LEMMA OrderRest ==
  ASSUME TypeOK, BatonInv, OrderInv, WriteRest
  PROVE  OrderInv'
<1>1. PICK c \in [msg : 1..accepted, done : Outcomes] : completed = <<c>> /\ writing = <<>>
  BY OneCompleted DEF WriteRest
<1>2. Head(completed) = c /\ Tail(completed) = <<>> /\ completed[1] = c /\ 1 \in DOMAIN completed
  BY <1>1
<1>3. /\ c.msg \in Nat
      /\ \A k \in DOMAIN wire : wire[k] < c.msg
      /\ \A k \in DOMAIN write_queue : c.msg <= write_queue[k]
  BY <1>2 DEF OrderInv, WriteRest
<1>4. StartWrite(c.msg, Tail(completed)) /\ UNCHANGED <<write_queue, wire>>
  BY <1>2 DEF WriteRest, queueVars
<1> QED BY <1>1, <1>2, <1>3, <1>4, OrderOngoing

LEMMA OrderPartly ==
  ASSUME TypeOK, BatonInv, OrderInv, WritePartly
  PROVE  OrderInv'
<1>1. PICK m \in 1..accepted : writing = <<m>> /\ completed = <<>>
  BY OneWriting DEF WritePartly
<1>2. /\ \A k \in DOMAIN wire : wire[k] < m
      /\ \A k \in DOMAIN write_queue : m <= write_queue[k]
  BY <1>1 DEF OrderInv
<1>3. \A k \in DOMAIN wire : wire[k] <= m
  BY <1>2 DEF TypeOK
<1>4. /\ writing' = <<>> /\ UNCHANGED <<write_queue, wire>>
      /\ completed' = Append(<<>>, Finished(m, "part"))
  <2>1. Head(writing) = m /\ Tail(writing) = <<>>
    BY <1>1
  <2> QED BY <1>1, <2>1 DEF WritePartly, queueVars
<1>5. \A i \in DOMAIN completed' : completed'[i].msg = m
  <2>1. \A e : \A i \in DOMAIN Append(<<>>, e) : Append(<<>>, e)[i] = e
    OBVIOUS
  <2> QED BY <1>4, <2>1 DEF Finished
<1>6. completed' # <<>>
  BY <1>4, AppendNonempty
<1> QED BY <1>2, <1>3, <1>4, <1>5, <1>6 DEF OrderInv, InOrder

LEMMA OrderStep ==
  ASSUME TypeOK, BatonInv, OrderInv, [Next]_vars
  PROVE  OrderInv'
<1> USE DEF threadVars, queueVars, sockVars, budgetVars
<1>1. ASSUME NEW t \in Senders, CheckState(t) PROVE OrderInv'
  BY <1>1, OrderKept DEF CheckState
<1>2. ASSUME NEW t \in Senders, EnqueueWrite(t) PROVE OrderInv'
  BY <1>2, OrderEnqueue
<1>3. ASSUME NEW t \in Senders, DoWrite(t) PROVE OrderInv'
  <2>1. writing = <<>> /\ completed = <<>> /\ write_queue # <<>>
    BY <1>3 DEF DoWrite, BatonInv, Baton, SingleWriter
  <2> QED BY <1>3, <2>1, OrderStarted DEF DoWrite
<1>4. ASSUME NEW p \in BOOLEAN, SetDropPending(p) PROVE OrderInv'
  BY <1>4, OrderKept DEF SetDropPending
<1>5. CASE HandleWrite
  BY <1>5, OrderHandled
<1>6. CASE HandleWriteFailed
  <2>1. ErrorHandler(sock) /\ sock \in SockStates
    BY <1>6 DEF HandleWriteFailed, TypeOK
  <2> QED BY <1>6, <2>1, ErrorEffect, OrderKept DEF HandleWriteFailed
<1>7. CASE HandleWriteMore
  <2>1. writing = <<>> /\ completed = <<>> /\ write_queue # <<>>
    BY <1>7 DEF HandleWriteMore, BatonInv, Baton, SingleWriter
  <2> QED BY <1>7, <2>1, OrderStarted DEF HandleWriteMore
<1>8. CASE ReceiveFailed
  <2>1. PICK d \in SockStates : ErrorHandler(d)
    BY <1>8 DEF ReceiveFailed, SockStates, TypeOK
  <2> QED BY <1>8, <2>1, ErrorEffect, OrderKept DEF ReceiveFailed
<1>9. CASE BeginConnect
  BY <1>9, OrderKept DEF BeginConnect, Dial
<1>10. CASE CallbackTimerAborted
  <2>1. ErrorHandler(sock) /\ sock \in SockStates
    BY <1>10 DEF CallbackTimerAborted, TypeOK
  <2> QED BY <1>10, <2>1, ErrorEffect, OrderKept DEF CallbackTimerAborted
<1>11. CASE CallbackConnect
  <2>1. UNCHANGED <<writing, completed>> \/ AbortWrites
    BY <1>11, ErrorEffect DEF CallbackConnect, SockStates
  <2> QED BY <1>11, <2>1, OrderKept DEF CallbackConnect
<1>12. CASE CallbackConnectStale
  <2>1. UNCHANGED <<writing, completed>> \/ AbortWrites
    BY <1>12, ErrorEffect DEF CallbackConnectStale, TypeOK
  <2> QED BY <1>12, <2>1, OrderKept DEF CallbackConnectStale
<1>13. CASE WriteSucceeds
  BY <1>13, OrderWritten
<1>14. CASE WriteFails
  BY <1>14, OrderKept DEF WriteFails
<1>15. CASE UNCHANGED vars
  BY <1>15, OrderKept DEF vars
<1>16. CASE WriteRest
  BY <1>16, OrderRest
<1>17. CASE WaitEnds
  BY <1>17, OrderKept DEF WaitEnds
<1>18. CASE ResolveFails
  <2>1. ErrorHandler(sock) /\ sock \in SockStates
    BY <1>18 DEF ResolveFails, TypeOK
  <2> QED BY <1>18, <2>1, ErrorEffect, OrderKept DEF ResolveFails
<1>19. CASE NextEndpoint
  BY <1>19, OrderKept DEF NextEndpoint, Dial
<1>20. CASE WritePartly
  BY <1>20, OrderPartly
<1> QED
  BY <1>1, <1>2, <1>3, <1>4, <1>5, <1>6, <1>7, <1>8, <1>9, <1>10, <1>11,
     <1>12, <1>13, <1>14, <1>15, <1>16, <1>17, <1>18, <1>19, <1>20
  DEF Next, SenderStep, IoStep

\* Whatever the interleaving of senders, faults, reconnections and cleared
\* queues, packets reach the wire in the order in which send() accepted them
\* and none reaches it twice.
THEOREM WireInOrder == Spec => []InOrder
<1>1. Init => Inv
  <2>1. Init => OrderInv
    BY DEF Init, OrderInv, InOrder
  <2> QED BY <2>1, TypeInit, BatonInit DEF Inv
<1>2. Inv /\ [Next]_vars => Inv'
  BY TypeStep, BatonStep, OrderStep DEF Inv
<1>3. Inv => InOrder
  BY DEF Inv, OrderInv
<1> QED BY <1>1, <1>2, <1>3, PTL DEF Spec

-----------------------------------------------------------------------------
(* Without errors and without drop_pending nothing is lost.                *)

Calm == ~UsesDrop /\ faults = 0 /\ reconnects = 0

Accepted(n) == [i \in 1..n |-> i]

\* The inductive form of NothingLost: the connection stays as it is, and what is
\* being written, or was, is the front of the queue.
CalmInv ==
  Calm =>
    /\ ~drop_pending /\ timer = "idle" /\ sock = "up" /\ attempts = 0 /\ io # "failed"
    /\ \A i \in DOMAIN completed :
         /\ completed[i].done # "none"
         /\ completed[i].done = "part" => completed[i].msg = Head(write_queue)
    /\ \A i \in DOMAIN writing : writing[i] = Head(write_queue)
    /\ wire \o (IF FrontWritten THEN Tail(write_queue) ELSE write_queue) = Accepted(accepted)

LEMMA AcceptedIs ==
  ASSUME NEW n \in Nat
  PROVE  /\ Accepted(n) \in Seq(1..n) /\ Len(Accepted(n)) = n
         /\ Append(Accepted(n), n + 1) = Accepted(n + 1)
<1>1. Accepted(n) \in [1..n -> 1..n] /\ Accepted(n + 1) \in [1..(n + 1) -> 1..(n + 1)]
  BY DEF Accepted
<1>2. Accepted(n) \in Seq(1..n) /\ Len(Accepted(n)) = n
  BY <1>1, FunctionIsSeq
<1>3. Accepted(n + 1) \in Seq(Nat) /\ Len(Accepted(n + 1)) = n + 1
  <2>1. n + 1 \in Nat /\ Accepted(n + 1) \in [1..(n + 1) -> Nat]
    BY <1>1
  <2> QED BY <2>1, FunctionIsSeq
<1>4. /\ \A i \in 1..n : Accepted(n + 1)[i] = Accepted(n)[i]
      /\ Accepted(n + 1)[n + 1] = n + 1
  BY DEF Accepted
<1>5. Accepted(n) \in Seq(Nat) /\ n + 1 \in Nat
  BY <1>2, SeqMonotone
<1>6. Accepted(n + 1) = Append(Accepted(n), n + 1)
  <2> DEFINE s == Accepted(n)
             t == Accepted(n + 1)
             e == n + 1
  <2>1. /\ s \in Seq(Nat) /\ t \in Seq(Nat) /\ e \in Nat /\ Len(t) = Len(s) + 1
        /\ (\A i \in 1..Len(s) : t[i] = s[i]) /\ t[Len(s) + 1] = e
    BY <1>2, <1>3, <1>4, <1>5
  <2> HIDE DEF s, t, e
  <2>2. t = Append(s, e)
    BY <2>1, IsAppend
  <2> QED BY <2>2 DEF s, t, e
<1> QED BY <1>2, <1>6

\* Append and Tail, seen from the sequence that comes before.
LEMMA ConcatAppend ==
  ASSUME NEW S, NEW s \in Seq(S), NEW q \in Seq(S), NEW e \in S
  PROVE  /\ s \o Append(q, e) = Append(s \o q, e)
         /\ q # <<>> => /\ Head(Append(q, e)) = Head(q)
                        /\ Tail(Append(q, e)) = Append(Tail(q), e)
                        /\ Append(s, Head(q)) \o Tail(q) = s \o q
<1>1. s \o Append(q, e) = Append(s \o q, e)
  OBVIOUS
<1>2. q # <<>> => Head(Append(q, e)) = Head(q)
  OBVIOUS
<1>3. q # <<>> => Tail(Append(q, e)) = Append(Tail(q), e)
  OBVIOUS
<1>4. q # <<>> => Append(s, Head(q)) \o Tail(q) = s \o q
  OBVIOUS
<1> QED BY <1>1, <1>2, <1>3, <1>4

\* What CalmInv reads besides the connection.
FlowVars == <<drop_pending, write_queue, writing, completed, accepted, wire>>

LEMMA CalmKept ==
  ASSUME CalmInv, UNCHANGED FlowVars, UNCHANGED <<timer, sock, attempts, budgetVars>>,
         io' # "failed" \/ io' = io
  PROVE  CalmInv'
BY DEF CalmInv, Calm, FlowVars, FrontWritten, budgetVars, Accepted

\* A fault, or a reconnection.
LEMMA CalmOver ==
  ASSUME TypeOK, \/ faults' = faults + 1
                 \/ reconnects' = reconnects + 1
                 \/ ~Calm /\ UNCHANGED budgetVars
  PROVE  CalmInv'
BY DEF CalmInv, Calm, TypeOK, budgetVars

LEMMA CalmEnqueue ==
  ASSUME TypeOK, BatonInv, CalmInv, NEW t \in Senders, EnqueueWrite(t)
  PROVE  CalmInv'
<1>1. UNCHANGED <<timer, sock, attempts, io, drop_pending, writing, completed, wire, faults, reconnects>>
  BY DEF EnqueueWrite, sockVars, budgetVars
<1> SUFFICES ASSUME Calm'
             PROVE  CalmInv'
  BY DEF CalmInv
<1>2. Calm
  BY <1>1 DEF Calm
<1> DEFINE n == accepted + 1
<1>3. accepted \in Nat /\ accepted' = n /\ write_queue' = Append(write_queue, n)
  BY <1>2 DEF EnqueueWrite, Queued, AcceptPacket, CalmInv, TypeOK
<1>4. n \in Nat /\ wire \in Seq(Nat) /\ write_queue \in Seq(Nat)
  BY <1>3, SeqMonotone DEF TypeOK
<1>5. Append(Accepted(accepted), n) = Accepted(n)
  BY <1>3, AcceptedIs
<1> HIDE DEF n
<1>8. Baton => write_queue # <<>> /\ Head(Append(write_queue, n)) = Head(write_queue)
  <2>1. Baton => write_queue # <<>>
    BY DEF BatonInv
  <2> QED BY <1>4, <2>1, ConcatAppend
<1>9. /\ FrontWritten' = FrontWritten
      /\ \A i \in DOMAIN completed :
           /\ completed[i].done # "none"
           /\ completed[i].done = "part" => completed[i].msg = Head(Append(write_queue, n))
  <2>1. FrontWritten' = FrontWritten
    BY <1>1 DEF FrontWritten
  <2>2. \A i \in DOMAIN completed : completed # <<>>
    OBVIOUS
  <2> QED BY <1>2, <1>8, <2>1, <2>2 DEF CalmInv, Baton
<1>6. CASE ~FrontWritten
  <2>1. wire \o write_queue = Accepted(accepted)
    BY <1>2, <1>6 DEF CalmInv
  <2>2. wire \o Append(write_queue, n) = Accepted(n)
    <3>1. wire \o Append(write_queue, n) = Append(wire \o write_queue, n)
      BY <1>4, ConcatAppend
    <3> QED BY <1>5, <2>1, <3>1
  <2>3. \A i \in DOMAIN writing : writing[i] = Head(Append(write_queue, n))
    <3>1. CASE writing = <<>>
      BY <3>1
    <3>2. CASE writing # <<>>
      BY <1>2, <1>8, <3>2 DEF CalmInv, Baton
    <3> QED BY <3>1, <3>2
  <2> QED BY <1>1, <1>2, <1>3, <1>6, <1>9, <2>2, <2>3 DEF CalmInv, Accepted
<1>7. CASE FrontWritten
  <2>1. writing = <<>> /\ write_queue # <<>>
    BY <1>7, OneCompleted DEF BatonInv, Baton, FrontWritten
  <2>2. wire \o Tail(write_queue) = Accepted(accepted)
    BY <1>2, <1>7 DEF CalmInv
  <2>3. Tail(write_queue) \in Seq(Nat)
    BY <1>4, <2>1
  <2>4. wire \o Tail(Append(write_queue, n)) = Accepted(n)
    <3>1. Tail(Append(write_queue, n)) = Append(Tail(write_queue), n)
      BY <1>4, <2>1, ConcatAppend
    <3>2. wire \o Append(Tail(write_queue), n) = Append(wire \o Tail(write_queue), n)
      BY <1>4, <2>3, ConcatAppend
    <3> QED BY <1>5, <2>2, <3>1, <3>2
  <2> QED BY <1>1, <1>2, <1>3, <1>7, <1>9, <2>1, <2>4 DEF CalmInv, Accepted
<1> QED BY <1>6, <1>7

\* A write that is started is that of the front of the queue.
LEMMA CalmStarted ==
  ASSUME TypeOK, CalmInv, writing = <<>>, completed = <<>>, StartWrite(Head(write_queue), completed),
         UNCHANGED <<timer, sock, attempts, drop_pending, write_queue, accepted, wire, budgetVars>>,
         io' # "failed" \/ io' = io
  PROVE  CalmInv'
<1> SUFFICES ASSUME Calm'
             PROVE  CalmInv'
  BY DEF CalmInv
<1>1. Calm /\ sock = "up"
  BY DEF Calm, CalmInv, budgetVars
<1>2. writing' = Append(<<>>, Head(write_queue)) /\ completed' = <<>>
  BY <1>1 DEF StartWrite
<1>3. \A i \in DOMAIN writing' : writing'[i] = Head(write_queue)
  <2>1. \A e : \A i \in DOMAIN Append(<<>>, e) : Append(<<>>, e)[i] = e
    OBVIOUS
  <2> QED BY <1>2, <2>1
<1> QED BY <1>1, <1>2, <1>3 DEF CalmInv, FrontWritten, Accepted

LEMMA CalmStep ==
  ASSUME TypeOK, BatonInv, CalmInv, [Next]_vars
  PROVE  CalmInv'
<1> USE DEF threadVars, queueVars, sockVars, budgetVars
<1>1. ASSUME NEW t \in Senders, CheckState(t) PROVE CalmInv'
  BY <1>1, CalmKept DEF CheckState, FlowVars
<1>2. ASSUME NEW t \in Senders, EnqueueWrite(t) PROVE CalmInv'
  BY <1>2, CalmEnqueue
<1>3. ASSUME NEW t \in Senders, DoWrite(t) PROVE CalmInv'
  <2>1. writing = <<>> /\ completed = <<>>
    BY <1>3 DEF DoWrite, BatonInv, SingleWriter
  <2> QED BY <1>3, <2>1, CalmStarted DEF DoWrite
<1>4. ASSUME NEW d \in BOOLEAN, SetDropPending(d) PROVE CalmInv'
  <2>1. ~Calm /\ UNCHANGED budgetVars
    BY <1>4 DEF SetDropPending, Calm
  <2> QED BY <2>1, CalmOver
<1>5. CASE HandleWrite
  <2> SUFFICES ASSUME Calm'
               PROVE  CalmInv'
    BY DEF CalmInv
  <2>1. Calm
    BY <1>5 DEF HandleWrite, Calm
  <2>2. PICK c \in [msg : 1..accepted, done : Outcomes] : completed = <<c>> /\ writing = <<>>
    BY <1>5, OneCompleted DEF HandleWrite
  <2>3. c.done = "all" /\ FrontWritten
    BY <1>5, <2>1, <2>2 DEF HandleWrite, CalmInv, FrontWritten, Outcomes
  <2>4. completed # <<>> /\ Head(completed) = c /\ Tail(completed) = <<>>
    BY <2>2
  <2>5. /\ completed' = <<>> /\ io' # "failed" /\ write_queue' = Tail(write_queue)
        /\ UNCHANGED <<timer, sock, attempts, drop_pending, writing, accepted, wire>>
    BY <1>5, <2>3, <2>4 DEF HandleWrite
  <2> QED BY <2>1, <2>2, <2>3, <2>4, <2>5 DEF CalmInv, FrontWritten, Accepted
<1>6. CASE HandleWriteFailed
  <2>1. ~Calm /\ UNCHANGED budgetVars
    BY <1>6 DEF HandleWriteFailed, CalmInv
  <2> QED BY <2>1, CalmOver
<1>7. CASE HandleWriteMore
  <2>1. writing = <<>> /\ completed = <<>>
    BY <1>7 DEF HandleWriteMore, BatonInv, SingleWriter
  <2> QED BY <1>7, <2>1, CalmStarted DEF HandleWriteMore
<1>8. CASE ReceiveFailed
  BY <1>8, CalmOver DEF ReceiveFailed
<1>9. CASE BeginConnect
  BY <1>9, CalmOver DEF BeginConnect, Dial
<1>10. CASE CallbackTimerAborted
  <2>1. ~Calm /\ UNCHANGED budgetVars
    BY <1>10 DEF CallbackTimerAborted, CalmInv
  <2> QED BY <2>1, CalmOver
<1>11. CASE CallbackConnect
  <2>1. ~Calm /\ (UNCHANGED budgetVars \/ faults' = faults + 1)
    BY <1>11 DEF CallbackConnect, CalmInv
  <2> QED BY <2>1, CalmOver
<1>12. CASE CallbackConnectStale
  <2>1. ~Calm /\ UNCHANGED budgetVars
    BY <1>12 DEF CallbackConnectStale, CalmInv, TypeOK
  <2> QED BY <2>1, CalmOver
<1>13. CASE WriteSucceeds
  <2> SUFFICES ASSUME Calm'
               PROVE  CalmInv'
    BY DEF CalmInv
  <2>1. Calm
    BY <1>13 DEF WriteSucceeds, Calm
  <2>2. PICK m \in 1..accepted : writing = <<m>> /\ completed = <<>>
    BY <1>13, OneWriting DEF WriteSucceeds
  <2>3. write_queue # <<>> /\ m = Head(write_queue)
    <3>1. write_queue # <<>>
      BY <1>13 DEF WriteSucceeds, BatonInv, Baton
    <3>2. \A i \in DOMAIN writing : writing[i] = Head(write_queue)
      BY <2>1 DEF CalmInv
    <3> QED BY <2>2, <3>1, <3>2
  <2>4. Head(writing) = m /\ Tail(writing) = <<>>
    BY <2>2
  <2>5. /\ writing' = <<>> /\ wire' = Append(wire, m)
        /\ completed' = Append(<<>>, Finished(m, "all"))
        /\ UNCHANGED <<timer, sock, attempts, drop_pending, write_queue, io, accepted>>
    BY <1>13, <2>2, <2>4 DEF WriteSucceeds
  <2>6. FrontWritten' /\ \A i \in DOMAIN completed' : completed'[i].done = "all"
    <3>1. \A e : Append(<<>>, e) # <<>> /\ Head(Append(<<>>, e)) = e
                   /\ \A i \in DOMAIN Append(<<>>, e) : Append(<<>>, e)[i] = e
      OBVIOUS
    <3>2. Finished(m, "all").done = "all"
      BY DEF Finished
    <3> QED BY <2>5, <3>1, <3>2 DEF FrontWritten
  <2>7. wire' \o Tail(write_queue) = Accepted(accepted)
    <3>1. wire \in Seq(1..accepted) /\ write_queue \in Seq(1..accepted)
      BY DEF TypeOK
    <3>2. Append(wire, Head(write_queue)) \o Tail(write_queue) = wire \o write_queue
      BY <2>2, <2>3, <3>1, ConcatAppend
    <3>3. wire \o write_queue = Accepted(accepted)
      BY <2>1, <2>2 DEF CalmInv, FrontWritten
    <3> QED BY <2>3, <2>5, <3>2, <3>3
  <2>8. /\ ~drop_pending' /\ timer' = "idle" /\ sock' = "up" /\ attempts' = 0 /\ io' # "failed"
        /\ \A i \in DOMAIN writing' : writing'[i] = Head(write_queue')
        /\ accepted' = accepted /\ write_queue' = write_queue
    BY <2>1, <2>5 DEF CalmInv
  <2>9. wire' \o (IF FrontWritten' THEN Tail(write_queue') ELSE write_queue')
          = Accepted(accepted')
    BY <2>6, <2>7, <2>8
  <2> QED BY <2>6, <2>8, <2>9 DEF CalmInv, Accepted
<1>14. CASE WriteFails
  BY <1>14, CalmOver DEF WriteFails
<1>15. CASE UNCHANGED vars
  BY <1>15, CalmKept DEF vars, FlowVars
<1>16. CASE WriteRest
  <2> SUFFICES ASSUME Calm'
               PROVE  CalmInv'
    BY DEF CalmInv
  <2>1. Calm /\ sock = "up"
    BY <1>16 DEF WriteRest, Calm, CalmInv
  <2>2. PICK c \in [msg : 1..accepted, done : Outcomes] : completed = <<c>> /\ writing = <<>>
    BY <1>16, OneCompleted DEF WriteRest
  <2>3. completed # <<>> /\ Head(completed) = c /\ Tail(completed) = <<>> /\ completed[1] = c
    BY <2>2
  <2>4. c.done = "part" /\ c.msg = Head(write_queue) /\ ~FrontWritten
    BY <1>16, <2>1, <2>2, <2>3 DEF WriteRest, CalmInv, FrontWritten
  <2>5. writing' = Append(<<>>, Head(write_queue)) /\ completed' = <<>>
    BY <1>16, <2>1, <2>2, <2>3, <2>4 DEF WriteRest, StartWrite
  <2>6. \A i \in DOMAIN writing' : writing'[i] = Head(write_queue)
    <3>1. \A e : \A i \in DOMAIN Append(<<>>, e) : Append(<<>>, e)[i] = e
      OBVIOUS
    <3> QED BY <2>5, <3>1
  <2>7. UNCHANGED <<timer, sock, attempts, drop_pending, write_queue, io, accepted, wire>>
    BY <1>16 DEF WriteRest
  <2>8. FrontWritten' = FALSE /\ \A i \in DOMAIN completed' : FALSE
    BY <2>5 DEF FrontWritten
  <2>9. wire \o write_queue = Accepted(accepted)
    BY <2>1, <2>4 DEF CalmInv
  <2> QED BY <2>1, <2>6, <2>7, <2>8, <2>9 DEF CalmInv, Accepted
<1>17. CASE WaitEnds
  <2>1. ~Calm /\ UNCHANGED budgetVars
    BY <1>17 DEF WaitEnds, CalmInv
  <2> QED BY <2>1, CalmOver
<1>18. CASE ResolveFails
  BY <1>18, CalmOver DEF ResolveFails
<1>19. CASE NextEndpoint
  BY <1>19, CalmOver DEF NextEndpoint
<1>20. CASE WritePartly
  <2> SUFFICES ASSUME Calm'
               PROVE  CalmInv'
    BY DEF CalmInv
  <2>1. Calm
    BY <1>20 DEF WritePartly, Calm
  <2>2. PICK m \in 1..accepted : writing = <<m>> /\ completed = <<>>
    BY <1>20, OneWriting DEF WritePartly
  <2>3. Head(writing) = m /\ Tail(writing) = <<>> /\ writing[1] = m /\ ~FrontWritten
    BY <2>2 DEF FrontWritten
  <2>4. m = Head(write_queue)
    BY <2>1, <2>2, <2>3 DEF CalmInv
  <2> DEFINE c == Finished(m, "part")
  <2>5. /\ writing' = <<>> /\ completed' = Append(<<>>, c)
        /\ UNCHANGED <<timer, sock, attempts, drop_pending, write_queue, io, accepted, wire>>
    BY <1>20, <2>2, <2>3 DEF WritePartly
  <2>6. c.done = "part" /\ c.msg = m
    BY DEF Finished
  <2> HIDE DEF c
  <2>7. Head(completed') = c /\ \A i \in DOMAIN completed' : completed'[i] = c
    <3>1. \A e : Head(Append(<<>>, e)) = e /\ \A i \in DOMAIN Append(<<>>, e) : Append(<<>>, e)[i] = e
      OBVIOUS
    <3> QED BY <2>5, <3>1
  <2>8. FrontWritten' = FALSE
    BY <2>6, <2>7 DEF FrontWritten
  <2> QED BY <2>1, <2>3, <2>4, <2>5, <2>6, <2>7, <2>8 DEF CalmInv, Accepted
<1> QED
  BY <1>1, <1>2, <1>3, <1>4, <1>5, <1>6, <1>7, <1>8, <1>9, <1>10, <1>11,
     <1>12, <1>13, <1>14, <1>15, <1>16, <1>17, <1>18, <1>19, <1>20
  DEF Next, SenderStep, IoStep

\* While nothing fails and the application does not ask for packets to be dropped,
\* the wire and the queue hold exactly the packets that send() accepted, in order,
\* for every number of senders and packets (enqueue_write, handle_write).
THEOREM EverythingKept == Spec => []NothingLost
<1>1. Init => CalmInv
  <2>1. Accepted(0) = <<>> /\ <<>> \o <<>> = <<>>
    BY DEF Accepted
  <2> QED BY <2>1 DEF Init, CalmInv, FrontWritten
<1>2. TypeOK /\ BatonInv /\ CalmInv /\ [Next]_vars => CalmInv'
  BY CalmStep
<1>3. CalmInv => NothingLost
  BY DEF CalmInv, Calm, NothingLost, FrontWritten, Accepted
<1> QED BY <1>1, <1>2, <1>3, TypeAndBaton, PTL DEF Spec
=============================================================================
