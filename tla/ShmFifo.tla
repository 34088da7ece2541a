------------------------------ MODULE ShmFifo ------------------------------
(***************************************************************************)
(* amjComEndpointSHM: one direction of a shared-memory endpoint.  The      *)
(* memory holds sidx, ridx and a ring of nbuf slots; one named semaphore   *)
(* counts packets for the receiver, a second one serves as a mutex.  The   *)
(* memory and both semaphores outlive the processes that use them.         *)
(*                                                                         *)
(* sem_wait of the receiver and sem_getvalue and sem_post of the sender do *)
(* not happen under one lock, so every call on a semaphore is an action of *)
(* its own.  The n-th packet that is sent is n; 0 is a slot never written. *)
(***************************************************************************)
EXTENDS Naturals, Sequences, FiniteSets

CONSTANTS
  Senders,    \* threads of the sending process that call send()
  Receivers,  \* receiving processes, each in a loop around receive()
  NBuf,       \* nbuf: slots of the ring
  MayLap,     \* FALSE: the user sends only while a slot is free
  MaxMsg,     \* bound: packets sent
  MaxCrashes  \* bound: processes that are killed

ASSUME ShmAssumption ==
  /\ Senders \cap Receivers = {}
  /\ IsFiniteSet(Receivers)
  /\ NBuf \in Nat \ {0}
  /\ MayLap \in BOOLEAN
  /\ MaxMsg \in Nat /\ MaxCrashes \in Nat

VARIABLES
  sidx,      \* index of the slot the next packet is written to
  ridx,      \* index of the slot the next packet is read from
  slots,     \* the ring
  sem,       \* value of the semaphore that counts packets
  mutex,     \* value of the semaphore that serves as a mutex
  pc,        \* where each thread is inside send() or receive()
  sval,      \* sval of send()
  sent,      \* history: packets written so far
  received,  \* history: packets copied out of the ring, in order
  crashes    \* processes killed so far

memory  == <<sidx, ridx, slots>>
history == <<sent, received, crashes>>
vars    == <<sidx, ridx, slots, sem, mutex, pc, sval, sent, received, crashes>>

Index   == 0..(NBuf - 1)
Threads == Senders \cup Receivers
SendPC  == {"idle", "locked", "written", "counted", "posted", "dead", "starting"}
RecvPC  == {"idle", "waited", "locked", "copied", "advanced", "dead"}

\* Where a thread is between its sem_wait and its sem_post on the mutex.
Inside == {"locked", "written", "counted", "posted", "copied", "advanced"}

\* sem_open gives the semaphore of the packets the value 0 if it is new.
InitialTokens == 0

\* The sender's constructor has run on fresh memory and semaphores.
Init ==
  /\ sidx = 0 /\ ridx = 0
  /\ slots = [i \in Index |-> 0]
  /\ sem = InitialTokens /\ mutex = 1
  /\ pc = [t \in Threads |-> "idle"]
  /\ sval = [s \in Senders |-> 0]
  /\ sent = 0 /\ received = <<>> /\ crashes = 0

-----------------------------------------------------------------------------
Goto(t, l) == pc' = [pc EXCEPT ![t] = l]

\* Index of the slot after i.  Mutated: one slot more than there are.
NextIndexTooFar(i) == (i + 1) % (NBuf + 1)
NextIndex(i) == (i + 1) % NBuf

\* sem_wait and sem_post on the mutex.  Mutated: no wait.
LockAlways(t, l) == mutex' = 0 /\ Goto(t, l)
Lock(t, l) == mutex = 1 /\ mutex' = 0 /\ Goto(t, l)
Unlock(t)  == mutex' = 1 /\ Goto(t, "idle")

-----------------------------------------------------------------------------
(* send().                                                                 *)

SendLock(s) ==
  /\ pc[s] = "idle"
  /\ sent < MaxMsg
  /\ MayLap \/ sent < Len(received) + NBuf
  /\ Lock(s, "locked")
  /\ UNCHANGED <<memory, sem, sval, history>>

SendWrite(s) ==
  /\ pc[s] = "locked"
  /\ slots' = [slots EXCEPT ![sidx] = sent + 1]
  /\ sidx' = NextIndex(sidx)
  /\ sent' = sent + 1
  /\ Goto(s, "written")
  /\ UNCHANGED <<ridx, sem, mutex, sval, received, crashes>>

\* sem_getvalue.
SendGetValue(s) ==
  /\ pc[s] = "written"
  /\ sval' = [sval EXCEPT ![s] = sem]
  /\ Goto(s, "counted")
  /\ UNCHANGED <<memory, sem, mutex, history>>

\* The value read is that of a full ring.  Mutated: off by one.
FullOffByOne(v) == v = NBuf + 1
Full(v) == v = NBuf

\* Mutated: the semaphore is posted in either case.
PostAlways(s) ==
  /\ pc[s] = "counted"
  /\ ridx' = IF Full(sval[s]) THEN NextIndex(ridx) ELSE ridx
  /\ sem' = sem + 1
  /\ Goto(s, "posted")
  /\ UNCHANGED <<sidx, slots, mutex, sval, history>>

\* A full ring loses its oldest packet: the receiver's index moves on.  Of any
\* other ring the semaphore is posted.
SendPost(s) ==
  /\ pc[s] = "counted"
  /\ \/ Full(sval[s]) /\ ridx' = NextIndex(ridx) /\ UNCHANGED sem
     \/ ~Full(sval[s]) /\ sem' = sem + 1 /\ UNCHANGED ridx
  /\ Goto(s, "posted")
  /\ UNCHANGED <<sidx, slots, mutex, sval, history>>

SendUnlock(s) ==
  /\ pc[s] = "posted"
  /\ Unlock(s)
  /\ UNCHANGED <<memory, sem, sval, history>>

-----------------------------------------------------------------------------
(* receive().                                                              *)

\* sem_wait before the mutex is taken.
ReceiveWait(r) ==
  /\ pc[r] = "idle"
  /\ sem > 0
  /\ sem' = sem - 1
  /\ Goto(r, "waited")
  /\ UNCHANGED <<memory, mutex, sval, history>>

ReceiveLock(r) ==
  /\ pc[r] = "waited"
  /\ Lock(r, "locked")
  /\ UNCHANGED <<memory, sem, sval, history>>

ReceiveCopy(r) ==
  /\ pc[r] = "locked"
  /\ received' = Append(received, slots[ridx])
  /\ Goto(r, "copied")
  /\ UNCHANGED <<memory, sem, mutex, sval, sent, crashes>>

ReceiveAdvance(r) ==
  /\ pc[r] = "copied"
  /\ ridx' = NextIndex(ridx)
  /\ Goto(r, "advanced")
  /\ UNCHANGED <<sidx, slots, sem, mutex, sval, history>>

\* Mutated: the mutex stays taken.
NeverUnlock(r) ==
  /\ pc[r] = "advanced"
  /\ Goto(r, "idle")
  /\ UNCHANGED <<memory, sem, mutex, sval, history>>

ReceiveUnlock(r) ==
  /\ pc[r] = "advanced"
  /\ Unlock(r)
  /\ UNCHANGED <<memory, sem, sval, history>>

-----------------------------------------------------------------------------
(* Processes are killed and started again.                                 *)

Kill(P) ==
  /\ crashes < MaxCrashes
  /\ crashes' = crashes + 1
  /\ pc' = [t \in Threads |-> IF t \in P THEN "dead" ELSE pc[t]]
  /\ UNCHANGED <<memory, sem, mutex, sval, sent, received>>

SenderCrashes     == (\E s \in Senders : pc[s] # "dead") /\ Kill(Senders)
ReceiverCrashes(r) == pc[r] # "dead" /\ Kill({r})

\* The constructor with init: one index is zeroed after the other, without the
\* mutex.  The packets are not, sem_open with O_CREAT leaves semaphores that exist
\* alone, and nbuf and size are stored with the values they have.
SendersAt(l)  == Senders # {} /\ \A s \in Senders : pc[s] = l
SendersTo(l)  == pc' = [t \in Threads |-> IF t \in Senders THEN l ELSE pc[t]]

SenderRestarts ==
  /\ SendersAt("dead") /\ SendersTo("starting")
  /\ sidx' = 0
  /\ UNCHANGED <<ridx, slots, sem, mutex, sval, history>>

\* A receiver that has read ridx to move it on may overwrite the zero.
SenderStarted ==
  /\ SendersAt("starting") /\ SendersTo("idle")
  /\ \/ ridx' = 0
     \/ (\E r \in Receivers : pc[r] = "copied") /\ UNCHANGED ridx
  /\ UNCHANGED <<sidx, slots, sem, mutex, sval, history>>

\* The constructor without init.
ReceiverRestarts(r) ==
  /\ pc[r] = "dead"
  /\ Goto(r, "idle")
  /\ UNCHANGED <<memory, sem, mutex, sval, history>>

-----------------------------------------------------------------------------
SendStep(s) == SendLock(s) \/ SendWrite(s) \/ SendGetValue(s) \/ SendPost(s)
                 \/ SendUnlock(s)

ReceiveStep(r) == ReceiveWait(r) \/ ReceiveLock(r) \/ ReceiveCopy(r)
                    \/ ReceiveAdvance(r) \/ ReceiveUnlock(r)

Next ==
  \/ \E s \in Senders : SendStep(s)
  \/ \E r \in Receivers : ReceiveStep(r) \/ ReceiverCrashes(r) \/ ReceiverRestarts(r)
  \/ SenderCrashes \/ SenderRestarts \/ SenderStarted

Spec == Init /\ [][Next]_vars

\* Processes that are in the middle of send() or receive() are scheduled, and
\* a semaphore that is posted again and again lets a waiter through.
FairSpec ==
  /\ Spec
  /\ \A s \in Senders : WF_vars(pc[s] # "idle" /\ SendStep(s))
  /\ \A r \in Receivers : SF_vars(ReceiveStep(r))

-----------------------------------------------------------------------------
(* Properties.                                                             *)

\* Types of the variables.
TypeOK ==
  /\ sidx \in Index /\ ridx \in Index
  /\ slots \in [Index -> Nat]
  /\ sem \in Nat /\ mutex \in {0, 1}
  /\ pc \in [Threads -> SendPC \cup RecvPC]
  /\ \A s \in Senders : pc[s] \in SendPC
  /\ \A r \in Receivers : pc[r] \in RecvPC
  /\ sval \in [Senders -> Nat]
  /\ sent \in Nat /\ received \in Seq(Nat) /\ crashes \in Nat

\* One process at a time works on the ring, over crashes and restarts too: a
\* process killed inside leaves the mutex taken and not the ring open.
MutualExclusion ==
  /\ \A t, u \in Threads : pc[t] \in Inside /\ pc[u] \in Inside => t = u
  /\ mutex = 1 => \A t \in Threads : pc[t] \notin Inside

\* The semaphore never exceeds nbuf, although sem_getvalue and sem_post are two
\* calls with sem_wait of receivers in between: send() tests for equality with
\* nbuf (amjComSHM.C:86) and would never drop a packet again.
SemBound == sem <= NBuf

Reading == Cardinality({r \in Receivers : pc[r] \in {"waited", "locked", "copied"}})
Posting == IF \E s \in Senders : pc[s] \in {"written", "counted"} THEN 1 ELSE 0
Distance == sem + Reading + Posting

\* The semaphore and the indices agree, up to whole turns of the ring: what the
\* semaphore counts, with the packets that a receiver has been promised or a
\* sender has still to post, is the distance from ridx to sidx.  Only a crash
\* can break this.
TokensMatchIndices ==
  crashes = 0 => sidx = (ridx + Distance) % NBuf

\* A packet is delivered unless nbuf later ones are sent or a process is killed,
\* whatever the receivers and the sender race for.
DeliveredOrOverwritten ==
  \A n \in 1..MaxMsg :
    sent >= n ~> \/ \E i \in DOMAIN received : received[i] = n
                 \/ sent >= n + NBuf
                 \/ crashes > 0

\* "Circular buffer fifo" (amjComSHM.H:24): packets arrive in the order they
\* were sent and once; some may have been overwritten (amjComSHM.H:38-40).
Fifo == \A i, j \in DOMAIN received : i < j => received[i] < received[j]

\* The semaphore "counts the difference between the number of packets written
\* and the number of packets read" (amjComSHM.H:34-36), which is the distance
\* from ridx to sidx whenever no call is in progress and the ring is not full.  A
\* sender that restarts breaks this.
SemCountsPackets ==
  (\A t \in Threads : pc[t] = "idle") =>
    \/ sem = (NBuf + sidx - ridx) % NBuf
    \/ sem = NBuf /\ sidx = ridx

\* The ring implements a bounded queue as long as the user does not send into a
\* full one: a packet enters when it is written and leaves when it is copied.
Unread == sent - Len(received)
First  == IF \E r \in Receivers : pc[r] = "copied" THEN NextIndex(ridx) ELSE ridx
InRing == [i \in 1..Unread |-> slots[(First + i - 1) % NBuf]]
Abstract == INSTANCE BoundedFifo WITH
  Capacity <- NBuf, queue <- InRing, taken <- received

ImplementsFifo == Abstract!Spec
=============================================================================
