------------------------------ MODULE Endpoint ------------------------------
(***************************************************************************)
(* amjComEndpoint between two processes: a sender in a loop that inserts a *)
(* number and a text into its amjPacket and calls send(), and a receiver   *)
(* in a loop that calls receive() and extracts them (mqtest.C).  conf.kind *)
(* says what the endpoint is: a message queue ("mq"), a socket ("udp") or  *)
(* shared memory ("shm").                                                  *)
(*                                                                         *)
(* A call of send() or receive() is one step: on a queue or a socket it is *)
(* one call of the kernel, and the shared memory has a mutex; what happens *)
(* between its semaphores, and when its processes are killed, is the       *)
(* subject of module ShmFifo.                                              *)
(***************************************************************************)
EXTENDS AmjPacket, FiniteSets

CONSTANTS
  Sizes,      \* sizes a process may be started with, in units
  NBuf,       \* nbuf of the memory, datagrams a socket holds; bound: n of a queue
  Texts,      \* lengths of a text
  MaxMsg,     \* bound: messages sent
  MaxFaults   \* bound: kills, foreign datagrams, lost and duplicated ones

ASSUME EndpointAssumption ==
  /\ Sizes \subseteq Nat \ {0} /\ (\E m \in Sizes : \A s \in Sizes : s <= m)
  /\ NBuf \in Nat \ {0} /\ Texts \subseteq Nat /\ MaxMsg \in Nat /\ MaxFaults \in Nat

VARIABLES
  conf,      \* kind of endpoint; one_peer of the receiver
  pc,        \* what each process does, see States
  size,      \* the size each process was started with: _sendsize, _receivesize
  attr,      \* mq_msgsize of the queue or size in the memory; 0: none exists yet
  room,      \* mq_maxmsg of the queue; 0: none exists yet
  chan,      \* datagrams in the queue or in the network
  ring,      \* the shared memory: slots, indices and semaphore
  spkt,      \* the sender's packet
  rpkt,      \* the receiver's packet
  sent,      \* history: the packets the sender has called send() for
  since,     \* history: messages sent before the receiver opened its endpoint
  received,  \* history: what the receiver has extracted since it started
  faults     \* faults so far

vars == <<conf, pc, size, attr, room, chan, ring, spkt, rpkt, sent, since, received, faults>>

Procs == {"sender", "receiver"}

\* "flush": in init() of a queue; "exit": the program has ended itself because it
\* must not go on; "error": because a call of the kernel failed.
States == {"down", "flush", "up", "exit", "error"}

Sockaddr  == [addr : {"a", "b"}, port : {1, 2}]
PeerAddr  == [addr |-> "a", port |-> 1]
Strangers == Sockaddr \ {PeerAddr}

Mem == 0..(NBuf * (CHOOSE m \in Sizes : \A s \in Sizes : s <= m) - 1)

Init ==
  /\ conf \in [kind : {"mq", "udp", "shm"}, one_peer : BOOLEAN]
  /\ conf.one_peer => conf.kind = "udp"
  /\ pc = [x \in Procs |-> "down"] /\ size = [x \in Procs |-> 0]
  /\ attr = 0 /\ room = 0 /\ chan = <<>>
  /\ ring = [mem |-> [a \in Mem |-> 0], sidx |-> 0, ridx |-> 0, sem |-> 0]
  /\ spkt = Cleared /\ rpkt = Cleared
  /\ sent = <<>> /\ since = 0 /\ received = <<>> /\ faults = 0

Running(x) == pc[x] \in {"flush", "up"}
Goto(x, l) == pc' = [pc EXCEPT ![x] = l]

\* A program that starts with packet and history empty.
Fresh(x) ==
  IF x = "sender" THEN spkt' = Cleared /\ UNCHANGED <<rpkt, received, since>>
  ELSE rpkt' = Cleared /\ received' = <<>> /\ since' = Len(sent) /\ UNCHANGED spkt

-----------------------------------------------------------------------------
(* Constructors.                                                           *)

\* Mutated: the attributes of an old queue are not compared.
AnyAttr(x, s, n) == TRUE

\* mq_open gives a new queue the attributes, an old one keeps its own.
SameAttr(x, s, n) == attr = 0 \/ (attr = s /\ room = n)

\* Mutated: the sender's queue stays as init() opens it, which blocks.
AlwaysBlocking(x) == FALSE

\* Blocking for the receiver, non-blocking for the sender.
Mode(x) == x = "sender"

\* init(): a queue that exists is of the attributes asked for, or the program
\* ends.  The receiver then flushes it; mq_receive of the sender fails.
OpenQueue(x, s, n) ==
  /\ conf.kind = "mq" /\ ~Running(x)
  /\ size' = [size EXCEPT ![x] = s]
  /\ attr' = IF attr = 0 THEN s ELSE attr
  /\ room' = IF attr = 0 THEN n ELSE room
  /\ Goto(x, IF ~SameAttr(x, s, n) THEN "exit" ELSE IF x = "receiver" THEN "flush" ELSE "up")
  /\ Fresh(x)
  /\ UNCHANGED <<conf, chan, ring, sent, faults>>

\* Mutated: one message is read at most.
FlushOnce ==
  /\ pc["receiver"] = "flush"
  /\ Goto("receiver", "up")
  /\ chan' = IF chan = <<>> THEN chan ELSE Tail(chan)
  /\ UNCHANGED <<conf, size, attr, room, ring, spkt, rpkt, sent, since, received, faults>>

\* One mq_receive of init(), the last of which finds the queue empty.
Flush ==
  /\ pc["receiver"] = "flush"
  /\ IF chan = <<>> THEN Goto("receiver", "up") /\ UNCHANGED chan
                    ELSE chan' = Tail(chan) /\ UNCHANGED pc
  /\ UNCHANGED <<conf, size, attr, room, ring, spkt, rpkt, sent, since, received, faults>>

\* socket() and bind().
OpenSocket(x) ==
  /\ conf.kind = "udp" /\ ~Running(x)
  /\ Goto(x, "up") /\ Fresh(x)
  /\ UNCHANGED <<conf, size, attr, room, chan, ring, sent, faults>>

\* create_shm_sem() checks no size; the sender's is written to the memory and holds
\* for both.  A receiver that is started with a smaller one than the sender maps, or
\* even leaves, less memory than the ring takes (ftruncate): it is not modelled.
OpenMemory(x, s) ==
  /\ conf.kind = "shm" /\ pc[x] = "down"
  /\ x = "receiver" /\ pc["sender"] = "up" => s >= attr
  /\ x = "sender" /\ pc["receiver"] = "up" => s <= size["receiver"]
  /\ size' = [size EXCEPT ![x] = s]
  /\ attr' = IF x = "sender" THEN s ELSE attr
  /\ Goto(x, "up") /\ Fresh(x)
  /\ UNCHANGED <<conf, room, chan, ring, sent, faults>>

-----------------------------------------------------------------------------
(* send().                                                                 *)

\* The sender's packet: cleared, or only set back to its start, before a message
\* is inserted.
Filled(k, n, text) == {Insert(Cleared, n, text), Insert(Seek(k, 0), n, text)}

Called(k) ==
  /\ spkt' = k /\ sent' = Append(sent, k.d)
  /\ UNCHANGED <<conf, size, attr, room, rpkt, since, received, faults>>

\* A datagram; a queue or a socket that is full drops it.
Limit     == IF conf.kind = "mq" THEN room ELSE NBuf
Queued(d) == IF Len(chan) = Limit THEN chan ELSE Append(chan, [from |-> PeerAddr, d |-> d])

\* mq_send, by a sender that checks the size.  A full queue makes one that blocks
\* wait.
SendQueue(k) ==
  /\ conf.kind = "mq"
  /\ Len(chan) = Limit /\ Len(k.d) <= size["sender"] => Mode("sender")
  /\ Called(k)
  /\ IF Len(k.d) > size["sender"] THEN Goto("sender", "exit") ELSE UNCHANGED pc
  /\ chan' = IF Len(k.d) > size["sender"] THEN chan ELSE Queued(k.d)
  /\ UNCHANGED ring

\* sendto; there is a receiver or there is none.
SendSocket(k) ==
  /\ conf.kind = "udp"
  /\ Called(k)
  /\ chan' = IF pc["receiver"] = "up" THEN Queued(k.d) ELSE chan
  /\ UNCHANGED <<pc, ring>>

\* Only packets that fit a slot are sent: of any other send() prints that it is
\* too large, and copies it over whatever follows.
Fits(k) == Len(k.d) + 1 <= attr

Next1(i) == (i + 1) % NBuf

\* Mutated: the ring takes any number of packets.
NeverFull == FALSE
Full == ring.sem = NBuf

\* memcpy(dest, p): the size and the packet.
SendMemory(k) ==
  /\ conf.kind = "shm" /\ Fits(k)
  /\ Called(k)
  /\ LET at == ring.sidx * attr
         us == <<Len(k.d)>> \o k.d
     IN ring' = [mem  |-> [a \in Mem |-> IF a \in at..(at + Len(us) - 1) THEN us[a - at + 1]
                                                                     ELSE ring.mem[a]],
                 sidx |-> Next1(ring.sidx),
                 ridx |-> IF Full THEN Next1(ring.ridx) ELSE ring.ridx,
                 sem  |-> IF Full THEN ring.sem ELSE ring.sem + 1]
  /\ UNCHANGED <<pc, chan>>

Send ==
  /\ pc["sender"] = "up" /\ Len(sent) < MaxMsg
  /\ \E n \in Texts :
       LET text == [j \in 1..n |-> 101 + Len(sent)]
       IN \E k \in Filled(spkt, Len(sent) + 1, text) :
            SendQueue(k) \/ SendSocket(k) \/ SendMemory(k)

-----------------------------------------------------------------------------
(* receive(), and what the receiver extracts.                              *)

\* operator>> of a number and of a text, the second of them in two steps.
Extracts(k, from) ==
  /\ \E k1 \in {k} : \E k2 \in {After(k1, 1)} : \E k3 \in {After(k2, 1)} :
       \E number \in PopInt(k1), n \in PopInt(k2) :
         /\ rpkt' = After(k3, n)
         /\ received' = Append(received, [from |-> from, d |-> k1.d,
                                            number |-> number, text |-> PopText(k3, n)])
  /\ UNCHANGED <<conf, size, attr, room, spkt, sent, since, faults>>

Without(s, i) == SubSeq(s, 1, i - 1) \o SubSeq(s, i + 1, Len(s))

\* p is made as large as a message can be, filled and cut; the receiver sets it
\* back to its start.
QueuePacket(d) ==
  LET k == Resize(rpkt, size["receiver"])
  IN Seek(Resize([k EXCEPT !.d = Over(@, 0, d)], Len(d)), 0)

\* The buffer is smaller than the messages of the queue, or the queue does not block
\* and is empty.
ReceiveFails == size["receiver"] < attr \/ (chan = <<>> /\ Mode("receiver"))

\* mq_receive of a queue that blocks waits for a message; a call that fails ends the
\* program.
ReceiveQueue ==
  /\ conf.kind = "mq" /\ pc["receiver"] = "up"
  /\ IF ReceiveFails
     THEN /\ Goto("receiver", "error")
          /\ UNCHANGED <<conf, size, attr, room, chan, spkt, rpkt, sent, since, received, faults>>
     ELSE /\ chan # <<>>
          /\ Extracts(QueuePacket(chan[1].d), chan[1].from) /\ chan' = Tail(chan)
          /\ UNCHANGED pc
  /\ UNCHANGED ring

Compare(s1, s2) == s1.port = s2.port /\ s1.addr = s2.addr

SocketPacket(d) == Seek([Resize(rpkt, Len(d)) EXCEPT !.d = Over(@, 0, d)], 0)

\* recvfrom, of datagrams that arrive in any order.
ReceiveSocket(i) ==
  /\ conf.kind = "udp" /\ pc["receiver"] = "up" /\ i \in DOMAIN chan
  /\ IF conf.one_peer /\ ~Compare(chan[i].from, PeerAddr)
     THEN /\ Goto("receiver", "exit") /\ chan' = <<>>
          /\ UNCHANGED <<conf, size, attr, room, spkt, rpkt, sent, since, received, faults>>
     ELSE /\ Extracts(SocketPacket(chan[i].d), chan[i].from) /\ chan' = Without(chan, i)
          /\ UNCHANGED pc
  /\ UNCHANGED ring

\* memcpy(p, src): start(), the size, and the packet; then start() again.
ReceiveMemory ==
  /\ conf.kind = "shm" /\ pc["receiver"] = "up" /\ ring.sem > 0
  /\ LET at == ring.ridx * attr
         us == [j \in 1..ring.mem[at] |-> ring.mem[at + j]]
     IN Extracts(Seek(Write(Seek(rpkt, 0), us), 0), PeerAddr)
  /\ ring' = [ring EXCEPT !.ridx = Next1(@), !.sem = @ - 1]
  /\ UNCHANGED <<pc, chan>>

-----------------------------------------------------------------------------
(* Faults.  The kernel keeps a queue; the datagrams of a socket go with it.   *)

Fault == faults < MaxFaults /\ faults' = faults + 1

Kill(x) ==
  /\ conf.kind # "shm" /\ Running(x) /\ Fault
  /\ Goto(x, "down")
  /\ chan' = IF conf.kind = "udp" /\ x = "receiver" THEN <<>> ELSE chan
  /\ UNCHANGED <<conf, size, attr, room, ring, spkt, rpkt, sent, since, received>>

\* The network.
Network(c) ==
  /\ conf.kind = "udp" /\ Len(c) <= NBuf /\ Fault /\ chan' = c
  /\ UNCHANGED <<conf, pc, size, attr, room, ring, spkt, rpkt, sent, since, received>>

Lose(i)      == i \in DOMAIN chan /\ Network(Without(chan, i))
Duplicate(i) == i \in DOMAIN chan /\ Network(Append(chan, chan[i]))
Foreign(from, d) == pc["receiver"] = "up" /\ Network(Append(chan, [from |-> from, d |-> d]))

-----------------------------------------------------------------------------
Datagrams == 1..NBuf

Start ==
  \E x \in Procs :
    \/ OpenSocket(x)
    \/ \E s \in Sizes : OpenMemory(x, s) \/ \E n \in 1..NBuf : OpenQueue(x, s, n)

Receive == ReceiveQueue \/ ReceiveMemory \/ \E i \in Datagrams : ReceiveSocket(i)

Net == \/ \E x \in Procs : Kill(x)
       \/ \E i \in Datagrams : Lose(i) \/ Duplicate(i)
       \/ \E from \in Strangers, d \in {<<>>, <<1>>, <<1, 1>>} : Foreign(from, d)

Next == Start \/ Flush \/ Send \/ Receive \/ Net

Spec == Init /\ [][Next]_vars

\* Both processes run their loops.
FairSpec == Spec /\ WF_vars(Send) /\ WF_vars(Receive) /\ WF_vars(Flush)

-----------------------------------------------------------------------------
(* Properties.                                                             *)

\* Types of the variables.
Datagram == [from : Sockaddr, d : Seq(Nat)]
TypeOK ==
  /\ conf \in [kind : {"mq", "udp", "shm"}, one_peer : BOOLEAN]
  /\ pc \in [Procs -> States] /\ size \in [Procs -> Sizes \cup {0}]
  /\ attr \in Sizes \cup {0} /\ room \in 0..NBuf
  /\ chan \in Seq(Datagram)
  /\ ring \in [mem : [Mem -> Nat], sidx : 0..(NBuf - 1), ridx : 0..(NBuf - 1), sem : 0..NBuf]
  /\ spkt \in AmjPackets /\ rpkt \in AmjPackets
  /\ spkt.offset <= Len(spkt.d) /\ rpkt.offset <= Len(rpkt.d)
  /\ sent \in Seq(Seq(Nat)) /\ since \in Nat /\ faults \in 0..MaxFaults
  /\ received \in Seq([from : Sockaddr, d : Seq(Nat), number : Nat, text : Seq(Nat)])

\* A packet of the peer arrives with the size and the units it was sent with, and
\* what is extracted from it is what the peer has inserted: whatever the packets
\* of both held before, however full a slot is and whatever strangers have sent in
\* between (amjPacket.C, memcpy of a packet).
PacketIntact ==
  \A i \in DOMAIN received :
    LET r == received[i]
    IN r.from = PeerAddr =>
         /\ r.number \in DOMAIN sent
         /\ r.d = sent[r.number]
         /\ r.text = SubSeq(r.d, 3, 2 + r.d[2]) /\ \A j \in DOMAIN r.text : r.text[j] = 100 + r.number

\* A receiver that opens a queue gets nothing that was sent before it opened it,
\* whoever opened the queue before and however full it is (flush, init()).
FreshAfterOpen ==
  conf.kind = "mq" => \A i \in DOMAIN received : received[i].number > since

\* Neither side of a queue is stopped by its mode, whatever the other does: a sender
\* goes on when the queue is full and nobody reads it, a receiver that finds it empty
\* waits and gets no error (init()).
NeitherStops ==
  conf.kind = "mq" =>
    /\ pc["sender"] = "up" ~> Len(sent) = MaxMsg \/ pc["sender"] # "up"
    /\ [](pc["receiver"] # "error")

\* A message in a queue that has a receiver is received, in spite of the size that
\* the receiver was started with and of the queue an earlier process has left.
QueuedIsReceived ==
  \A n \in 1..MaxMsg :
    (conf.kind = "mq" /\ pc["receiver"] = "up" /\ \E i \in DOMAIN chan : chan[i].d[1] = n)
      ~> \/ \E i \in DOMAIN received : received[i].number = n
         \/ pc["receiver"] = "down"
=============================================================================
