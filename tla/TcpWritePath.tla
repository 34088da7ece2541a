---------------------------- MODULE TcpWritePath ----------------------------
(***************************************************************************)
(* The sending half of amjCom::TCP::Common: send1, enqueue_write, do_write *)
(* and handle_write.  Application threads call send() concurrently with    *)
(* the one thread that runs the io_context; the two meet in write_queue,   *)
(* write_in_progress and _drop_pending under write_mutex, so every region  *)
(* between two acquisitions of that mutex is one action here.              *)
(*                                                                         *)
(* A message is the number of its acceptance: the n-th packet that         *)
(* enqueue_write pushes is n.  Frame contents play no part in this module. *)
(***************************************************************************)
EXTENDS Naturals, Sequences

CONSTANTS
  Senders,       \* application threads that call send()
  IsClient,      \* TRUE: the object is a _Client; FALSE: a _Session
  UsesDrop,      \* TRUE: the application may call drop_pending()
  MaxMsg,        \* bound: packets accepted by send() in a behaviour
  MaxFaults,     \* bound: failed reads, writes, resolves and attempts to connect
  MaxReconnects  \* bound: reconnection attempts of a _Client

ASSUME WritePathAssumption ==
  /\ IsClient \in BOOLEAN
  /\ UsesDrop \in BOOLEAN
  /\ MaxMsg \in Nat /\ MaxFaults \in Nat /\ MaxReconnects \in Nat

VARIABLES
  state,             \* _status.state()
  sock,              \* what the descriptor can do, see SockStates
  attempts,          \* async_connects of the _Client whose handler has to run
  reading,           \* chains of async_read that have not failed yet
  timer,             \* the _Client's reconnect timer, see TimerStates
  expired,           \* a wait of it has ended and its callback_timer has to run
  drop_pending,      \* _drop_pending
  write_queue,       \* write_queue, the front first
  write_in_progress, \* write_in_progress
  pc,                \* where each application thread is inside send()
  io,                \* where the io thread is inside handle_write
  writing,           \* transfers the kernel has not finished
  completed,         \* finished transfers whose handler has to run, see Outcomes
  accepted,          \* history: number of packets send() returned true for
  wire,              \* history: packets completely written, in order
  faults,            \* failed reads, writes, resolves and attempts so far
  reconnects         \* reconnection attempts so far

threadVars == <<pc, io>>
queueVars  == <<write_queue, write_in_progress>>
sockVars   == <<state, sock, attempts, reading, timer, expired>>
budgetVars == <<faults, reconnects>>
vars == <<state, sock, attempts, reading, timer, expired, drop_pending,
          write_queue, write_in_progress, pc, io, writing, completed, accepted,
          wire, faults, reconnects>>

States == {"Connecting", "WaitingToConnect", "Connected", "Disconnected"}

\* "up": connected; "connecting": a write waits for the connection; "down":
\* an open descriptor without a connection, where a write fails at once;
\* "closed": no descriptor.
SockStates == {"up", "connecting", "down", "closed"}

\* "armed": the wait will reconnect; "looping": an error has aborted a wait, and
\* since the callback of an aborted wait is itself an error, aborts every later one.
TimerStates == {"idle", "armed", "looping"}

\* "all": the packet is written; "part": a part of it is, and write_op goes on with
\* the rest; "none": an error.
Outcomes == {"all", "part", "none"}
Finished(m, outcome) == [msg |-> m, done |-> outcome]
Failed(m) == Finished(m, "none")

-----------------------------------------------------------------------------
(* The object has just become Connected: callback_connect of the client,   *)
(* start() of the session.                                                 *)
Init ==
  /\ state = "Connected" /\ sock = "up" /\ attempts = 0 /\ reading = 1
  /\ timer = "idle" /\ expired = FALSE
  /\ drop_pending = FALSE
  /\ write_queue = <<>> /\ write_in_progress = FALSE
  /\ pc = [t \in Senders |-> "idle"]
  /\ io = "idle"
  /\ writing = <<>> /\ completed = <<>>
  /\ accepted = 0 /\ wire = <<>>
  /\ faults = 0 /\ reconnects = 0

-----------------------------------------------------------------------------
(* Application threads.                                                    *)

\* A transfer of packet m, or of what is left of it: without a connection to use
\* or to wait for it completes at once with an error.  q is what has completed.
StartWrite(m, q) ==
  IF sock \in {"up", "connecting"}
  THEN writing' = Append(writing, m) /\ completed' = q
  ELSE completed' = Append(q, Failed(m)) /\ UNCHANGED writing

\* The descriptor is closed or loses its connection: the writes outstanding on
\* it finish with an error.
AbortWrites ==
  /\ completed' = completed \o [i \in DOMAIN writing |-> Failed(writing[i])]
  /\ writing' = <<>>

\* send1: the state is read without a lock, then the frame is built.
CheckState(t) ==
  /\ pc[t] = "idle"
  /\ state = "Connected"
  /\ pc' = [pc EXCEPT ![t] = "checked"]
  /\ UNCHANGED <<sockVars, drop_pending, queueVars, io, writing, completed,
                 accepted, wire, budgetVars>>

\* The queue after the packet n: push_back, after a clear if packets that are
\* still pending are to be dropped.  Mutated: always cleared, pushed in front.
QueuedAlone(n) == <<n>>
QueuedInFront(n) == <<n>> \o (IF drop_pending THEN <<>> ELSE write_queue)
Queued(n) == Append(IF drop_pending THEN <<>> ELSE write_queue, n)

\* Whether enqueue_write has to call do_write.  Mutated: always.
AlwaysStart == TRUE
MustStart == ~write_in_progress

\* send1 reports that it took the packet.  Mutated: it reports that it did not.
RefusePacket == UNCHANGED accepted
AcceptPacket == accepted' = accepted + 1

\* The locked part of enqueue_write.
EnqueueWrite(t) ==
  /\ pc[t] = "checked"
  /\ accepted < MaxMsg
  /\ write_queue' = Queued(accepted + 1)
  /\ AcceptPacket
  /\ write_in_progress' = TRUE
  /\ pc' = [pc EXCEPT ![t] = IF MustStart THEN "start" ELSE "idle"]
  /\ UNCHANGED <<sockVars, drop_pending, io, writing, completed, wire,
                 budgetVars>>

\* do_write, called by enqueue_write after it has released the lock.
DoWrite(t) ==
  /\ pc[t] = "start"
  /\ StartWrite(Head(write_queue), completed)
  /\ pc' = [pc EXCEPT ![t] = "idle"]
  /\ UNCHANGED <<sockVars, drop_pending, queueVars, io, accepted, wire,
                 budgetVars>>

\* drop_pending(p): an unlocked store.
SetDropPending(p) ==
  /\ UsesDrop
  /\ drop_pending' = p
  /\ UNCHANGED <<sockVars, queueVars, threadVars, writing, completed,
                 accepted, wire, budgetVars>>

-----------------------------------------------------------------------------
(* The io thread.                                                          *)

\* _Session::error_handler: close the socket.
SessionError == state' = "Disconnected" /\ sock' = "closed" /\ UNCHANGED timer

\* _Client::error_handler: cancel the timer and wait again.
ClientError ==
  /\ state' = "WaitingToConnect"
  /\ timer' = IF timer = "idle" THEN "armed" ELSE "looping"

\* error_handler, where d is what the error has left of the descriptor.
ErrorHandler(d) ==
  /\ IF IsClient THEN ClientError /\ sock' = d ELSE SessionError
  /\ IF sock' \in {"up", "connecting"} THEN UNCHANGED <<writing, completed>>
                                       ELSE AbortWrites

\* write_in_progress after handle_write has left rest in the queue.  Mutated:
\* it is not reset when the queue has become empty.
NeverReset(rest) == write_in_progress
InProgressAfter(rest) == write_in_progress /\ rest # <<>>

\* The handler of a transfer that has moved a part: write_op goes on with the
\* rest, on whatever connection the socket has by now.
WriteRest ==
  /\ io = "idle"
  /\ completed # <<>> /\ Head(completed).done = "part"
  /\ StartWrite(Head(completed).msg, Tail(completed))
  /\ UNCHANGED <<sockVars, drop_pending, queueVars, threadVars, accepted, wire,
                 budgetVars>>

\* The locked part of handle_write.
HandleWrite ==
  /\ io = "idle"
  /\ completed # <<>> /\ Head(completed).done # "part"
  /\ LET rest == Tail(write_queue) IN
       /\ write_queue' = rest
       /\ write_in_progress' = InProgressAfter(rest)
       /\ io' = CASE Head(completed).done = "none" -> "failed"
                  [] Head(completed).done = "all" /\ rest # <<>> -> "more"
                  [] OTHER -> "idle"
  /\ completed' = Tail(completed)
  /\ UNCHANGED <<sockVars, drop_pending, pc, writing, accepted, wire,
                 budgetVars>>

\* handle_write, if (ec): the error handler, and no further do_write.
HandleWriteFailed ==
  /\ io = "failed"
  /\ ErrorHandler(sock)
  /\ io' = "idle"
  /\ UNCHANGED <<attempts, reading, expired, drop_pending, queueVars, pc, accepted,
                 wire, budgetVars>>

\* handle_write, if (more_to_write): do_write.
HandleWriteMore ==
  /\ io = "more"
  /\ StartWrite(Head(write_queue), completed)
  /\ io' = "idle"
  /\ UNCHANGED <<sockVars, drop_pending, queueVars, pc, accepted, wire,
                 budgetVars>>

\* receive2 or receive3 gets an error, which ends its chain of reads.  An end of
\* file or a bad marker leaves the other direction usable, a reset does not, and
\* a descriptor that has been closed is not the one there is now.
ReceiveFailed ==
  /\ io = "idle"
  /\ reading > 0 /\ reading' = reading - 1
  /\ faults < MaxFaults
  /\ faults' = faults + 1
  /\ \E d \in {sock} \cup (IF sock = "up" THEN {"down"} ELSE {}) : ErrorHandler(d)
  /\ UNCHANGED <<attempts, expired, drop_pending, queueVars, threadVars, accepted,
                 wire, reconnects>>

\* The 5 seconds are over.  A callback_timer runs before the timer is looked at
\* again.
WaitEnds ==
  /\ timer = "armed" /\ ~expired
  /\ io = "idle"
  /\ timer' = "idle" /\ expired' = TRUE
  /\ UNCHANGED <<state, sock, attempts, reading, drop_pending, queueVars, threadVars,
                 writing, completed, accepted, wire, budgetVars>>

\* async_connect closes the descriptor, which aborts the writes outstanding on
\* it, and opens a new one, where connect() may fail at once.
Dial ==
  /\ sock' \in {"connecting", "down"}
  /\ AbortWrites

\* callback_timer, resolve, connect.  Meanwhile an error may have armed the timer
\* again.
BeginConnect ==
  /\ expired /\ expired' = FALSE
  /\ io = "idle"
  /\ reconnects < MaxReconnects
  /\ reconnects' = reconnects + 1
  /\ state' = "Connecting" /\ attempts' = attempts + 1
  /\ Dial
  /\ UNCHANGED <<reading, timer, drop_pending, queueVars, threadVars, accepted, wire,
                 faults>>

\* callback_timer, and resolve fails.
ResolveFails ==
  /\ expired /\ expired' = FALSE
  /\ io = "idle"
  /\ faults < MaxFaults
  /\ faults' = faults + 1
  /\ ErrorHandler(sock)
  /\ UNCHANGED <<attempts, reading, drop_pending, queueVars, threadVars, accepted,
                 wire, reconnects>>

\* callback_timer of an aborted wait.
CallbackTimerAborted ==
  /\ timer = "looping"
  /\ io = "idle"
  /\ ErrorHandler(sock)
  /\ UNCHANGED <<attempts, reading, expired, drop_pending, queueVars, threadVars,
                 accepted, wire, budgetVars>>

\* An attempt fails, or was aborted, and there is another endpoint to try.
NextEndpoint ==
  /\ io = "idle"
  /\ attempts > 0
  /\ faults < MaxFaults
  /\ faults' = faults + 1
  /\ Dial
  /\ UNCHANGED <<state, attempts, reading, timer, expired, drop_pending, queueVars,
                 threadVars, accepted, wire, reconnects>>

\* callback_connect of the newest attempt: Connected again, or back to the
\* timer with a descriptor that is not connected.
CallbackConnect ==
  /\ io = "idle"
  /\ attempts = 1
  /\ attempts' = 0
  /\ \/ /\ sock = "connecting"
        /\ state' = "Connected" /\ sock' = "up" /\ reading' = reading + 1
        /\ UNCHANGED <<timer, writing, completed, faults>>
     \/ /\ faults < MaxFaults
        /\ faults' = faults + 1
        /\ ErrorHandler("down") /\ UNCHANGED reading
  /\ UNCHANGED <<expired, drop_pending, queueVars, threadVars, accepted, wire,
                 reconnects>>

\* callback_connect of an attempt that was aborted because a newer one has closed
\* its descriptor.
CallbackConnectStale ==
  /\ io = "idle"
  /\ attempts > 1
  /\ attempts' = attempts - 1
  /\ ErrorHandler(sock)
  /\ UNCHANGED <<reading, expired, drop_pending, queueVars, threadVars, accepted,
                 wire, budgetVars>>

-----------------------------------------------------------------------------
(* The kernel and the peer.                                                *)

\* A transfer moves what is left of the packet.
WriteSucceeds ==
  /\ writing # <<>>
  /\ sock = "up"
  /\ wire' = Append(wire, Head(writing))
  /\ writing' = Tail(writing)
  /\ completed' = Append(completed, Finished(Head(writing), "all"))
  /\ UNCHANGED <<sockVars, drop_pending, queueVars, threadVars, accepted,
                 budgetVars>>

\* A transfer moves a part of it.
WritePartly ==
  /\ writing # <<>>
  /\ sock = "up"
  /\ writing' = Tail(writing)
  /\ completed' = Append(completed, Finished(Head(writing), "part"))
  /\ UNCHANGED <<sockVars, drop_pending, queueVars, threadVars, accepted, wire,
                 budgetVars>>

\* The connection is reset under a write.
WriteFails ==
  /\ writing # <<>>
  /\ sock = "up"
  /\ faults < MaxFaults
  /\ faults' = faults + 1
  /\ sock' = "down"
  /\ AbortWrites
  /\ UNCHANGED <<state, attempts, reading, timer, expired, drop_pending, queueVars,
                 threadVars, accepted, wire, reconnects>>

-----------------------------------------------------------------------------
SenderStep(t) == CheckState(t) \/ EnqueueWrite(t) \/ DoWrite(t)
IoStep == WriteRest \/ HandleWrite \/ HandleWriteFailed \/ HandleWriteMore

Next ==
  \/ \E t \in Senders : SenderStep(t)
  \/ \E p \in BOOLEAN : SetDropPending(p)
  \/ IoStep
  \/ ReceiveFailed
  \/ WaitEnds \/ BeginConnect \/ ResolveFails \/ CallbackTimerAborted
  \/ NextEndpoint \/ CallbackConnect \/ CallbackConnectStale
  \/ WriteSucceeds \/ WritePartly \/ WriteFails

Spec == Init /\ [][Next]_vars

\* A thread inside send() is scheduled, the io thread runs what is ready, and
\* the peer reads, so a packet that is not cut off is finished after a number of
\* transfers; an attempt to connect ends.  Nobody has to call send().
FairSpec ==
  /\ Spec
  /\ \A t \in Senders : WF_vars(EnqueueWrite(t) \/ DoWrite(t))
  /\ WF_vars(IoStep)
  /\ SF_vars(WriteSucceeds)
  /\ WF_vars(CallbackConnect \/ CallbackConnectStale)
-----------------------------------------------------------------------------
(* Properties.                                                             *)

Written(n) == \E i \in DOMAIN wire : wire[i] = n

\* Types; every number in the queue, in a write or on the wire is that of an
\* accepted packet.
TypeOK ==
  /\ state \in States
  /\ sock \in SockStates /\ attempts \in Nat /\ reading \in Nat
  /\ timer \in TimerStates /\ expired \in BOOLEAN
  /\ drop_pending \in BOOLEAN
  /\ accepted \in Nat /\ faults \in Nat /\ reconnects \in Nat
  /\ write_queue \in Seq(1..accepted) /\ write_in_progress \in BOOLEAN
  /\ pc \in [Senders -> {"idle", "checked", "start"}]
  /\ io \in {"idle", "more", "failed"}
  /\ writing \in Seq(1..accepted)
  /\ completed \in Seq([msg : 1..accepted, done : Outcomes])
  /\ wire \in Seq(1..accepted)

\* At most one write is under way: in the kernel, between two transfers, finished
\* and waiting for its handle_write, or about to be started by a sender that saw
\* write_in_progress clear or by handle_write.  async_write requires it of its
\* callers (asio/write.hpp:737); two would interleave their frames.
SingleWriter ==
  /\ Len(writing) + Len(completed) <= 1
  /\ writing # <<>> \/ completed # <<>> =>
       io # "more" /\ \A t \in Senders : pc[t] # "start"
  /\ io = "more" => \A t \in Senders : pc[t] # "start"
  /\ \A t, u \in Senders : pc[t] = "start" /\ pc[u] = "start" => t = u

\* write_queue.front() in do_write and write_queue.pop_front() in handle_write
\* are never applied to an empty deque, whatever other threads did to the
\* queue (drop_pending clears it) between the two critical sections.
FrontDefined ==
  (\/ completed # <<>> \/ io = "more" \/ \E t \in Senders : pc[t] = "start")
    => write_queue # <<>>

\* Packets reach the wire in the order send() accepted them and never twice,
\* over lost packets, reconnections and cleared queues.
InOrder == \A i, j \in DOMAIN wire : i < j => wire[i] < wire[j]

\* The packet at the front of the queue is written, and handle_write has to pop it.
FrontWritten == completed # <<>> /\ Head(completed).done = "all"

\* While nothing fails and the application does not ask for packets to be
\* dropped, every accepted packet is on the wire or in the queue, in order:
\* handle_write pops exactly the packet that was written.
NothingLost ==
  ~UsesDrop /\ faults = 0 /\ reconnects = 0 =>
    wire \o (IF FrontWritten THEN Tail(write_queue) ELSE write_queue)
      = [i \in 1..accepted |-> i]

\* A Session writes every packet it accepted unless the connection is lost.
AcceptedIsWritten ==
  \A n \in 1..MaxMsg :
    accepted >= n ~> (Written(n) \/ state # "Connected")

\* Whenever an object is Connected with packets in its queue, a write is under
\* way whose completion will come for them; send() returns true only "in a
\* state that allows sending" (amjCom.H:113).
QueueHasWriter ==
  state = "Connected" /\ write_queue # <<>> =>
    \/ writing # <<>> \/ completed # <<>> \/ io # "idle"
    \/ \E t \in Senders : pc[t] = "start"

\* drop_pending discards packets that a newer one has overtaken, never the
\* newest: once the queue is empty on a connection without errors, the last
\* packet for which send() returned true has been written.  The code breaks this:
\* the handler of the write pops the packet that has just been pushed.
NewestKept ==
  faults = 0 /\ reconnects = 0 /\ write_queue = <<>> /\ accepted > 0
    => Written(accepted)
=============================================================================
