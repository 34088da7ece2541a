----------------------------- MODULE TcpClient -----------------------------
(***************************************************************************)
(* amjCom::TCP::_Client: resolving, connecting, receiving, the error       *)
(* handler with its 5 second timer, and the release of the object.  The    *)
(* one io thread takes entries from the queue ready, first in first out:   *)
(* each handler is one action.  Closing the descriptor or cancelling the   *)
(* timer queues the handlers of the operations concerned with an error.    *)
(*                                                                         *)
(* Packets are abstract.  Of the write path (module TcpWritePath) only the *)
(* one write under way is left, because it holds a reference to the client *)
(* and its failure is an error like that of a read.                        *)
(***************************************************************************)
EXTENDS Naturals, Sequences, FiniteSets

CONSTANTS
  NEndpoints,  \* endpoints a name resolves to, tried in turn
  MaxQueue,    \* bound: packets in write_queue, 0 if nothing is ever sent
  MaxWaits     \* bound: waits of the timer that end, 0 if there is no bound

ASSUME ClientAssumption ==
  NEndpoints \in Nat \ {0} /\ MaxQueue \in Nat /\ MaxWaits \in Nat

VARIABLES
  status,   \* _status.state()
  running,  \* "resolving": a thread is inside resolver.resolve()
  sock,     \* the descriptor, see SockStates
  dialing,  \* endpoint the outstanding async_connect tries, 0 if there is none
  reads,    \* async_reads outstanding on the descriptor: "header" or "body"
  writing,  \* async_writes outstanding on the descriptor
  timer,    \* an async_wait on the timer is outstanding
  ready,    \* the queue of the io_context
  sender,   \* a thread in send(): "checked" the status, write "due" to start
  queue,    \* length of write_queue; write_in_progress is queue > 0
  held,     \* the application still has its amjCom::Client
  waits     \* waits of the timer that have ended, 0 if they are not bounded

ioVars  == <<dialing, reads, writing, timer, ready>>
appVars == <<sender, queue, held>>
vars    == <<status, running, sock, dialing, reads, writing, timer, ready,
             sender, queue, held, waits>>

States == {"NoState", "Resolving", "Connecting", "Connected",
           "WaitingToConnect"}

\* "none": not open; "connecting"; "up": connected; "eof": the peer has closed
\* its side; "reset": it has ended the connection; "down": open without one
\* (refused).
SockStates == {"none", "connecting", "up", "eof", "reset", "down"}

\* What has arrived can be read until the descriptor is closed.
Readable == {"up", "eof", "reset"}

\* An entry of the queue: a completion that waits for its handler, where at is
\* the endpoint of a connect and 0 otherwise, or the descriptor with an event.
Done(op, ok)      == [op |-> op, ok |-> ok, at |-> 0]
Connect(ok, k)    == [op |-> "connect", ok |-> ok, at |-> k]
Event             == Done("io", TRUE)
Pending(op)       == \E i \in DOMAIN ready : ready[i].op = op
PendingAs(op, ok) == \E i \in DOMAIN ready : ready[i].op = op /\ ready[i].ok = ok

\* The handlers of connect and write capture a shared_ptr to the client, those
\* of read and of the timer a weak_ptr.  Without a strong reference the
\* destructor has run: the timer and the socket are gone and the handlers that
\* are left find nothing to lock.
\* Mutated: those of read do too.
AliveWhileReading ==
  \/ held \/ running # "idle" \/ dialing # 0 \/ writing # 0 \/ reads # <<>>
  \/ \E op \in {"connect", "write", "header", "body"} : Pending(op)
Alive == \/ held \/ running # "idle" \/ dialing # 0 \/ writing # 0
         \/ Pending("connect") \/ Pending("write")

Init ==
  /\ status = "NoState" /\ running = "idle" /\ sock = "none"
  /\ dialing = 0 /\ reads = <<>> /\ writing = 0 /\ timer = FALSE
  /\ ready = <<>>
  /\ sender = "idle" /\ queue = 0 /\ held = TRUE /\ waits = 0

-----------------------------------------------------------------------------
(* What the handlers do.  q is what is left of the queue; r, w and d are    *)
(* the reads, writes and the attempt to connect that are outstanding.      *)

ReadsDone(r, ok)  == [i \in DOMAIN r |-> Done(r[i], ok)]
WritesDone(w, ok) == [i \in 1..w |-> Done("write", ok)]

\* basic_socket::close: the operations on the descriptor complete with
\* operation_aborted.
Aborted(r, w, d) ==
  ReadsDone(r, FALSE)
    \o (IF d = 0 THEN <<>> ELSE <<Connect(FALSE, d)>>)
    \o WritesDone(w, FALSE)

\* The attempt for endpoint k is outstanding, or connect() refuses it at once, and
\* then its handler is queued without it.
Attempt(k, q) ==
  \/ dialing' = k /\ sock' = "connecting" /\ ready' = q
  \/ dialing' = 0 /\ sock' = "down" /\ ready' = Append(q, Connect(FALSE, k))

\* Mutated: the event of the old descriptor is taken for one of the new.
DialKeepsEvent(k, q, r, w, d) ==
  /\ Attempt(k, q \o Aborted(r, w, d))
  /\ reads' = <<>> /\ writing' = 0

\* The event of a descriptor that is closed is void.
Void(q) ==
  IF \E i \in DOMAIN q : q[i] = Event
  THEN LET i == CHOOSE i \in DOMAIN q : q[i] = Event
       IN SubSeq(q, 1, i - 1) \o SubSeq(q, i + 1, Len(q))
  ELSE q

\* async_connect to endpoint k closes the descriptor and opens a new one.
Dial(k, q, r, w, d) ==
  /\ Attempt(k, Void(q) \o Aborted(r, w, d))
  /\ reads' = <<>> /\ writing' = 0

\* Mutated: no wait; the timer is cancelled last; the status is not reported.
ErrorHandlerNoWait(q) ==
  status' = "WaitingToConnect" /\ ready' = q /\ timer' = FALSE

ErrorHandlerCancelsLast(q) ==
  /\ status' = "WaitingToConnect" /\ timer' = FALSE
  /\ ready' = Append(q, Done("timer", FALSE))

ErrorHandlerSilent(q) == ready' = q /\ timer' = TRUE /\ UNCHANGED status

\* error_handler, with _Client::shutdown: report, cancel the timer, wait again.
\* expires_after and cancel abort a wait that is still outstanding.
ErrorHandler(q) ==
  /\ status' = "WaitingToConnect"
  /\ ready' = IF timer THEN Append(q, Done("timer", FALSE)) ELSE q
  /\ timer' = TRUE

\* async_read: data that is there already completes it at once.
StartRead(part, q, r) ==
  \/ reads' = Append(r, part) /\ ready' = q
  \/ /\ sock' \in Readable
     /\ reads' = r /\ ready' = Append(q, Done(part, TRUE))

\* async_write: buffer space that is there already completes it at once.
StartWrite(q, w) ==
  \/ writing' = w + 1 /\ ready' = q
  \/ /\ sock \in {"up", "eof"}
     /\ writing' = w /\ ready' = Append(q, Done("write", TRUE))

\* Mutated: no return after the error handler.
AfterReadNoReturn(part, ok, q, r) ==
  \/ /\ ok /\ StartRead(IF part = "header" THEN "body" ELSE "header", q, r)
     /\ UNCHANGED <<status, timer>>
  \/ /\ ok => part = "header"
     /\ ErrorHandler(q) /\ reads' = Append(r, "body")

\* receive2 and receive3: after a header with PACKET_MARKER the body, after a
\* body and the application's callback the next header.
AfterRead(part, ok, q, r) ==
  \/ /\ ok /\ StartRead(IF part = "header" THEN "body" ELSE "header", q, r)
     /\ UNCHANGED <<status, timer>>
  \/ /\ ok => part = "header"
     /\ ErrorHandler(q) /\ reads' = r

\* handle_write pops the packet; without an error do_write follows if there are
\* more.  With one, the packets that are left keep write_in_progress set although
\* nothing is being written.
AfterWrite(ok, q, w) ==
  /\ queue' = queue - 1
  /\ \/ ok /\ queue' = 0 /\ ready' = q /\ writing' = w /\ UNCHANGED <<status, timer>>
     \/ ok /\ queue' > 0 /\ StartWrite(q, w) /\ UNCHANGED <<status, timer>>
     \/ ~ok /\ ErrorHandler(q) /\ writing' = w

\* Mutated: off by one.
MoreEndpointsOffByOne(k) == k <= NEndpoints

\* The iterator of range_connect_op has not reached the end.
MoreEndpoints(k) == k < NEndpoints

\* The handler of async_connect for endpoint k.  Without an error it is
\* callback_connect: Connected, and the first read.  With one it goes on to the
\* next endpoint, whatever has become of the descriptor meanwhile, and after
\* the last one to callback_connect and the error handler.
AfterConnect(ok, k, q, r, w, d) ==
  \/ /\ ok
     /\ status' = "Connected" /\ StartRead("header", q, r)
     /\ writing' = w /\ dialing' = d /\ UNCHANGED timer
  \/ /\ ~ok /\ MoreEndpoints(k)
     /\ Dial(k + 1, q, r, w, d)
     /\ UNCHANGED <<status, timer>>
  \/ /\ ~ok /\ ~MoreEndpoints(k)
     /\ ErrorHandler(q)
     /\ reads' = r /\ writing' = w /\ dialing' = d

-----------------------------------------------------------------------------
(* The application.                                                        *)

\* start(): resolve() in the thread of the caller.
Start ==
  /\ status = "NoState" /\ held
  /\ status' = "Resolving" /\ running' = "resolving"
  /\ UNCHANGED <<sock, ioVars, appVars, waits>>

\* write_in_progress was not set: do_write follows.
WriteDue == IF queue = 0 THEN "due" ELSE "idle"

\* send(), by one thread at a time: the check of the status, without a lock, and
\* enqueue_write, by when the status may be another.
SendCheck ==
  /\ held /\ sender = "idle"
  /\ status = "Connected" /\ queue < MaxQueue
  /\ sender' = "checked"
  /\ UNCHANGED <<status, running, sock, ioVars, queue, held, waits>>

SendEnqueue ==
  /\ sender = "checked"
  /\ queue' = queue + 1
  /\ sender' = WriteDue
  /\ UNCHANGED <<status, running, sock, ioVars, held, waits>>

\* do_write in the thread of the sender.
SendStarts ==
  /\ sender = "due"
  /\ StartWrite(ready, writing)
  /\ sender' = "idle"
  /\ UNCHANGED <<status, running, sock, dialing, reads, timer, queue, held, waits>>

\* The application drops its last amjCom::Client.
Release ==
  /\ held /\ sender = "idle" /\ status # "NoState"
  /\ held' = FALSE
  /\ UNCHANGED <<status, running, sock, ioVars, sender, queue, waits>>

-----------------------------------------------------------------------------
(* The io thread.                                                          *)

NextIs(op) == Alive /\ running = "idle" /\ ready # <<>> /\ Head(ready).op = op

HandleRead ==
  /\ \E part \in {"header", "body"} :
       NextIs(part) /\ AfterRead(part, Head(ready).ok, Tail(ready), reads)
  /\ UNCHANGED <<running, sock, dialing, writing, appVars, waits>>

HandleWrite ==
  /\ NextIs("write")
  /\ AfterWrite(Head(ready).ok, Tail(ready), writing)
  /\ UNCHANGED <<running, sock, dialing, reads, sender, held, waits>>

\* An attempt that was aborted, or refused at once.  The others end with the event
\* of the descriptor.
HandleConnectFailed ==
  /\ NextIs("connect")
  /\ AfterConnect(FALSE, Head(ready).at, Tail(ready), reads, writing, dialing)
  /\ ~MoreEndpoints(Head(ready).at) => UNCHANGED sock
  /\ UNCHANGED <<running, appVars, waits>>

\* callback_timer: resolve(), which blocks the thread.
HandleTimer ==
  /\ NextIs("timer") /\ Head(ready).ok
  /\ ready' = Tail(ready)
  /\ status' = "Resolving" /\ running' = "resolving"
  /\ UNCHANGED <<sock, dialing, reads, writing, timer, appVars, waits>>

\* callback_timer of an aborted wait: sleep(1) and the error handler.
HandleTimerAborted ==
  /\ NextIs("timer") /\ ~Head(ready).ok
  /\ ErrorHandler(Tail(ready))
  /\ UNCHANGED <<running, sock, dialing, reads, writing, appVars, waits>>

\* resolve() returns: connect(), or the error handler.
Resolved ==
  /\ running = "resolving"
  /\ running' = "idle"
  /\ \/ status' = "Connecting" /\ Dial(1, ready, reads, writing, dialing)
        /\ UNCHANGED timer
     \/ ErrorHandler(ready) /\ UNCHANGED <<sock, dialing, reads, writing>>
  /\ UNCHANGED <<appVars, waits>>

\* The event of the descriptor: the operations that can complete do, connect
\* and writes before reads.  The handler of the first runs in place, those of
\* the others are queued.
First(r, n)   == SubSeq(r, 1, n)
Without(r, n) == SubSeq(r, n + 1, Len(r))

EventConnect ==
  /\ NextIs("io") /\ dialing # 0
  /\ \E ok \in BOOLEAN, w \in 0..writing, n \in 0..Len(reads) :
       /\ LET q == Tail(ready) \o WritesDone(w, ok)
                               \o ReadsDone(First(reads, n), ok)
          IN AfterConnect(ok, dialing, q, Without(reads, n), writing - w, 0)
       /\ IF ok THEN sock' = "up"
                ELSE ~MoreEndpoints(dialing) => sock' = "down"
  /\ UNCHANGED <<running, appVars, waits>>

\* What a read finds: data or not.
Finds(got) == (got => sock \in Readable) /\ (~got => sock \in {"eof", "reset", "down"})

EventWrite ==
  /\ NextIs("io") /\ dialing = 0 /\ writing > 0
  /\ \E got \in BOOLEAN, n \in 0..Len(reads) :
       /\ Finds(got)
       /\ AfterWrite(sock \in {"up", "eof"},
                     Tail(ready) \o ReadsDone(First(reads, n), got), writing - 1)
       /\ reads' = Without(reads, n)
  /\ UNCHANGED <<running, sock, dialing, sender, held, waits>>

EventRead ==
  /\ NextIs("io") /\ dialing = 0 /\ reads # <<>>
  /\ \E got \in BOOLEAN :
       /\ Finds(got)
       /\ AfterRead(Head(reads), got, Tail(ready), Tail(reads))
  /\ UNCHANGED <<running, sock, dialing, writing, appVars, waits>>

\* The io thread asks the kernel: an event of the descriptor that completes an
\* operation, and the wait if it is over, which are queued in this order.  It
\* does so again only when it has handled what it got.  The wait lasts 5
\* seconds and starts anew whenever an error handler runs, and the callback of
\* an aborted wait runs one after a second: no wait ends while there is one.
Poll(e) ==
  /\ Alive /\ running = "idle"
  /\ ~Pending("io") /\ ~PendingAs("timer", TRUE)
  /\ "io" \in e => dialing # 0 \/ reads # <<>> \/ writing > 0
  /\ "timer" \in e => /\ timer /\ ~PendingAs("timer", FALSE)
                      /\ MaxWaits # 0 => waits < MaxWaits
  /\ waits' = IF "timer" \in e /\ MaxWaits # 0 THEN waits + 1 ELSE waits
  /\ timer' = (timer /\ "timer" \notin e)
  /\ ready' = ready \o (IF "io" \in e THEN <<Event>> ELSE <<>>)
                    \o (IF "timer" \in e THEN <<Done("timer", TRUE)>> ELSE <<>>)
  /\ UNCHANGED <<status, running, sock, dialing, reads, writing, appVars>>

-----------------------------------------------------------------------------
(* The peer.                                                               *)

PeerCloses ==
  /\ Alive /\ sock = "up"
  /\ sock' = "eof"
  /\ UNCHANGED <<status, running, ioVars, appVars, waits>>

PeerResets ==
  /\ Alive /\ sock \in {"up", "eof"}
  /\ sock' = "reset"
  /\ UNCHANGED <<status, running, ioVars, appVars, waits>>

-----------------------------------------------------------------------------
Application == Start \/ SendCheck \/ SendEnqueue \/ SendStarts \/ Release

Handler ==
  \/ HandleRead \/ HandleWrite \/ HandleConnectFailed
  \/ HandleTimer \/ HandleTimerAborted
  \/ EventConnect \/ EventWrite \/ EventRead

Polls == \E e \in SUBSET {"io", "timer"} : e # {} /\ Poll(e)

Next == Application \/ Handler \/ Resolved \/ Polls \/ PeerCloses \/ PeerResets

Spec == Init /\ [][Next]_vars

\* An attempt to connect or a write ends.
PollConnectOrWrite ==
  /\ dialing # 0 \/ writing > 0
  /\ \E e \in SUBSET {"io", "timer"} : "io" \in e /\ Poll(e)

\* The io thread runs what is ready and polls; resolve() and an attempt to
\* connect end; the peer reads, so a write that is not cut off finishes; 5
\* seconds pass.  Data need not arrive, and nobody has to send or to release
\* the client.
FairSpec ==
  /\ Spec
  /\ WF_vars(Handler) /\ WF_vars(Resolved)
  /\ WF_vars(SendEnqueue) /\ WF_vars(SendStarts)
  /\ WF_vars(PollConnectOrWrite)
  /\ SF_vars(\E e \in SUBSET {"io", "timer"} : "timer" \in e /\ Poll(e))
  /\ SF_vars(EventWrite)

-----------------------------------------------------------------------------
(* Properties.                                                             *)

Completions == [op : {"header", "body", "write", "timer"}, ok : BOOLEAN, at : {0}]
          \cup [op : {"connect"}, ok : {FALSE}, at : 1..NEndpoints]
          \cup {Event}

\* Types of the variables.
TypeOK ==
  /\ status \in States /\ running \in {"idle", "resolving"}
  /\ sock \in SockStates /\ dialing \in 0..NEndpoints
  /\ reads \in Seq({"header", "body"}) /\ writing \in Nat /\ timer \in BOOLEAN
  /\ ready \in Seq(Completions)
  /\ sender \in {"idle", "checked", "due"} /\ queue \in 0..MaxQueue
  /\ held \in BOOLEAN /\ waits \in Nat

ReadPending == Pending("header") \/ Pending("body")

\* A client never loses the thread: whatever its status says, something is
\* outstanding that will call it back.  It waits with a timer, connects with
\* an attempt, is Connected with a read that would notice the end of the
\* connection, and resolves inside resolve().
NeverStranded ==
  Alive =>
    /\ status = "WaitingToConnect" => timer \/ PendingAs("timer", TRUE)
    /\ status = "Resolving"        => running = "resolving"
    /\ status = "Connecting"       => dialing # 0 \/ Pending("connect")
    /\ status = "Connected"        => reads # <<>> \/ ReadPending

Number(ops) == Cardinality({i \in DOMAIN ready : ready[i].op \in ops})

\* header and p belong to one chain of reads: no async_read starts while
\* another is outstanding or waits for its handler (asio/read.hpp:735).  A client
\* that sends breaks this when its old chain of reads outlives the connection.
SingleRead == Len(reads) + Number({"header", "body"}) <= 1

\* "Connected means there is a connection" (amjCom.H:36-37): not one that is
\* still being attempted.
ConnectedMeansConnection == status = "Connected" => dialing = 0

\* One activity at a time: a client that only receives is resolving, or has
\* one handler to run, one connect, one read or one wait outstanding.
OneActivity ==
  Alive /\ status # "NoState" =>
    (IF running = "resolving" THEN 1 ELSE 0)
      + Cardinality({i \in DOMAIN ready : ready[i] # Event})
      + (IF dialing # 0 THEN 1 ELSE 0) + Len(reads) + writing
      + (IF timer THEN 1 ELSE 0) = 1

\* A connection is given up only because of an error of its own: what follows
\* Connected is the WaitingToConnect of error_handler (TCP.C:337, 362), never the
\* Resolving of a wait that was left over.  No Disconnecting comes between,
\* see DisconnectingFirst.
LeavesConnectedByError ==
  [][status = "Connected" /\ status' # "Connected"
       => status' = "WaitingToConnect"]_vars

\* "A typical sequence for a socket might be Connecting -> Connected ->
\* Disconnecting (after an error occurs) -> WaitingToConnect" (amjCom.H:39-41).
\* The code never reports Disconnecting.
DisconnectingFirst ==
  [][status = "Connected" /\ status' # "Connected"
       => status' = "Disconnecting"]_vars

\* "WaitingToConnect means the communicator will try to connect in the future"
\* (amjCom.H:34), if the application does not release it.
ReconnectHappens ==
  status = "WaitingToConnect" ~> (status = "Resolving" \/ ~Alive)

\* A client the application has released goes away, with its socket and its
\* timer: reads and waits do not keep it alive, writes and connects end.
ReleasedIsDestroyed == ~held ~> ~Alive
=============================================================================
