----------------------------- MODULE TcpServer -----------------------------
(***************************************************************************)
(* amjCom::TCP::_Server and the _Sessions it hands to the application: the *)
(* accept loop, the release of the server, and a session from its start to *)
(* its destruction.  One io thread runs the handlers, first in first out;  *)
(* threads of the application send and release at any time.                *)
(*                                                                         *)
(* Packets are abstract: of the write path (module TcpWritePath) the length *)
(* of write_queue and the write under way are left.  When epoll is asked   *)
(* does not matter here: an operation that can complete may do so at any   *)
(* time, which queues its handler.                                         *)
(***************************************************************************)
EXTENDS Naturals, Sequences, FiniteSets

CONSTANTS
  MaxSessions,  \* bound: connections made to the server
  MaxKept,      \* bound: sessions the application may keep, the first ones
  MaxQueue,     \* bound: packets in the write_queue of a session
  MaxSenders,   \* bound: threads of the application inside send() of a session
  MaxFailures   \* bound: accepts that fail

ASSUME ServerAssumption ==
  /\ MaxSessions \in Nat \ {0} /\ MaxKept \in 0..MaxSessions
  /\ MaxQueue \in Nat /\ MaxSenders \in Nat /\ MaxFailures \in Nat

Sessions == 1..MaxSessions

VARIABLES
  started,   \* start() has been called
  held,      \* the application has its amjCom::Server
  accept,    \* the accept loop, see AcceptStates
  next,      \* the session that waits for a connection
  backlog,   \* connections the kernel has established for the acceptor
  failures,  \* accepts that have failed
  ready,     \* the queue of the io_context
  ses        \* the sessions

serverVars == <<started, held, accept, next, backlog, failures>>
vars == <<started, held, accept, next, backlog, failures, ready, ses>>

\* "pending": async_accept outstanding; "queued": its handler is queued;
\* "checked": the handler has found that the server is still in use.
AcceptStates == {"none", "pending", "queued", "checked"}

\* The entries of the queue; s is the session.
Done(op, s, ok) == [op |-> op, s |-> s, ok |-> ok]

\* sock: "none" before the connection, "eof" and "reset" after the peer has
\* ended it, "closed" after shutdown(); read, write: operations outstanding;
\* queue: length of write_queue; due: how many threads are inside send(), behind
\* the check of the state; app: the application has an amjCom::Session; reports:
\* calls of callback_status with Disconnected; after: packets handed over after
\* the first of them.
NewSession ==
  [state |-> "NoState", sock |-> "none", read |-> "none", write |-> FALSE,
   queue |-> 0, due |-> 0, app |-> FALSE, reports |-> 0, after |-> 0]

Queued(s, ops) == \E i \in DOMAIN ready : ready[i].s = s /\ ready[i].op \in ops

\* The handlers of async_accept capture the server and the next session, those
\* of async_write the session; those of async_read have a weak_ptr.
ServerAlive == held \/ accept # "none"
Alive(s) == \/ ses[s].app \/ ses[s].write \/ Queued(s, {"write"})
            \/ s = next /\ accept # "none"

Init ==
  /\ started = FALSE /\ held = TRUE /\ accept = "none" /\ next = 1
  /\ backlog = 0 /\ failures = 0
  /\ ready = <<>> /\ ses = [s \in Sessions |-> NewSession]

-----------------------------------------------------------------------------
(* What the code does to a session s: x is its record and what the step      *)
(* queues.                                                                   *)

With(r, q) == [r |-> r, q |-> q]
Apply(s, x) == /\ ses' = [ses EXCEPT ![s] = x.r]
               /\ ready' = x.q

\* Mutated: the socket stays open; the operations on it are not aborted.
NoShutdown(s, x) == x
ShutdownKeepsOps(s, x) == With([x.r EXCEPT !.sock = "closed"], x.q)

\* Common::shutdown: closing the descriptor completes what is outstanding on it
\* with operation_aborted, reads before writes.
Shutdown(s, x) ==
  With([x.r EXCEPT !.sock = "closed", !.read = "none", !.write = FALSE],
       x.q \o (IF x.r.read = "none" THEN <<>> ELSE <<Done(x.r.read, s, FALSE)>>)
           \o (IF x.r.write THEN <<Done("write", s, FALSE)>> ELSE <<>>))

\* Mutated: no status.
ErrorHandlerSilent(s, x) == Shutdown(s, x)

\* _Session::error_handler: shutdown, and the status Disconnected to the
\* application.
ErrorHandler(s, x) ==
  LET y == Shutdown(s, x)
  IN With([y.r EXCEPT !.state = "Disconnected", !.reports = @ + 1], y.q)

\* async_read and async_write; on a closed descriptor they fail at once.
StartRead(s, part, x) ==
  IF x.r.sock = "closed" THEN With(x.r, Append(x.q, Done(part, s, FALSE)))
  ELSE With([x.r EXCEPT !.read = part], x.q)

StartWrite(s, x) ==
  IF x.r.sock = "closed" THEN With(x.r, Append(x.q, Done("write", s, FALSE)))
  ELSE With([x.r EXCEPT !.write = TRUE], x.q)

\* Mutated: every packet starts a write.
EnqueueStarts(s, x) == StartWrite(s, With([x.r EXCEPT !.queue = @ + 1], x.q))

\* enqueue_write: the first packet in the queue starts a write.
Enqueue(s, x) ==
  LET y == With([x.r EXCEPT !.queue = @ + 1], x.q)
  IN IF x.r.queue = 0 THEN StartWrite(s, y) ELSE y

\* receive4 hands the packet to the application.
Receive(x) ==
  With([x.r EXCEPT !.after = IF x.r.state = "Disconnected" THEN @ + 1 ELSE @],
       x.q)

\* Mutated: the next header is not read.
StartSessionDeaf(s, x) == With([x.r EXCEPT !.app = TRUE, !.state = "Connected"], x.q)

\* The session callback keeps the session and starts it: Connected, and the
\* first header is read.
StartSession(s, x) ==
  StartRead(s, "header",
            With([x.r EXCEPT !.app = TRUE, !.state = "Connected"], x.q))

-----------------------------------------------------------------------------
(* The server.                                                             *)

\* start(): accept_connection.
ServerStart ==
  /\ held /\ ~started
  /\ started' = TRUE /\ accept' = "pending"
  /\ UNCHANGED <<held, next, backlog, failures, ready, ses>>

\* The application lets go of its server.  It stays as long as an accept is
\* outstanding.
ServerRelease ==
  /\ held /\ held' = FALSE
  /\ UNCHANGED <<started, accept, next, backlog, failures, ready, ses>>

\* The acceptor listens from the constructor on.
ClientConnects ==
  /\ ServerAlive
  /\ next + backlog + (IF accept \in {"queued", "checked"} THEN 1 ELSE 0)
       <= MaxSessions
  /\ backlog' = backlog + 1
  /\ UNCHANGED <<started, held, accept, next, failures, ready, ses>>

\* accept() in the kernel has a connection, or fails for want of resources; the
\* socket of the connection becomes that of the next session.
AcceptSucceeds ==
  /\ accept = "pending" /\ backlog > 0
  /\ accept' = "queued" /\ backlog' = backlog - 1
  /\ ready' = Append(ready, Done("accept", next, TRUE))
  /\ ses' = [ses EXCEPT ![next].sock = "up"]
  /\ UNCHANGED <<started, held, next, failures>>

AcceptFails ==
  /\ accept = "pending" /\ backlog > 0 /\ failures < MaxFailures
  /\ accept' = "queued" /\ failures' = failures + 1
  /\ ready' = Append(ready, Done("accept", next, FALSE))
  /\ UNCHANGED <<started, held, next, backlog, ses>>

\* Mutated: the reference count is not looked at.
AlwaysInUse == TRUE

\* self.use_count() == 1: only the handler still has the server.
InUse == held

\* The handler of async_accept: a server nobody has any more ends here, and
\* closes the connection it has just accepted.
HandleAccept ==
  /\ accept = "queued" /\ Head(ready).op = "accept"
  /\ IF InUse THEN accept' = "checked" /\ UNCHANGED ready
              ELSE accept' = "none" /\ ready' = Tail(ready)
  /\ UNCHANGED <<started, held, next, backlog, failures, ses>>

\* Mutated: the loop ends after a session.
AcceptOnce == "none"

\* accept_connection.
AcceptAgain == "pending"

\* accept_callback: after an error accept_error_handler does nothing, and the
\* loop ends.  Otherwise the application gets the session, which it starts or
\* does not keep, and the next connection is accepted.
AcceptCallback ==
  /\ accept = "checked"
  /\ LET c == Head(ready)
         x == With(ses[c.s], Tail(ready))
     IN IF c.ok
        THEN /\ accept' = AcceptAgain /\ next' = next + 1
             /\ \/ Apply(c.s, x)
                \/ c.s <= MaxKept /\ Apply(c.s, StartSession(c.s, x))
        ELSE /\ accept' = "none"
             /\ ready' = x.q /\ UNCHANGED <<next, ses>>
  /\ UNCHANGED <<started, held, backlog, failures>>

-----------------------------------------------------------------------------
(* A session.                                                              *)

\* The io thread is free, and its next handler is for op.
NextIs(ops) == accept # "checked" /\ ready # <<>> /\ Head(ready).op \in ops

\* send() from a thread of the application: the check of the state, and what
\* follows.  Nothing keeps a thread out while others are between the two.
SendCheck(s) ==
  /\ ses[s].app /\ ses[s].due < MaxSenders
  /\ ses[s].state = "Connected" /\ ses[s].queue < MaxQueue
  /\ ses' = [ses EXCEPT ![s].due = @ + 1]
  /\ UNCHANGED <<serverVars, ready>>

SendEnqueue(s) ==
  /\ ses[s].due > 0
  /\ Apply(s, Enqueue(s, With([ses[s] EXCEPT !.due = @ - 1], ready)))
  /\ UNCHANGED serverVars

\* The application drops the session.
SessionRelease(s) ==
  /\ ses[s].app /\ ses[s].due = 0
  /\ ses' = [ses EXCEPT ![s].app = FALSE]
  /\ UNCHANGED <<serverVars, ready>>

\* The handler of a read finds no session to lock.
HandleReadGone ==
  /\ NextIs({"header", "body"}) /\ ~Alive(Head(ready).s)
  /\ ready' = Tail(ready)
  /\ UNCHANGED <<serverVars, ses>>

\* receive2: an error, a marker that is wrong, or the body comes next.
HandleHeader ==
  /\ NextIs({"header"}) /\ Alive(Head(ready).s)
  /\ LET c == Head(ready)
         x == With(ses[c.s], Tail(ready))
     IN \/ c.ok /\ Apply(c.s, StartRead(c.s, "body", x))
        \/ Apply(c.s, ErrorHandler(c.s, x))
  /\ UNCHANGED serverVars

\* receive3: the application gets the packet, and may send one at once; then
\* the next header.
HandleBody ==
  /\ NextIs({"body"}) /\ Alive(Head(ready).s)
  /\ LET c == Head(ready)
         x == With(ses[c.s], Tail(ready))
         y == Receive(x)
     IN \/ c.ok /\ Apply(c.s, StartRead(c.s, "header", y))
        \/ /\ c.ok /\ y.r.state = "Connected" /\ y.r.queue < MaxQueue
           /\ Apply(c.s, StartRead(c.s, "header", Enqueue(c.s, y)))
        \/ ~c.ok /\ Apply(c.s, ErrorHandler(c.s, x))
  /\ UNCHANGED serverVars

\* handle_write.
HandleWrite ==
  /\ NextIs({"write"})
  /\ LET c == Head(ready)
         x == With([ses[c.s] EXCEPT !.queue = @ - 1], Tail(ready))
     IN Apply(c.s, IF ~c.ok THEN ErrorHandler(c.s, x)
                   ELSE IF x.r.queue > 0 THEN StartWrite(c.s, x) ELSE x)
  /\ UNCHANGED serverVars

\* The kernel has data, or none and the end of the connection.
ReadCompletes(s, ok) ==
  /\ Alive(s) /\ ses[s].read # "none" /\ ses[s].sock # "closed"
  /\ ok \/ ses[s].sock \in {"eof", "reset"}
  /\ Apply(s, With([ses[s] EXCEPT !.read = "none"],
                   Append(ready, Done(ses[s].read, s, ok))))
  /\ UNCHANGED serverVars

WriteCompletes(s) ==
  /\ ses[s].write /\ ses[s].sock # "closed"
  /\ Apply(s, With([ses[s] EXCEPT !.write = FALSE],
                   Append(ready, Done("write", s, ses[s].sock # "reset"))))
  /\ UNCHANGED serverVars

\* The peer closes its side, or resets the connection.
PeerEnds(s, how) ==
  /\ Alive(s) /\ ses[s].sock \in {"up", "eof"} /\ ses[s].sock # how
  /\ ses' = [ses EXCEPT ![s].sock = how]
  /\ UNCHANGED <<serverVars, ready>>

-----------------------------------------------------------------------------
Server == \/ ServerStart \/ ServerRelease \/ ClientConnects
          \/ AcceptSucceeds \/ AcceptFails

IoThread == \/ HandleAccept \/ AcceptCallback \/ HandleReadGone
            \/ HandleHeader \/ HandleBody \/ HandleWrite

Session(s) ==
  \/ SendCheck(s) \/ SendEnqueue(s) \/ SessionRelease(s)
  \/ WriteCompletes(s)
  \/ \E ok \in BOOLEAN : ReadCompletes(s, ok)
  \/ \E how \in {"eof", "reset"} : PeerEnds(s, how)

Next == Server \/ IoThread \/ \E s \in Sessions : Session(s)

Spec == Init /\ [][Next]_vars

\* The io thread runs; a waiting connection is accepted or the accept fails;
\* send() returns; the peer reads what is sent, and what it had sent before it
\* ended the connection runs out.
FairSpec ==
  /\ Spec
  /\ WF_vars(IoThread) /\ WF_vars(AcceptSucceeds \/ AcceptFails)
  /\ \A s \in Sessions : /\ WF_vars(SendEnqueue(s)) /\ SF_vars(WriteCompletes(s))
                         /\ SF_vars(ReadCompletes(s, FALSE))

-----------------------------------------------------------------------------
(* Properties.                                                             *)

Entry ==
  [op : {"accept", "header", "body", "write"}, s : Sessions, ok : BOOLEAN]

SessionType ==
  [state : {"NoState", "Connected", "Disconnected"},
   sock : {"none", "up", "eof", "reset", "closed"},
   read : {"none", "header", "body"}, write : BOOLEAN,
   queue : 0..(MaxQueue + MaxSenders), due : 0..MaxSenders, app : BOOLEAN,
   reports : Nat, after : Nat]

\* Types of the variables.
TypeOK ==
  /\ started \in BOOLEAN /\ held \in BOOLEAN /\ accept \in AcceptStates
  /\ next \in 1..(MaxSessions + 1) /\ backlog \in 0..MaxSessions
  /\ failures \in 0..MaxFailures
  /\ ready \in Seq(Entry)
  /\ ses \in [Sessions -> SessionType]

\* A session that is connected has one read under way, which notices the end
\* of the connection, and no session ever has two, which would share header and
\* p (receive1 to receive3, error_handler).
ReadHandlers(s) == {i \in DOMAIN ready : ready[i].s = s /\ ready[i].op \in {"header", "body"}}
Reads(s) == Cardinality(ReadHandlers(s)) + (IF ses[s].read = "none" THEN 0 ELSE 1)
ConnectedHasOneReader ==
  \A s \in Sessions :
    Alive(s) => /\ Reads(s) <= 1
                /\ ses[s].state = "Connected" => Reads(s) = 1

\* What the application sees of the end of a session: Disconnected once for
\* the chain of reads, once for the write under way and once for each send() that
\* had already checked the state, which send1 does not limit (it starts a write on
\* the closed socket, handle_write fails); and at most one packet after the first.
EndIsBounded ==
  \A s \in Sessions : ses[s].reports <= 2 + MaxSenders /\ ses[s].after <= 1

\* "Disconnected means it is disconnected and not going to try to reconnect"
\* (amjCom.H:41-42): in the end nothing of the session is outstanding or queued.
DisconnectedIsQuiet ==
  \A s \in Sessions :
    ses[s].state = "Disconnected" ~>
      [](ses[s].read = "none" /\ ~ses[s].write /\ ses[s].due = 0
           /\ ~Queued(s, {"header", "body", "write"}))

\* The end of a connection is reported to an application that keeps the session.
EndIsReported ==
  \A s \in Sessions :
    ses[s].state = "Connected" /\ ses[s].sock \in {"eof", "reset"} ~>
      ses[s].state = "Disconnected" \/ ~Alive(s)

\* A server in use serves the connections that wait, unless an accept fails
\* (accept_callback).
WaitingIsServed ==
  started /\ held /\ backlog > 0 ~> backlog = 0 \/ ~held \/ failures > 0

\* What nobody holds goes away: a session the application has dropped when its peer
\* has ended the connection, and a server it has released with the next connection,
\* even if it is released between the look at the reference count and the callback.
NothingStays ==
  /\ \A s \in Sessions : s < next /\ ~ses[s].app /\ ses[s].sock # "up" ~> ~Alive(s)
  /\ ~held /\ backlog > 0 ~> ~ServerAlive
=============================================================================
