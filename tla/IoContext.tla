------------------------------ MODULE IoContext ------------------------------
(***************************************************************************)
(* The io_context behind amjCom::IOContext: one detached thread inside     *)
(* scheduler::run() with a work guard, the epoll reactor as its task, and  *)
(* a socket whose operations are started and which is closed by that       *)
(* thread's handlers and by one thread of the application.                 *)
(*                                                                         *)
(* What a mutex protects is one step: that of the scheduler, and that of a *)
(* descriptor_state, of which a new socket gets the one the last left.     *)
(* Operations are numbered as they are started.  Timers are left out.      *)
(***************************************************************************)
EXTENDS Naturals, Sequences, FiniteSets

CONSTANTS
  MaxOps,     \* bound: operations started
  MaxUnits,   \* bound: units that can be read, or of room to write, at a time
  MaxEvents,  \* bound: units that become available
  MaxOpens    \* bound: sockets

ASSUME IoAssumption ==
  MaxOps \in Nat /\ MaxUnits \in Nat /\ MaxEvents \in Nat /\ MaxOpens \in Nat

Types == {"read", "write"}

\* Units an operation asks for.  A write that gets some only is done, and has
\* exhausted the socket.
Want(t) == IF t = "write" THEN 2 ELSE 1

VARIABLES
  opq,      \* op_queue_: operations, Desc and Task
  private,  \* private_op_queue of the io thread
  work,     \* outstanding_work_, of which one is the guard's
  pwork,    \* private_outstanding_work of the io thread
  signal,   \* wakeup_event_ is signalled
  tint,     \* task_interrupted_
  io,       \* where the io thread is: see IoStates
  cur,      \* the operation whose handler it runs
  rest,     \* the others perform_io has completed
  app,      \* where the thread of the application is, with what it has to post
  q,        \* op_queue_ of the descriptor_state, for each type
  spec,     \* try_speculative_
  open,     \* the socket is open; otherwise shutdown_
  opens,    \* sockets opened so far
  out,      \* registered_events_ has EPOLLOUT
  level,    \* units available in the kernel
  edge,     \* the descriptor is on epoll's list
  irq,      \* the interrupter is on epoll's list
  events,   \* ready events the descriptor_state has been given
  units,    \* units that have become available so far
  type,     \* history: the operations that were started
  result,   \* history: what became of those that are no longer in q
  runs      \* history: how often each handler has run

schedVars == <<opq, private, work, pwork, signal, tint>>
descVars  == <<q, spec, open, opens, out>>
kernVars  == <<level, edge, irq, events, units>>
histVars  == <<type, result, runs>>
vars == <<schedVars, io, cur, rest, app, descVars, kernVars, histVars>>

IoStates == {"top", "wait", "poll", "block", "cleanup", "perform", "post",
             "handler", "stopped"}

NoPost == [at |-> "idle", ops |-> <<>>]
Ops    == 1..MaxOps

\* What else op_queue_ holds: task_operation_ and the descriptor_state.
Task == 0
Desc == MaxOps + 1

Init ==
  /\ opq = <<>> /\ private = <<>> /\ work = 1 /\ pwork = 0
  /\ signal = FALSE /\ tint = TRUE
  /\ io = "top" /\ cur = 0 /\ rest = <<>> /\ app = [NoPost EXCEPT !.at = "new"]
  /\ q = [t \in Types |-> <<>>] /\ spec = [t \in Types |-> TRUE]
  /\ open = FALSE /\ opens = 0 /\ out = FALSE
  /\ level = [t \in Types |-> 0] /\ edge = FALSE /\ irq = FALSE
  /\ events = {} /\ units = 0
  /\ type = <<>> /\ result = <<>> /\ runs = [o \in Ops |-> 0]

-----------------------------------------------------------------------------
(* The scheduler.                                                          *)

\* Mutated: a thread inside epoll_wait is not interrupted.
Uninterrupted == FALSE

\* The task runs, and nobody has interrupted it yet.
MustInterrupt == ~tint

\* wake_one_thread_and_unlock: the event is signalled; the io thread that waits
\* for it goes on, one that is inside the task is interrupted.
Wake ==
  /\ signal' = TRUE
  /\ IF io # "wait" /\ MustInterrupt THEN tint' = TRUE /\ irq' = TRUE
                                     ELSE UNCHANGED <<tint, irq>>

\* post_deferred_completions: the operations have been counted before.
Post(ops) == opq' = opq \o ops /\ Wake

\* do_run_one: an empty queue, before there is a task.
RunEmpty ==
  /\ io = "top" /\ opq = <<>>
  /\ signal' = FALSE /\ io' = "wait"
  /\ UNCHANGED <<opq, private, work, pwork, tint, cur, rest, app, descVars, kernVars, histVars>>

WaitEnds ==
  /\ io = "wait" /\ signal
  /\ io' = "top"
  /\ UNCHANGED <<schedVars, cur, rest, app, descVars, kernVars, histVars>>

\* The task: it blocks if there is nothing else to run.
RunTask ==
  /\ io = "top" /\ opq # <<>> /\ Head(opq) = Task
  /\ opq' = Tail(opq)
  /\ tint' = (opq' # <<>>) /\ signal' = (signal \/ opq' # <<>>)
  /\ io' = IF opq' # <<>> THEN "poll" ELSE "block"
  /\ UNCHANGED <<private, work, pwork, cur, rest, app, descVars, kernVars, histVars>>

\* Another operation: its handler, or the events of the descriptor.
RunOperation ==
  /\ io = "top" /\ opq # <<>> /\ Head(opq) # Task
  /\ opq' = Tail(opq)
  /\ IF opq' # <<>> THEN Wake ELSE UNCHANGED <<signal, tint, irq>>
  /\ IF Head(opq) = Desc THEN io' = "perform" /\ UNCHANGED cur
                           ELSE io' = "handler" /\ cur' = Head(opq)
  /\ runs' = IF cur' # 0 THEN [runs EXCEPT ![cur'] = @ + 1] ELSE runs
  /\ UNCHANGED <<private, work, pwork, rest, app, descVars, level, edge, events, units,
                 type, result>>

\* task_cleanup: what the task found, and the task behind it.
TaskCleanup ==
  /\ io = "cleanup"
  /\ opq' = opq \o private \o <<Task>> /\ private' = <<>>
  /\ work' = work + pwork /\ pwork' = 0
  /\ tint' = TRUE /\ io' = "top"
  /\ UNCHANGED <<signal, cur, rest, app, descVars, kernVars, histVars>>

\* work_cleanup: the operation that has run counts no more; what its handler has
\* started does.  run() returns when nothing is left.
WorkCleanup ==
  /\ io = "handler"
  /\ work' = (work + pwork) - 1 /\ pwork' = 0
  /\ opq' = opq \o private /\ private' = <<>>
  /\ cur' = 0
  /\ io' = IF work' = 0 THEN "stopped" ELSE "top"
  /\ UNCHANGED <<signal, tint, rest, app, descVars, kernVars, histVars>>

-----------------------------------------------------------------------------
(* The reactor.                                                            *)

Registered(t) == t = "read" \/ out
Ready == {t \in Types : Registered(t) /\ level[t] > 0}

\* epoll_wait, which reports the descriptor once for each edge, with all the
\* events it has by then.
EpollWait ==
  /\ io \in {"poll", "block"}
  /\ io = "block" => irq \/ (edge /\ Ready # {})
  /\ IF edge /\ Ready # {}
     THEN private' = Append(private, Desc) /\ events' = Ready
     ELSE UNCHANGED <<private, events>>
  /\ irq' = FALSE /\ edge' = FALSE
  /\ io' = "cleanup"
  /\ UNCHANGED <<opq, work, pwork, signal, tint, cur, rest, app, descVars, level, units, histVars>>

\* Mutated: an operation that would block is done.
CompletedBlindly(t, n, l) == [n |-> n, exhausted |-> FALSE]

\* How many of n operations a socket with l units completes, and whether the last
\* one exhausts it.
Completed(t, n, l) ==
  LET full == l \div Want(t)
  IN IF n <= full \/ l % Want(t) = 0 THEN [n |-> IF n <= full THEN n ELSE full, exhausted |-> FALSE]
     ELSE [n |-> full + 1, exhausted |-> TRUE]

Taken(t, done, l) == IF done.exhausted THEN l ELSE done.n * Want(t)

\* try_speculative_ after perform_io.
SpecAfter(t, done) == ~done.exhausted

\* Mutated: no compensation.
NoCompensation(n) == 0

\* The scheduler will count one operation less: if there was none, one more here.
Compensation(n) == IF n = 0 THEN 1 ELSE 0

\* perform_io: writes before reads.  The handler of the first operation is next,
\* the others are posted.
PerformIo ==
  /\ io = "perform"
  /\ LET done == [t \in Types |-> IF t \in events THEN Completed(t, Len(q[t]), level[t])
                                  ELSE [n |-> 0, exhausted |-> FALSE]]
         ops  == SubSeq(q["write"], 1, done["write"].n) \o SubSeq(q["read"], 1, done["read"].n)
     IN /\ q'     = [t \in Types |-> SubSeq(q[t], done[t].n + 1, Len(q[t]))]
        /\ spec'  = [t \in Types |-> IF t \in events THEN SpecAfter(t, done[t]) ELSE spec[t]]
        /\ level' = [t \in Types |-> level[t] - Taken(t, done[t], level[t])]
        /\ pwork' = Compensation(Len(ops))
        /\ rest'  = ops
        /\ result' = [o \in DOMAIN result |-> IF \E i \in DOMAIN ops : ops[i] = o THEN "ok"
                                              ELSE result[o]]
  /\ io' = "post" /\ events' = {}
  /\ UNCHANGED <<opq, private, work, signal, tint, cur, app, open, opens, out, edge, irq, units,
                 type, runs>>

\* The cleanup of perform_io posts the others; then the first handler runs.
PostRest ==
  /\ io = "post"
  /\ IF Len(rest) > 1 THEN Post(Tail(rest)) ELSE UNCHANGED <<opq, signal, tint, irq>>
  /\ cur' = IF rest = <<>> THEN 0 ELSE Head(rest)
  /\ runs' = IF rest = <<>> THEN runs ELSE [runs EXCEPT ![cur'] = @ + 1]
  /\ rest' = <<>> /\ io' = "handler"
  /\ UNCHANGED <<private, work, pwork, app, descVars, level, edge, events, units, type, result>>

-----------------------------------------------------------------------------
(* Operations on the socket.                                               *)

\* epoll_ctl puts the descriptor on the list if it is ready.
Rearmed(o, l) == edge \/ l["read"] > 0 \/ (o /\ l["write"] > 0)

\* Mutated: EPOLLOUT is not asked for.
OutKept(t) == out

\* A write that has to wait needs EPOLLOUT.
OutAfter(t) == out \/ t = "write"

\* start_op: an operation that is first in its queue is tried, unless the socket
\* is known to be exhausted; else it waits there.
StartedQueued(t) ==
  /\ open /\ Len(type) < MaxOps
  /\ (q[t] = <<>> /\ spec[t]) => level[t] = 0
  /\ q' = [q EXCEPT ![t] = Append(@, Len(type) + 1)]
  /\ out' = IF q[t] = <<>> THEN OutAfter(t) ELSE out
  /\ edge' = IF out' # out THEN Rearmed(out', level) ELSE edge
  /\ type' = Append(type, t) /\ result' = Append(result, "pending")
  /\ UNCHANGED <<spec, open, opens, level, events, units, runs>>

\* It completes at once: the socket is ready, or closed, of which the caller is to
\* be told too.
StartedImmediate(t) ==
  /\ Len(type) < MaxOps /\ opens > 0
  /\ open => q[t] = <<>> /\ spec[t] /\ level[t] > 0
  /\ LET done == Completed(t, 1, level[t])
     IN IF open THEN /\ spec' = [spec EXCEPT ![t] = ~done.exhausted]
                     /\ level' = [level EXCEPT ![t] = @ - Taken(t, done, @)]
                ELSE UNCHANGED <<spec, level>>
  /\ type' = Append(type, t)
  /\ result' = Append(result, IF open THEN "ok" ELSE "aborted")
  /\ UNCHANGED <<q, open, opens, out, edge, events, units, runs>>

\* Mutated: the operations stay where they are, too.
AbortKeeps == q

\* What is left in the queues of a closed descriptor.
AfterAbort == [t \in Types |-> <<>>]

\* close(): deregister_descriptor takes all operations, the kernel the rest.
Closed ==
  /\ open
  /\ open' = FALSE /\ q' = AfterAbort
  /\ level' = [t \in Types |-> 0] /\ edge' = FALSE
  /\ result' = [o \in DOMAIN result |-> IF result[o] = "pending" THEN "aborted" ELSE result[o]]
  /\ UNCHANGED <<spec, opens, out, events, units, type, runs>>

\* A handler starts an operation.  One that completes at once is posted: on the
\* private queue if it continues the operation of the handler.
HandlerQueues(t) ==
  /\ io = "handler" /\ cur # 0 /\ StartedQueued(t)
  /\ work' = work + 1
  /\ UNCHANGED <<opq, private, pwork, signal, tint, irq, io, cur, rest, app>>

HandlerCompletes(t) ==
  /\ io = "handler" /\ cur # 0 /\ StartedImmediate(t)
  /\ \/ /\ pwork' = pwork + 1 /\ private' = Append(private, Len(type'))
        /\ UNCHANGED <<opq, work, signal, tint, irq>>
     \/ /\ work' = work + 1 /\ Post(<<Len(type')>>)
        /\ UNCHANGED <<pwork, private>>
  /\ UNCHANGED <<io, cur, rest, app>>

HandlerCloses ==
  /\ io = "handler" /\ cur # 0 /\ Closed
  /\ IF q["read"] \o q["write"] # <<>> THEN Post(q["read"] \o q["write"])
                                       ELSE UNCHANGED <<opq, signal, tint, irq>>
  /\ UNCHANGED <<private, work, pwork, io, cur, rest, app>>

\* The application does the same; what it has to post comes a step later.
AppQueues(t) ==
  /\ app = NoPost /\ StartedQueued(t)
  /\ work' = work + 1
  /\ UNCHANGED <<opq, private, pwork, signal, tint, irq, io, cur, rest, app>>

AppCompletes(t) ==
  /\ app = NoPost /\ StartedImmediate(t)
  /\ app' = [at |-> "completes", ops |-> <<Len(type')>>]
  /\ UNCHANGED <<schedVars, irq, io, cur, rest>>

AppCloses ==
  /\ app = NoPost /\ Closed
  /\ app' = [at |-> "closes", ops |-> q["read"] \o q["write"]]
  /\ UNCHANGED <<schedVars, irq, io, cur, rest>>

AppPosts ==
  /\ app.at \in {"completes", "closes"}
  /\ work' = IF app.at = "completes" THEN work + 1 ELSE work
  /\ IF app.ops # <<>> THEN Post(app.ops) ELSE UNCHANGED <<opq, signal, tint, irq>>
  /\ app' = NoPost
  /\ UNCHANGED <<private, pwork, io, cur, rest, descVars, level, edge, events, units, histVars>>

\* init_task: the first socket brings the task.
AppInitTask ==
  /\ app.at = "new"
  /\ Post(<<Task>>) /\ app' = NoPost
  /\ UNCHANGED <<private, work, pwork, io, cur, rest, descVars, level, edge, events, units, histVars>>

\* register_descriptor, and a socket with room to write: the application's thread
\* opens the first, a handler opens it again when no close() is under way.
Opened ==
  /\ ~open /\ opens < MaxOpens
  /\ open' = TRUE /\ opens' = opens + 1
  /\ spec' = [t \in Types |-> TRUE] /\ out' = FALSE
  /\ level' = [read |-> 0, write |-> MaxUnits] /\ edge' = FALSE
  /\ UNCHANGED <<schedVars, io, cur, rest, app, q, irq, events, units, histVars>>

AppOpens     == app = NoPost /\ Opened
HandlerOpens == io = "handler" /\ cur # 0 /\ app.at # "closes" /\ Opened

-----------------------------------------------------------------------------
\* The peer writes, or reads: an edge, if the events are registered.
PeerActs(t) ==
  /\ open /\ level[t] < MaxUnits /\ units < MaxEvents
  /\ level' = [level EXCEPT ![t] = @ + 1] /\ units' = units + 1
  /\ edge' = (edge \/ Registered(t))
  /\ UNCHANGED <<schedVars, io, cur, rest, app, descVars, irq, events, histVars>>

-----------------------------------------------------------------------------
IoThread == RunEmpty \/ WaitEnds \/ RunTask \/ RunOperation \/ TaskCleanup \/ EpollWait
              \/ PerformIo \/ PostRest \/ WorkCleanup
Handler == HandlerCloses \/ HandlerOpens \/ \E t \in Types : HandlerQueues(t) \/ HandlerCompletes(t)
App == AppInitTask \/ AppOpens \/ AppPosts \/ AppCloses
         \/ \E t \in Types : AppQueues(t) \/ AppCompletes(t)

Next == IoThread \/ Handler \/ App \/ \E t \in Types : PeerActs(t)

Spec == Init /\ [][Next]_vars

\* The io thread runs; the application's thread leaves a call it has begun.
FairSpec == Spec /\ WF_vars(IoThread) /\ WF_vars(AppPosts)

-----------------------------------------------------------------------------
(* Properties.                                                             *)

\* Types of the variables.
TypeOK ==
  /\ opq \in Seq(Ops \cup {Task, Desc}) /\ private \in Seq(Ops \cup {Desc})
  /\ work \in Nat /\ pwork \in Nat /\ signal \in BOOLEAN /\ tint \in BOOLEAN
  /\ io \in IoStates /\ cur \in Ops \cup {0} /\ rest \in Seq(Ops)
  /\ app \in [at : {"new", "idle", "completes", "closes"}, ops : Seq(Ops)]
  /\ q \in [Types -> Seq(Ops)] /\ spec \in [Types -> BOOLEAN]
  /\ open \in BOOLEAN /\ opens \in 0..MaxOpens /\ out \in BOOLEAN
  /\ level \in [Types -> 0..MaxUnits] /\ edge \in BOOLEAN /\ irq \in BOOLEAN
  /\ events \subseteq Types /\ units \in 0..MaxEvents
  /\ type \in Seq(Types) /\ Len(type) <= MaxOps
  /\ result \in Seq({"pending", "ok", "aborted"}) /\ runs \in [Ops -> Nat]

\* The guard and one for each operation that has not finished: no count stays behind or
\* is lost, and run() never returns (work_cleanup, compensating_work_started, the work
\* guard of amjComASIO.C).
Unfinished == {o \in DOMAIN type : runs[o] = 0 \/ o = cur}
NotCounted == IF app.at = "completes" THEN 1 ELSE 0
WorkCounted ==
  io # "stopped" /\
  work + pwork = 1 + Cardinality(Unfinished) - NotCounted
                   + (IF io = "handler" /\ cur = 0 THEN 1 ELSE 0)
                   + (IF io = "post" /\ rest = <<>> THEN 1 ELSE 0)

\* Each operation completes, is aborted with all others when the socket is closed,
\* and has its handler run once.
State == [o \in Ops |-> IF o \in DOMAIN result THEN result[o] ELSE "idle"]
Abstract == INSTANCE AsyncOps WITH state <- State
ImplementsAsyncOps == Abstract!Spec

\* An operation never waits for a socket that is ready: no edge is lost between a
\* thread that starts it, the event that is under way and an exhausted socket.
NoLostEdge ==
  \A t \in Types : (q[t] # <<>> /\ level[t] > 0) ~> (q[t] = <<>> \/ level[t] = 0)

\* The handler of an operation that has completed or was aborted runs, whatever the
\* io thread waits for meanwhile.
HandlersRun ==
  \A o \in Ops : (o \in DOMAIN result /\ result[o] # "pending") ~> runs[o] = 1
=============================================================================
