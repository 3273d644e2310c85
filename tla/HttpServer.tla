----------------------------- MODULE HttpServer -----------------------------
(***************************************************************************)
(* fwoop::HttpServer over HTTP/1.1: the accept loop of serve(), the handler*)
(* of one connection (HttpConnHandler, HttpServerEvent) running as a job of*)
(* the handler pool, and stop() called from another thread.                *)
(*                                                                         *)
(* The pool is its promise, Executor: job number i serves connection       *)
(* jobs[i].  ThreadPool shows that the code keeps it and what ends it: a    *)
(* worker that is woken for nothing (PoolFails), and an enqueue() that is   *)
(* refused, which returns with the pool's mutex locked (MutexLeaked).       *)
(***************************************************************************)
EXTENDS Naturals, Sequences, FiniteSets

CONSTANTS
    MaxConns,       \* bound: connections clients open
    Slots,          \* the threads of d_handlerPool
    FdLimit,        \* how many connections the process can hold open
    MaxEvents,      \* bound: events one handler function pushes
    CanStop         \* whether somebody calls stop()

ASSUME ServerAssumption ==
    /\ MaxConns \in Nat
    /\ FdLimit \in Nat /\ MaxEvents \in Nat
    /\ CanStop \in BOOLEAN

VARIABLES
    serve,          \* the next step of serve()
    isActive,       \* d_isActive
    owner,          \* the next step of stop()
    stage,          \* how far each connection has come
    kind,           \* what its client sends
    wire,           \* what its client has been sent
    cut,            \* whether a write to it has failed
    jobs,           \* the connection of each accepted job
    crashed,        \* the process has died
    accepted, started, running, stopped, owed, terminated, failed

\* Connections are numbered in the order in which clients open them.
Conns == 1..MaxConns

Pool == INSTANCE Executor

poolVars == <<accepted, started, running, stopped, owed, terminated, failed>>
connVars == <<stage, kind, wire, cut>>
vars == <<serve, isActive, owner, connVars, jobs, crashed, poolVars>>

\* The client asks for a path that is not in d_serverEventMap and is answered
\* once, with a page or with 404; or for one that is; or what arrives within the
\* one read() is not a whole request; or its last header ends with the colon; or
\* its first byte is a line feed.
Kinds == {"page", "events", "incomplete", "bareHeader", "lineFeed"}
HasEvents(c) == kind[c] = "events"

\* What becomes of parse(): it wants the blank line that ends the headers and
\* returns null without it; substr() throws behind a colon at the end; and the
\* tokenizer does not get past a line feed at its first place.
Parsed(k) ==
    CASE k = "incomplete" -> "null"
      [] k = "bareHeader" -> "throws"
      [] k = "lineFeed" -> "loops"
      [] OTHER -> "request"

Handled == {"read", "looping", "respond", "push", "close"}
Open == {c \in Conns : stage[c] \in {"accepted", "queued", "refused"} \cup Handled}
Served(s) == jobs[running[s]]
Goes(c, st) == stage' = [stage EXCEPT ![c] = st]

\* enqueue() has returned false and left d_poolMutex locked, by the thread of
\* serve(): no worker gets another job, and the next enqueue() does not return.
MutexLeaked == \E c \in Conns : stage[c] = "refused"

Init ==
    /\ serve = "setup" /\ isActive = FALSE /\ owner = "idle"
    /\ stage = [c \in Conns |-> "none"]
    /\ kind = [c \in Conns |-> "incomplete"]
    /\ wire = [c \in Conns |-> <<>>]
    /\ cut = [c \in Conns |-> FALSE]
    /\ jobs = <<>>
    /\ crashed = FALSE
    /\ Pool!Init

-----------------------------------------------------------------------------
(***************************************************************************)
(* Faulty variants: what a slip in the code would make of a step.  No      *)
(* specification uses them; each breaks one of the properties below.       *)
(***************************************************************************)
\* enqueue() that drops the handler it has accepted
EnqueueHandler_Dropped(c) ==
    /\ serve = "enqueue" /\ stage[c] = "accepted"
    /\ Pool!Accept
    /\ Goes(c, "queued")
    /\ serve' = "check"
    /\ UNCHANGED <<isActive, owner, kind, wire, cut, jobs, crashed>>

\* a read that blocks until a whole request is there
ReadRequest_Blocks(c) ==
    /\ stage[c] = "read" /\ Parsed(kind[c]) # "null"
    /\ Goes(c, "respond")
    /\ UNCHANGED <<serve, isActive, owner, kind, wire, cut, jobs, crashed, poolVars>>

\* an HttpServerEvent whose destructor writes nothing
EndEvents_Silent(c) ==
    /\ stage[c] = "push"
    /\ Goes(c, "close")
    /\ UNCHANGED <<serve, isActive, owner, kind, wire, cut, jobs, crashed, poolVars>>

\* a handler that does not close its socket
CloseConn_Leaks(s) ==
    /\ running[s] # Pool!Idle
    /\ stage[Served(s)] = "close"
    /\ running' = [running EXCEPT ![s] = Pool!Idle]
    /\ Pool!Finish
    /\ UNCHANGED <<serve, isActive, owner, stage, kind, wire, cut, jobs, crashed>>

\* stop() without d_handlerPool.wait()
WaitPool_Skipped ==
    /\ owner = "wait"
    /\ owner' = "stopped"
    /\ UNCHANGED <<serve, isActive, connVars, jobs, crashed, poolVars>>

-----------------------------------------------------------------------------
(***************************************************************************)
(* Clients.  listen() keeps a backlog, of which accept4() takes the first; *)
(* its length does not matter here.                                        *)
(***************************************************************************)
Backlog == {c \in Conns : stage[c] = "backlog"}

Connect(c) ==
    /\ stage[c] = "none"
    /\ \A d \in 1..(c - 1) : stage[d] # "none"
    /\ serve # "setup"
    /\ Goes(c, "backlog")
    /\ \E k \in Kinds : kind' = [kind EXCEPT ![c] = k]
    /\ UNCHANGED <<serve, isActive, owner, wire, cut, jobs, crashed, poolVars>>

-----------------------------------------------------------------------------
(***************************************************************************)
(* serve()                                                                 *)
(***************************************************************************)
\* socket, setsockopt, bind and listen succeed, or serve() returns -1.
Setup ==
    /\ serve = "setup"
    /\ \/ serve' = "check" /\ isActive' = TRUE
       \/ serve' = "returned" /\ UNCHANGED isActive
    /\ UNCHANGED <<owner, connVars, jobs, crashed, poolVars>>

CheckActive ==
    /\ serve = "check"
    /\ serve' = IF isActive THEN "accept" ELSE "returned"
    /\ UNCHANGED <<isActive, owner, connVars, jobs, crashed, poolVars>>

AcceptConn ==
    /\ serve = "accept"
    /\ Cardinality(Open) < FdLimit
    /\ \E c \in Backlog : (\A d \in Backlog : c <= d) /\ Goes(c, "accepted")
    /\ serve' = "enqueue"
    /\ UNCHANGED <<isActive, owner, kind, wire, cut, jobs, crashed, poolVars>>

\* accept4() fails, with EMFILE or because addrLen, which nothing sets, happens to be
\* negative: serve() gives up for good.
AcceptFails ==
    /\ serve = "accept"
    /\ Backlog # {}
    /\ serve' = "returned"
    /\ UNCHANGED <<isActive, owner, connVars, jobs, crashed, poolVars>>

EnqueueHandler(c) ==
    /\ serve = "enqueue" /\ stage[c] = "accepted"
    /\ ~MutexLeaked
    /\ Pool!Accept
    /\ jobs' = Append(jobs, c)
    /\ Goes(c, "queued")
    /\ serve' = "check"
    /\ UNCHANGED <<isActive, owner, kind, wire, cut, crashed>>

\* The pool refuses, and serve() does not look: the handler is destroyed, which
\* does not close its socket, and the mutex is never unlocked.
HandlerRefused(c) ==
    /\ serve = "enqueue" /\ stage[c] = "accepted"
    /\ ~MutexLeaked
    /\ stopped
    /\ Goes(c, "refused")
    /\ serve' = "check"
    /\ UNCHANGED <<isActive, owner, kind, wire, cut, jobs, crashed, poolVars>>

-----------------------------------------------------------------------------
(***************************************************************************)
(* HttpConnHandler::operator(), on a thread of the pool.                   *)
(***************************************************************************)
StartHandler ==
    /\ ~terminated /\ ~MutexLeaked
    /\ Pool!Start
    /\ Goes(jobs[started + 1], "read")
    /\ UNCHANGED <<serve, isActive, owner, kind, wire, cut, jobs, crashed>>

\* A worker that another one was too quick for, or that woke by itself, takes a
\* job out of the empty deque: what the process does from then on is undefined.
PoolFails ==
    /\ started = accepted /\ ~stopped
    /\ \E s \in Slots : running[s] = Pool!Idle
    /\ failed' = TRUE
    /\ UNCHANGED <<serve, isActive, owner, connVars, jobs, crashed>>
    /\ UNCHANGED <<accepted, started, running, stopped, owed, terminated>>

\* One read and parse().  A null request is dereferenced all the same, nothing
\* catches what parse() throws, and when it loops the thread never comes back.
ReadRequest(c) ==
    /\ stage[c] = "read"
    /\ CASE Parsed(kind[c]) = "request" -> Goes(c, "respond") /\ UNCHANGED crashed
         [] Parsed(kind[c]) = "loops" -> Goes(c, "looping") /\ UNCHANGED crashed
         [] OTHER -> crashed' = TRUE /\ UNCHANGED stage
    /\ UNCHANGED <<serve, isActive, owner, kind, wire, cut, jobs, poolVars>>

\* A write to the socket, which does not block: it may fail after a part of it.
\* Each handler begins by ignoring SIGPIPE, so a client that has gone is one more
\* failure and not the end of the process.
Sent(c, what) ==
    \/ wire' = [wire EXCEPT ![c] = Append(@, what)] /\ UNCHANGED cut
    \/ cut' = [cut EXCEPT ![c] = TRUE] /\ UNCHANGED wire

\* onRequest() and the write of its response, whose failure is only logged.
Respond(c) ==
    /\ stage[c] = "respond"
    /\ Sent(c, "answer")
    /\ Goes(c, IF HasEvents(c) THEN "push" ELSE "close")
    /\ UNCHANGED <<serve, isActive, owner, kind, jobs, crashed, poolVars>>

\* afterResponse(): the handler function pushes events ...
PushEvent(c) ==
    /\ stage[c] = "push"
    /\ Len(wire[c]) <= MaxEvents
    /\ Sent(c, "event")
    /\ UNCHANGED <<serve, isActive, owner, stage, kind, jobs, crashed, poolVars>>

\* ... and the destructor of the HttpServerEvent writes one more response.
EndEvents(c) ==
    /\ stage[c] = "push"
    /\ Sent(c, "204")
    /\ Goes(c, "close")
    /\ UNCHANGED <<serve, isActive, owner, kind, jobs, crashed, poolVars>>

\* d_reader->close() and d_writer->close(), the same socket; the job is done.
CloseConn(s) ==
    /\ running[s] # Pool!Idle
    /\ stage[Served(s)] = "close"
    /\ Goes(Served(s), "closed")
    /\ running' = [running EXCEPT ![s] = Pool!Idle]
    /\ Pool!Finish
    /\ UNCHANGED <<serve, isActive, owner, kind, wire, cut, jobs, crashed>>

-----------------------------------------------------------------------------
(***************************************************************************)
(* stop(): d_isActive = false, d_handlerPool.close(), d_handlerPool.wait().*)
(***************************************************************************)
StopServing ==
    /\ CanStop
    /\ owner = "idle"
    /\ isActive' = FALSE
    /\ owner' = "close"
    /\ UNCHANGED <<serve, connVars, jobs, crashed, poolVars>>

ClosePool ==
    /\ owner = "close"
    /\ Pool!Stop
    /\ owner' = "wait"
    /\ UNCHANGED <<serve, isActive, connVars, jobs, crashed>>

WaitPool ==
    /\ owner = "wait"
    /\ Pool!Terminate
    /\ owner' = "stopped"
    /\ UNCHANGED <<serve, isActive, connVars, jobs, crashed>>

-----------------------------------------------------------------------------
ServeStep == Setup \/ CheckActive \/ AcceptConn \/ AcceptFails
             \/ \E c \in Conns : EnqueueHandler(c) \/ HandlerRefused(c)
HandlerStep(c) == ReadRequest(c) \/ Respond(c) \/ PushEvent(c) \/ EndEvents(c)
StopStep == ClosePool \/ WaitPool

Next ==
    /\ ~crashed /\ ~failed
    /\ \/ ServeStep
       \/ \E c \in Conns : Connect(c) \/ HandlerStep(c)
       \/ StartHandler \/ PoolFails
       \/ \E s \in Slots : CloseConn(s)
       \/ StopServing \/ StopStep

Spec == Init /\ [][Next]_vars

(***************************************************************************)
(* The serving thread and the pool's threads run; handler functions return.*)
(* That a queued handler is started is what ThreadPool's AcceptedJobRuns   *)
(* says, with what it excepts: a pool that has failed or whose mutex is    *)
(* leaked, and a job that came behind the stop.  Nobody has to connect or  *)
(* to stop the server, and stop() need not return.                         *)
(***************************************************************************)
Lives == ~crashed /\ ~failed

Fairness ==
    /\ WF_vars(Lives /\ ServeStep)
    /\ WF_vars(Lives /\ (stopped => started < owed) /\ StartHandler)
    /\ \A c \in Conns : WF_vars(Lives /\ HandlerStep(c))
    /\ \A s \in Slots : WF_vars(Lives /\ CloseConn(s))

FairSpec == Spec /\ Fairness

-----------------------------------------------------------------------------
Stages == {"none", "backlog", "accepted", "queued", "refused", "closed"} \cup Handled

TypeOK ==
    /\ serve \in {"setup", "check", "accept", "enqueue", "returned"}
    /\ isActive \in BOOLEAN /\ crashed \in BOOLEAN
    /\ owner \in {"idle", "close", "wait", "stopped"}
    /\ stage \in [Conns -> Stages]
    /\ kind \in [Conns -> Kinds]
    /\ wire \in [Conns -> Seq({"answer", "event", "204"})]
    /\ cut \in [Conns -> BOOLEAN]
    /\ jobs \in Seq(Conns) /\ Len(jobs) = accepted
    /\ running \in [Slots -> 0..accepted]

\* Every open connection is in somebody's hands: the accept loop's, the pool's
\* queue, one running handler's; or the stopping pool refused it and nobody will
\* ever close it.
OpenIsOwned ==
    \A c \in Conns :
        /\ stage[c] = "accepted" => serve = "enqueue"
        /\ stage[c] = "queued" <=> \E j \in (started + 1)..accepted : jobs[j] = c
        /\ stage[c] \in Handled <=> \E s \in Slots : running[s] # 0 /\ Served(s) = c
        /\ stage[c] = "refused" => stopped

\* When stop() has returned no handler is running and every connection whose
\* job was queued at the stop is closed.  At most one connection is abandoned,
\* unless serve() switched the server on again after stop() had switched it off.
StopLeavesOneConnection ==
    owner = "stopped" =>
        /\ \A c \in Conns : stage[c] \notin Handled
        /\ \A j \in 1..owed : stage[jobs[j]] = "closed"
        /\ ~isActive => Cardinality(Open) <= 1

\* A client that lost nothing has got exactly one answer, or an answer, events
\* and the closing answer of the event stream.
ClosedIsComplete ==
    \A c \in Conns : stage[c] = "closed" /\ ~cut[c] =>
        /\ wire[c][1] = "answer"
        /\ HasEvents(c) => wire[c][Len(wire[c])] = "204" /\ Len(wire[c]) > 1
        /\ ~HasEvents(c) => Len(wire[c]) = 1

\* A connection the pool has taken is answered and closed in the end: other
\* connections, however many, do not keep its handler from running, unless one of
\* them ended the process or left every thread of the pool looping.  After a stop
\* this holds of the jobs the pool owes, as long as no connection that came late
\* was refused: that one leaves the pool's mutex locked, and none of the
\* connections that are still queued is ever answered.
QueuedIsClosed ==
    \A c \in Conns : stage[c] = "queued" ~>
        \/ stage[c] = "closed" \/ crashed \/ failed
        \/ Cardinality({d \in Conns : stage[d] = "looping"}) >= Cardinality(Slots)
        \/ stage[c] = "looping"
        \/ MutexLeaked
        \/ stopped /\ \E j \in (owed + 1)..accepted : jobs[j] = c

\* What the handler's error path says: an incomplete request is an error it
\* logs, not the end of the process.
ServerSurvives == ~crashed
=============================================================================
