-------------------------- MODULE HttpServerProofs --------------------------
(***************************************************************************)
(* The safety properties of HttpServer, proved for any number of clients,  *)
(* threads, descriptors and events, and whether or not anybody stops it.   *)
(*                                                                         *)
(* OpenIsOwned needs that a connection has one job and a job one thread    *)
(* (JobsOK).  What stop() leaves is counted through what it does not wait  *)
(* for: LateOK says that there is at most one such connection, and that    *)
(* serve() has it in hand before it takes another.  ClosedIsComplete is    *)
(* the last stage of what a connection has been sent at each one (WireOK). *)
(*                                                                         *)
(* ConnectionsGetOn is the safety part of QueuedIsClosed: Left measures    *)
(* how far a connection the pool has taken is from being closed.           *)
(***************************************************************************)
EXTENDS HttpServer, Integers, FiniteSetTheorems, TLAPS

PoolOK ==
    /\ accepted \in Nat /\ started \in Nat /\ owed \in Nat
    /\ started <= accepted /\ owed <= accepted
    /\ running \in [Slots -> 0..started]
    /\ stopped \in BOOLEAN /\ terminated \in BOOLEAN

\* No connection has two jobs, and no job two threads.
JobsOK ==
    /\ \A i, j \in 1..accepted : jobs[i] = jobs[j] => i = j
    /\ \A s, t \in Slots : running[s] # 0 /\ running[s] = running[t] => s = t
    /\ \A j \in 1..started : stage[jobs[j]] = "closed" \/ \E s \in Slots : running[s] = j
    /\ \A c, d \in Conns : stage[c] = "accepted" /\ stage[d] = "accepted" => c = d

StopOK ==
    /\ stopped <=> owner \in {"wait", "stopped"}
    /\ terminated <=> owner = "stopped"
    /\ terminated => owed <= started /\ \A s \in Slots : running[s] = 0

\* What stop() does not wait for: a connection on its way into the pool, one the
\* pool has refused and one whose job came after the stop.
Late(c) ==
    \/ stage[c] \in {"accepted", "refused"}
    \/ \E j \in (owed + 1)..accepted : jobs[j] = c /\ stage[c] # "closed"

LateOK ==
    stopped /\ ~isActive =>
        /\ \A c, d \in Conns : Late(c) /\ Late(d) => c = d
        /\ serve = "accept" => \A c \in Conns : ~Late(c)
        /\ serve = "enqueue" => \A c \in Conns : Late(c) => stage[c] = "accepted"

\* What a connection has been sent, stage by stage.
WireOf(c) ==
    /\ stage[c] \notin {"push", "close", "closed"} => wire[c] = <<>>
    /\ stage[c] = "push" => HasEvents(c)
    /\ stage[c] = "push" /\ ~cut[c] => Len(wire[c]) >= 1 /\ wire[c][1] = "answer"
    /\ stage[c] \in {"close", "closed"} /\ ~cut[c] =>
          /\ Len(wire[c]) >= 1 /\ wire[c][1] = "answer"
          /\ HasEvents(c) => Len(wire[c]) > 1 /\ wire[c][Len(wire[c])] = "204"
          /\ ~HasEvents(c) => Len(wire[c]) = 1

WireOK == \A c \in Conns : WireOf(c)

IInv == TypeOK /\ PoolOK /\ JobsOK /\ OpenIsOwned /\ StopOK /\ LateOK /\ WireOK

\* A connection that is not yet, or never will be, in the pool has no job.
LEMMA HasNoJob ==
    ASSUME TypeOK, PoolOK, JobsOK, OpenIsOwned, NEW c \in Conns,
           stage[c] \in {"none", "backlog", "accepted", "refused"}
    PROVE  \A j \in 1..accepted : jobs[j] # c
<1> SUFFICES ASSUME NEW j \in 1..accepted, jobs[j] = c PROVE FALSE
  OBVIOUS
<1>1. CASE j > started
  <2>1. j \in (started + 1)..accepted
    BY <1>1 DEF PoolOK
  <2> QED
    BY <2>1 DEF OpenIsOwned
<1>2. CASE j <= started
  <2>1. j \in 1..started /\ j # 0
    BY <1>2 DEF PoolOK
  <2>2. PICK s \in Slots : running[s] = j
    BY <2>1 DEF JobsOK
  <2>3. running[s] # 0 /\ Served(s) = c
    BY <2>1, <2>2 DEF Served
  <2>4. stage[c] \in Handled
    BY <2>3 DEF OpenIsOwned
  <2> QED
    BY <2>4 DEF Handled
<1> QED
  BY <1>1, <1>2 DEF PoolOK

\* A write sends one message or cuts the connection.
LEMMA SentType ==
    ASSUME TypeOK, NEW c \in Conns, NEW m \in {"answer", "event", "204"}, Sent(c, m)
    PROVE  /\ wire' \in [Conns -> Seq({"answer", "event", "204"})]
           /\ cut' \in [Conns -> BOOLEAN]
           /\ \A d \in Conns : d # c => wire'[d] = wire[d] /\ cut'[d] = cut[d]
           /\ ~cut'[c] => ~cut[c] /\ wire'[c] = Append(wire[c], m)
<1>1. CASE wire' = [wire EXCEPT ![c] = Append(@, m)] /\ UNCHANGED cut
  <2>1. Append(wire[c], m) \in Seq({"answer", "event", "204"})
    BY DEF TypeOK
  <2> QED
    BY <1>1, <2>1 DEF TypeOK
<1>2. CASE cut' = [cut EXCEPT ![c] = TRUE] /\ UNCHANGED wire
  BY <1>2 DEF TypeOK
<1> QED
  BY <1>1, <1>2 DEF Sent

LEMMA InitInv == Init => IInv
<1> SUFFICES ASSUME Init PROVE IInv
  OBVIOUS
<1> USE DEF Init, Pool!Init, Pool!Idle
<1>1. TypeOK
  <2>1. stage \in [Conns -> Stages] /\ kind \in [Conns -> Kinds]
    BY DEF Stages, Kinds
  <2>2. jobs \in Seq(Conns) /\ Len(jobs) = 0
    OBVIOUS
  <2>3. wire \in [Conns -> Seq({"answer", "event", "204"})] /\ cut \in [Conns -> BOOLEAN]
    OBVIOUS
  <2>4. running \in [Slots -> 0..0]
    OBVIOUS
  <2> QED
    BY <2>1, <2>2, <2>3, <2>4 DEF TypeOK
<1>2. PoolOK
  <2>1. running \in [Slots -> 0..started]
    OBVIOUS
  <2>2. /\ accepted \in Nat /\ started \in Nat /\ owed \in Nat
        /\ started <= accepted /\ owed <= accepted
    OBVIOUS
  <2>3. stopped \in BOOLEAN /\ terminated \in BOOLEAN
    BY Zenon
  <2> QED
    BY <2>1, <2>2, <2>3, Zenon DEF PoolOK
<1>6. StopOK /\ LateOK
  BY DEF StopOK, LateOK
<1>5. JobsOK
  BY DEF JobsOK
<1>3. OpenIsOwned
  BY DEF OpenIsOwned, Handled
<1>4. WireOK
  BY DEF WireOK, WireOf
<1> QED
  BY <1>1, <1>2, <1>3, <1>4, <1>5, <1>6 DEF IInv

LEMMA TypeInv == TypeOK /\ PoolOK /\ Next => TypeOK' /\ PoolOK'
<1> SUFFICES ASSUME TypeOK, PoolOK, Next PROVE TypeOK' /\ PoolOK'
  OBVIOUS
<1>a. \A c \in Conns : \A st \in Stages : [stage EXCEPT ![c] = st] \in [Conns -> Stages]
  BY DEF TypeOK
<1>b. {"accepted", "refused", "queued", "closed", "backlog"} \cup Handled \subseteq Stages
  BY DEF Stages
<1>1. CASE Setup \/ CheckActive \/ AcceptFails \/ StopServing \/ PoolFails
  BY <1>1 DEF TypeOK, PoolOK, Setup, CheckActive, AcceptFails, StopServing, PoolFails, connVars, poolVars
<1>2. CASE AcceptConn
  BY <1>2, <1>a, <1>b DEF TypeOK, PoolOK, AcceptConn, poolVars, Goes, Backlog
<1>3. ASSUME NEW c \in Conns, EnqueueHandler(c) PROVE TypeOK' /\ PoolOK'
  <2>1. /\ jobs' = Append(jobs, c) /\ accepted' = accepted + 1 /\ stage' = [stage EXCEPT ![c] = "queued"]
        /\ serve' = "check"
        /\ UNCHANGED <<isActive, owner, kind, wire, cut, crashed, started, running, stopped, owed, terminated>>
    BY <1>3 DEF EnqueueHandler, Pool!Accept, Goes
  <2>2. jobs' \in Seq(Conns) /\ Len(jobs') = Len(jobs) + 1
    BY <2>1 DEF TypeOK
  <2>3. running \in [Slots -> 0..(accepted + 1)]
    BY DEF TypeOK, PoolOK
  <2> QED
    BY <2>1, <2>2, <2>3, <1>a, <1>b DEF TypeOK, PoolOK
<1>4. ASSUME NEW c \in Conns, HandlerRefused(c) PROVE TypeOK' /\ PoolOK'
  BY <1>4, <1>a, <1>b DEF TypeOK, PoolOK, HandlerRefused, poolVars, Goes
<1>5. ASSUME NEW c \in Conns, Connect(c) PROVE TypeOK' /\ PoolOK'
  BY <1>5, <1>a, <1>b DEF TypeOK, PoolOK, Connect, poolVars, Goes
<1>6. ASSUME NEW c \in Conns, ReadRequest(c) PROVE TypeOK' /\ PoolOK'
  BY <1>6, <1>a, <1>b DEF TypeOK, PoolOK, ReadRequest, poolVars, Goes, Handled
<1>7. ASSUME NEW c \in Conns, Respond(c) \/ EndEvents(c) \/ PushEvent(c) PROVE TypeOK' /\ PoolOK'
  <2>1. PICK m \in {"answer", "event", "204"} : Sent(c, m)
    BY <1>7 DEF Respond, EndEvents, PushEvent
  <2>2. stage' \in [Conns -> Stages]
    BY <1>7, <1>a, <1>b DEF Respond, EndEvents, PushEvent, Goes, Handled, TypeOK
  <2>3. UNCHANGED <<serve, isActive, owner, kind, jobs, crashed, poolVars>>
    BY <1>7 DEF Respond, EndEvents, PushEvent
  <2> QED
    BY <2>1, <2>2, <2>3, SentType DEF TypeOK, PoolOK, poolVars
<1>8. CASE StartHandler
  <2>1. PICK s \in Slots : running[s] = 0 /\ running' = [running EXCEPT ![s] = started + 1]
    BY <1>8 DEF StartHandler, Pool!Start, Pool!Idle
  <2>2. /\ started < accepted /\ started' = started + 1
        /\ stage' = [stage EXCEPT ![jobs[started + 1]] = "read"]
        /\ UNCHANGED <<serve, isActive, owner, kind, wire, cut, jobs, crashed, accepted, stopped, owed, terminated>>
    BY <1>8 DEF StartHandler, Pool!Start, Goes
  <2>3. jobs[started + 1] \in Conns
    BY <2>2 DEF TypeOK, PoolOK
  <2>4. stage' \in [Conns -> Stages]
    BY <2>2, <2>3, <1>a, <1>b DEF Handled
  <2>5. running' \in [Slots -> 0..(started + 1)] /\ running' \in [Slots -> 0..accepted]
    BY <2>1, <2>2 DEF PoolOK
  <2> QED
    BY <2>2, <2>4, <2>5 DEF TypeOK, PoolOK
<1>9. ASSUME NEW s \in Slots, CloseConn(s) PROVE TypeOK' /\ PoolOK'
  <2>1. /\ running[s] # 0 /\ running' = [running EXCEPT ![s] = 0]
        /\ stage' = [stage EXCEPT ![jobs[running[s]]] = "closed"]
        /\ UNCHANGED <<serve, isActive, owner, kind, wire, cut, jobs, crashed, accepted, started, stopped, owed, terminated>>
    BY <1>9 DEF CloseConn, Pool!Idle, Pool!Finish, Goes, Served
  <2>2. running[s] \in 1..accepted
    BY <2>1 DEF TypeOK
  <2>3. jobs[running[s]] \in Conns
    BY <2>2 DEF TypeOK
  <2>4. stage' \in [Conns -> Stages]
    BY <2>1, <2>3, <1>a, <1>b
  <2>5. running' \in [Slots -> 0..started] /\ running' \in [Slots -> 0..accepted]
    BY <2>1 DEF PoolOK
  <2> QED
    BY <2>1, <2>4, <2>5 DEF TypeOK, PoolOK
<1>10. CASE ClosePool
  BY <1>10 DEF TypeOK, PoolOK, ClosePool, Pool!Stop, connVars
<1>11. CASE WaitPool
  BY <1>11 DEF TypeOK, PoolOK, WaitPool, Pool!Terminate, connVars
<1> QED
  BY <1>1, <1>2, <1>3, <1>4, <1>5, <1>6, <1>7, <1>8, <1>9, <1>10, <1>11
    DEF Next, ServeStep, HandlerStep, StopStep

\* Who holds which connection.
Places == JobsOK /\ OpenIsOwned

LEMMA PlacesInv ==
    ASSUME TypeOK, PoolOK, StopOK, Places, Next
    PROVE  Places'
<1>t. stage \in [Conns -> Stages]
  BY DEF TypeOK
<1>1. CASE Setup \/ CheckActive \/ AcceptFails \/ StopServing \/ WaitPool \/ PoolFails
  BY <1>1 DEF Places, JobsOK, OpenIsOwned, Served, Setup, CheckActive, AcceptFails, StopServing, PoolFails,
      WaitPool, Pool!Terminate, connVars, poolVars
<1>2. CASE ClosePool
  BY <1>2 DEF Places, JobsOK, OpenIsOwned, Served, ClosePool, Pool!Stop, connVars
<1>3. ASSUME NEW c \in Conns, NEW st \in {"backlog", "accepted", "refused"},
             stage[c] \in {"none", "backlog", "accepted"}, stage' = [stage EXCEPT ![c] = st],
             UNCHANGED <<jobs, accepted, started, running, stopped>>,
             st = "accepted" => serve' = "enqueue" /\ \A d \in Conns : stage[d] # "accepted",
             st # "accepted" => serve' = serve \/ stage[c] = "accepted",
             st = "refused" => stopped
      PROVE  Places'
  <2>1. \A d \in Conns : stage'[d] = IF d = c THEN st ELSE stage[d]
    BY <1>3, <1>t
  <2>2. \A j \in 1..accepted : jobs[j] # c
    BY <1>3, HasNoJob DEF Places
  <2>3. JobsOK'
    <3>1. \A j \in 1..started : jobs[j] \in Conns /\ j \in 1..accepted
      BY DEF TypeOK, PoolOK
    <3> QED
      BY <1>3, <2>1, <2>2, <3>1 DEF Places, JobsOK
  <2>4. ASSUME NEW d \in Conns
        PROVE  /\ (stage[d] = "accepted" => serve = "enqueue")'
               /\ (stage[d] = "queued" <=> \E j \in (started + 1)..accepted : jobs[j] = d)'
               /\ (stage[d] \in Handled <=> \E s \in Slots : running[s] # 0 /\ Served(s) = d)'
               /\ (stage[d] = "refused" => stopped)'
    <3>1. CASE d = c
      <4>1. stage'[d] = st
        BY <2>1, <3>1
      <4>2. ~\E j \in (started + 1)..accepted : jobs[j] = d
        BY <2>2, <3>1 DEF PoolOK
      <4>3. ~\E s \in Slots : running[s] # 0 /\ Served(s) = d
        BY <2>2, <3>1 DEF PoolOK, Served, TypeOK
      <4> QED
        BY <1>3, <4>1, <4>2, <4>3 DEF Handled, Served
    <3>2. CASE d # c
      <4>1. stage'[d] = stage[d]
        BY <2>1, <3>2
      <4>2. stage[d] = "accepted" => serve' = "enqueue"
        BY <1>3, <3>2 DEF Places, JobsOK, OpenIsOwned
      <4> QED
        BY <1>3, <4>1, <4>2 DEF Places, OpenIsOwned, Served
    <3> QED
      BY <3>1, <3>2
  <2> QED
    BY <2>3, <2>4 DEF Places, OpenIsOwned
<1>4. CASE AcceptConn
  <2>1. PICK c \in Conns : stage[c] = "backlog" /\ stage' = [stage EXCEPT ![c] = "accepted"]
    BY <1>4 DEF AcceptConn, Backlog, Goes
  <2>2. \A d \in Conns : stage[d] # "accepted"
    BY <1>4 DEF AcceptConn, Places, OpenIsOwned
  <2> QED
    BY <1>3, <1>4, <2>1, <2>2 DEF AcceptConn, poolVars
<1>5. ASSUME NEW c \in Conns, Connect(c) PROVE Places'
  BY <1>3, <1>5 DEF Connect, Goes, poolVars
<1>6. ASSUME NEW c \in Conns, HandlerRefused(c) PROVE Places'
  BY <1>3, <1>6 DEF HandlerRefused, Goes, poolVars
<1>7. ASSUME NEW c \in Conns, EnqueueHandler(c) PROVE Places'
  <2>1. /\ stage[c] = "accepted" /\ serve' = "check"
        /\ jobs' = Append(jobs, c) /\ accepted' = accepted + 1
        /\ stage' = [stage EXCEPT ![c] = "queued"]
        /\ UNCHANGED <<started, running, stopped>>
    BY <1>7 DEF EnqueueHandler, Pool!Accept, Goes
  <2>2. \A d \in Conns : stage'[d] = IF d = c THEN "queued" ELSE stage[d]
    BY <2>1, <1>t
  <2>3. \A j \in 1..accepted : jobs[j] # c /\ jobs'[j] = jobs[j]
    BY <2>1, HasNoJob DEF Places, TypeOK
  <2>4. jobs'[accepted + 1] = c
    BY <2>1 DEF TypeOK
  <2>5. \A j \in 1..(accepted + 1) : j \in 1..accepted \/ j = accepted + 1
    BY DEF PoolOK
  <2>6. \A s \in Slots : running[s] # 0 => running[s] \in 1..accepted /\ running[s] \in 1..started
    BY DEF TypeOK, PoolOK
  <2>7. JobsOK'
    <3>1. \A i, j \in 1..(accepted + 1) : jobs'[i] = jobs'[j] => i = j
      BY <2>3, <2>4, <2>5 DEF Places, JobsOK
    <3>2. \A j \in 1..started : jobs[j] \in Conns /\ jobs[j] # c /\ jobs'[j] = jobs[j]
      BY <2>3 DEF TypeOK, PoolOK
    <3>3. \A j \in 1..started : stage'[jobs'[j]] = "closed" \/ \E s \in Slots : running[s] = j
      BY <2>2, <3>2 DEF Places, JobsOK
    <3>4. \A d, e \in Conns : stage'[d] = "accepted" /\ stage'[e] = "accepted" => d = e
      BY <2>2 DEF Places, JobsOK
    <3>5. \A s, t \in Slots : running[s] # 0 /\ running[s] = running[t] => s = t
      BY DEF Places, JobsOK
    <3> QED
      BY <2>1, <3>1, <3>3, <3>4, <3>5 DEF JobsOK
  <2>8. ASSUME NEW d \in Conns
        PROVE  /\ (stage[d] = "accepted" => serve = "enqueue")'
               /\ (stage[d] = "queued" <=> \E j \in (started + 1)..accepted : jobs[j] = d)'
               /\ (stage[d] \in Handled <=> \E s \in Slots : running[s] # 0 /\ Served(s) = d)'
               /\ (stage[d] = "refused" => stopped)'
    <3>1. \A s \in Slots : running[s] # 0 => jobs'[running[s]] = jobs[running[s]]
      BY <2>3, <2>6
    <3>2. CASE d = c
      <4>1. stage'[d] = "queued"
        BY <2>2, <3>2
      <4>2. accepted + 1 \in (started + 1)..(accepted + 1)
        BY DEF PoolOK
      <4>3. ~\E s \in Slots : running[s] # 0 /\ jobs'[running[s]] = d
        BY <2>3, <2>6, <3>1, <3>2
      <4> QED
        BY <2>1, <2>4, <3>2, <4>1, <4>2, <4>3 DEF Handled, Served
    <3>3. CASE d # c
      <4>1. stage'[d] = stage[d]
        BY <2>2, <3>3
      <4>2. stage[d] # "accepted"
        BY <2>1, <3>3 DEF Places, JobsOK
      <4>3. (\E j \in (started + 1)..accepted : jobs[j] = d)
              <=> \E j \in (started + 1)..(accepted + 1) : jobs'[j] = d
        BY <2>3, <2>4, <2>5, <3>3 DEF PoolOK
      <4>4. (\E s \in Slots : running[s] # 0 /\ jobs[running[s]] = d)
              <=> \E s \in Slots : running[s] # 0 /\ jobs'[running[s]] = d
        BY <3>1
      <4> QED
        BY <2>1, <4>1, <4>2, <4>3, <4>4 DEF Places, OpenIsOwned, Served
    <3> QED
      BY <3>2, <3>3
  <2> QED
    BY <2>7, <2>8 DEF Places, OpenIsOwned
<1>8. ASSUME NEW c \in Conns, HandlerStep(c) PROVE Places'
  <2>1. /\ stage[c] \in Handled
        /\ \E st \in Handled : stage' = [stage EXCEPT ![c] = st]
        /\ UNCHANGED <<serve, jobs, accepted, started, running, stopped>>
    BY <1>8, <1>t DEF HandlerStep, ReadRequest, Respond, PushEvent, EndEvents, Goes, Handled, poolVars
  <2>2. \A d \in Conns : /\ stage'[d] \in Handled <=> stage[d] \in Handled
                         /\ stage[d] \notin Handled => stage'[d] = stage[d]
    BY <2>1, <1>t
  <2>3. \A d \in Conns : \A st \in {"closed", "accepted", "queued", "refused"} :
            stage'[d] = st <=> stage[d] = st
    BY <2>2 DEF Handled
  <2>4. \A j \in 1..started : jobs[j] \in Conns
    BY DEF TypeOK, PoolOK
  <2>5. JobsOK'
    BY <2>1, <2>3, <2>4 DEF Places, JobsOK
  <2>6. OpenIsOwned'
    BY <2>1, <2>2, <2>3 DEF Places, OpenIsOwned, Served
  <2> QED
    BY <2>5, <2>6 DEF Places
<1>9. CASE StartHandler
  <2> DEFINE n == started + 1
             c == jobs[n]
  <2>1. PICK s \in Slots : running[s] = 0 /\ running' = [running EXCEPT ![s] = n]
    BY <1>9 DEF StartHandler, Pool!Start, Pool!Idle
  <2>2. /\ started < accepted /\ started' = n
        /\ stage' = [stage EXCEPT ![c] = "read"]
        /\ UNCHANGED <<serve, jobs, accepted, stopped>>
    BY <1>9 DEF StartHandler, Pool!Start, Goes
  <2>3. n \in 1..accepted /\ n \in (started + 1)..accepted /\ c \in Conns
    BY <2>2 DEF TypeOK, PoolOK
  <2>4. \A d \in Conns : stage'[d] = IF d = c THEN "read" ELSE stage[d]
    BY <2>2, <2>3, <1>t
  <2>5. \A t \in Slots : running'[t] = IF t = s THEN n ELSE running[t]
    BY <2>1 DEF PoolOK
  <2>6. \A t \in Slots : running[t] \in 0..started /\ running[t] # n
    BY DEF PoolOK
  <2>7. stage[c] = "queued"
    BY <2>3 DEF Places, OpenIsOwned
  <2>8. JobsOK'
    <3>1. \A i, j \in 1..accepted : jobs[i] = jobs[j] => i = j
      BY DEF Places, JobsOK
    <3>2. \A t, u \in Slots : running'[t] # 0 /\ running'[t] = running'[u] => t = u
      BY <2>5, <2>6 DEF Places, JobsOK
    <3>3. ASSUME NEW j \in 1..n
          PROVE  stage'[jobs[j]] = "closed" \/ \E t \in Slots : running'[t] = j
      <4>1. CASE j = n
        BY <2>5, <4>1
      <4>2. CASE j # n
        <5>1. j \in 1..started /\ j \in 1..accepted
          BY <4>2 DEF PoolOK
        <5>2. jobs[j] \in Conns /\ jobs[j] # c
          BY <2>3, <3>1, <4>2, <5>1 DEF TypeOK
        <5>3. stage[jobs[j]] = "closed" \/ \E t \in Slots : running[t] = j
          BY <5>1 DEF Places, JobsOK
        <5> QED
          BY <2>1, <2>4, <2>5, <5>1, <5>2, <5>3
      <4> QED
        BY <4>1, <4>2
    <3>4. \A d, e \in Conns : stage'[d] = "accepted" /\ stage'[e] = "accepted" => d = e
      BY <2>4 DEF Places, JobsOK
    <3> QED
      BY <2>2, <3>1, <3>2, <3>3, <3>4 DEF JobsOK
  <2>9. ASSUME NEW d \in Conns
        PROVE  /\ (stage[d] = "accepted" => serve = "enqueue")'
               /\ (stage[d] = "queued" <=> \E j \in (started + 1)..accepted : jobs[j] = d)'
               /\ (stage[d] \in Handled <=> \E t \in Slots : running[t] # 0 /\ Served(t) = d)'
               /\ (stage[d] = "refused" => stopped)'
    <3>1. \A j \in (started + 1)..accepted : j = n \/ j \in (n + 1)..accepted
      BY DEF PoolOK
    <3>2. \A j \in (n + 1)..accepted : j \in (started + 1)..accepted /\ j # n /\ j \in 1..accepted
      BY DEF PoolOK
    <3>3. CASE d = c
      <4>1. stage'[d] = "read"
        BY <2>4, <3>3
      <4>2. ~\E j \in (n + 1)..accepted : jobs[j] = d
        BY <2>3, <3>2, <3>3 DEF Places, JobsOK
      <4>3. running'[s] # 0 /\ jobs[running'[s]] = d
        BY <2>3, <2>5, <3>3
      <4> QED
        BY <2>2, <4>1, <4>2, <4>3 DEF Handled, Served
    <3>4. CASE d # c
      <4>1. stage'[d] = stage[d]
        BY <2>4, <3>4
      <4>2. (\E j \in (started + 1)..accepted : jobs[j] = d) <=> \E j \in (n + 1)..accepted : jobs[j] = d
        BY <3>1, <3>2, <3>4
      <4>3. (\E t \in Slots : running[t] # 0 /\ jobs[running[t]] = d)
              <=> \E t \in Slots : running'[t] # 0 /\ jobs[running'[t]] = d
        BY <2>1, <2>5, <3>4
      <4> QED
        BY <2>2, <4>1, <4>2, <4>3 DEF Places, OpenIsOwned, Served
    <3> QED
      BY <3>3, <3>4
  <2> QED
    BY <2>8, <2>9 DEF Places, OpenIsOwned
<1>10. ASSUME NEW s \in Slots, CloseConn(s) PROVE Places'
  <2> DEFINE n == running[s]
             c == jobs[n]
  <2>1. /\ n # 0 /\ running' = [running EXCEPT ![s] = 0]
        /\ stage[c] = "close" /\ stage' = [stage EXCEPT ![c] = "closed"]
        /\ UNCHANGED <<serve, jobs, accepted, started, stopped>>
    BY <1>10 DEF CloseConn, Pool!Idle, Pool!Finish, Goes, Served
  <2>2. n \in 1..started /\ n \in 1..accepted /\ c \in Conns
    BY <2>1 DEF TypeOK, PoolOK
  <2>3. \A d \in Conns : stage'[d] = IF d = c THEN "closed" ELSE stage[d]
    BY <2>1, <2>2, <1>t
  <2>4. \A t \in Slots : running'[t] = IF t = s THEN 0 ELSE running[t]
    BY <2>1 DEF PoolOK
  <2>5. \A t \in Slots : running[t] # 0 /\ t # s =>
            running[t] \in 1..accepted /\ running[t] # n /\ jobs[running[t]] # c
    <3>1. \A t \in Slots : running[t] # 0 /\ t # s => running[t] \in 1..accepted /\ running[t] # n
      BY <2>1 DEF TypeOK, PoolOK, Places, JobsOK
    <3> QED
      BY <2>2, <3>1 DEF Places, JobsOK
  <2>6. JobsOK'
    <3>1. \A t, u \in Slots : running'[t] # 0 /\ running'[t] = running'[u] => t = u
      BY <2>4 DEF Places, JobsOK
    <3>2. ASSUME NEW j \in 1..started
          PROVE  stage'[jobs[j]] = "closed" \/ \E t \in Slots : running'[t] = j
      <4>1. CASE j = n
        BY <2>2, <2>3, <4>1
      <4>2. CASE j # n
        <5>1. jobs[j] \in Conns
          BY DEF TypeOK, PoolOK
        <5>2. stage[jobs[j]] = "closed" \/ \E t \in Slots : running[t] = j
          BY DEF Places, JobsOK
        <5> QED
          BY <2>3, <2>4, <4>2, <5>1, <5>2
      <4> QED
        BY <4>1, <4>2
    <3>3. \A d, e \in Conns : stage'[d] = "accepted" /\ stage'[e] = "accepted" => d = e
      BY <2>3 DEF Places, JobsOK
    <3> QED
      BY <2>1, <3>1, <3>2, <3>3 DEF Places, JobsOK
  <2>7. ASSUME NEW d \in Conns
        PROVE  /\ (stage[d] = "accepted" => serve = "enqueue")'
               /\ (stage[d] = "queued" <=> \E j \in (started + 1)..accepted : jobs[j] = d)'
               /\ (stage[d] \in Handled <=> \E t \in Slots : running[t] # 0 /\ Served(t) = d)'
               /\ (stage[d] = "refused" => stopped)'
    <3>1. CASE d = c
      <4>1. stage'[d] = "closed" /\ stage[d] # "queued"
        BY <2>1, <2>3, <3>1
      <4>2. ~\E j \in (started + 1)..accepted : jobs[j] = d
        BY <4>1 DEF Places, OpenIsOwned
      <4>3. ~\E t \in Slots : running'[t] # 0 /\ jobs[running'[t]] = d
        BY <2>4, <2>5, <3>1
      <4> QED
        BY <2>1, <4>1, <4>2, <4>3 DEF Handled, Served
    <3>2. CASE d # c
      <4>1. stage'[d] = stage[d]
        BY <2>3, <3>2
      <4>2. (\E t \in Slots : running[t] # 0 /\ jobs[running[t]] = d)
              <=> \E t \in Slots : running'[t] # 0 /\ jobs[running'[t]] = d
        BY <2>4, <3>2
      <4> QED
        BY <2>1, <4>1, <4>2 DEF Places, OpenIsOwned, Served
    <3> QED
      BY <3>1, <3>2
  <2> QED
    BY <2>6, <2>7 DEF Places, OpenIsOwned
<1> QED
  BY <1>1, <1>2, <1>4, <1>5, <1>6, <1>7, <1>8, <1>9, <1>10 DEF Next, ServeStep, StopStep

LEMMA StopInv ==
    ASSUME TypeOK, PoolOK, StopOK, Next
    PROVE  StopOK'
<1>1. ASSUME UNCHANGED <<stopped, owner, terminated, running, started, owed>>
      PROVE  StopOK'
  BY <1>1 DEF StopOK
<1>2. CASE ServeStep
  BY <1>1, <1>2 DEF ServeStep, Setup, CheckActive, AcceptConn, AcceptFails, EnqueueHandler,
      HandlerRefused, Pool!Accept, poolVars
<1>3. ASSUME NEW c \in Conns, Connect(c) \/ HandlerStep(c) PROVE StopOK'
  BY <1>1, <1>3 DEF Connect, HandlerStep, ReadRequest, Respond, PushEvent, EndEvents, poolVars
<1>4. CASE StartHandler \/ PoolFails
  BY <1>1, <1>4 DEF StopOK, PoolOK, StartHandler, PoolFails, Pool!Start
<1>5. ASSUME NEW s \in Slots, CloseConn(s) PROVE StopOK'
  BY <1>5 DEF StopOK, PoolOK, CloseConn, Pool!Finish, Pool!Idle
<1>6. CASE StopServing
  BY <1>6 DEF StopOK, StopServing, poolVars
<1>7. CASE ClosePool
  BY <1>7 DEF StopOK, PoolOK, ClosePool, Pool!Stop
<1>8. CASE WaitPool
  <2>1. /\ owner = "wait" /\ owner' = "stopped" /\ terminated' = TRUE /\ stopped
        /\ \A s \in Slots : running[s] = 0
        /\ 1..owed \subseteq 1..started
        /\ UNCHANGED <<started, running, stopped, owed>>
    BY <1>8 DEF WaitPool, Pool!Terminate, Pool!Idle, Pool!Finished
  <2>2. owed <= started
    BY <2>1 DEF PoolOK
  <2> QED
    BY <2>1, <2>2 DEF StopOK
<1> QED
  BY <1>2, <1>3, <1>4, <1>5, <1>6, <1>7, <1>8 DEF Next, StopStep

LEMMA LateInv ==
    ASSUME TypeOK, PoolOK, StopOK, Places, LateOK, Next
    PROVE  LateOK'
<1>t. stage \in [Conns -> Stages]
  BY DEF TypeOK
\* Fewer late connections, and no closer to the next one.
<1>1. ASSUME stopped' /\ ~isActive' => stopped /\ ~isActive,
             \A d \in Conns : Late(d)' => Late(d) /\ (stage[d] = "accepted" => stage'[d] = "accepted"),
             serve' = serve \/ serve' \in {"check", "returned"}
      PROVE  LateOK'
  BY <1>1 DEF LateOK
<1>2. CASE Setup \/ AcceptFails \/ PoolFails
  BY <1>1, <1>2 DEF Setup, AcceptFails, PoolFails, connVars, poolVars, Late
<1>3. CASE CheckActive
  BY <1>3 DEF CheckActive, LateOK, connVars, poolVars, Late
<1>4. CASE StopServing
  BY <1>4 DEF StopServing, StopOK, LateOK, poolVars
<1>5. CASE WaitPool
  BY <1>1, <1>5 DEF WaitPool, Pool!Terminate, connVars, Late
<1>6. CASE ClosePool
  <2>1. ~stopped /\ owed' = accepted /\ UNCHANGED <<serve, stage, jobs, accepted>>
    BY <1>6 DEF ClosePool, Pool!Stop, connVars
  <2>2. \A d \in Conns : Late(d)' => stage[d] = "accepted"
    BY <2>1 DEF Late, PoolOK, Places, OpenIsOwned
  <2> QED
    BY <2>1, <2>2 DEF LateOK, Places, JobsOK, OpenIsOwned
<1>7. CASE AcceptConn
  <2>1. PICK c \in Conns : stage[c] = "backlog" /\ stage' = [stage EXCEPT ![c] = "accepted"]
    BY <1>7 DEF AcceptConn, Backlog, Goes
  <2>2. serve = "accept" /\ serve' = "enqueue" /\ UNCHANGED <<isActive, jobs, accepted, owed, stopped>>
    BY <1>7 DEF AcceptConn, poolVars
  <2>3. \A d \in Conns : stage'[d] = IF d = c THEN "accepted" ELSE stage[d]
    BY <2>1, <1>t
  <2>4. \A d \in Conns : d # c /\ Late(d)' => Late(d)
    BY <2>2, <2>3 DEF Late
  <2>5. stopped /\ ~isActive => \A d \in Conns : Late(d)' => d = c
    BY <2>2, <2>4 DEF LateOK
  <2> QED
    BY <2>2, <2>3, <2>5 DEF LateOK
\* serve() hands its connection over, or drops it: it is the only late one.
<1>8. ASSUME NEW c \in Conns, EnqueueHandler(c) \/ HandlerRefused(c) PROVE LateOK'
  <2>1. /\ serve = "enqueue" /\ stage[c] = "accepted" /\ serve' = "check"
        /\ \E st \in {"queued", "refused"} : stage' = [stage EXCEPT ![c] = st]
        /\ UNCHANGED <<isActive, owed, stopped>>
    BY <1>8 DEF EnqueueHandler, HandlerRefused, Pool!Accept, Goes, poolVars
  <2>2. \A d \in Conns : d # c => stage'[d] = stage[d]
    BY <2>1, <1>t
  <2>3. ASSUME NEW d \in Conns, d # c, Late(d)' PROVE Late(d)
    <3>1. CASE stage'[d] \in {"accepted", "refused"}
      BY <2>2, <2>3, <3>1 DEF Late
    <3>2. CASE ~(stage'[d] \in {"accepted", "refused"})
      <4>1. PICK j \in (owed + 1)..accepted' : jobs'[j] = d /\ stage'[d] # "closed"
        BY <2>1, <2>3, <3>2 DEF Late
      <4>2. CASE EnqueueHandler(c)
        <5>1. accepted' = accepted + 1 /\ jobs' = Append(jobs, c)
          BY <4>2 DEF EnqueueHandler, Pool!Accept
        <5>2. j # accepted + 1
          BY <2>3, <4>1, <5>1 DEF TypeOK
        <5>3. j \in (owed + 1)..accepted /\ j \in 1..accepted
          BY <4>1, <5>1, <5>2 DEF PoolOK
        <5>4. jobs[j] = d
          BY <4>1, <5>1, <5>3 DEF TypeOK
        <5> QED
          BY <2>2, <2>3, <4>1, <5>3, <5>4 DEF Late
      <4>3. CASE HandlerRefused(c)
        BY <2>2, <2>3, <4>1, <4>3 DEF HandlerRefused, poolVars, Late
      <4> QED
        BY <1>8, <4>2, <4>3
    <3> QED
      BY <3>1, <3>2
  <2>4. stopped /\ ~isActive => \A d \in Conns : Late(d)' => d = c
    <3>1. Late(c)
      BY <2>1 DEF Late
    <3> QED
      BY <2>3, <3>1 DEF LateOK
  <2> QED
    BY <2>1, <2>4 DEF LateOK
<1>9. ASSUME NEW c \in Conns, Connect(c) PROVE LateOK'
  <2>1. /\ stage[c] = "none" /\ stage' = [stage EXCEPT ![c] = "backlog"]
        /\ UNCHANGED <<serve, isActive, jobs, accepted, owed, stopped>>
    BY <1>9 DEF Connect, Goes, poolVars
  <2>2. \A d \in Conns : stage'[d] = IF d = c THEN "backlog" ELSE stage[d]
    BY <2>1, <1>t
  <2> QED
    BY <1>1, <2>1, <2>2 DEF Late
<1>10. ASSUME NEW c \in Conns, HandlerStep(c) PROVE LateOK'
  <2>1. /\ stage[c] \in Handled
        /\ \E st \in Handled : stage' = [stage EXCEPT ![c] = st]
        /\ UNCHANGED <<serve, isActive, jobs, accepted, owed, stopped>>
    BY <1>10, <1>t DEF HandlerStep, ReadRequest, Respond, PushEvent, EndEvents, Goes, Handled, poolVars
  <2>2. \A d \in Conns : \A st \in {"closed", "accepted", "refused"} : stage'[d] = st <=> stage[d] = st
    BY <2>1, <1>t DEF Handled
  <2> QED
    BY <1>1, <2>1, <2>2 DEF Late
<1>11. CASE StartHandler
  <2> DEFINE c == jobs[started + 1]
  <2>1. /\ started < accepted /\ stage' = [stage EXCEPT ![c] = "read"]
        /\ UNCHANGED <<serve, isActive, jobs, accepted, owed, stopped>>
    BY <1>11 DEF StartHandler, Pool!Start, Goes
  <2>2. started + 1 \in (started + 1)..accepted /\ c \in Conns
    BY <2>1 DEF TypeOK, PoolOK
  <2>3. stage[c] = "queued"
    BY <2>2 DEF Places, OpenIsOwned
  <2>4. \A d \in Conns : stage'[d] = IF d = c THEN "read" ELSE stage[d]
    BY <2>1, <2>2, <1>t
  <2> QED
    BY <1>1, <2>1, <2>3, <2>4 DEF Late
<1>12. ASSUME NEW s \in Slots, CloseConn(s) PROVE LateOK'
  <2> DEFINE c == jobs[running[s]]
  <2>1. /\ running[s] # 0 /\ stage[c] = "close" /\ stage' = [stage EXCEPT ![c] = "closed"]
        /\ UNCHANGED <<serve, isActive, jobs, accepted, owed, stopped>>
    BY <1>12 DEF CloseConn, Pool!Idle, Pool!Finish, Goes, Served
  <2>2. c \in Conns
    BY <2>1 DEF TypeOK
  <2>3. \A d \in Conns : stage'[d] = IF d = c THEN "closed" ELSE stage[d]
    BY <2>1, <2>2, <1>t
  <2> QED
    BY <1>1, <2>1, <2>3 DEF Late
<1> QED
  BY <1>2, <1>3, <1>4, <1>5, <1>6, <1>7, <1>8, <1>9, <1>10, <1>11, <1>12
    DEF Next, ServeStep, StopStep

\* A step that writes nothing may move a connection between stages that promise
\* the same.
LEMMA WireMoves ==
    ASSUME WireOK, NEW c \in Conns,
           wire'[c] = wire[c], cut'[c] = cut[c],
           kind'[c] = kind[c] \/ stage'[c] \notin {"push", "close", "closed"},
           \/ stage'[c] = stage[c]
           \/ stage[c] \notin {"push", "close", "closed"} /\ stage'[c] \notin {"push", "close", "closed"}
           \/ stage[c] = "close" /\ stage'[c] = "closed"
    PROVE  WireOf(c)'
BY DEF WireOK, WireOf, HasEvents

LEMMA WireInv ==
    ASSUME TypeOK, PoolOK, StopOK, Places, WireOK, Next
    PROVE  WireOK'
<1>t. stage \in [Conns -> Stages]
  BY DEF TypeOK
<1> SUFFICES ASSUME NEW c \in Conns PROVE WireOf(c)'
  BY DEF WireOK, WireOf
<1>1. CASE Setup \/ CheckActive \/ AcceptFails \/ StopServing \/ StopStep \/ PoolFails
  BY <1>1, WireMoves DEF Setup, CheckActive, AcceptFails, StopServing, StopStep, PoolFails, ClosePool,
      WaitPool, connVars
<1>2. CASE AcceptConn
  <2>1. PICK d \in Conns : stage[d] = "backlog" /\ stage' = [stage EXCEPT ![d] = "accepted"]
    BY <1>2 DEF AcceptConn, Backlog, Goes
  <2> QED
    BY <1>2, <1>t, <2>1, WireMoves DEF AcceptConn
<1>3. ASSUME NEW d \in Conns, EnqueueHandler(d) \/ HandlerRefused(d) PROVE WireOf(c)'
  BY <1>3, <1>t, WireMoves DEF EnqueueHandler, HandlerRefused, Goes
<1>4. ASSUME NEW d \in Conns, Connect(d) PROVE WireOf(c)'
  <2>1. stage[d] = "none" /\ stage' = [stage EXCEPT ![d] = "backlog"] /\ UNCHANGED <<wire, cut>>
    BY <1>4 DEF Connect, Goes
  <2>2. kind'[c] = kind[c] \/ c = d
    BY <1>4 DEF Connect, TypeOK
  <2> QED
    BY <1>t, <2>1, <2>2, WireMoves
<1>5. ASSUME NEW d \in Conns, ReadRequest(d) PROVE WireOf(c)'
  BY <1>5, <1>t, WireMoves DEF ReadRequest, Goes
<1>6. ASSUME NEW d \in Conns, Respond(d) \/ PushEvent(d) \/ EndEvents(d) PROVE WireOf(c)'
  <2>1. PICK m \in {"answer", "event", "204"} : Sent(d, m) /\ (Respond(d) => m = "answer")
                                            /\ (EndEvents(d) => m = "204")
    BY <1>6 DEF Respond, PushEvent, EndEvents
  <2>2. CASE c # d
    <3>1. wire'[c] = wire[c] /\ cut'[c] = cut[c]
      BY <2>1, <2>2, SentType
    <3>2. stage'[c] = stage[c] /\ kind' = kind
      BY <1>6, <1>t, <2>2 DEF Respond, PushEvent, EndEvents, Goes
    <3> QED
      BY <3>1, <3>2, WireMoves
  <2>3. CASE c = d
    <3>1. ~cut'[c] => ~cut[c] /\ wire'[c] = Append(wire[c], m)
      BY <2>1, <2>3, SentType
    <3>2. wire[c] \in Seq({"answer", "event", "204"}) /\ kind' = kind
      BY <1>6 DEF TypeOK, Respond, PushEvent, EndEvents
    <3>3. /\ Len(Append(wire[c], m)) = Len(wire[c]) + 1
          /\ Append(wire[c], m)[Len(wire[c]) + 1] = m
          /\ Len(wire[c]) >= 1 => Append(wire[c], m)[1] = wire[c][1]
          /\ Len(wire[c]) \in Nat
      BY <3>2
    <3>4. CASE Respond(d)
      <4>1. /\ stage[c] = "respond" /\ wire[c] = <<>> /\ m = "answer"
            /\ stage'[c] = IF HasEvents(c) THEN "push" ELSE "close"
        BY <1>t, <2>1, <2>3, <3>4 DEF Respond, Goes, WireOK, WireOf
      <4>2. ~cut'[c] => Len(wire'[c]) = 1 /\ wire'[c][1] = "answer"
        BY <3>1, <3>3, <4>1
      <4> QED
        BY <3>2, <4>1, <4>2 DEF WireOf, HasEvents
    <3>5. CASE PushEvent(d)
      <4>1. stage[c] = "push" /\ stage' = stage /\ HasEvents(c)
        BY <2>3, <3>5 DEF PushEvent, WireOK, WireOf
      <4>2. ~cut'[c] => Len(wire'[c]) >= 1 /\ wire'[c][1] = "answer"
        BY <3>1, <3>3, <4>1 DEF WireOK, WireOf
      <4> QED
        BY <3>2, <4>1, <4>2 DEF WireOf, HasEvents
    <3>6. CASE EndEvents(d)
      <4>1. stage[c] = "push" /\ stage'[c] = "close" /\ HasEvents(c) /\ m = "204"
        BY <1>t, <2>1, <2>3, <3>6 DEF EndEvents, Goes, WireOK, WireOf
      <4>2. ~cut'[c] => Len(wire'[c]) > 1 /\ wire'[c][1] = "answer" /\ wire'[c][Len(wire'[c])] = "204"
        BY <3>1, <3>3, <4>1 DEF WireOK, WireOf
      <4> QED
        BY <3>2, <4>1, <4>2 DEF WireOf, HasEvents
    <3> QED
      BY <1>6, <3>4, <3>5, <3>6
  <2> QED
    BY <2>2, <2>3
<1>7. CASE StartHandler
  <2> DEFINE d == jobs[started + 1]
  <2>1. /\ started < accepted /\ stage' = [stage EXCEPT ![d] = "read"] /\ UNCHANGED <<wire, cut, kind>>
    BY <1>7 DEF StartHandler, Pool!Start, Goes
  <2>2. started + 1 \in (started + 1)..accepted /\ d \in Conns
    BY <2>1 DEF TypeOK, PoolOK
  <2>3. stage[d] = "queued"
    BY <2>2 DEF Places, OpenIsOwned
  <2> HIDE DEF d
  <2> QED
    BY <1>t, <2>1, <2>2, <2>3, WireMoves
<1>8. ASSUME NEW s \in Slots, CloseConn(s) PROVE WireOf(c)'
  <2> DEFINE d == jobs[running[s]]
  <2>1. /\ running[s] # 0 /\ stage[d] = "close" /\ stage' = [stage EXCEPT ![d] = "closed"]
        /\ UNCHANGED <<wire, cut, kind>>
    BY <1>8 DEF CloseConn, Pool!Idle, Goes, Served
  <2>2. d \in Conns
    BY <2>1 DEF TypeOK
  <2> HIDE DEF d
  <2> QED
    BY <1>t, <2>1, <2>2, WireMoves
<1> QED
  BY <1>1, <1>2, <1>3, <1>4, <1>5, <1>6, <1>7, <1>8 DEF Next, ServeStep, HandlerStep

LEMMA NextInv == IInv /\ [Next]_vars => IInv'
<1> SUFFICES ASSUME IInv, [Next]_vars PROVE IInv'
  OBVIOUS
<1>1. CASE Next
  BY <1>1, TypeInv, PlacesInv, StopInv, LateInv, WireInv DEF IInv, Places
<1>2. CASE UNCHANGED vars
  <2> USE <1>2 DEF vars, connVars, poolVars
  <2>1. TypeOK' /\ PoolOK' /\ JobsOK' /\ StopOK'
    BY DEF IInv, TypeOK, PoolOK, JobsOK, StopOK
  <2>2. OpenIsOwned' /\ LateOK' /\ WireOK'
    BY DEF IInv, OpenIsOwned, Served, LateOK, Late, WireOK, WireOf, HasEvents
  <2> QED
    BY <2>1, <2>2 DEF IInv
<1> QED
  BY <1>1, <1>2

\* The conjunction is inductive, so it holds of every behaviour of the server.
THEOREM Invariance == Spec => []IInv
BY InitInv, NextInv, PTL DEF Spec

-----------------------------------------------------------------------------
\* Every variable keeps its type, and every accepted job belongs to a connection.
THEOREM TypeCorrect == Spec => []TypeOK
<1>1. IInv => TypeOK
  BY DEF IInv
<1> QED
  BY <1>1, Invariance, PTL

\* The accept loop, the pool's queue and the running handlers share the open
\* connections out among them, whatever stop() interrupts.
THEOREM OpenOwned == Spec => []OpenIsOwned
<1>1. IInv => OpenIsOwned
  BY DEF IInv
<1> QED
  BY <1>1, Invariance, PTL

\* Once stop() has returned what is open is late, and only one connection is.
LEMMA OneIsLeft ==
    ASSUME IInv, owner = "stopped"
    PROVE  /\ \A c \in Conns : stage[c] \notin Handled
           /\ \A j \in 1..owed : stage[jobs[j]] = "closed"
           /\ ~isActive => Cardinality(Open) <= 1
<1>1. terminated /\ stopped /\ owed <= started /\ \A s \in Slots : running[s] = 0
  BY DEF IInv, StopOK
<1>2. \A c \in Conns : stage[c] \notin Handled
  BY <1>1 DEF IInv, OpenIsOwned
<1>3. ASSUME NEW j \in 1..owed PROVE stage[jobs[j]] = "closed"
  <2>1. j \in 1..started /\ j # 0
    BY <1>1 DEF IInv, PoolOK
  <2> QED
    BY <1>1, <2>1 DEF IInv, JobsOK
<1>4. ASSUME ~isActive PROVE Cardinality(Open) <= 1
  <2>1. ASSUME NEW c \in Open PROVE c \in Conns /\ Late(c)
    <3>1. CASE stage[c] \in {"accepted", "refused"}
      BY <2>1, <3>1 DEF Open, Late
    <3>2. CASE stage[c] = "queued"
      <4>1. PICK j \in (started + 1)..accepted : jobs[j] = c
        BY <2>1, <3>2 DEF Open, IInv, OpenIsOwned
      <4>2. j \in (owed + 1)..accepted
        BY <1>1, <4>1 DEF IInv, PoolOK
      <4> QED
        BY <2>1, <3>2, <4>1, <4>2 DEF Open, Late
    <3> QED
      BY <1>2, <2>1, <3>1, <3>2 DEF Open
  <2>2. \A c, d \in Open : c = d
    BY <1>1, <1>4, <2>1 DEF IInv, LateOK
  <2>3. CASE Open = {}
    BY <2>3, FS_EmptySet
  <2>4. CASE Open # {}
    <3>1. PICK c : Open = {c}
      BY <2>2, <2>4
    <3>2. Cardinality(Open) = 1
      BY <3>1, FS_Singleton, Zenon
    <3> QED
      BY <3>2
  <2> QED
    BY <2>3, <2>4
<1> QED
  BY <1>2, <1>3, <1>4

\* stop() closes the pool and waits for it: no handler is left running, what was
\* queued has been served and closed, and at most one connection stays open for
\* good, unless serve() set d_isActive after stop() had cleared it.
THEOREM StopLeavesOne == Spec => []StopLeavesOneConnection
<1>1. IInv => StopLeavesOneConnection
  BY OneIsLeft DEF StopLeavesOneConnection
<1> QED
  BY <1>1, Invariance, PTL

\* A handler closes its socket only behind its last write: a client that lost
\* nothing has a whole answer, and a whole event stream if it asked for one.
THEOREM ClosedComplete == Spec => []ClosedIsComplete
<1>1. IInv => ClosedIsComplete
  BY DEF IInv, WireOK, WireOf, ClosedIsComplete
<1> QED
  BY <1>1, Invariance, PTL

-----------------------------------------------------------------------------
(***************************************************************************)
(* A connection the pool has taken comes to its end.  Those before it in   *)
(* the queue only become fewer, whoever connects meanwhile, and its        *)
(* handler, once started, has a bounded number of steps to take, unless    *)
(* the tokenizer keeps it.                                                 *)
(***************************************************************************)
Position(c) == CHOOSE j \in 1..accepted : jobs[j] = c

Whole(c) == IF cut[c] THEN 0 ELSE 1
EventsLeft(c) == (MaxEvents + 1 - Len(wire[c])) + Whole(c)
Left(c) ==
    CASE stage[c] = "queued" -> (Position(c) - started) + MaxEvents + 6
      [] stage[c] = "read" -> MaxEvents + 6
      [] stage[c] = "respond" -> MaxEvents + 5
      [] stage[c] = "push" -> EventsLeft(c) + 2
      [] stage[c] = "close" -> 1
      [] OTHER -> 0

\* The pool has it.
Taken(c) == stage[c] = "queued" \/ stage[c] \in Handled

Moved(c) == stage'[c] # stage[c] \/ wire'[c] # wire[c] \/ cut'[c] # cut[c]
HandlerGetsOn(c) ==
    Taken(c) =>
        /\ Left(c)' <= Left(c)
        /\ Moved(c) \/ (StartHandler /\ stage[c] = "queued") => Left(c)' < Left(c)
HandlersGetOn == \A c \in Conns : HandlerGetsOn(c)

\* What a handler function has pushed.
PushesOK == \A c \in Conns : stage[c] = "push" => Len(wire[c]) <= MaxEvents + 1

LEMMA PositionIs ==
    ASSUME PoolOK, JobsOK, NEW j \in 1..accepted
    PROVE  Position(jobs[j]) = j
<1>1. \E i \in 1..accepted : jobs[i] = jobs[j]
  OBVIOUS
<1> QED
  BY <1>1 DEF Position, JobsOK

LEMMA PlaceInQueue ==
    ASSUME PoolOK, JobsOK, OpenIsOwned, NEW c \in Conns, stage[c] = "queued"
    PROVE  Position(c) \in (started + 1)..accepted /\ jobs[Position(c)] = c
<1>1. PICK j \in (started + 1)..accepted : jobs[j] = c
  BY DEF OpenIsOwned
<1>2. j \in 1..accepted
  BY <1>1 DEF PoolOK
<1> QED
  BY <1>1, <1>2, PositionIs

\* A job keeps its place when another is accepted.
LEMMA PositionStays ==
    ASSUME TypeOK, PoolOK, JobsOK, OpenIsOwned, PoolOK', JobsOK', NEW c \in Conns, stage[c] = "queued",
           \/ UNCHANGED <<jobs, accepted>>
           \/ accepted' = accepted + 1 /\ \E d \in Conns : jobs' = Append(jobs, d)
    PROVE  Position(c)' = Position(c) /\ Position(c) \in (started + 1)..accepted
<1>1. Position(c) \in (started + 1)..accepted /\ jobs[Position(c)] = c
  BY PlaceInQueue
<1>2. Position(c) \in 1..accepted /\ Position(c) \in 1..accepted'
  BY <1>1 DEF PoolOK
<1>3. jobs'[Position(c)] = c
  BY <1>1, <1>2 DEF TypeOK
<1>4. \A i \in 1..accepted' : jobs'[i] = c => i = Position(c)
  BY <1>2, <1>3 DEF JobsOK
<1> QED
  BY <1>1, <1>2, <1>3, <1>4 DEF Position

\* The arithmetic of EventsLeft.
LEMMA EventsBounds ==
    ASSUME NEW m \in Nat, NEW n \in Nat, NEW w \in {0, 1}
    PROVE  /\ (m + 1 - n) + w \in Int
           /\ n <= m + 1 => (m + 1 - n) + w \in 0..(m + 2)
OBVIOUS

LEMMA LeftBounds ==
    ASSUME TypeOK, PoolOK, JobsOK, OpenIsOwned, PushesOK, NEW c \in Conns
    PROVE  /\ Left(c) \in Nat /\ Left(c) <= accepted + MaxEvents + 6
           /\ Len(wire[c]) \in Nat
           /\ stage[c] = "push" => EventsLeft(c) \in Nat
<1>1. MaxEvents \in Nat /\ Len(wire[c]) \in Nat /\ accepted \in Nat /\ started \in Nat
  BY ServerAssumption DEF TypeOK, PoolOK
<1>2. stage[c] = "queued" => Position(c) \in (started + 1)..accepted
  BY PlaceInQueue
<1>3. stage[c] = "push" => Len(wire[c]) <= MaxEvents + 1
  BY DEF PushesOK
<1>4. stage[c] = "push" => EventsLeft(c) \in 0..(MaxEvents + 2)
  <2>1. Whole(c) \in {0, 1}
    BY DEF Whole
  <2> QED
    BY <1>1, <1>3, <2>1, EventsBounds DEF EventsLeft
<1> QED
  BY <1>1, <1>2, <1>4 DEF Left

\* A step that leaves a taken connection and the pool's progress alone.
LEMMA StaysLeft ==
    ASSUME TypeOK, PoolOK, JobsOK, OpenIsOwned, PushesOK, PoolOK', JobsOK', NEW c \in Conns,
           ~Moved(c), started' = started,
           \/ UNCHANGED <<jobs, accepted>>
           \/ accepted' = accepted + 1 /\ \E d \in Conns : jobs' = Append(jobs, d)
    PROVE  Left(c)' = Left(c) /\ Left(c) \in Nat
<1>1. stage[c] = "queued" => Position(c)' = Position(c)
  BY PositionStays
<1> QED
  BY <1>1, LeftBounds DEF Left, EventsLeft, Whole, Moved

\* A step of the handler of d moves no other connection.
LEMMA HandlerMoves ==
    ASSUME TypeOK, PoolOK, JobsOK, OpenIsOwned, WireOK, PushesOK, NEW d \in Conns,
           HandlerStep(d) \/ (\E s \in Slots : CloseConn(s) /\ Served(s) = d)
    PROVE  /\ started' = started /\ UNCHANGED <<jobs, accepted>>
           /\ \A c \in Conns : c # d => ~Moved(c)
           /\ stage'[d] = "push" => Len(wire'[d]) <= MaxEvents + 1
           /\ Left(d)' \in Int
           /\ Moved(d) => Left(d)' < Left(d)
<1>t. /\ stage \in [Conns -> Stages] /\ wire \in [Conns -> Seq({"answer", "event", "204"})]
      /\ cut \in [Conns -> BOOLEAN] /\ MaxEvents \in Nat /\ Len(wire[d]) \in Nat
  BY ServerAssumption DEF TypeOK
<1>b. stage[d] = "push" => EventsLeft(d) \in Nat
  BY LeftBounds
<1>1. CASE ReadRequest(d)
  <2>1. /\ stage[d] = "read" /\ UNCHANGED <<wire, cut, jobs, accepted, started>>
        /\ stage' = stage \/ \E st \in {"respond", "looping"} : stage' = [stage EXCEPT ![d] = st]
    BY <1>1 DEF ReadRequest, Goes, poolVars
  <2>2. \A c \in Conns : c # d => ~Moved(c)
    BY <1>t, <2>1 DEF Moved
  <2>3. stage'[d] \in {"read", "respond", "looping"} /\ (Moved(d) => stage'[d] # "read")
    BY <1>t, <2>1 DEF Moved
  <2>4. Left(d)' \in Int /\ (Moved(d) => Left(d)' < Left(d))
    BY <1>t, <2>1, <2>3 DEF Left
  <2> QED
    BY <2>1, <2>2, <2>3, <2>4
<1>c. Whole(d) \in {0, 1}
  BY DEF Whole
<1>2. ASSUME NEW m \in {"answer", "event", "204"}, Sent(d, m)
      PROVE  /\ \A c \in Conns : c # d => wire'[c] = wire[c] /\ cut'[c] = cut[c]
             /\ \/ wire'[d] = wire[d] /\ Whole(d)' = 0 /\ (Whole(d) = 0 => cut'[d] = cut[d])
                \/ Whole(d)' = Whole(d) /\ Len(wire'[d]) = Len(wire[d]) + 1
  <2>1. Len(Append(wire[d], m)) = Len(wire[d]) + 1
    BY <1>t
  <2>2. CASE wire' = [wire EXCEPT ![d] = Append(@, m)] /\ UNCHANGED cut
    <3>1. Whole(d)' = Whole(d)
      BY <2>2 DEF Whole
    <3> QED
      BY <1>t, <2>1, <2>2, <3>1
  <2>3. CASE cut' = [cut EXCEPT ![d] = TRUE] /\ UNCHANGED wire
    <3>1. cut'[d] = TRUE /\ \A c \in Conns : c # d => cut'[c] = cut[c]
      BY <1>t, <2>3
    <3>2. cut[d] \in BOOLEAN
      BY <1>t
    <3>3. Whole(d)' = 0 /\ (Whole(d) = 0 => cut[d] = TRUE)
      <4>1. 1 # 0
        OBVIOUS
      <4> QED
        BY <3>1, <3>2, <4>1, Zenon DEF Whole
    <3> QED
      BY <2>3, <3>1, <3>3, Zenon
  <2> QED
    BY <1>2, <2>2, <2>3 DEF Sent
<1>3. CASE Respond(d)
  <2>1. /\ stage[d] = "respond" /\ Sent(d, "answer") /\ UNCHANGED <<jobs, accepted, started>>
        /\ \E st \in {"push", "close"} : stage' = [stage EXCEPT ![d] = st]
    BY <1>3 DEF Respond, Goes, poolVars
  <2>2. Len(wire[d]) = 0
    <3>1. wire[d] = <<>>
      BY <2>1 DEF WireOK, WireOf
    <3> QED
      BY <3>1
  <2>3. /\ \A c \in Conns : c # d => wire'[c] = wire[c] /\ cut'[c] = cut[c]
        /\ \/ Whole(d)' = 0 /\ Len(wire'[d]) = 0
           \/ Whole(d)' \in {0, 1} /\ Len(wire'[d]) = 1
    BY <1>2, <1>c, <2>1, <2>2
  <2>4. \A c \in Conns : c # d => ~Moved(c)
    BY <1>t, <2>1, <2>3 DEF Moved
  <2>5. stage'[d] \in {"push", "close"}
    BY <1>t, <2>1
  <2>6. EventsLeft(d)' \in Int /\ EventsLeft(d)' <= MaxEvents + 2
    <3>1. CASE Whole(d)' = 0 /\ Len(wire'[d]) = 0
      <4>1. EventsLeft(d)' = (MaxEvents + 1 - 0) + 0
        BY <3>1 DEF EventsLeft
      <4> QED
        BY <1>t, <4>1
    <3>2. CASE Whole(d)' \in {0, 1} /\ Len(wire'[d]) = 1
      <4>1. EventsLeft(d)' = (MaxEvents + 1 - 1) + Whole(d)'
        BY <3>2 DEF EventsLeft
      <4> QED
        BY <1>t, <3>2, <4>1
    <3> QED
      BY <2>3, <3>1, <3>2
  <2>7. Left(d) = MaxEvents + 5 /\ Left(d)' \in {1, EventsLeft(d)' + 2}
    BY <2>1, <2>5 DEF Left
  <2>8. Left(d)' \in Int /\ Left(d)' < Left(d)
    BY <1>t, <2>6, <2>7
  <2>9. Len(wire'[d]) <= MaxEvents + 1
    <3>1. Len(wire'[d]) = 0 \/ Len(wire'[d]) = 1
      BY <2>3
    <3>2. MaxEvents \in Nat
      BY <1>t
    <3>3. 0 <= MaxEvents + 1 /\ 1 <= MaxEvents + 1
      BY <3>2
    <3> QED
      BY <3>1, <3>3, Zenon
  <2> QED
    BY <2>1, <2>4, <2>8, <2>9
<1>4. CASE PushEvent(d)
  <2>1. /\ stage[d] = "push" /\ Len(wire[d]) <= MaxEvents /\ Sent(d, "event")
        /\ UNCHANGED <<stage, jobs, accepted, started>>
    BY <1>4 DEF PushEvent, poolVars
  <2>2. /\ \A c \in Conns : c # d => wire'[c] = wire[c] /\ cut'[c] = cut[c]
        /\ \/ wire'[d] = wire[d] /\ Whole(d)' = 0 /\ (Whole(d) = 0 => cut'[d] = cut[d])
           \/ Whole(d)' = Whole(d) /\ Len(wire'[d]) = Len(wire[d]) + 1
    BY <1>2, <2>1
  <2>3. \A c \in Conns : c # d => ~Moved(c)
    BY <2>1, <2>2 DEF Moved
  <2>4. Left(d) = EventsLeft(d) + 2 /\ Left(d)' = EventsLeft(d)' + 2
    BY <2>1 DEF Left
  <2>5. EventsLeft(d)' \in Int /\ (Moved(d) => EventsLeft(d)' < EventsLeft(d))
    <3>1. CASE wire'[d] = wire[d] /\ Whole(d)' = 0 /\ (Whole(d) = 0 => cut'[d] = cut[d])
      <4>1. Moved(d) => Whole(d) # 0
        BY <2>1, <3>1 DEF Moved
      <4> QED
        BY <1>t, <1>c, <3>1, <4>1 DEF EventsLeft
    <3>2. CASE Whole(d)' = Whole(d) /\ Len(wire'[d]) = Len(wire[d]) + 1
      BY <1>t, <1>c, <3>2 DEF EventsLeft
    <3> QED
      BY <2>2, <3>1, <3>2
  <2> QED
    BY <1>t, <1>b, <2>1, <2>2, <2>3, <2>4, <2>5
<1>5. CASE EndEvents(d)
  <2>1. /\ stage[d] = "push" /\ Sent(d, "204") /\ UNCHANGED <<jobs, accepted, started>>
        /\ stage' = [stage EXCEPT ![d] = "close"]
    BY <1>5 DEF EndEvents, Goes, poolVars
  <2>2. \A c \in Conns : c # d => wire'[c] = wire[c] /\ cut'[c] = cut[c]
    BY <1>2, <2>1
  <2>3. (\A c \in Conns : c # d => ~Moved(c)) /\ stage'[d] = "close"
    BY <1>t, <2>1, <2>2 DEF Moved
  <2>4. Left(d) = EventsLeft(d) + 2 /\ Left(d)' = 1
    BY <2>1, <2>3 DEF Left
  <2> QED
    BY <1>b, <2>1, <2>3, <2>4
<1>6. ASSUME NEW s \in Slots, CloseConn(s), Served(s) = d
      PROVE  /\ started' = started /\ UNCHANGED <<jobs, accepted>>
             /\ \A c \in Conns : c # d => ~Moved(c)
             /\ stage'[d] # "push" /\ Left(d)' \in Int /\ Left(d)' < Left(d)
  <2>1. /\ stage[d] = "close" /\ stage' = [stage EXCEPT ![d] = "closed"]
        /\ UNCHANGED <<wire, cut, jobs, started, accepted>>
    BY <1>6 DEF CloseConn, Goes, Pool!Finish
  <2>2. (\A c \in Conns : c # d => ~Moved(c)) /\ stage'[d] = "closed"
    BY <1>t, <2>1 DEF Moved
  <2>3. Left(d) = 1 /\ Left(d)' = 0
    BY <2>1, <2>2 DEF Left
  <2> QED
    BY <2>1, <2>2, <2>3
<1> QED
  BY <1>1, <1>3, <1>4, <1>5, <1>6 DEF HandlerStep

LEMMA GetOnInv ==
    ASSUME IInv, IInv', PushesOK, Next
    PROVE  PushesOK' /\ HandlersGetOn
<1>t. /\ stage \in [Conns -> Stages] /\ TypeOK /\ PoolOK /\ JobsOK /\ OpenIsOwned /\ WireOK
      /\ PoolOK' /\ JobsOK' /\ MaxEvents \in Nat /\ started \in Nat /\ accepted \in Nat
      /\ StopOK
  BY ServerAssumption DEF IInv, TypeOK, PoolOK
<1>a. ASSUME started' = started, UNCHANGED <<wire, cut>>,
             \/ UNCHANGED <<jobs, accepted>>
             \/ accepted' = accepted + 1 /\ \E d \in Conns : jobs' = Append(jobs, d),
             \/ UNCHANGED stage
             \/ \E d \in Conns, st \in {"backlog", "accepted", "refused", "queued"} :
                    ~Taken(d) /\ stage' = [stage EXCEPT ![d] = st],
             ~StartHandler
      PROVE  PushesOK' /\ HandlersGetOn
  <2>1. ASSUME NEW c \in Conns, Taken(c) PROVE ~Moved(c)
    BY <1>a, <1>t, <2>1 DEF Moved
  <2>2. ASSUME NEW c \in Conns, Taken(c) PROVE Left(c)' = Left(c) /\ Left(c) \in Nat
    BY <1>a, <1>t, <2>1, <2>2, StaysLeft
  <2>3. HandlersGetOn
    BY <1>a, <2>1, <2>2 DEF HandlersGetOn, HandlerGetsOn
  <2>4. PushesOK'
    BY <1>a, <1>t DEF PushesOK
  <2> QED
    BY <2>3, <2>4
<1>s. StartHandler => started' # started
  BY <1>t DEF StartHandler, Pool!Start
<1>1. CASE Setup \/ CheckActive \/ AcceptFails \/ StopServing \/ ClosePool \/ WaitPool \/ PoolFails
  BY <1>1, <1>a, <1>s DEF Setup, CheckActive, AcceptFails, StopServing, ClosePool, WaitPool, PoolFails,
     Pool!Stop, Pool!Terminate, connVars, poolVars
<1>2. CASE AcceptConn
  <2>1. PICK c \in Conns : stage[c] = "backlog" /\ stage' = [stage EXCEPT ![c] = "accepted"]
    BY <1>2 DEF AcceptConn, Backlog, Goes
  <2>2. ~Taken(c)
    BY <2>1 DEF Taken, Handled
  <2> QED
    BY <1>2, <1>a, <1>s, <2>1, <2>2 DEF AcceptConn, poolVars
<1>3. ASSUME NEW c \in Conns, Connect(c) PROVE PushesOK' /\ HandlersGetOn
  <2>1. ~Taken(c) /\ stage' = [stage EXCEPT ![c] = "backlog"]
    BY <1>3 DEF Connect, Goes, Taken, Handled
  <2> QED
    BY <1>3, <1>a, <1>s, <2>1 DEF Connect, poolVars
<1>4. ASSUME NEW c \in Conns, EnqueueHandler(c) \/ HandlerRefused(c) PROVE PushesOK' /\ HandlersGetOn
  <2>1. ~Taken(c) /\ \E st \in {"refused", "queued"} : stage' = [stage EXCEPT ![c] = st]
    BY <1>4 DEF EnqueueHandler, HandlerRefused, Goes, Taken, Handled
  <2>2. /\ started' = started /\ UNCHANGED <<wire, cut>>
        /\ \/ UNCHANGED <<jobs, accepted>>
           \/ accepted' = accepted + 1 /\ jobs' = Append(jobs, c)
    BY <1>4 DEF EnqueueHandler, HandlerRefused, Pool!Accept, poolVars
  <2> QED
    BY <1>a, <1>s, <2>1, <2>2
<1>5. CASE StartHandler
  <2> DEFINE d == jobs[started + 1]
  <2>1. /\ started < accepted /\ started' = started + 1 /\ stage' = [stage EXCEPT ![d] = "read"]
        /\ UNCHANGED <<wire, cut, jobs, accepted>>
    BY <1>5 DEF StartHandler, Pool!Start, Goes
  <2>2. started + 1 \in (started + 1)..accepted /\ d \in Conns /\ started + 1 \in 1..accepted
    BY <1>t, <2>1 DEF TypeOK
  <2>3. stage[d] = "queued" /\ Position(d) = started + 1
    BY <1>t, <2>2, PositionIs DEF OpenIsOwned
  <2> HIDE DEF d
  <2>4. ASSUME NEW c \in Conns, Taken(c) PROVE HandlerGetsOn(c)
    <3>1. CASE c = d
      <4>1. Left(c) = MaxEvents + 7 /\ Left(c)' = MaxEvents + 6
        BY <1>t, <2>1, <2>2, <2>3, <3>1 DEF Left
      <4> QED
        BY <1>t, <4>1 DEF HandlerGetsOn
    <3>2. CASE c # d /\ stage[c] = "queued"
      <4>1. Position(c)' = Position(c) /\ Position(c) \in Nat
        <5>1. Position(c)' = Position(c) /\ Position(c) \in (started + 1)..accepted
          BY <1>t, <2>1, <3>2, PositionStays
        <5> QED
          BY <1>t, <5>1
      <4>2. stage'[c] = "queued"
        BY <1>t, <2>1, <3>2
      <4>3. Left(c)' = Left(c) - 1 /\ Left(c) \in Int
        BY <1>t, <2>1, <3>2, <4>1, <4>2 DEF Left
      <4> QED
        BY <4>3 DEF HandlerGetsOn
    <3>3. CASE c # d /\ stage[c] # "queued"
      <4>1. ~Moved(c)
        BY <1>t, <2>1, <3>3 DEF Moved
      <4>2. Left(c)' = Left(c) /\ Left(c) \in Nat
        BY <1>t, <3>3, <4>1, LeftBounds DEF Left, EventsLeft, Whole, Moved
      <4> QED
        BY <3>3, <4>1, <4>2 DEF HandlerGetsOn
    <3> QED
      BY <3>1, <3>2, <3>3
  <2>5. PushesOK'
    BY <1>t, <2>1 DEF PushesOK
  <2> QED
    BY <2>4, <2>5 DEF HandlersGetOn, HandlerGetsOn
<1>6. ASSUME NEW d \in Conns, HandlerStep(d) \/ (\E s \in Slots : CloseConn(s) /\ Served(s) = d)
      PROVE  PushesOK' /\ HandlersGetOn
  <2>1. /\ started' = started /\ UNCHANGED <<jobs, accepted>>
        /\ \A c \in Conns : c # d => ~Moved(c)
        /\ stage'[d] = "push" => Len(wire'[d]) <= MaxEvents + 1
        /\ Moved(d) => Left(d)' < Left(d)
        /\ Left(d) \in Nat /\ Left(d)' \in Int
    BY <1>t, <1>6, HandlerMoves, LeftBounds
  <2>2. \A c \in Conns : ~Moved(c) => Left(c)' = Left(c) /\ Left(c) \in Nat
    BY <1>t, <2>1, StaysLeft
  <2>3. Left(d)' <= Left(d)
    BY <2>1, <2>2
  <2>4. HandlersGetOn
    BY <1>s, <2>1, <2>2, <2>3 DEF HandlersGetOn, HandlerGetsOn
  <2>5. PushesOK'
    BY <2>1 DEF PushesOK, Moved
  <2> QED
    BY <2>4, <2>5
<1>7. ASSUME NEW s \in Slots, CloseConn(s) PROVE PushesOK' /\ HandlersGetOn
  <2>1. Served(s) \in Conns
    BY <1>t, <1>7 DEF CloseConn, Pool!Idle, Served, TypeOK
  <2> QED
    BY <1>6, <1>7, <2>1
<1> QED
  BY <1>1, <1>2, <1>3, <1>4, <1>5, <1>6, <1>7 DEF Next, ServeStep, StopStep

\* Once the pool has taken a connection, each start of a handler brings it nearer to its own, whoever
\* connects meanwhile, and each change of its stage or of what it was sent nearer to being closed; no step of
\* another's takes it back.  It is at most as many steps away as there are jobs and a handler has things to
\* do: the safety part of QueuedIsClosed.
THEOREM ConnectionsGetOn ==
    Spec => /\ [](\A c \in Conns : Left(c) \in Nat /\ Left(c) <= accepted + MaxEvents + 6)
            /\ [][HandlersGetOn]_vars
<1>1. Init => PushesOK
  BY DEF Init, PushesOK
<1>2. IInv /\ IInv' /\ PushesOK /\ [Next]_vars => PushesOK'
  BY GetOnInv DEF vars, connVars, PushesOK
<1>3. IInv /\ IInv' /\ PushesOK /\ Next => HandlersGetOn
  BY GetOnInv
<1>4. IInv /\ PushesOK => \A c \in Conns : Left(c) \in Nat /\ Left(c) <= accepted + MaxEvents + 6
  BY LeftBounds DEF IInv
<1> QED
  BY <1>1, <1>2, <1>3, <1>4, Invariance, PTL DEF Spec
=============================================================================
