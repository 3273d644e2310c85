--------------------------- MODULE DnsQueryProofs ---------------------------
(***************************************************************************)
(* The safety of lookups, proved for any number of threads, any            *)
(* resolv.conf, any answers and any ports.                                 *)
(*                                                                         *)
(* Three arguments.  A string that is not the last nameserver leaves       *)
(* ServerAddress because some thread has still to write the last one, or   *)
(* is writing it while nobody wrote the other (AddressOK).  As long as     *)
(* nothing disturbs a lookup, the one datagram of its request is in one    *)
(* place, and nobody else has its port (AnswersOK).  Last, whatever a cut  *)
(* left of a well-formed answer, the loop over its records comes to the    *)
(* first whole address: each turn begins at a record with no address       *)
(* before it (FirstIsFound), so a lookup returns that address (ResultOK).  *)
(***************************************************************************)
EXTENDS DnsQuery, SequenceTheorems, FiniteSetTheorems, WellFoundedInduction, TLAPS

Types ==
    /\ TypeOK
    /\ over \in [Threads -> SUBSET Range(Lines)]
    /\ dest \in [Threads -> {Default, Torn, None} \cup Range(Lines)]
    /\ DOMAIN got = Threads
    /\ \A t \in Threads :
          /\ \A d \in got[t] : d.question \in Threads
          /\ retries[t] = 0 => pc[t] = "done"
          /\ pc[t] \notin {"looping", "done"} => got[t] = {}

\* A thread that is writing has its string in ServerAddress, and in what any
\* other writer has met.
WritersOK ==
    /\ \A t \in Threads : pc[t] = "load" => query
    /\ \A t \in Threads : pc[t] \in {"call", "create"} => line[t] = 1
    /\ \A t \in assigning :
          pc[t] = "load" /\ line[t] <= NumLines /\ Lines[line[t]] \in address
    /\ \A t, u \in assigning : t # u => Lines[line[t]] \in over[u]

WritesLast(t) == t \in assigning /\ line[t] = NumLines
WillWriteLast(t) == pc[t] = "load" /\ line[t] <= NumLines /\ ~WritesLast(t)

AddressOK ==
    query /\ Lines # <<>> =>
        \A a \in address \ {Last(Lines)} :
            \/ \E t \in Threads : WillWriteLast(t)
            \/ \E t \in Threads : WritesLast(t) /\ a \notin over[t]

\* The datagrams of a lookup nothing disturbs: one, on its way to a socket that is
\* still there, or at that socket.
Undisturbed(u) ==
    /\ \A d \in wire : d.question = u => pc[u] = "receive" /\ port[u] = d.port
    /\ \A d, e \in wire : d.question = u /\ e.question = u => d = e
    /\ \A t \in Threads : \A d \in inbox[t] : d.question = u =>
          /\ t = u
          /\ \A e \in wire : e.question # u
          /\ \A e \in inbox[t] : e.question = u => e = d

AnswersOK ==
    /\ \A t, u \in Threads : t # u /\ port[t] # None /\ port[t] = port[u] => t \in shared
    /\ \A u \in Threads : Disturbed(u) \/ Undisturbed(u)
    /\ AnswerIsOwn

IInv == Types /\ WritersOK /\ AddressOK /\ AnswersOK

-----------------------------------------------------------------------------
\* The lines of resolv.conf, and their strings.
LEMMA LineFacts ==
    /\ Len(Lines) \in Nat /\ NumLines = Len(Lines)
    /\ \A i \in 1..Len(Lines) : Lines[i] \in Range(Lines)
    /\ Lines # <<>> => Len(Lines) >= 1 /\ Last(Lines) = Lines[Len(Lines)]
<1>1. Lines \in Seq(STRING)
  BY DnsAssumption
<1>2. Len(Lines) \in Nat /\ DOMAIN Lines = 1..Len(Lines)
  BY <1>1, LenProperties
<1>3. Lines # <<>> => Len(Lines) >= 1
  BY <1>1, <1>2, EmptySeq
<1> QED
  BY <1>2, <1>3 DEF NumLines, Range, Last

LEMMA InitInv == Init => IInv
<1> SUFFICES ASSUME Init PROVE IInv
  OBVIOUS
<1>1. TypeOK
  <2>1. address # {} /\ address \subseteq {Default} \cup Range(Lines)
    BY DEF Init
  <2>2. line \in [Threads -> 1..(Len(Lines) + 1)]
    BY LineFacts DEF Init
  <2>3. /\ pc \in [Threads -> {"call", "create", "load", "ask", "receive", "looping", "done"}]
        /\ port \in [Threads -> Ports \cup {None}]
        /\ retries \in [Threads -> 0..Attempts]
    BY DEF Init, Attempts
  <2>4. \A t \in Threads : (port[t] # None) = (pc[t] = "receive") /\ inbox[t] = {}
    BY DEF Init
  <2>5. shared \subseteq Threads /\ wire \subseteq Packet /\ inbox \in [Threads -> SUBSET Packet]
    BY DEF Init
  <2>6. query \in BOOLEAN /\ assigning \subseteq Threads
    BY Zenon DEF Init
  <2> QED
    BY <2>1, <2>2, <2>3, <2>4, <2>5, <2>6, Zenon DEF TypeOK
<1>2. Types
  BY <1>1 DEF Init, Types, Attempts
<1>3. WritersOK /\ AddressOK
  BY DEF Init, WritersOK, AddressOK
<1>4. AnswersOK
  BY DEF Init, AnswersOK, Undisturbed, AnswerIsOwn
<1> QED
  BY <1>2, <1>3, <1>4 DEF IInv

-----------------------------------------------------------------------------
(***************************************************************************)
(* The steps that end a call of recvfrom(): the thread goes on waiting, or *)
(* its socket is closed.                                                   *)
(***************************************************************************)
\* The thread has another attempt: what is left in its inbox is of what was there.
Stays(t) ==
    /\ UNCHANGED <<pc, port, dest, got>>
    /\ retries' = [retries EXCEPT ![t] = @ - 1] /\ retries[t] > 1
    /\ \E box \in SUBSET inbox[t] : inbox' = [inbox EXCEPT ![t] = box]

\* Its socket is closed: it has read a datagram, or used up its attempts.
Reads(t) ==
    /\ UNCHANGED retries
    /\ \E d \in inbox[t] : \E m : got' = [got EXCEPT ![t] = {[question |-> d.question, message |-> m]}]
GivesUp(t) ==
    /\ pc'[t] = "done" /\ retries' = [retries EXCEPT ![t] = @ - 1] /\ retries[t] = 1
    /\ UNCHANGED got
Ends(t) ==
    /\ \E to \in {"looping", "done"} : pc' = [pc EXCEPT ![t] = to]
    /\ port' = [port EXCEPT ![t] = None] /\ dest' = [dest EXCEPT ![t] = None]
    /\ inbox' = [inbox EXCEPT ![t] = {}]
    /\ Reads(t) \/ GivesUp(t)

LEMMA Received ==
    ASSUME Types, NEW t \in Threads,
           Receive(t) \/ ReceiveRejected(t) \/ Interrupted(t)
    PROVE  /\ pc[t] = "receive" /\ UNCHANGED <<loading, shared, wire, copied>>
           /\ Stays(t) \/ Ends(t)
<1>1. pc[t] = "receive"
  BY DEF Receive, ReceiveRejected, Interrupted, Retry, Go
<1>2. retries[t] \in 1..3 /\ DOMAIN pc = Threads
  BY <1>1 DEF Types, TypeOK, Attempts
<1>3. CASE Receive(t)
  <2>1. \E d \in inbox[t] : \E m : got' = [got EXCEPT ![t] = {[question |-> d.question, message |-> m]}]
    BY <1>3 DEF Receive
  <2>2. \E to \in {"looping", "done"} : pc' = [pc EXCEPT ![t] = to]
    BY <1>3 DEF Receive, Go
  <2> QED
    BY <1>1, <1>3, <2>1, <2>2 DEF Receive, CloseSocket, Ends, Reads
<1>4. ASSUME NEW box \in SUBSET inbox[t], Retry(t, box)
      PROVE  UNCHANGED <<loading, shared, wire, copied>> /\ (Stays(t) \/ Ends(t))
  <2>1. UNCHANGED <<loading, shared, wire, copied, got>> /\ retries' = [retries EXCEPT ![t] = @ - 1]
    BY <1>4 DEF Retry
  <2>2. CASE MoreAttempts(retries[t])
    BY <1>2, <1>4, <2>1, <2>2 DEF Retry, MoreAttempts, Stays
  <2>3. CASE ~MoreAttempts(retries[t])
    <3>1. retries[t] = 1
      BY <1>2, <2>3 DEF MoreAttempts
    <3>2. pc' = [pc EXCEPT ![t] = "done"] /\ CloseSocket(t)
      BY <1>4, <2>3 DEF Retry, Go
    <3>3. GivesUp(t)
      BY <1>2, <2>1, <3>1, <3>2 DEF GivesUp
    <3> QED
      BY <2>1, <3>2, <3>3 DEF CloseSocket, Ends
  <2> QED
    BY <2>2, <2>3
<1>5. CASE ReceiveRejected(t)
  <2>1. \E box \in SUBSET inbox[t] : Retry(t, box)
    BY <1>5 DEF ReceiveRejected
  <2> QED
    BY <1>1, <1>4, <2>1
<1>6. CASE Interrupted(t)
  <2>1. {} \in SUBSET inbox[t] /\ Retry(t, {})
    BY <1>6 DEF Interrupted
  <2> QED
    BY <1>1, <1>4, <2>1
<1> QED
  BY <1>3, <1>5, <1>6

LEMMA TypesInv == Types /\ WritersOK /\ Next => Types'
<1> SUFFICES ASSUME Types, WritersOK, Next PROVE Types'
  OBVIOUS
<1>1. address # {} /\ DOMAIN pc = Threads /\ DOMAIN line = Threads /\ DOMAIN port = Threads
  BY DEF Types, TypeOK
<1>2. ASSUME NEW t \in Threads, NEW to \in {"create", "load", "ask", "done"},
             pc[t] \in {"call", "create", "load", "ask"}, pc' = [pc EXCEPT ![t] = to],
             query' \in BOOLEAN, UNCHANGED <<address, line, assigning, over, asking, network, got, result>>
      PROVE  Types'
  <2>1. pc' \in [Threads -> {"call", "create", "load", "ask", "receive", "looping", "done"}]
    BY <1>2 DEF Types, TypeOK
  <2>2. \A u \in Threads : pc'[u] = IF u = t THEN to ELSE pc[u]
    BY <1>2, <1>1
  <2>3. \A u \in Threads : (port[u] # None) = (pc'[u] = "receive") /\ (pc'[u] # "receive" => inbox[u] = {})
    BY <1>2, <2>2 DEF Types, TypeOK
  <2>4. \A u \in Threads : /\ retries[u] = 0 => pc'[u] = "done"
                           /\ pc'[u] \notin {"looping", "done"} => got[u] = {}
    BY <1>2, <2>2 DEF Types
  <2> QED
    BY <1>2, <2>1, <2>3, <2>4 DEF Types, TypeOK, asking, network
<1>3. ASSUME NEW t \in Threads, Check(t) \/ Create(t) \/ Loaded(t) \/ NoRequest(t) PROVE Types'
  BY <1>2, <1>3 DEF Check, Create, Loaded, NoRequest, Go, loading, Types, TypeOK
<1>4. ASSUME NEW t \in Threads, BeginAssign(t) PROVE Types'
  <2>1. line[t] \in 1..Len(Lines) /\ \A u \in assigning : line[u] \in 1..Len(Lines)
    BY <1>4, LineFacts DEF BeginAssign, Types, TypeOK, WritersOK
  <2>2. Lines[line[t]] \in Range(Lines) /\ \A u \in assigning : Lines[line[u]] \in Range(Lines)
    BY <2>1, LineFacts
  <2>3. address' # {} /\ address' \subseteq {Default} \cup Range(Lines) /\ assigning' \subseteq Threads
    BY <1>4, <2>2 DEF BeginAssign, Types, TypeOK
  <2>4. over' \in [Threads -> SUBSET Range(Lines)]
    BY <1>4, <2>2 DEF BeginAssign, Types
  <2> QED
    BY <1>4, <2>3, <2>4 DEF BeginAssign, Types, TypeOK, asking, network
<1>5. ASSUME NEW t \in Threads, EndAssign(t) PROVE Types'
  <2>1. line[t] \in 1..Len(Lines) /\ Lines[line[t]] \in address
    BY <1>5, LineFacts DEF EndAssign, Types, TypeOK, WritersOK
  <2>2. address' # {} /\ address' \subseteq {Default} \cup Range(Lines) /\ assigning' \subseteq Threads
    BY <1>5, <2>1 DEF EndAssign, Types, TypeOK
  <2>3. line' \in [Threads -> 1..(Len(Lines) + 1)]
    BY <1>5, <2>1, LineFacts DEF EndAssign, Types, TypeOK
  <2>4. over' \in [Threads -> SUBSET Range(Lines)]
    BY <1>5 DEF EndAssign, Types
  <2> QED
    BY <1>5, <2>2, <2>3, <2>4 DEF EndAssign, Types, TypeOK, asking, network
<1>6. ASSUME NEW t \in Threads, Request(t) PROVE Types'
  <2>1. PICK a \in AddressesRead \ Unusable, p \in Ports :
            /\ dest' = [dest EXCEPT ![t] = a] /\ port' = [port EXCEPT ![t] = p]
            /\ shared' = shared \cup {u \in Threads : port[u] = p}
                         \cup (IF {u \in Threads : port[u] = p} = {} THEN {} ELSE {t})
            /\ wire' = wire \cup
                {[k |-> "request", port |-> p, question |-> t, copy |-> FALSE] : l \in {a} \cap Range(Lines)}
    BY <1>6 DEF Request
  <2>2. /\ pc[t] = "ask" /\ pc' = [pc EXCEPT ![t] = "receive"]
        /\ UNCHANGED <<loading, retries, inbox, got>>
    BY <1>6 DEF Request, Go
  <2>3. dest' \in [Threads -> {Default, Torn, None} \cup Range(Lines)]
    BY <2>1 DEF AddressesRead, Types, TypeOK
  <2>4. /\ pc' \in [Threads -> {"call", "create", "load", "ask", "receive", "looping", "done"}]
        /\ port' \in [Threads -> Ports \cup {None}]
        /\ shared' \subseteq Threads
    BY <2>1, <2>2 DEF Types, TypeOK
  <2>5. \A u \in Threads : /\ pc'[u] = IF u = t THEN "receive" ELSE pc[u]
                           /\ port'[u] = IF u = t THEN p ELSE port[u]
    BY <1>1, <2>1, <2>2
  <2>6. p # None
    BY <2>1, DnsAssumption
  <2>7. \A u \in Threads : (port'[u] # None) = (pc'[u] = "receive") /\ (pc'[u] # "receive" => inbox'[u] = {})
    BY <2>2, <2>5, <2>6 DEF Types, TypeOK
  <2>8. \A u \in Threads : /\ retries'[u] = 0 => pc'[u] = "done"
                           /\ pc'[u] \notin {"looping", "done"} => got'[u] = {}
                           /\ \A d \in got'[u] : d.question \in Threads
    BY <2>2, <2>5 DEF Types
  <2>9. wire' \subseteq Packet
    <3>1. [k |-> "request", port |-> p, question |-> t, copy |-> FALSE] \in Packet
      BY DEF Packet
    <3>2. ASSUME NEW d \in wire'
          PROVE  d \in wire \/ d = [k |-> "request", port |-> p, question |-> t, copy |-> FALSE]
      BY <2>1
    <3> QED
      BY <3>1, <3>2 DEF Types, TypeOK
  <2>10. query' \in BOOLEAN /\ address' # {} /\ address' \subseteq {Default} \cup Range(Lines)
         /\ line' \in [Threads -> 1..(Len(Lines) + 1)] /\ assigning' \subseteq Threads
         /\ retries' \in [Threads -> 0..Attempts] /\ over' \in [Threads -> SUBSET Range(Lines)]
         /\ DOMAIN got' = Threads /\ inbox' \in [Threads -> SUBSET Packet]
    BY <2>2 DEF Types, TypeOK, loading
  <2>11. TypeOK'
    BY <2>4, <2>7, <2>9, <2>10 DEF TypeOK
  <2> QED
    BY <2>3, <2>8, <2>10, <2>11 DEF Types
<1>7. ASSUME NEW t \in Threads, Receive(t) \/ ReceiveRejected(t) \/ Interrupted(t) PROVE Types'
  <2>1. /\ pc[t] = "receive" /\ retries[t] \in 1..Attempts /\ UNCHANGED <<loading, shared, wire>>
        /\ Stays(t) \/ Ends(t)
    BY <1>7, Received DEF Types, TypeOK, Attempts
  <2>2. retries' \in [Threads -> 0..Attempts] /\ \A u \in Threads : u # t => retries'[u] = retries[u]
    <3>1. retries' = retries \/ retries' = [retries EXCEPT ![t] = @ - 1]
      BY <2>1 DEF Stays, Ends, Reads, GivesUp
    <3>2. retries \in [Threads -> 0..Attempts]
      BY DEF Types, TypeOK
    <3>3. retries[t] - 1 \in 0..Attempts
      BY <2>1 DEF Attempts
    <3> QED
      BY <3>1, <3>2, <3>3
  <2>3. /\ inbox' \in [Threads -> SUBSET Packet] /\ inbox'[t] \subseteq inbox[t]
        /\ \A u \in Threads : u # t => inbox'[u] = inbox[u]
    <3>1. PICK box \in SUBSET inbox[t] : inbox' = [inbox EXCEPT ![t] = box]
      BY <2>1 DEF Stays, Ends
    <3> QED
      BY <3>1 DEF Types, TypeOK
  <2>4. DOMAIN got' = Threads /\ \A u \in Threads : /\ u # t => got'[u] = got[u]
                                                   /\ \A d \in got'[u] : d.question \in Threads
    <3>1. CASE UNCHANGED got
      BY <3>1 DEF Types
    <3>2. CASE Reads(t)
      <4>1. PICK d \in inbox[t] : \E m : got' = [got EXCEPT ![t] = {[question |-> d.question, message |-> m]}]
        BY <3>2 DEF Reads
      <4>2. d.question \in Threads
        BY <4>1 DEF Types, TypeOK, Packet
      <4> QED
        BY <4>1, <4>2 DEF Types
    <3> QED
      BY <2>1, <3>1, <3>2 DEF Stays, Ends, GivesUp
  <2>5. query' \in BOOLEAN /\ address' # {} /\ address' \subseteq {Default} \cup Range(Lines)
        /\ line' \in [Threads -> 1..(Len(Lines) + 1)] /\ assigning' \subseteq Threads
        /\ shared' \subseteq Threads /\ over' \in [Threads -> SUBSET Range(Lines)] /\ wire' \subseteq Packet
    BY <2>1 DEF Types, TypeOK, loading
  <2>6. CASE Stays(t)
    <3>1. retries'[t] # 0 /\ UNCHANGED <<pc, port, dest, got>>
      BY <2>1, <2>6 DEF Stays, Types, TypeOK
    <3>2. \A u \in Threads : /\ pc[u] # "receive" => inbox'[u] = {}
                             /\ retries'[u] = 0 => pc[u] = "done"
      BY <2>1, <2>2, <2>3, <3>1 DEF Types, TypeOK
    <3> QED
      BY <2>2, <2>3, <2>4, <2>5, <3>1, <3>2 DEF Types, TypeOK
  <2>7. CASE Ends(t)
    <3>1. PICK to \in {"looping", "done"} : pc' = [pc EXCEPT ![t] = to]
      BY <2>7 DEF Ends
    <3>2. /\ pc' \in [Threads -> {"call", "create", "load", "ask", "receive", "looping", "done"}]
          /\ port' \in [Threads -> Ports \cup {None}]
          /\ dest' \in [Threads -> {Default, Torn, None} \cup Range(Lines)]
      BY <2>7, <3>1 DEF Ends, Types, TypeOK
    <3>3. \A u \in Threads : /\ pc'[u] = IF u = t THEN to ELSE pc[u]
                             /\ port'[u] = IF u = t THEN None ELSE port[u]
                             /\ inbox'[u] = IF u = t THEN {} ELSE inbox[u]
      BY <1>1, <2>7, <3>1 DEF Ends, Types, TypeOK
    <3>4. \A u \in Threads : (port'[u] # None) = (pc'[u] = "receive") /\ (pc'[u] # "receive" => inbox'[u] = {})
      <4>1. /\ port'[t] = None /\ pc'[t] # "receive" /\ inbox'[t] = {}
            /\ \A u \in Threads : u # t => port'[u] = port[u] /\ pc'[u] = pc[u] /\ inbox'[u] = inbox[u]
        BY <3>1, <3>3
      <4>2. \A u \in Threads : (port[u] # None) = (pc[u] = "receive") /\ (pc[u] # "receive" => inbox[u] = {})
        BY DEF Types, TypeOK
      <4> QED
        BY <4>1, <4>2
    <3>5. \A u \in Threads : retries'[u] = 0 => pc'[u] = "done"
      <4>1. retries'[t] = 0 => pc'[t] = "done"
        BY <2>1, <2>7 DEF Ends, Reads, GivesUp, Attempts
      <4> QED
        BY <2>2, <3>3, <4>1 DEF Types
    <3>6. \A u \in Threads : pc'[u] \notin {"looping", "done"} => got'[u] = {}
      BY <2>4, <3>3 DEF Types
    <3> QED
      BY <2>2, <2>3, <2>4, <2>5, <3>2, <3>4, <3>5, <3>6 DEF Types, TypeOK
  <2> QED
    BY <2>1, <2>6, <2>7
<1>8. CASE ServerAnswers \/ Duplicate \/ Lose
  <2>1. UNCHANGED <<loading, pc, asking, inbox, got>>
    BY <1>8 DEF ServerAnswers, Duplicate, Lose
  <2>2. wire' \subseteq Packet
    <3>1. \A d \in wire : [d EXCEPT !.k = "answer"] \in Packet /\ [d EXCEPT !.copy = TRUE] \in Packet
      BY DEF Types, TypeOK, Packet
    <3>2. wire \subseteq Packet
      BY DEF Types, TypeOK
    <3>3. CASE ServerAnswers
      BY <3>1, <3>2, <3>3 DEF ServerAnswers, Requests
    <3>4. CASE Duplicate
      BY <3>1, <3>2, <3>4 DEF Duplicate
    <3>5. CASE Lose
      BY <3>2, <3>5 DEF Lose
    <3> QED
      BY <1>8, <3>3, <3>4, <3>5
  <2> QED
    BY <2>1, <2>2 DEF Types, TypeOK, loading, asking
<1>9. CASE Deliver
  <2>1. PICK d \in wire :
            /\ wire' = wire \ {d}
            /\ \/ inbox' = inbox
               \/ \E t \in Threads : port[t] = d.port /\ inbox' = [inbox EXCEPT ![t] = @ \cup {d}]
    BY <1>9 DEF Deliver
  <2>2. UNCHANGED <<loading, pc, asking, got>>
    BY <1>9 DEF Deliver
  <2>3. inbox' \in [Threads -> SUBSET Packet] /\ \A u \in Threads : pc[u] # "receive" => inbox'[u] = {}
    <3>1. ASSUME NEW t \in Threads, port[t] = d.port, inbox' = [inbox EXCEPT ![t] = @ \cup {d}]
          PROVE  /\ inbox' \in [Threads -> SUBSET Packet]
                 /\ \A u \in Threads : pc[u] # "receive" => inbox'[u] = {}
      <4>1. pc[t] = "receive" /\ d \in Packet
        <5>1. d \in Packet /\ (port[t] # None) = (pc[t] = "receive")
          BY <2>1 DEF Types, TypeOK
        <5>2. d.port \in Ports
          BY <5>1 DEF Packet
        <5> QED
          BY <3>1, <5>1, <5>2, DnsAssumption
      <4>2. \A u \in Threads : inbox'[u] = IF u = t THEN inbox[t] \cup {d} ELSE inbox[u]
        BY <3>1 DEF Types, TypeOK
      <4> QED
        BY <3>1, <4>1, <4>2 DEF Types, TypeOK
    <3> QED
      BY <2>1, <3>1 DEF Types, TypeOK
  <2> QED
    BY <2>1, <2>2, <2>3 DEF Types, TypeOK, loading, asking
<1> QED
  BY <1>3, <1>4, <1>5, <1>6, <1>7, <1>8, <1>9 DEF Next, Lookup

-----------------------------------------------------------------------------
\* What a step does to the thread's place and to the loading of resolv.conf.
LEMMA LoadStep ==
    ASSUME Types, Next
    PROVE  \/ UNCHANGED loading /\ UNCHANGED pc
           \/ \E t \in Threads : UNCHANGED loading /\ pc[t] \in {"ask", "receive"}
                                  /\ \E to \in {"receive", "looping", "done"} : pc' = [pc EXCEPT ![t] = to]
           \/ \E t \in Threads : Check(t) \/ Create(t) \/ BeginAssign(t) \/ EndAssign(t) \/ Loaded(t)
<1>1. ASSUME NEW t \in Threads, Receive(t) \/ ReceiveRejected(t) \/ Interrupted(t)
      PROVE  /\ UNCHANGED loading /\ pc[t] = "receive"
             /\ UNCHANGED pc \/ \E to \in {"looping", "done"} : pc' = [pc EXCEPT ![t] = to]
  BY <1>1, Received DEF Stays, Ends
<1>2. ASSUME NEW t \in Threads, NoRequest(t) \/ Request(t)
      PROVE  UNCHANGED loading /\ pc[t] = "ask" /\ \E to \in {"receive", "looping", "done"} : pc' = [pc EXCEPT ![t] = to]
  BY <1>2 DEF NoRequest, Request, Go
<1>3. CASE ServerAnswers \/ Deliver \/ Duplicate \/ Lose
  BY <1>3 DEF ServerAnswers, Deliver, Duplicate, Lose
<1> QED
  BY <1>1, <1>2, <1>3 DEF Next, Lookup

LEMMA WritersInv ==
    ASSUME Types, WritersOK, Next
    PROVE  WritersOK'
<1>1. DOMAIN pc = Threads /\ DOMAIN line = Threads /\ DOMAIN over = Threads /\ assigning \subseteq Threads
  BY DEF Types, TypeOK
<1>2. CASE UNCHANGED loading /\ UNCHANGED pc
  BY <1>2 DEF WritersOK, loading
<1>3. ASSUME NEW t \in Threads, NEW to \in {"ask", "receive", "looping", "done"}, UNCHANGED loading,
             pc' = [pc EXCEPT ![t] = to], t \notin assigning
      PROVE  WritersOK'
  BY <1>1, <1>3 DEF WritersOK, loading
<1>4. ASSUME NEW t \in Threads, UNCHANGED loading, pc[t] \in {"ask", "receive"},
             NEW to \in {"receive", "looping", "done"}, pc' = [pc EXCEPT ![t] = to]
      PROVE  WritersOK'
  BY <1>3, <1>4 DEF WritersOK
<1>5. ASSUME NEW t \in Threads, Loaded(t) PROVE WritersOK'
  BY <1>3, <1>5 DEF Loaded, Go
<1>6. ASSUME NEW t \in Threads, Check(t) PROVE WritersOK'
  <2>1. /\ pc[t] = "call" /\ UNCHANGED loading
        /\ \A u \in Threads : u # t => pc'[u] = pc[u]
        /\ pc'[t] \in {"ask", "create"}
    BY <1>1, <1>6 DEF Check, Go
  <2>2. \A u \in Threads : /\ pc'[u] = "load" => pc[u] = "load"
                           /\ pc'[u] \in {"call", "create"} => line[u] = 1
    BY <2>1 DEF WritersOK
  <2>3. \A u \in assigning : pc'[u] = pc[u]
    BY <1>1, <2>1 DEF WritersOK
  <2> QED
    BY <2>1, <2>2, <2>3 DEF WritersOK, loading
<1>7. ASSUME NEW t \in Threads, Create(t) PROVE WritersOK'
  <2>1. /\ pc[t] = "create" /\ query' = TRUE /\ UNCHANGED <<address, line, assigning, over>>
        /\ \A u \in Threads : u # t => pc'[u] = pc[u]
        /\ pc'[t] = "load"
    BY <1>1, <1>7 DEF Create, Go
  <2>2. \A u \in Threads : pc'[u] \in {"call", "create"} => line[u] = 1
    BY <2>1 DEF WritersOK
  <2>3. \A u \in assigning : pc'[u] = pc[u]
    BY <1>1, <2>1 DEF WritersOK
  <2>4. query'
    BY <2>1
  <2> QED
    BY <2>1, <2>2, <2>3, <2>4 DEF WritersOK
<1>8. ASSUME NEW t \in Threads, BeginAssign(t) PROVE WritersOK'
  <2>1. /\ pc[t] = "load" /\ t \notin assigning /\ line[t] <= NumLines
        /\ assigning' = assigning \cup {t} /\ address' = address \cup {Lines[line[t]]}
        /\ UNCHANGED <<query, line, pc>>
    BY <1>8 DEF BeginAssign
  <2>2. \A u \in Threads :
            over'[u] = IF u = t THEN {Lines[line[v]] : v \in assigning}
                       ELSE IF u \in assigning THEN over[u] \cup {Lines[line[t]]} ELSE {}
    BY <1>8 DEF BeginAssign
  <2>3. assigning \subseteq Threads
    BY DEF Types, TypeOK
  <2>4. ASSUME NEW u \in assigning', NEW v \in assigning', u # v
        PROVE  Lines[line[u]] \in over'[v]
    <3>1. CASE v = t
      <4>1. u \in assigning
        BY <2>1, <2>4, <3>1
      <4> QED
        BY <2>2, <3>1, <4>1
    <3>2. CASE v # t
      <4>1. v \in assigning /\ v \in Threads /\ over'[v] = over[v] \cup {Lines[line[t]]}
        BY <2>1, <2>2, <2>3, <3>2
      <4>2. u = t \/ Lines[line[u]] \in over[v]
        BY <2>1, <2>4, <4>1 DEF WritersOK
      <4> QED
        BY <4>1, <4>2
    <3> QED
      BY <3>1, <3>2
  <2> QED
    BY <2>1, <2>4 DEF WritersOK
<1>9. ASSUME NEW t \in Threads, EndAssign(t) PROVE WritersOK'
  <2>1. /\ t \in assigning /\ assigning' = assigning \ {t}
        /\ address' = address \cap ({Lines[line[t]]} \cup over[t])
        /\ UNCHANGED <<query, pc>>
        /\ \A u \in Threads : u # t => over'[u] = over[u] /\ line'[u] = line[u]
    BY <1>1, <1>9 DEF EndAssign
  <2>2. assigning \subseteq Threads /\ pc[t] = "load"
    BY <2>1 DEF Types, TypeOK, WritersOK
  <2>3. \A u \in assigning' : pc[u] = "load" /\ line'[u] <= NumLines /\ Lines[line'[u]] \in address'
    BY <2>1, <2>2 DEF WritersOK
  <2> QED
    BY <2>1, <2>2, <2>3 DEF WritersOK
<1> QED
  BY <1>2, <1>4, <1>5, <1>6, <1>7, <1>8, <1>9, LoadStep

LEMMA AddressInv ==
    ASSUME Types, WritersOK, AddressOK, Next
    PROVE  AddressOK'
<1>1. DOMAIN pc = Threads /\ DOMAIN line = Threads /\ assigning \subseteq Threads
  BY DEF Types, TypeOK
<1>2. CASE UNCHANGED loading /\ UNCHANGED pc
  BY <1>2 DEF AddressOK, WillWriteLast, WritesLast, loading
\* A thread that does not load goes on, or one that has loaded.
<1>3. ASSUME NEW t \in Threads, ~WillWriteLast(t), ~WritesLast(t), UNCHANGED loading,
             \A u \in Threads : u # t => pc'[u] = pc[u]
      PROVE  AddressOK'
  BY <1>3 DEF AddressOK, WillWriteLast, WritesLast, loading
<1>4. ASSUME NEW t \in Threads, UNCHANGED loading, pc[t] \in {"ask", "receive"},
             NEW to \in {"receive", "looping", "done"}, pc' = [pc EXCEPT ![t] = to]
      PROVE  AddressOK'
  BY <1>3, <1>4, <1>1 DEF WillWriteLast, WritesLast, WritersOK
<1>5. ASSUME NEW t \in Threads, Check(t) \/ Loaded(t) PROVE AddressOK'
  <2>1. pc[t] = "call" \/ (pc[t] = "load" /\ t \notin assigning /\ line[t] > NumLines)
    BY <1>5 DEF Check, Loaded, Go
  <2>2. ~WillWriteLast(t) /\ ~WritesLast(t)
    BY <2>1, LineFacts DEF WillWriteLast, WritesLast, WritersOK, Types, TypeOK
  <2>3. UNCHANGED loading /\ \A u \in Threads : u # t => pc'[u] = pc[u]
    BY <1>1, <1>5 DEF Check, Loaded, Go
  <2> QED
    BY <1>3, <2>2, <2>3
<1>6. ASSUME NEW t \in Threads, Create(t) PROVE AddressOK'
  <2>1. /\ pc[t] = "create" /\ UNCHANGED <<address, line, assigning, over>> /\ pc'[t] = "load"
    BY <1>1, <1>6 DEF Create, Go
  <2>2. line[t] = 1 /\ t \notin assigning
    BY <2>1 DEF WritersOK
  <2>3. Lines # <<>> => WillWriteLast(t)'
    BY <2>1, <2>2, LineFacts DEF WillWriteLast, WritesLast
  <2> QED
    BY <2>3 DEF AddressOK
<1>7. ASSUME NEW t \in Threads, BeginAssign(t), Lines # <<>>, NEW a \in address' \ {Last(Lines)}
      PROVE  \/ \E u \in Threads : WillWriteLast(u)'
             \/ \E u \in Threads : (WritesLast(u) /\ a \notin over[u])'
  <2>1. /\ pc[t] = "load" /\ t \notin assigning /\ line[t] <= NumLines
        /\ assigning' = assigning \cup {t} /\ address' = address \cup {Lines[line[t]]}
        /\ UNCHANGED <<query, line, pc>>
        /\ over'[t] = {Lines[line[v]] : v \in assigning}
    BY <1>7 DEF BeginAssign
  <2>2. CASE line[t] # NumLines
    BY <2>1, <2>2 DEF WillWriteLast, WritesLast
  <2>3. CASE line[t] = NumLines /\ \E u \in Threads : u # t /\ WillWriteLast(u)
    BY <2>1, <2>3 DEF WillWriteLast, WritesLast
  <2>4. CASE line[t] = NumLines /\ ~\E u \in Threads : u # t /\ WillWriteLast(u)
    <3>1. \A v \in assigning : line[v] = NumLines
      BY <1>1, <2>1, <2>4 DEF WillWriteLast, WritesLast, WritersOK
    <3>2. \A v \in assigning : Lines[line[v]] = Last(Lines)
      BY <3>1, <1>7, LineFacts
    <3>3. a \notin over'[t]
      BY <1>7, <2>1, <3>2
    <3> QED
      BY <2>1, <2>4, <3>3 DEF WritesLast
  <2> QED
    BY <2>2, <2>3, <2>4
<1>8. ASSUME NEW t \in Threads, EndAssign(t), query, Lines # <<>>, NEW a \in address' \ {Last(Lines)}
      PROVE  \/ \E u \in Threads : WillWriteLast(u)'
             \/ \E u \in Threads : (WritesLast(u) /\ a \notin over[u])'
  <2>1. /\ t \in assigning /\ assigning' = assigning \ {t}
        /\ address' = address \cap ({Lines[line[t]]} \cup over[t])
        /\ UNCHANGED <<query, pc>>
        /\ \A u \in Threads : u # t => over'[u] = over[u] /\ line'[u] = line[u]
        /\ line'[t] = line[t] + 1
    BY <1>1, <1>8 DEF EndAssign, Types
  <2>2. line[t] \in 1..NumLines /\ pc[t] = "load" /\ NumLines \in Nat
    BY <2>1, LineFacts DEF WritersOK, Types, TypeOK
  <2>3. CASE line[t] # NumLines
    <3>1. line'[t] <= NumLines
      BY <2>1, <2>2, <2>3
    <3> QED
      BY <2>1, <2>2, <3>1 DEF WillWriteLast, WritesLast
  <2>4. CASE line[t] = NumLines
    <3>1. a \in over[t] /\ a \in address
      BY <1>8, <2>1, <2>4, LineFacts
    <3>2. CASE \E u \in Threads : WillWriteLast(u)
      <4>1. PICK u \in Threads : WillWriteLast(u)
        BY <3>2
      <4>2. u # t
        BY <2>1, <2>4, <4>1 DEF WillWriteLast, WritesLast
      <4> QED
        BY <2>1, <4>1, <4>2 DEF WillWriteLast, WritesLast
    <3>3. CASE \E u \in Threads : WritesLast(u) /\ a \notin over[u]
      <4>1. PICK u \in Threads : WritesLast(u) /\ a \notin over[u]
        BY <3>3
      <4>2. u # t
        BY <3>1, <4>1
      <4> QED
        BY <2>1, <4>1, <4>2 DEF WritesLast
    <3> QED
      BY <1>8, <3>1, <3>2, <3>3 DEF AddressOK
  <2> QED
    BY <2>3, <2>4
<1>9. ASSUME NEW t \in Threads, BeginAssign(t) PROVE AddressOK'
  BY <1>7, <1>9 DEF AddressOK
<1>10. ASSUME NEW t \in Threads, EndAssign(t) PROVE AddressOK'
  <2>1. query' = query
    BY <1>10 DEF EndAssign
  <2> QED
    BY <1>8, <1>10, <2>1 DEF AddressOK
<1> QED
  BY <1>2, <1>4, <1>5, <1>6, <1>9, <1>10, LoadStep

-----------------------------------------------------------------------------
\* What disturbs a lookup stays with it.
LEMMA DisturbedStays ==
    ASSUME Types, Next, NEW u \in Threads, Disturbed(u)
    PROVE  Disturbed(u)'
<1>1. shared \subseteq shared' /\ copied \subseteq copied'
      /\ (pc[u] # "receive" => retries'[u] = retries[u] /\ got'[u] = got[u])
  <2>1. ASSUME NEW t \in Threads, Receive(t) \/ ReceiveRejected(t) \/ Interrupted(t)
        PROVE  UNCHANGED <<shared, copied>> /\ (pc[u] # "receive" => retries'[u] = retries[u] /\ got'[u] = got[u])
    <3>1. UNCHANGED <<shared, copied>> /\ pc[t] = "receive"
      BY <2>1, Received
    <3>2. ASSUME pc[u] # "receive" PROVE retries'[u] = retries[u] /\ got'[u] = got[u]
      <4>1. u # t /\ DOMAIN got = Threads /\ DOMAIN retries = Threads
        BY <3>1, <3>2 DEF Types, TypeOK
      <4>2. retries' = retries \/ retries' = [retries EXCEPT ![t] = @ - 1]
        BY <2>1, Received DEF Stays, Ends, Reads, GivesUp
      <4>3. got' = got \/ \E x : got' = [got EXCEPT ![t] = x]
        BY <2>1, Received DEF Stays, Ends, Reads, GivesUp
      <4> QED
        BY <4>1, <4>2, <4>3
    <3> QED
      BY <3>1, <3>2
  <2>2. ASSUME NEW t \in Threads,
               \/ Check(t) \/ Create(t) \/ BeginAssign(t) \/ EndAssign(t) \/ Loaded(t) \/ NoRequest(t)
        PROVE  UNCHANGED <<shared, copied, retries, got>>
    BY <2>2 DEF Check, Create, BeginAssign, EndAssign, Loaded, NoRequest, asking, network
  <2>3. ASSUME NEW t \in Threads, Request(t)
        PROVE  shared \subseteq shared' /\ UNCHANGED <<copied, retries, got>>
    BY <2>3 DEF Request
  <2>4. CASE ServerAnswers \/ Deliver \/ Duplicate \/ Lose
    BY <2>4 DEF ServerAnswers, Deliver, Duplicate, Lose, asking
  <2> QED
    BY <2>1, <2>2, <2>3, <2>4 DEF Next, Lookup
<1>2. CASE u \in shared \cup copied
  BY <1>1, <1>2 DEF Disturbed
<1>3. CASE retries[u] = 0
  BY <1>1, <1>3 DEF Disturbed, Types
<1>4. CASE Astray(u)
  <2>1. pc[u] # "receive"
    BY <1>4 DEF Astray, Types
  <2> QED
    BY <1>1, <1>4, <2>1 DEF Disturbed, Astray
<1> QED
  BY <1>2, <1>3, <1>4 DEF Disturbed

\* Two sockets have one port only if both are known to share it.
LEMMA PortsInv ==
    ASSUME Types, AnswersOK, Next, NEW t \in Threads, NEW u \in Threads, t # u,
           port'[t] # None, port'[t] = port'[u]
    PROVE  t \in shared'
<1>1. DOMAIN port = Threads
  BY DEF Types, TypeOK
<1>2. CASE UNCHANGED port /\ UNCHANGED shared
  BY <1>2 DEF AnswersOK
<1>3. ASSUME NEW v \in Threads, Receive(v) \/ ReceiveRejected(v) \/ Interrupted(v)
      PROVE  t \in shared'
  <2>1. UNCHANGED shared /\ (UNCHANGED port \/ port' = [port EXCEPT ![v] = None])
    BY <1>3, Received DEF Stays, Ends
  <2> QED
    BY <1>1, <2>1 DEF AnswersOK
<1>4. ASSUME NEW v \in Threads, Request(v) PROVE t \in shared'
  <2>1. PICK p \in Ports :
            /\ port' = [port EXCEPT ![v] = p]
            /\ shared' = shared \cup {w \in Threads : port[w] = p}
                         \cup (IF {w \in Threads : port[w] = p} = {} THEN {} ELSE {v})
    BY <1>4 DEF Request
  <2>2. CASE t = v
    <3>1. port[u] = p
      BY <1>1, <2>1, <2>2
    <3>2. u \in {w \in Threads : port[w] = p}
      BY <3>1
    <3> QED
      BY <2>1, <2>2, <3>2
  <2>3. CASE t # v /\ u = v
    <3>1. port[t] = p
      BY <1>1, <2>1, <2>3
    <3> QED
      BY <2>1, <3>1
  <2>4. CASE t # v /\ u # v
    <3>1. port[t] # None /\ port[t] = port[u]
      BY <1>1, <2>1, <2>4
    <3> QED
      BY <2>1, <3>1 DEF AnswersOK
  <2> QED
    BY <2>2, <2>3, <2>4
<1>5. ASSUME NEW v \in Threads,
             \/ Check(v) \/ Create(v) \/ BeginAssign(v) \/ EndAssign(v) \/ Loaded(v) \/ NoRequest(v)
      PROVE  UNCHANGED <<port, shared>>
  BY <1>5 DEF Check, Create, BeginAssign, EndAssign, Loaded, NoRequest, asking
<1>6. CASE ServerAnswers \/ Deliver \/ Duplicate \/ Lose
  BY <1>2, <1>6 DEF ServerAnswers, Deliver, Duplicate, Lose, asking
<1> QED
  BY <1>2, <1>3, <1>4, <1>5, <1>6 DEF Next, Lookup

\* The datagrams of u are where they were, or fewer, and its socket is if they are.
LEMMA StaysUndisturbed ==
    ASSUME NEW u \in Threads, Undisturbed(u),
           \A d \in wire' : d.question = u => d \in wire,
           \A t \in Threads : \A d \in inbox'[t] : d.question = u => d \in inbox[t],
           pc[u] = "receive" => pc'[u] = pc[u] /\ port'[u] = port[u]
    PROVE  Undisturbed(u)'
BY DEF Undisturbed

LEMMA UndisturbedInv ==
    ASSUME Types, AnswersOK, Next, NEW u \in Threads, ~Disturbed(u)'
    PROVE  Undisturbed(u)'
<1>1. DOMAIN pc = Threads /\ DOMAIN port = Threads /\ DOMAIN inbox = Threads /\ DOMAIN got = Threads
  BY DEF Types, TypeOK
<1>2. ~Disturbed(u) /\ Undisturbed(u)
  BY DisturbedStays DEF AnswersOK
<1>3. ASSUME NEW t \in Threads, Receive(t) \/ ReceiveRejected(t) \/ Interrupted(t) PROVE Undisturbed(u)'
  <2>1. pc[t] = "receive" /\ UNCHANGED wire /\ (Stays(t) \/ Ends(t))
    BY <1>3, Received
  <2>2. \A v \in Threads : \A d \in inbox'[v] : d \in inbox[v]
    <3>1. PICK box \in SUBSET inbox[t] : inbox' = [inbox EXCEPT ![t] = box]
      BY <2>1 DEF Stays, Ends
    <3> QED
      BY <1>1, <3>1
  <2>3. CASE Stays(t)
    BY <1>2, <2>1, <2>2, <2>3, StaysUndisturbed DEF Stays
  <2>4. CASE Ends(t) /\ u # t
    <3>1. pc'[u] = pc[u] /\ port'[u] = port[u]
      BY <1>1, <2>4 DEF Ends
    <3> QED
      BY <1>2, <2>1, <2>2, <3>1, StaysUndisturbed
  <2>5. CASE Ends(t) /\ u = t
    <3>1. Reads(t)
      <4>1. ~GivesUp(t)
        BY <2>5 DEF GivesUp, Disturbed, Types, TypeOK
      <4> QED
        BY <2>5, <4>1 DEF Ends
    <3>2. PICK d \in inbox[t] : \E m : got' = [got EXCEPT ![t] = {[question |-> d.question, message |-> m]}]
      BY <3>1 DEF Reads
    <3>3. d.question = u
      <4>1. \A e \in got'[u] : e.question = u
        BY DEF Disturbed, Astray
      <4>2. PICK m : got' = [got EXCEPT ![t] = {[question |-> d.question, message |-> m]}]
        BY <3>2
      <4>3. got'[u] = {[question |-> d.question, message |-> m]}
        BY <1>1, <2>5, <4>2
      <4> QED
        BY <4>1, <4>3
    <3>4. \A e \in wire : e.question # u
      BY <1>2, <2>5, <3>2, <3>3 DEF Undisturbed
    <3>5. \A v \in Threads : \A e \in inbox'[v] : e.question # u
      <4>1. \A v \in Threads : inbox'[v] = IF v = u THEN {} ELSE inbox[v]
        BY <1>1, <2>5 DEF Ends
      <4> QED
        BY <1>2, <4>1 DEF Undisturbed
    <3> QED
      BY <2>1, <3>4, <3>5 DEF Undisturbed
  <2> QED
    BY <2>1, <2>3, <2>4, <2>5
<1>4. ASSUME NEW t \in Threads,
             \/ Check(t) \/ Create(t) \/ BeginAssign(t) \/ EndAssign(t) \/ Loaded(t) \/ NoRequest(t)
      PROVE  Undisturbed(u)'
  <2>1. UNCHANGED <<wire, inbox, port>>
    BY <1>4 DEF Check, Create, BeginAssign, EndAssign, Loaded, NoRequest, asking, network
  <2>2. pc[u] = "receive" => pc'[u] = pc[u]
    BY <1>1, <1>4 DEF Check, Create, BeginAssign, EndAssign, Loaded, NoRequest, Go
  <2> QED
    BY <1>2, <2>1, <2>2, StaysUndisturbed
<1>5. ASSUME NEW t \in Threads, Request(t) PROVE Undisturbed(u)'
  <2>1. PICK p \in Ports :
            /\ port' = [port EXCEPT ![t] = p]
            /\ wire' \subseteq wire \cup {[k |-> "request", port |-> p, question |-> t, copy |-> FALSE]}
    BY <1>5 DEF Request
  <2>2. PICK new : new.question = t /\ new.port = p /\ wire' \subseteq wire \cup {new}
    BY <2>1
  <2>3. pc[t] = "ask" /\ pc' = [pc EXCEPT ![t] = "receive"] /\ UNCHANGED inbox
    BY <1>5 DEF Request, Go
  <2>4. CASE u # t
    <3>1. pc'[u] = pc[u] /\ port'[u] = port[u]
      BY <1>1, <2>1, <2>3, <2>4
    <3> QED
      BY <1>2, <2>1, <2>2, <2>3, <2>4, <3>1, StaysUndisturbed
  <2>5. CASE u = t
    <3>1. \A d \in wire : d.question # u
      BY <1>2, <2>3, <2>5 DEF Undisturbed
    <3>2. \A v \in Threads : \A d \in inbox[v] : d.question # u
      BY <1>2, <2>3, <2>5 DEF Undisturbed, Types, TypeOK
    <3>3. pc'[u] = "receive" /\ port'[u] = p
      BY <1>1, <2>1, <2>3, <2>5
    <3> QED
      BY <2>1, <2>2, <2>3, <3>1, <3>2, <3>3 DEF Undisturbed
  <2> QED
    BY <2>4, <2>5
<1>6. CASE ServerAnswers
  <2>1. PICK d \in wire : wire' = (wire \ {d}) \cup {[d EXCEPT !.k = "answer"]}
    BY <1>6 DEF ServerAnswers, Requests
  <2>2. PICK new : /\ new.question = d.question /\ new.port = d.port
                   /\ wire' = (wire \ {d}) \cup {new}
    BY <2>1 DEF Types, TypeOK, Packet
  <2>3. UNCHANGED <<pc, port, inbox>>
    BY <1>6 DEF ServerAnswers, asking
  <2> QED
    BY <1>2, <2>2, <2>3 DEF Undisturbed
<1>7. CASE Duplicate
  <2>1. PICK d \in wire : copied' = copied \cup {d.question} /\ wire' = wire \cup {[d EXCEPT !.copy = TRUE]}
    BY <1>7 DEF Duplicate
  <2>2. [d EXCEPT !.copy = TRUE].question = d.question
    BY DEF Types, TypeOK, Packet
  <2>3. d.question # u
    BY <2>1 DEF Disturbed
  <2>4. UNCHANGED <<pc, port, inbox>>
    BY <1>7 DEF Duplicate, asking
  <2> QED
    BY <1>2, <2>1, <2>2, <2>3, <2>4, StaysUndisturbed
<1>8. CASE Lose
  <2>1. wire' \subseteq wire /\ UNCHANGED <<pc, port, inbox>>
    BY <1>8 DEF Lose, asking
  <2> QED
    BY <1>2, <2>1, StaysUndisturbed
<1>9. CASE Deliver
  <2>1. PICK d \in wire :
            /\ wire' = wire \ {d}
            /\ \/ inbox' = inbox
               \/ \E t \in Threads : port[t] = d.port /\ inbox' = [inbox EXCEPT ![t] = @ \cup {d}]
    BY <1>9 DEF Deliver
  <2>2. UNCHANGED <<pc, port>>
    BY <1>9 DEF Deliver, asking
  <2>3. CASE inbox' = inbox
    BY <1>2, <2>1, <2>2, <2>3, StaysUndisturbed
  <2>4. ASSUME NEW t \in Threads, port[t] = d.port, inbox' = [inbox EXCEPT ![t] = @ \cup {d}]
        PROVE  Undisturbed(u)'
    <3>1. \A v \in Threads : inbox'[v] = IF v = t THEN inbox[t] \cup {d} ELSE inbox[v]
      BY <1>1, <2>4
    <3>2. CASE d.question # u
      BY <1>2, <2>1, <2>2, <3>1, <3>2, StaysUndisturbed
    <3>3. CASE d.question = u
      <4>1. pc[u] = "receive" /\ port[u] = port[t] /\ port[u] # None
        BY <1>2, <2>4, <3>3 DEF Undisturbed, Types, TypeOK
      <4>2. t = u
        BY <1>2, <4>1 DEF AnswersOK, Disturbed
      <4>3. \A v \in Threads : \A e \in inbox[v] : e.question # u
        BY <1>2, <3>3 DEF Undisturbed
      <4>4. \A e \in wire' : e.question # u
        BY <1>2, <2>1, <3>3 DEF Undisturbed
      <4> QED
        BY <3>1, <4>2, <4>3, <4>4 DEF Undisturbed
    <3> QED
      BY <3>2, <3>3
  <2> QED
    BY <2>1, <2>3, <2>4
<1> QED
  BY <1>3, <1>4, <1>5, <1>6, <1>7, <1>8, <1>9 DEF Next, Lookup

LEMMA AnswersInv ==
    ASSUME Types, AnswersOK, Next
    PROVE  AnswersOK'
<1>1. ASSUME NEW t \in Threads, NEW d \in got'[t] PROVE d.question = t \/ Disturbed(d.question)'
  <2>1. CASE got'[t] = got[t]
    <3>1. d.question = t \/ Disturbed(d.question)
      BY <1>1, <2>1 DEF AnswersOK, AnswerIsOwn
    <3>2. d.question \in Threads
      BY <1>1, <2>1 DEF Types
    <3> QED
      BY <3>1, <3>2, DisturbedStays
  <2>2. ASSUME NEW v \in Threads, Receive(v) \/ ReceiveRejected(v) \/ Interrupted(v), got'[t] # got[t]
        PROVE  d.question = t \/ Disturbed(d.question)'
    <3>1. Reads(v)
      BY <2>2, Received DEF Stays, Ends, GivesUp
    <3>2. PICK e \in inbox[v] : \E m : got' = [got EXCEPT ![v] = {[question |-> e.question, message |-> m]}]
      BY <3>1 DEF Reads
    <3>3. v = t /\ d.question = e.question
      BY <1>1, <2>2, <3>2 DEF Types
    <3>4. e.question \in Threads
      BY <3>2 DEF Types, TypeOK, Packet
    <3>5. Disturbed(e.question) \/ t = e.question
      BY <3>2, <3>3, <3>4 DEF AnswersOK, Undisturbed
    <3> QED
      BY <3>3, <3>4, <3>5, DisturbedStays
  <2>3. ASSUME NEW v \in Threads,
               \/ Check(v) \/ Create(v) \/ BeginAssign(v) \/ EndAssign(v) \/ Loaded(v)
               \/ NoRequest(v) \/ Request(v)
        PROVE  got' = got
    BY <2>3 DEF Check, Create, BeginAssign, EndAssign, Loaded, NoRequest, Request
  <2>4. CASE ServerAnswers \/ Deliver \/ Duplicate \/ Lose
    BY <2>1, <2>4 DEF ServerAnswers, Deliver, Duplicate, Lose
  <2> QED
    BY <2>1, <2>2, <2>3, <2>4 DEF Next, Lookup
<1>2. AnswerIsOwn'
  BY <1>1 DEF AnswerIsOwn
<1>3. \A u \in Threads : Disturbed(u)' \/ Undisturbed(u)'
  BY UndisturbedInv
<1>4. \A t, u \in Threads : t # u /\ port'[t] # None /\ port'[t] = port'[u] => t \in shared'
  BY PortsInv
<1> QED
  BY <1>2, <1>3, <1>4 DEF AnswersOK

LEMMA NextInv == IInv /\ [Next]_vars => IInv'
<1> SUFFICES ASSUME IInv, [Next]_vars PROVE IInv'
  OBVIOUS
<1>1. CASE Next
  <2>1. AnswersOK'
    BY <1>1, AnswersInv DEF IInv
  <2> QED
    BY <1>1, <2>1, TypesInv, WritersInv, AddressInv DEF IInv
<1>2. CASE UNCHANGED vars
  <2> USE <1>2 DEF vars, loading, asking, network
  <2>1. Types' /\ WritersOK'
    BY DEF IInv, Types, TypeOK, WritersOK
  <2>2. AddressOK' /\ AnswersOK'
    BY DEF IInv, AddressOK, WillWriteLast, WritesLast, AnswersOK, Undisturbed, Disturbed, Astray, AnswerIsOwn
  <2> QED
    BY <2>1, <2>2 DEF IInv
<1> QED
  BY <1>1, <1>2

\* The conjunction is inductive, so it holds of every behaviour.
THEOREM Invariance == Spec => []IInv
BY InitInv, NextInv, PTL DEF Spec

-----------------------------------------------------------------------------
\* Every variable keeps its type, ServerAddress is never without a string, and a
\* thread has a socket, and datagrams at it, as long as it waits for its answer.
THEOREM TypeCorrect == Spec => []TypeOK
<1>1. IInv => TypeOK
  BY DEF IInv, Types
<1> QED
  BY <1>1, Invariance, PTL

\* Whoever reads another lookup's answer, that lookup shared its port, had a datagram
\* doubled, gave up, or had read another's answer itself.
THEOREM AnswersAreOwn == Spec => []AnswerIsOwn
<1>1. IInv => AnswerIsOwn
  BY DEF IInv, AnswersOK
<1> QED
  BY <1>1, Invariance, PTL

\* Once nobody reads resolv.conf ServerAddress holds its last nameserver whole.
LEMMA LoadedAddress ==
    ASSUME IInv, query, Lines # <<>>, \A u \in Threads : pc[u] # "load"
    PROVE  AddressesRead = {Last(Lines)}
<1>1. \A t \in Threads : ~WillWriteLast(t) /\ ~WritesLast(t)
  BY DEF WillWriteLast, WritesLast, IInv, WritersOK
<1>2. address = {Last(Lines)}
  <2>1. \A a \in address : a = Last(Lines)
    BY <1>1 DEF IInv, AddressOK
  <2>2. address # {}
    BY DEF IInv, Types, TypeOK
  <2> QED
    BY <2>1, <2>2
<1>3. Cardinality(address) = 1
  BY <1>2, FS_Singleton, Zenon
<1> QED
  BY <1>2, <1>3 DEF AddressesRead

\* Every request goes to the last nameserver of resolv.conf, however the loads of
\* several threads interleaved, once none is under way.
THEOREM AddressConfigured == Spec => AddressIsConfigured
<1> DEFINE Configured ==
        \A t \in Threads :
            (dest'[t] \notin {dest[t], None} /\ query /\ Lines # <<>> /\ \A u \in Threads : pc[u] # "load")
                => dest'[t] = Last(Lines)
<1>1. ASSUME IInv, [Next]_vars PROVE [Configured]_vars
  <2> SUFFICES ASSUME Next, NEW t \in Threads, dest'[t] \notin {dest[t], None}, query, Lines # <<>>,
                      \A u \in Threads : pc[u] # "load"
               PROVE  dest'[t] = Last(Lines)
    BY <1>1
  <2>1. DOMAIN dest = Threads
    BY <1>1 DEF IInv, Types
  <2>2. PICK u \in Threads : Request(u)
    <3>1. ASSUME NEW u \in Threads, Receive(u) \/ ReceiveRejected(u) \/ Interrupted(u) PROVE FALSE
      <4>1. dest' = dest \/ dest' = [dest EXCEPT ![u] = None]
        BY <1>1, <3>1, Received DEF IInv, Stays, Ends
      <4> QED
        BY <2>1, <4>1
    <3>2. ASSUME NEW u \in Threads,
                 Check(u) \/ Create(u) \/ BeginAssign(u) \/ EndAssign(u) \/ Loaded(u) \/ NoRequest(u)
          PROVE  FALSE
      BY <3>2 DEF Check, Create, BeginAssign, EndAssign, Loaded, NoRequest, asking
    <3>3. ~(ServerAnswers \/ Deliver \/ Duplicate \/ Lose)
      BY DEF ServerAnswers, Deliver, Duplicate, Lose, asking
    <3> QED
      BY <3>1, <3>2, <3>3 DEF Next, Lookup
  <2>3. PICK a \in AddressesRead : dest' = [dest EXCEPT ![u] = a]
    BY <2>2 DEF Request
  <2>4. a = Last(Lines)
    BY <1>1, <2>3, LoadedAddress
  <2> QED
    BY <2>1, <2>3, <2>4
<1> QED
  BY <1>1, Invariance, PTL DEF Spec, AddressIsConfigured
-----------------------------------------------------------------------------
\* Induction over the naturals, for a property given as a set.
LEMMA FromZero ==
    ASSUME NEW T, 0 \in T, \A i \in Nat : i \in T => i + 1 \in T
    PROVE  \A i \in Nat : i \in T
<1> DEFINE Missing == {i \in Nat : i \notin T}
<1>1. ASSUME Missing # {} PROVE FALSE
  <2>1. IsWellFoundedOn(OpToRel(<,Nat), Nat) /\ Missing \subseteq Nat
    BY NatLessThanWellFounded
  <2>2. PICK x \in Missing : \A y \in Missing : ~(<<y, x>> \in OpToRel(<,Nat))
    BY <1>1, <2>1, WFMin
  <2>3. x \in Nat /\ x # 0 /\ x \notin T
    BY <2>2
  <2>4. x - 1 \in Nat /\ x - 1 < x /\ (x - 1) + 1 = x
    BY <2>3
  <2>5. x - 1 \in T
    BY <2>2, <2>3, <2>4 DEF OpToRel
  <2> QED
    BY <2>3, <2>4, <2>5
<1> QED
  BY <1>1

-----------------------------------------------------------------------------
(***************************************************************************)
(* Walking over a name.                                                    *)
(***************************************************************************)
WalkStep(w, m, i) ==
    CASE At(m, i, "label") -> w[i + 1]
      [] At(m, i, "pointer") ->
            [w[Target(m, i)] EXCEPT !.tmp = IF @ = 0 THEN i + 1 ELSE @]
      [] OTHER -> [end |-> i, tmp |-> 0]
Walks(w, m) == w = [i \in 1..(Len(m) + 1) |-> WalkStep(w, m, i)]

LEMMA StepOverLabel ==
    ASSUME NEW w, NEW m, NEW i, At(m, i, "label")
    PROVE  WalkStep(w, m, i) = w[i + 1]
<1>1. ~At(m, i, "pointer")
  BY DEF At
<1> QED
  BY <1>1 DEF WalkStep

\* The walks that come to a token other than a label by k.
Settled(m, k) == {i \in 1..(Len(m) + 1) : \E q \in i..k : ~At(m, q, "label")}

\* A message whose pointers lead back.
LEMMA SettledFacts ==
    ASSUME NEW m \in Seq(Token), PointersLeadBack(m)
    PROVE  /\ Len(m) \in Nat
           /\ Settled(m, 0) = {} /\ Settled(m, Len(m) + 1) = 1..(Len(m) + 1)
           /\ \A k \in Nat : \A i \in Settled(m, k) :
                 /\ i \in 1..(Len(m) + 1)
                 /\ i \in Settled(m, k + 1)
                 /\ At(m, i, "label") => i + 1 \in Settled(m, k)
                 /\ At(m, i, "pointer") => Target(m, i) \in Settled(m, k)
           /\ \A k \in Nat : \A i \in Settled(m, k + 1) \ Settled(m, k) :
                 /\ i <= k + 1 /\ k + 1 \in 1..(Len(m) + 1) /\ ~At(m, k + 1, "label")
                 /\ i # k + 1 => At(m, i, "label") /\ i + 1 \in Settled(m, k + 1) \ Settled(m, k)
                 /\ i = k + 1 /\ At(m, i, "pointer") => Target(m, i) \in Settled(m, k)
<1>1. Len(m) \in Nat
  BY LenProperties
<1>2. Settled(m, 0) = {}
  BY <1>1 DEF Settled
<1>3. Settled(m, Len(m) + 1) = 1..(Len(m) + 1)
  <2>1. ~At(m, Len(m) + 1, "label")
    BY <1>1 DEF At
  <2> QED
    BY <1>1, <2>1 DEF Settled
<1>4. ASSUME NEW i \in 1..Len(m), At(m, i, "pointer")
      PROVE  \A k \in Nat : i <= k + 1 => Target(m, i) \in Settled(m, k)
  <2>1. Target(m, i) = m[i].to /\ m[i].to \in 1..(i - 1)
    BY <1>1, <1>4 DEF At, PointersLeadBack, Target
  <2>2. PICK e \in 1..(i - 1) : NameAt(m, m[i].to, e)
    BY <1>4 DEF At, PointersLeadBack
  <2>3. e \in m[i].to..Len(m) /\ ~At(m, e, "label")
    BY <2>2 DEF NameAt, At
  <2> QED
    BY <1>1, <2>1, <2>2, <2>3 DEF Settled
<1>5. ASSUME NEW k \in Nat, NEW i \in Settled(m, k)
      PROVE  /\ i \in 1..(Len(m) + 1) /\ i \in Settled(m, k + 1)
             /\ At(m, i, "label") => i + 1 \in Settled(m, k)
             /\ At(m, i, "pointer") => Target(m, i) \in Settled(m, k)
  <2>1. PICK q \in i..k : ~At(m, q, "label")
    BY <1>5 DEF Settled
  <2>2. i \in 1..(Len(m) + 1) /\ q \in i..(k + 1) /\ i <= k
    BY <1>5, <2>1, <1>1 DEF Settled
  <2>3. ASSUME At(m, i, "label") PROVE i + 1 \in Settled(m, k)
    <3>1. q # i /\ i \in 1..Len(m)
      BY <2>1, <2>3 DEF At
    <3>2. i + 1 \in 1..(Len(m) + 1) /\ q \in (i + 1)..k
      BY <1>1, <2>1, <2>2, <3>1
    <3> QED
      BY <2>1, <3>2 DEF Settled
  <2>4. ASSUME At(m, i, "pointer") PROVE Target(m, i) \in Settled(m, k)
    BY <1>4, <2>2, <2>4 DEF At
  <2> QED
    BY <2>1, <2>2, <2>3, <2>4 DEF Settled
<1>6. ASSUME NEW k \in Nat, NEW i \in Settled(m, k + 1) \ Settled(m, k)
      PROVE  /\ i <= k + 1 /\ k + 1 \in 1..(Len(m) + 1) /\ ~At(m, k + 1, "label")
             /\ i # k + 1 => At(m, i, "label") /\ i + 1 \in Settled(m, k + 1) \ Settled(m, k)
             /\ i = k + 1 /\ At(m, i, "pointer") => Target(m, i) \in Settled(m, k)
  <2>1. PICK q \in i..(k + 1) : ~At(m, q, "label")
    BY <1>6 DEF Settled
  <2>2. i \in 1..(Len(m) + 1) /\ \A p \in i..k : At(m, p, "label")
    BY <1>6 DEF Settled
  <2>3. q = k + 1 /\ i <= k + 1
    BY <2>1, <2>2
  <2>4. k + 1 <= Len(m) + 1
    <3>1. CASE i = k + 1
      BY <2>2, <3>1
    <3>2. CASE i # k + 1
      <4>1. k \in i..k
        BY <2>2, <2>3, <3>2
      <4>2. k \in 1..Len(m)
        BY <2>2, <4>1 DEF At
      <4> QED
        BY <1>1, <4>2
    <3> QED
      BY <3>1, <3>2
  <2>5. ASSUME i # k + 1
        PROVE  At(m, i, "label") /\ i + 1 \in Settled(m, k + 1) \ Settled(m, k)
    <3>1. i \in i..k /\ At(m, i, "label")
      BY <2>2, <2>3, <2>5
    <3>2. i + 1 \in 1..(Len(m) + 1)
      BY <1>1, <3>1 DEF At
    <3>3. i + 1 \in Settled(m, k + 1)
      BY <2>1, <2>2, <2>3, <2>5, <3>2 DEF Settled
    <3>4. i + 1 \notin Settled(m, k)
      BY <2>2 DEF Settled
    <3> QED
      BY <3>1, <3>3, <3>4
  <2>6. ASSUME i = k + 1, At(m, i, "pointer") PROVE Target(m, i) \in Settled(m, k)
    BY <1>4, <2>6 DEF At
  <2> QED
    BY <2>1, <2>2, <2>3, <2>4, <2>5, <2>6
<1> QED
  BY <1>1, <1>2, <1>3, <1>5, <1>6

\* The walks over the names of such a message end.
LEMMA NoLoops ==
    ASSUME NEW m \in Seq(Token), PointersLeadBack(m), NEW i \in 1..(Len(m) + 1)
    PROVE  ~Loops(m, i)
<1> SUFFICES ASSUME NEW S \in SUBSET {j \in 1..Len(m) : m[j].k \in {"label", "pointer"}},
                    \A j \in S : IF m[j].k = "label" THEN j + 1 \in S ELSE Target(m, j) \in S
             PROVE  i \notin S
  BY DEF Loops
<1> DEFINE T == {k \in Nat : Settled(m, k) \cap S = {}}
<1>1. 0 \in T
  BY SettledFacts
<1>2. ASSUME NEW k \in Nat, k \in T PROVE k + 1 \in T
  <2> DEFINE new == Settled(m, k + 1) \ Settled(m, k)
             D == {d \in Nat : (k + 1) - d \in new => (k + 1) - d \notin S}
  <2>1. 0 \in D
    <3>1. SUFFICES ASSUME k + 1 \in new, k + 1 \in S PROVE FALSE
      OBVIOUS
    <3>2. ~At(m, k + 1, "label") /\ k + 1 \in 1..Len(m) /\ m[k + 1].k \in {"label", "pointer"}
      BY <3>1, SettledFacts
    <3>3. At(m, k + 1, "pointer") /\ Target(m, k + 1) \in S
      BY <3>1, <3>2 DEF At
    <3>4. Target(m, k + 1) \in Settled(m, k)
      BY <3>1, <3>3, SettledFacts
    <3> QED
      BY <1>2, <3>3, <3>4
  <2>2. ASSUME NEW d \in Nat, d \in D PROVE d + 1 \in D
    <3> DEFINE j == (k + 1) - (d + 1)
    <3>1. j # k + 1 /\ j + 1 = (k + 1) - d
      OBVIOUS
    <3> HIDE DEF j
    <3>2. SUFFICES ASSUME j \in new, j \in S PROVE FALSE
      BY DEF j
    <3>3. At(m, j, "label") /\ j + 1 \in new
      BY <3>1, <3>2, SettledFacts
    <3>4. j + 1 \in S
      BY <3>2, <3>3 DEF At
    <3> QED
      BY <2>2, <3>1, <3>3, <3>4
  <2> HIDE DEF D
  <2>3. \A d \in Nat : d \in D
    BY <2>1, <2>2, FromZero
  <2>4. ASSUME NEW j \in new PROVE j \notin S
    <3>1. j \in 1..(Len(m) + 1) /\ j <= k + 1
      BY SettledFacts DEF Settled
    <3>2. (k + 1) - j \in Nat /\ (k + 1) - ((k + 1) - j) = j
      BY <3>1, SettledFacts
    <3> QED
      BY <2>3, <3>2 DEF D
  <2> QED
    BY <1>2, <2>4
<1> HIDE DEF T
<1>3. \A k \in Nat : k \in T
  BY <1>1, <1>2, FromZero
<1>4. Len(m) + 1 \in T
  BY <1>3, SettledFacts
<1> QED
  BY <1>4, SettledFacts DEF T

LEMMA WalkExists ==
    ASSUME NEW m \in Seq(Token), PointersLeadBack(m)
    PROVE  \E w : Walks(w, m)
<1> DEFINE T == {k \in Nat : \E w : w = [i \in Settled(m, k) |-> WalkStep(w, m, i)]}
<1>1. 0 \in T
  <2>1. Settled(m, 0) = {}
    BY SettledFacts
  <2>2. <<>> = [i \in {} |-> WalkStep(<<>>, m, i)]
    OBVIOUS
  <2> QED
    BY <2>1, <2>2
<1>2. ASSUME NEW k \in Nat, k \in T PROVE k + 1 \in T
  <2>1. PICK w : w = [i \in Settled(m, k) |-> WalkStep(w, m, i)]
    BY <1>2
  <2> DEFINE last == WalkStep(w, m, k + 1)
             next == [i \in Settled(m, k + 1) |-> IF i \in Settled(m, k) THEN w[i] ELSE last]
  <2>2. \A i \in Settled(m, k) : i \in Settled(m, k + 1) /\ next[i] = w[i]
    BY SettledFacts
  <2>3. \A i \in Settled(m, k + 1) \ Settled(m, k) : next[i] = last
    OBVIOUS
  <2> HIDE DEF next
  <2>4. ASSUME NEW i \in Settled(m, k + 1) PROVE next[i] = WalkStep(next, m, i)
    <3>1. CASE i \in Settled(m, k)
      <4>1. w[i] = WalkStep(w, m, i)
        BY <2>1, <3>1
      <4>2. /\ At(m, i, "label") => next[i + 1] = w[i + 1]
            /\ At(m, i, "pointer") => next[Target(m, i)] = w[Target(m, i)]
        BY <2>2, <3>1, SettledFacts
      <4>3. WalkStep(next, m, i) = WalkStep(w, m, i)
        BY <4>2 DEF WalkStep
      <4> QED
        BY <2>2, <3>1, <4>1, <4>3
    <3>2. CASE i \notin Settled(m, k) /\ i # k + 1
      <4>1. At(m, i, "label") /\ i + 1 \in Settled(m, k + 1) \ Settled(m, k)
        BY <3>2, SettledFacts
      <4>2. next[i] = last /\ next[i + 1] = last
        BY <2>3, <2>4, <3>2, <4>1
      <4> QED
        BY <4>1, <4>2, StepOverLabel
    <3>3. CASE i \notin Settled(m, k) /\ i = k + 1
      <4>1. ~At(m, i, "label") /\ (At(m, i, "pointer") => Target(m, i) \in Settled(m, k))
        BY <3>3, SettledFacts
      <4>2. At(m, i, "pointer") => next[Target(m, i)] = w[Target(m, i)]
        BY <2>2, <4>1
      <4>3. WalkStep(next, m, i) = WalkStep(w, m, i)
        BY <4>1, <4>2 DEF WalkStep
      <4>4. next[i] = last
        BY <2>3, <2>4, <3>3
      <4> QED
        BY <3>3, <4>3, <4>4
    <3> QED
      BY <3>1, <3>2, <3>3
  <2>5. next = [i \in Settled(m, k + 1) |-> next[i]]
    BY DEF next
  <2>6. next = [i \in Settled(m, k + 1) |-> WalkStep(next, m, i)]
    BY <2>4, <2>5
  <2> QED
    BY <2>6
<1> HIDE DEF T
<1>3. \A k \in Nat : k \in T
  BY <1>1, <1>2, FromZero
<1>4. Len(m) + 1 \in T
  BY <1>3, SettledFacts
<1> QED
  BY <1>4, SettledFacts DEF T, Walks

LEMMA WalkIs ==
    ASSUME NEW m \in Seq(Token), PointersLeadBack(m)
    PROVE  /\ DOMAIN Walk(m) = 1..(Len(m) + 1)
           /\ \A i \in 1..(Len(m) + 1) : Walk(m)[i] = WalkStep(Walk(m), m, i)
<1>1. Walk(m) = CHOOSE w : Walks(w, m)
  BY DEF Walk, Walks, WalkStep
<1>2. Walks(Walk(m), m)
  BY <1>1, WalkExists
<1> DEFINE w == Walk(m)
<1> HIDE DEF w
<1>3. w = [i \in 1..(Len(m) + 1) |-> WalkStep(w, m, i)]
  BY <1>2 DEF Walks, w
<1>4. DOMAIN w = 1..(Len(m) + 1) /\ \A i \in 1..(Len(m) + 1) : w[i] = WalkStep(w, m, i)
  BY <1>3
<1> QED
  BY <1>4 DEF w

LEMMA Passes ==
    ASSUME NEW m \in Seq(Token), PointersLeadBack(m),
           NEW s \in 1..(Len(m) + 1), NEW e \in s..(Len(m) + 1),
           \A j \in s..(e - 1) : At(m, j, "label")
    PROVE  Walk(m)[s] = Walk(m)[e]
<1> DEFINE w == Walk(m)
           T == {d \in Nat : d <= e - s => w[e - d] = w[e]}
<1>1. \A i \in 1..(Len(m) + 1) : w[i] = WalkStep(w, m, i)
  BY WalkIs
<1>2. Len(m) \in Nat
  BY LenProperties
<1> HIDE DEF w
<1>3. 0 \in T
  BY <1>2
<1>4. ASSUME NEW d \in Nat, d \in T PROVE d + 1 \in T
  <2>1. SUFFICES ASSUME d + 1 <= e - s PROVE w[e - (d + 1)] = w[e]
    OBVIOUS
  <2> DEFINE i == e - (d + 1)
  <2>2. i \in s..(e - 1) /\ i \in 1..(Len(m) + 1) /\ i + 1 = e - d /\ d <= e - s
    BY <1>2, <2>1
  <2> HIDE DEF i
  <2>3. w[i] = w[i + 1]
    BY <1>1, <2>2, StepOverLabel
  <2>4. w[i + 1] = w[e]
    BY <1>4, <2>2
  <2> QED
    BY <2>3, <2>4 DEF i
<1> HIDE DEF T
<1>5. \A d \in Nat : d \in T
  BY <1>3, <1>4, FromZero
<1>6. e - s \in Nat /\ e - (e - s) = s /\ e - s <= e - s
  BY <1>2
<1>7. e - s \in T
  BY <1>5, <1>6
<1>8. w[e - (e - s)] = w[e]
  BY <1>6, <1>7 DEF T
<1> QED
  BY <1>6, <1>8 DEF w

LEMMA WalkType ==
    ASSUME NEW m \in Seq(Token), PointersLeadBack(m)
    PROVE  \A i \in 1..(Len(m) + 1) : Walk(m)[i] \in [end : Nat, tmp : Nat]
<1> DEFINE w == Walk(m)
           T == {k \in Nat : \A i \in Settled(m, k) : w[i] \in [end : Nat, tmp : Nat]}
<1>1. \A i \in 1..(Len(m) + 1) : w[i] = WalkStep(w, m, i)
  BY WalkIs
<1> HIDE DEF w
<1>2. 0 \in T
  BY SettledFacts
<1>3. ASSUME NEW k \in Nat, k \in T PROVE k + 1 \in T
  <2>1. \A i \in Settled(m, k) : w[i] \in [end : Nat, tmp : Nat]
    BY <1>3
  <2>2. ASSUME NEW i \in Settled(m, k + 1) \ Settled(m, k)
        PROVE  /\ k + 1 \in 1..(Len(m) + 1) /\ w[k + 1] \in [end : Nat, tmp : Nat]
    <3>1. k + 1 \in 1..(Len(m) + 1) /\ ~At(m, k + 1, "label")
      BY <2>2, SettledFacts
    <3>2. k + 1 \in Settled(m, k + 1) \ Settled(m, k)
      BY <3>1 DEF Settled
    <3>3. At(m, k + 1, "pointer") => Target(m, k + 1) \in Settled(m, k)
      BY <3>2, SettledFacts
    <3>4. At(m, k + 1, "pointer") => w[Target(m, k + 1)] \in [end : Nat, tmp : Nat]
      BY <2>1, <3>3
    <3>5. w[k + 1] = WalkStep(w, m, k + 1)
      BY <1>1, <3>1
    <3> QED
      BY <3>1, <3>4, <3>5 DEF WalkStep
  <2>3. \A i \in Settled(m, k + 1) \ Settled(m, k) : w[i] = w[k + 1]
    <3>1. ASSUME NEW i \in Settled(m, k + 1) \ Settled(m, k) PROVE w[i] = w[k + 1]
      <4>1. i \in 1..(Len(m) + 1) /\ \A j \in i..k : At(m, j, "label")
        BY <3>1 DEF Settled
      <4>2. i <= k + 1 /\ k + 1 \in 1..(Len(m) + 1)
        BY <3>1, SettledFacts
      <4>3. k + 1 \in i..(Len(m) + 1) /\ k + 1 - 1 = k
        BY <4>1, <4>2
      <4> QED
        BY <4>1, <4>3, Passes DEF w
    <3> QED
      BY <3>1
  <2>4. \A i \in Settled(m, k + 1) : w[i] \in [end : Nat, tmp : Nat]
    BY <2>1, <2>2, <2>3
  <2> QED
    BY <2>4
<1> HIDE DEF T
<1>4. \A k \in Nat : k \in T
  BY <1>2, <1>3, FromZero
<1>5. Len(m) + 1 \in T
  BY <1>4, SettledFacts
<1>6. \A i \in 1..(Len(m) + 1) : w[i] \in [end : Nat, tmp : Nat]
  BY <1>5, SettledFacts DEF T
<1> QED
  BY <1>6 DEF w

-----------------------------------------------------------------------------
(***************************************************************************)
(* Reading an answer cut behind its first n tokens.                        *)
(***************************************************************************)
LEMMA Cut ==
    ASSUME NEW whole \in Seq(Token), PointersLeadBack(whole), NEW n \in 0..Len(whole)
    PROVE  LET m == SubSeq(whole, 1, n)
           IN  /\ m \in Seq(Token) /\ Len(m) = n /\ n \in Nat /\ Len(whole) \in Nat
               /\ PointersLeadBack(m)
               /\ \A i \in 1..n : m[i] = whole[i]
<1> DEFINE m == SubSeq(whole, 1, n)
<1>1. Len(whole) \in Nat /\ n \in Nat
  BY LenProperties
<1>2. m \in Seq(Token) /\ Len(m) = n /\ \A i \in 1..n : m[i] = whole[i]
  <2>1. \A i \in 1..n : i \in 1..Len(whole)
    BY <1>1
  <2>2. m \in Seq(Token)
    BY <1>1, <2>1, SubSeqProperties, ElementOfSeq
  <2> QED
    BY <1>1, <2>2, SubSeqProperties
<1> HIDE DEF m
<1>3. ASSUME NEW i \in 1..Len(m), m[i].k = "pointer"
      PROVE  m[i].to \in 1..(i - 1) /\ \E e \in 1..(i - 1) : NameAt(m, m[i].to, e)
  <2>1. i \in 1..n /\ i \in 1..Len(whole) /\ m[i] = whole[i]
    BY <1>1, <1>2
  <2>2. m[i].to \in 1..(i - 1) /\ \E e \in 1..(i - 1) : NameAt(whole, m[i].to, e)
    BY <1>3, <2>1 DEF PointersLeadBack
  <2>3. PICK e \in 1..(i - 1) : NameAt(whole, m[i].to, e)
    BY <2>2
  <2>4. /\ e \in m[i].to..Len(whole) /\ whole[e].k \in {"zero", "pointer"}
        /\ \A j \in m[i].to..(e - 1) : whole[j].k = "label"
    BY <2>3 DEF NameAt
  <2>5. /\ e \in m[i].to..Len(m) /\ m[e] = whole[e]
        /\ \A j \in m[i].to..(e - 1) : m[j] = whole[j]
    BY <1>1, <1>2, <2>1, <2>2, <2>3, <2>4
  <2>6. NameAt(m, m[i].to, e)
    BY <2>4, <2>5 DEF NameAt
  <2> QED
    BY <2>2, <2>6
<1> QED
  BY <1>1, <1>2, <1>3 DEF m, PointersLeadBack

\* A message that a server sent, and what is left of it.
CutOf(m, whole, n) ==
    /\ whole \in Seq(Token) /\ Len(whole) \in Nat
    /\ m \in Seq(Token) /\ PointersLeadBack(m)
    /\ n \in Nat /\ n <= Len(whole) /\ Len(m) = n
    /\ \A i \in 1..n : m[i] = whole[i]

LEMMA WalkAtEnd ==
    ASSUME NEW m, NEW whole, NEW n, CutOf(m, whole, n)
    PROVE  Walk(m)[n + 1] = [end |-> n + 1, tmp |-> 0]
<1>1. n \in Nat /\ Len(m) = n
  BY DEF CutOf
<1>2. ~At(m, n + 1, "label") /\ ~At(m, n + 1, "pointer")
  BY <1>1 DEF At
<1>3. Walk(m)[n + 1] = WalkStep(Walk(m), m, n + 1)
  BY <1>1, WalkIs DEF CutOf
<1> QED
  BY <1>2, <1>3 DEF WalkStep

\* The walk over a name of which the cut left only labels, and over one it left whole.
LEMMA NameCutOff ==
    ASSUME NEW m, NEW whole, NEW n, CutOf(m, whole, n),
           NEW s \in 1..(n + 1), NEW e, NameAt(whole, s, e), e > n
    PROVE  /\ \A j \in s..n : At(m, j, "label")
           /\ Walk(m)[s].end = n + 1 /\ AfterName(m, s) = n + 2
<1>1. n \in Nat /\ Len(whole) \in Nat /\ Len(m) = n /\ \A i \in 1..n : m[i] = whole[i]
  BY DEF CutOf
<1>2. \A j \in s..n : At(m, j, "label")
  <2>1. ASSUME NEW j \in s..n PROVE At(m, j, "label")
    <3>1. e \in s..Len(whole)
      BY DEF NameAt
    <3>2. j \in s..(e - 1) /\ j \in 1..n
      BY <1>1, <3>1
    <3> QED
      BY <1>1, <3>2 DEF NameAt, At
  <2> QED
    BY <2>1
<1>3. n + 1 \in s..(Len(m) + 1) /\ n + 1 - 1 = n
  BY <1>1
<1>4. Walk(m)[s] = Walk(m)[n + 1]
  BY <1>1, <1>2, <1>3, Passes DEF CutOf
<1>5. Walk(m)[s] = [end |-> n + 1, tmp |-> 0]
  BY <1>4, WalkAtEnd
<1> QED
  BY <1>1, <1>2, <1>5 DEF AfterName

LEMMA NameWhole ==
    ASSUME NEW m, NEW whole, NEW n, CutOf(m, whole, n),
           NEW s \in 1..(n + 1), NEW e, NameAt(whole, s, e), e <= n,
           At(m, e, "pointer") => Walk(m)[Target(m, e)].tmp = 0
    PROVE  /\ e \in 1..n /\ \A j \in s..e : ~At(m, j, "data")
           /\ whole[e].k = "zero" => Walk(m)[s].end = e
           /\ At(m, Walk(m)[s].end, "zero")
           /\ AfterName(m, s) = e + 1
<1>1. n \in Nat /\ Len(whole) \in Nat /\ Len(m) = n /\ \A i \in 1..n : m[i] = whole[i]
  BY DEF CutOf
<1>2. e \in s..n /\ e \in 1..n /\ e \in s..(Len(m) + 1) /\ \A j \in s..(e - 1) : At(m, j, "label")
  <2>1. e \in s..Len(whole)
    BY DEF NameAt
  <2>2. e \in s..n /\ e \in 1..n /\ e \in s..(Len(m) + 1)
    BY <1>1, <2>1
  <2>3. ASSUME NEW j \in s..(e - 1) PROVE At(m, j, "label")
    <3>1. j \in 1..n
      BY <1>1, <2>2
    <3> QED
      BY <1>1, <3>1 DEF NameAt, At
  <2> QED
    BY <2>2, <2>3
<1>3. m[e].k \in {"zero", "pointer"} /\ m[e] = whole[e]
  BY <1>1, <1>2 DEF NameAt
<1>4. ASSUME NEW j \in s..e PROVE ~At(m, j, "data")
  <2>1. CASE j = e
    BY <1>3, <2>1 DEF At
  <2>2. CASE j # e
    <3>1. j \in s..(e - 1)
      BY <1>2, <2>2
    <3> QED
      BY <1>2, <3>1 DEF At
  <2> QED
    BY <2>1, <2>2
<1>5. Walk(m)[s] = Walk(m)[e]
  BY <1>1, <1>2, Passes DEF CutOf
<1>6. Walk(m)[e] = WalkStep(Walk(m), m, e)
  BY <1>1, <1>2, WalkIs DEF CutOf
<1>7. ~At(m, e, "label")
  BY <1>3 DEF At
<1>8. CASE m[e].k = "zero"
  <2>1. ~At(m, e, "pointer")
    BY <1>8 DEF At
  <2>2. Walk(m)[s] = [end |-> e, tmp |-> 0]
    BY <1>5, <1>6, <1>7, <2>1 DEF WalkStep
  <2>3. At(m, Walk(m)[s].end, "zero")
    BY <1>1, <1>2, <1>8, <2>2 DEF At
  <2> QED
    BY <1>2, <1>4, <2>2, <2>3 DEF AfterName
<1>9. CASE m[e].k = "pointer"
  <2>1. At(m, e, "pointer")
    BY <1>1, <1>2, <1>9 DEF At
  <2> DEFINE to == Target(m, e)
             w == Walk(m)[to]
  <2>2. /\ to \in 1..(e - 1) /\ to \in 1..(Len(m) + 1)
        /\ \E q \in 1..(e - 1) : NameAt(m, to, q)
    <3>1. m[e].to \in 1..(e - 1) /\ \E q \in 1..(e - 1) : NameAt(m, m[e].to, q)
      BY <1>1, <1>2, <1>9 DEF CutOf, PointersLeadBack
    <3>2. to = m[e].to
      BY <1>1, <1>2, <3>1 DEF Target
    <3> QED
      BY <1>1, <1>2, <3>1, <3>2
  <2> HIDE DEF to
  <2>3. w \in [end : Nat, tmp : Nat] /\ w.tmp = 0
    BY <2>1, <2>2, WalkType DEF CutOf, to
  <2>4. At(m, w.end, "zero")
    <3>1. PICK q \in 1..(e - 1) : NameAt(m, to, q)
      BY <2>2
    <3>2. q \in to..Len(m) /\ q \in 1..Len(m) /\ q \in to..(Len(m) + 1) /\ q \in 1..(Len(m) + 1)
      BY <1>1, <2>2, <3>1 DEF NameAt
    <3>3. \A j \in to..(q - 1) : At(m, j, "label")
      <4>1. ASSUME NEW j \in to..(q - 1) PROVE j \in 1..Len(m)
        BY <1>1, <2>2, <3>2
      <4> QED
        BY <3>1, <4>1 DEF NameAt, At
    <3>4. w = Walk(m)[q]
      BY <2>2, <3>2, <3>3, Passes DEF CutOf
    <3>5. Walk(m)[q] = WalkStep(Walk(m), m, q)
      BY <3>2, WalkIs DEF CutOf
    <3>6. m[q].k # "pointer"
      <4>1. SUFFICES ASSUME m[q].k = "pointer" PROVE FALSE
        OBVIOUS
      <4>2. At(m, q, "pointer") /\ ~At(m, q, "label")
        BY <3>2, <4>1 DEF At
      <4>3. Target(m, q) \in 1..(Len(m) + 1)
        BY <1>1, <3>2, <4>1 DEF Target, CutOf, PointersLeadBack
      <4>4. Walk(m)[Target(m, q)] \in [end : Nat, tmp : Nat]
        BY <4>3, WalkType DEF CutOf
      <4>5. w.tmp # 0
        BY <3>2, <3>4, <3>5, <4>2, <4>4 DEF WalkStep
      <4> QED
        BY <2>3, <4>5
    <3>7. m[q].k = "zero"
      BY <3>1, <3>6 DEF NameAt
    <3>8. ~At(m, q, "label") /\ ~At(m, q, "pointer") /\ At(m, q, "zero")
      BY <3>2, <3>7 DEF At
    <3>9. w.end = q
      BY <3>4, <3>5, <3>8 DEF WalkStep
    <3> QED
      BY <3>8, <3>9
  <2>5. Walk(m)[s] = [w EXCEPT !.tmp = IF @ = 0 THEN e + 1 ELSE @]
    BY <1>5, <1>6, <1>7, <2>1 DEF WalkStep, to
  <2> HIDE DEF w
  <2>6. Walk(m)[s].tmp = e + 1 /\ e + 1 # 0 /\ Walk(m)[s].end = w.end
    BY <1>2, <2>3, <2>5
  <2>7. whole[e].k # "zero"
    BY <1>3, <1>9
  <2> QED
    BY <1>2, <1>4, <2>4, <2>6, <2>7 DEF AfterName
<1> QED
  BY <1>3, <1>8, <1>9

-----------------------------------------------------------------------------
(***************************************************************************)
(* The loop over the records.                                              *)
(***************************************************************************)
FoundAt(rest, m, c, j) ==
    LET f == AfterName(m, j)
        next == rest[f + m[f].len + 1]
    IN  IF c = 0 THEN {None}
        ELSE IF Loops(m, j) THEN {Looping}
        ELSE IF Incomplete(m, j)
        THEN IF c > 1 THEN Misread(m)
             ELSE IF Walk(m)[j].end <= Len(m) THEN {None} ELSE {None, Looping}
        ELSE IF ~At(m, Walk(m)[j].end, "zero") \/ ~At(m, f, "fixed") THEN Misread(m)
        ELSE IF m[f].type = "A"
        THEN {IF r = Looping THEN r ELSE a : r \in next, a \in Addresses(m, f)}
        ELSE next
Finds(g, m, n) == g = [c \in 0..n |-> [j \in 1..(Len(m) + 1) |-> FoundAt(g[c - 1], m, c, j)]]

LEMMA FindingExists ==
    ASSUME NEW m, NEW n \in Nat
    PROVE  \E g : Finds(g, m, n)
<1> DEFINE T == {k \in Nat : \E g : Finds(g, m, k)}
<1>1. 0 \in T
  <2> DEFINE g == [c \in 0..0 |-> [j \in 1..(Len(m) + 1) |-> {None}]]
  <2>1. \A c \in 0..0 : \A j : FoundAt(g[c - 1], m, c, j) = {None}
    BY DEF FoundAt
  <2>2. \A c \in 0..0 : [j \in 1..(Len(m) + 1) |-> {None}]
                            = [j \in 1..(Len(m) + 1) |-> FoundAt(g[c - 1], m, c, j)]
    BY <2>1
  <2>3. g = [c \in 0..0 |-> [j \in 1..(Len(m) + 1) |-> FoundAt(g[c - 1], m, c, j)]]
    BY <2>2
  <2> QED
    BY <2>3 DEF Finds
<1>2. ASSUME NEW k \in Nat, k \in T PROVE k + 1 \in T
  <2>1. PICK g : Finds(g, m, k)
    BY <1>2
  <2> DEFINE Row(f, c) == [j \in 1..(Len(m) + 1) |-> FoundAt(f[c - 1], m, c, j)]
             last == Row(g, k + 1)
             next == [c \in 0..(k + 1) |-> IF c = k + 1 THEN last ELSE g[c]]
  <2>2. \A c \in 0..k : g[c] = Row(g, c)
    BY <2>1 DEF Finds
  <2>3. /\ \A c \in 0..k : c # k + 1 /\ c \in 0..(k + 1) /\ next[c] = g[c]
        /\ next[k + 1] = last /\ next = [c \in 0..(k + 1) |-> next[c]]
    OBVIOUS
  <2> HIDE DEF next
  <2>4. \A c, j : FoundAt(g[c - 1], m, 0, j) = {None} /\ FoundAt(next[c - 1], m, 0, j) = {None}
    BY DEF FoundAt
  <2>5. ASSUME NEW c \in 0..(k + 1) PROVE next[c] = Row(next, c)
    <3>1. c # 0 => c - 1 \in 0..k
      OBVIOUS
    <3>2. c # 0 => next[c - 1] = g[c - 1]
      BY <2>3, <3>1
    <3>3. CASE c = 0
      <4>1. Row(next, 0) = Row(g, 0)
        BY <2>4
      <4>2. 0 \in 0..k
        OBVIOUS
      <4> QED
        BY <2>2, <2>3, <3>3, <4>1, <4>2
    <3>4. CASE c # 0
      <4>1. Row(next, c) = Row(g, c)
        BY <3>2, <3>4
      <4>2. c \in 0..k \/ c = k + 1
        OBVIOUS
      <4> QED
        BY <2>2, <2>3, <4>1, <4>2
    <3> QED
      BY <3>3, <3>4
  <2>6. next = [c \in 0..(k + 1) |-> Row(next, c)]
    BY <2>3, <2>5
  <2>7. Finds(next, m, k + 1)
    BY <2>6, Zenon DEF Finds
  <2> QED
    BY <2>7
<1> HIDE DEF T
<1>3. n \in T
  BY <1>1, <1>2, FromZero
<1> QED
  BY <1>3 DEF T

Finding(m, n) == CHOOSE g : Finds(g, m, n)

LEMMA FoundIs ==
    ASSUME NEW m, NEW n \in Nat
    PROVE  /\ \A i : Found(m, i, n) = Finding(m, n)[n][i]
           /\ \A c \in 0..n : \A j \in 1..(Len(m) + 1) :
                 Finding(m, n)[c][j] = FoundAt(Finding(m, n)[c - 1], m, c, j)
<1> DEFINE g == Finding(m, n)
<1>1. Finds(g, m, n)
  BY FindingExists DEF Finding
<1>2. \A i : Found(m, i, n) = g[n][i]
  BY DEF Found, Finding, Finds, FoundAt
<1> HIDE DEF g
<1>3. g = [c \in 0..n |-> [j \in 1..(Len(m) + 1) |-> FoundAt(g[c - 1], m, c, j)]]
  BY <1>1 DEF Finds
<1>4. \A c \in 0..n : g[c] = [j \in 1..(Len(m) + 1) |-> FoundAt(g[c - 1], m, c, j)]
  BY <1>3
<1>5. \A c \in 0..n : \A j \in 1..(Len(m) + 1) : g[c][j] = FoundAt(g[c - 1], m, c, j)
  BY <1>4
<1> QED
  BY <1>2, <1>5 DEF g

\* The first address of a message, and none.
LEMMA AddressIsFirst ==
    ASSUME NEW m, NEW n \in Nat, Len(m) = n
    PROVE  /\ \A i : At(m, i, "data") /\ (\A j \in 1..(i - 1) : ~At(m, j, "data"))
                        => FirstAddress(m) = m[i].ip
           /\ (\A j \in 1..n : ~At(m, j, "data")) => FirstAddress(m) = None
<1> DEFINE whole == {j \in 1..Len(m) : At(m, j, "data")}
<1>1. ASSUME NEW i, At(m, i, "data"), \A j \in 1..(i - 1) : ~At(m, j, "data")
      PROVE  FirstAddress(m) = m[i].ip
  <2>1. i \in 1..n /\ i \in whole
    BY <1>1 DEF At
  <2>2. \A j \in whole : i <= j
    BY <1>1, <2>1
  <2>3. ASSUME NEW x \in whole, \A y \in whole : x <= y PROVE x = i
    BY <2>1, <2>2, <2>3
  <2> HIDE DEF whole
  <2>4. Min(whole) = i
    BY <2>1, <2>2, <2>3 DEF Min
  <2> QED
    BY <2>1, <2>4 DEF FirstAddress, whole
<1>2. ASSUME \A j \in 1..n : ~At(m, j, "data") PROVE FirstAddress(m) = None
  <2>1. whole = {}
    BY <1>2
  <2> QED
    BY <2>1 DEF FirstAddress
<1> QED
  BY <1>1, <1>2

\* What one turn of the loop, the c-th from the last, makes of a record from s to next.
Turned(rest, m, n, whole, c, s, next) ==
    \/ /\ \A j \in s..n : ~At(m, j, "data")
       /\ n = Len(whole) => FoundAt(rest, m, c, s) = {None}
    \/ /\ next \in 1..(n + 1) /\ \A j \in s..(next - 1) : ~At(m, j, "data")
       /\ FoundAt(rest, m, c, s) = rest[next]
    \/ /\ next \in 3..(n + 1) /\ s < next - 1 /\ At(m, next - 1, "data")
       /\ \A j \in s..(next - 2) : ~At(m, j, "data")
       /\ \A x \in FoundAt(rest, m, c, s) :
             \E r \in rest[next] : x = IF r = Looping THEN r ELSE m[next - 1].ip

\* One turn of the loop, at a record that begins before the cut: the record is cut, and
\* no address of it is there; or it has none; or it is the record of an address.
LEMMA TurnOfLoop ==
    ASSUME NEW m, NEW whole, NEW n, CutOf(m, whole, n), ~Chained(m),
           NEW s \in 1..(n + 1), NEW next \in 1..(Len(whole) + 1), RecordAt(whole, s, next),
           NEW rest, NEW c \in Nat, c # 0, c > 1 => next <= Len(whole)
    PROVE  Turned(rest, m, n, whole, c, s, next)
<1> USE DEF Turned
<1>1. /\ n \in Nat /\ Len(whole) \in Nat /\ Len(m) = n /\ \A i \in 1..n : m[i] = whole[i]
      /\ n <= Len(whole) /\ whole \in Seq(Token)
  BY DEF CutOf
<1>2. PICK e \in s..Len(whole) :
          /\ NameAt(whole, s, e) /\ At(whole, e + 1, "fixed") /\ next = e + 2 + whole[e + 1].len
          /\ IF whole[e + 1].type = "A" THEN whole[e + 1].len = 1 /\ At(whole, e + 2, "data")
             ELSE \A j \in (e + 2)..(next - 1) : ~At(whole, j, "data")
  BY DEF RecordAt
<1>3. /\ e + 1 \in 1..Len(whole) /\ whole[e + 1].len \in Nat /\ e \in Nat /\ s <= e
  <2>1. e + 1 \in 1..Len(whole) /\ whole[e + 1].k = "fixed"
    BY <1>2 DEF At
  <2>2. whole[e + 1] \in Token
    BY <1>1, <2>1, ElementOfSeq
  <2>3. whole[e + 1].len \in Nat
    BY <2>1, <2>2 DEF Token
  <2> QED
    BY <1>1, <2>1, <2>3
<1>4. ~Loops(m, s)
  BY <1>1, NoLoops DEF CutOf
<1>5. CASE e > n
  <2>1. \A j \in s..n : ~At(m, j, "data")
    BY <1>2, <1>5, NameCutOff DEF At
  <2>2. n # Len(whole)
    BY <1>1, <1>2, <1>3, <1>5
  <2> QED
    BY <2>1, <2>2
<1>6. CASE e <= n
  <2>1. ASSUME At(m, e, "pointer") PROVE Walk(m)[Target(m, e)].tmp = 0
    <3>1. At(m, e + 1, "fixed") \/ e = n
      <4>1. CASE e # n
        <5>1. e + 1 \in 1..n
          BY <1>1, <1>3, <1>6, <4>1
        <5> QED
          BY <1>1, <1>2, <5>1 DEF At
      <4> QED
        BY <4>1
    <3>2. e \in 1..Len(m)
      BY <2>1 DEF At
    <3> QED
      BY <1>1, <2>1, <3>1, <3>2 DEF Chained
  <2>2. /\ AfterName(m, s) = e + 1 /\ e \in 1..n /\ \A j \in s..e : ~At(m, j, "data")
        /\ At(m, Walk(m)[s].end, "zero")
    BY <1>2, <1>6, <2>1, NameWhole
  <2>3. CASE e + 1 >= n
    <3>1. Incomplete(m, s)
      BY <1>1, <2>2, <2>3 DEF Incomplete
    <3>2. ASSUME NEW j \in s..n PROVE ~At(m, j, "data")
      <4>1. CASE j = e + 1
        <5>1. j \in 1..n
          BY <1>3, <1>1
        <5> QED
          BY <1>1, <1>2, <4>1, <5>1 DEF At
      <4>2. CASE j # e + 1
        <5>1. j \in s..e
          BY <1>1, <1>3, <2>3, <4>2
        <5> QED
          BY <2>2, <5>1
      <4> QED
        BY <4>1, <4>2
    <3>3. ASSUME n = Len(whole) PROVE FoundAt(rest, m, c, s) = {None}
      <4>1. ~(c > 1)
        <5>1. e + 2 + whole[e + 1].len > Len(whole)
          BY <1>1, <1>3, <2>3, <3>3
        <5> QED
          BY <1>2, <5>1
      <4>2. Walk(m)[s].end <= Len(m)
        BY <2>2 DEF At
      <4> QED
        BY <1>4, <3>1, <4>1, <4>2 DEF FoundAt
    <3> QED
      BY <3>2, <3>3
  <2>4. CASE e + 1 < n
    <3> DEFINE f == e + 1
               len == whole[e + 1].len
    <3>1. f \in 1..n /\ m[f] = whole[f] /\ At(m, f, "fixed") /\ f < n /\ len \in Nat
      <4>1. f \in 1..n
        BY <1>1, <1>3, <2>4
      <4> QED
        BY <1>1, <1>2, <1>3, <2>4, <4>1 DEF At
    <3>2. \A j \in s..f : ~At(m, j, "data")
      <4>1. ASSUME NEW j \in s..f PROVE j = f \/ j \in s..e
        BY <1>3
      <4> QED
        BY <2>2, <3>1, <4>1 DEF At
    <3>3. next = f + len + 1 /\ AfterName(m, s) = f /\ m[f].len = len
      BY <1>2, <1>3, <2>2, <3>1
    <3>4. Incomplete(m, s) <=> f + len > n
      BY <1>1, <3>1, <3>3 DEF Incomplete
    <3>5. CASE whole[f].type = "A"
      <4>1. len = 1 /\ At(whole, f + 1, "data")
        BY <1>2, <1>3, <3>5
      <4>2. f + 1 \in 1..n
        BY <1>1, <3>1
      <4>3. At(m, f + 1, "data")
        BY <1>1, <4>1, <4>2 DEF At
      <4>4. ~Incomplete(m, s)
        BY <1>1, <1>3, <3>4, <4>1, <4>2
      <4>5. next = f + 2 /\ next \in 3..(n + 1) /\ s < next - 1 /\ next - 1 = f + 1 /\ next - 2 = f
        <5>1. next = f + 2
          BY <1>3, <3>3, <4>1
        <5> QED
          BY <1>1, <1>3, <3>1, <4>2, <5>1
      <4>6. Addresses(m, f) = {m[next - 1].ip}
        BY <3>3, <4>1, <4>3, <4>5 DEF Addresses
      <4>7. f + m[f].len + 1 = next
        BY <3>3
      <4>8. FoundAt(rest, m, c, s)
                = {IF r = Looping THEN r ELSE a : r \in rest[next], a \in Addresses(m, f)}
        BY <1>4, <2>2, <3>1, <3>3, <3>5, <4>4, <4>7 DEF FoundAt
      <4>9. \A x \in FoundAt(rest, m, c, s) :
               \E r \in rest[next] : x = IF r = Looping THEN r ELSE m[next - 1].ip
        <5> DEFINE R == rest[next]
                   ip == m[next - 1].ip
                   A == Addresses(m, f)
                   F == FoundAt(rest, m, c, s)
        <5>1. F = {IF r = Looping THEN r ELSE a : r \in R, a \in A}
          BY <4>8
        <5>2. A = {ip}
          BY <4>6
        <5> HIDE DEF R, ip, A, F
        <5>3. \A x \in F : \E r \in R : x = IF r = Looping THEN r ELSE ip
          BY <5>1, <5>2
        <5> QED
          BY <5>3 DEF R, ip, F
      <4> QED
        BY <3>2, <4>3, <4>5, <4>9
    <3>6. CASE whole[f].type # "A"
      <4>1. \A j \in (f + 1)..(next - 1) : ~At(whole, j, "data")
        BY <1>2, <1>3, <3>6
      <4>2. \A j \in (f + 1)..(next - 1) : ~At(m, j, "data")
        <5>1. ASSUME NEW j \in (f + 1)..(next - 1), At(m, j, "data") PROVE FALSE
          <6>1. j \in 1..n /\ At(whole, j, "data")
            BY <1>1, <5>1 DEF At
          <6> QED
            BY <4>1, <6>1
        <5> QED
          BY <5>1
      <4>3. CASE f + len > n
        <5>1. ASSUME NEW j \in s..n PROVE j \in s..f \/ j \in (f + 1)..(next - 1)
          BY <1>1, <3>1, <3>3, <4>3
        <5>2. \A j \in s..n : ~At(m, j, "data")
          BY <3>2, <4>2, <5>1
        <5>3. n # Len(whole)
          <6>1. f + len + 1 <= Len(whole) + 1 /\ f \in Nat /\ len \in Nat
            BY <1>1, <3>1, <3>3
          <6> HIDE DEF f, len
          <6> QED
            BY <1>1, <4>3, <6>1
        <5> QED
          BY <5>2, <5>3
      <4>4. CASE ~(f + len > n)
        <5>1. next \in 1..(n + 1)
          <6>1. n \in Nat /\ f \in Nat /\ f >= 1 /\ len \in Nat
            BY <1>1, <3>1
          <6>2. next = f + len + 1 /\ ~(f + len > n)
            BY <3>3, <4>4
          <6> HIDE DEF f, len
          <6> QED
            BY <6>1, <6>2
        <5>2. ASSUME NEW j \in s..(next - 1)
              PROVE  j \in s..f \/ j \in (f + 1)..(next - 1)
          BY <1>1, <3>1, <3>3
        <5>3. \A j \in s..(next - 1) : ~At(m, j, "data")
          BY <3>2, <4>2, <5>2
        <5>4. ~Incomplete(m, s)
          BY <3>4, <4>4
        <5>5. FoundAt(rest, m, c, s) = rest[next]
          BY <1>4, <2>2, <3>1, <3>3, <3>6, <5>4 DEF FoundAt
        <5> QED
          BY <5>1, <5>3, <5>5
      <4> QED
        BY <4>3, <4>4
    <3> QED
      BY <3>5, <3>6
  <2> QED
    BY <1>1, <1>3, <2>3, <2>4
<1> QED
  BY <1>1, <1>3, <1>5, <1>6

\* What may be returned of a message of which all, or only a part, is there.
Fits(m, all, r) ==
    /\ all => r # Looping
    /\ r # Looping /\ (all \/ FirstAddress(m) # None) => r = FirstAddress(m)

LEMMA NothingFits ==
    ASSUME NEW m, NEW n \in Nat, Len(m) = n, NEW all, \A j \in 1..n : ~At(m, j, "data"), NEW r,
           all => r = None
    PROVE  Fits(m, all, r)
<1>1. FirstAddress(m) = None
  BY AddressIsFirst
<1> QED
  BY <1>1 DEF Fits, None, Looping

\* However much of a well-formed answer is there, the loop over its records returns the
\* first address that is whole, unless some name is chained.
LEMMA FirstIsFound ==
    ASSUME NEW a \in Sound, NEW n \in 0..Len(a.tokens), ~Chained(SubSeq(a.tokens, 1, n)),
           NEW d, d.tokens = SubSeq(a.tokens, 1, n), d.answers = a.answers,
           NEW r \in Results(d)
    PROVE  Fits(d.tokens, n = Len(a.tokens), r)
<1> DEFINE m == SubSeq(a.tokens, 1, n)
           whole == a.tokens
           N == a.answers
<1>1. N \in Nat /\ N # 0 /\ whole \in Seq(Token) /\ WellFormed(a)
  BY DnsAssumption DEF Sound
<1>2. PointersLeadBack(whole)
  BY <1>1 DEF WellFormed
<1>3. PICK e \in 1..Len(whole), start \in [1..(N + 1) -> 1..(Len(whole) + 1)] :
          /\ NameAt(whole, 1, e) /\ whole[e].k = "zero" /\ At(whole, e + 1, "query")
          /\ start[1] = e + 2
          /\ \A c \in 1..N : RecordAt(whole, start[c], start[c + 1])
          /\ \A j \in start[N + 1]..Len(whole) : whole[j].k # "data"
  BY <1>1 DEF WellFormed, QuestionEnds
<1>4. CutOf(m, whole, n)
  <2>1. n \in 0..Len(whole)
    OBVIOUS
  <2>2. /\ m \in Seq(Token) /\ Len(m) = n /\ n \in Nat /\ Len(whole) \in Nat
        /\ PointersLeadBack(m) /\ \A i \in 1..n : m[i] = whole[i]
    BY <1>1, <1>2, <2>1, Cut, Zenon
  <2>3. n <= Len(whole)
    BY <2>1, <2>2
  <2> QED
    BY <1>1, <2>2, <2>3 DEF CutOf
<1>5. ~Chained(m) /\ d.tokens = m /\ d.answers = N
  OBVIOUS
<1> HIDE DEF m, whole, N
<1>6. /\ n \in Nat /\ Len(whole) \in Nat /\ Len(m) = n /\ \A i \in 1..n : m[i] = whole[i]
      /\ n <= Len(whole)
  BY <1>4 DEF CutOf
<1> DEFINE g == Finding(m, N)
           all == n = Len(whole)
<1>7. /\ \A i : Found(m, i, N) = g[N][i]
      /\ \A c \in 0..N : \A j \in 1..(Len(m) + 1) : g[c][j] = FoundAt(g[c - 1], m, c, j)
  BY <1>1, FoundIs
<1> HIDE DEF g, all
<1> DEFINE First(s) == \A j \in 1..(s - 1) : ~At(m, j, "data")
           Good(c, s) == s \in 1..(n + 1) =>
                            \A x \in g[c][s] : (all => x # Looping) /\ (First(s) => Fits(m, all, x))
           T == {c \in Nat : c <= N => Good(c, start[N + 1 - c])}
<1>8. 0 \in T
  <2> DEFINE s == start[N + 1]
  <2>1. SUFFICES ASSUME s \in 1..(n + 1), NEW x \in g[0][s]
                 PROVE  (all => x # Looping) /\ (First(s) => Fits(m, all, x))
    BY <1>1
  <2>2. x = None
    <3>1. g[0][s] = FoundAt(g[0 - 1], m, 0, s)
      <4>1. 0 \in 0..N /\ s \in 1..(Len(m) + 1)
        BY <1>1, <1>6, <2>1
      <4> QED
        BY <1>7, <4>1, Zenon
    <3>2. g[0][s] = {None}
      BY <3>1 DEF FoundAt
    <3> QED
      BY <2>1, <3>2
  <2>3. ASSUME First(s) PROVE \A j \in 1..n : ~At(m, j, "data")
    <3>1. ASSUME NEW j \in 1..n, At(m, j, "data") PROVE FALSE
      <4>1. j \notin 1..(s - 1)
        BY <2>3, <3>1
      <4>2. j \in s..Len(whole)
        BY <1>6, <2>1, <4>1
      <4> QED
        BY <1>3, <1>6, <3>1, <4>2 DEF At
    <3> QED
      BY <3>1
  <2>4. First(s) => Fits(m, all, x)
    BY <1>6, <2>2, <2>3, NothingFits
  <2> QED
    BY <2>2, <2>4 DEF None, Looping
<1>9. ASSUME NEW c \in Nat, c \in T PROVE c + 1 \in T
  <2> DEFINE q == N + 1 - (c + 1)
             k == c + 1
             s == start[q]
             next == start[q + 1]
             found == FoundAt(g[c], m, k, s)
  <2>1. SUFFICES ASSUME c + 1 <= N, s \in 1..(n + 1), NEW x \in g[c + 1][s]
                 PROVE  (all => x # Looping) /\ (First(s) => Fits(m, all, x))
    OBVIOUS
  <2>2. q \in 1..N /\ q + 1 = N + 1 - c /\ q + 1 \in 1..(N + 1) /\ c <= N /\ k \in 0..N /\ k - 1 = c /\ k # 0 /\ k \in Nat
    <3>1. N \in Nat /\ c \in Nat /\ c + 1 <= N
      BY <1>1, <2>1
    <3> QED
      BY <3>1, SMT
  <2>3. x \in found
    <3>1. g[k][s] = FoundAt(g[k - 1], m, k, s)
      BY <1>6, <1>7, <2>1, <2>2, Zenon
    <3> QED
      BY <2>1, <2>2, <3>1
  <2>4. RecordAt(whole, s, next) /\ next \in 1..(Len(whole) + 1)
    BY <1>3, <2>2
  <2>5. k > 1 => next <= Len(whole)
    <3>1. ASSUME k > 1 PROVE next <= Len(whole)
      <4>1. q + 1 \in 1..N
        BY <1>1, <2>2, <3>1
      <4>2. RecordAt(whole, start[q + 1], start[q + 1 + 1])
        BY <1>3, <4>1
      <4>3. \E z \in next..Len(whole) : TRUE
        BY <4>2 DEF RecordAt
      <4> QED
        BY <1>6, <2>4, <4>3
    <3> QED
      BY <3>1
  <2>6. Good(c, next)
    BY <1>9, <2>2
  <2> HIDE DEF q, k, s, next, found
  <2>7. \/ /\ \A j \in s..n : ~At(m, j, "data")
           /\ n = Len(whole) => found = {None}
        \/ /\ next \in 1..(n + 1) /\ \A j \in s..(next - 1) : ~At(m, j, "data")
           /\ found = g[c][next]
        \/ /\ next \in 3..(n + 1) /\ s < next - 1 /\ At(m, next - 1, "data")
           /\ \A j \in s..(next - 2) : ~At(m, j, "data")
           /\ \A z \in found : \E y \in g[c][next] : z = IF y = Looping THEN y ELSE m[next - 1].ip
    <3>1. CutOf(m, whole, n) /\ ~Chained(m) /\ s \in 1..(n + 1) /\ next \in 1..(Len(whole) + 1)
          /\ RecordAt(whole, s, next) /\ k \in Nat /\ k # 0 /\ (k > 1 => next <= Len(whole))
      BY <1>4, <1>5, <2>1, <2>2, <2>4, <2>5
    <3>2. found = FoundAt(g[c], m, k, s)
      BY DEF found
    <3>3. Turned(g[c], m, n, whole, k, s, next)
      BY <3>1, TurnOfLoop
    <3> QED
      BY <3>2, <3>3, Zenon DEF Turned
  <2>8. CASE (\A j \in s..n : ~At(m, j, "data")) /\ (n = Len(whole) => found = {None})
    <3>1. all => x = None
      BY <2>3, <2>8 DEF all
    <3>2. ASSUME First(s) PROVE Fits(m, all, x)
      <4>1. ASSUME NEW j \in 1..n PROVE j \in 1..(s - 1) \/ j \in s..n
        BY <1>6, <2>1
      <4>2. \A j \in 1..n : ~At(m, j, "data")
        BY <2>8, <3>2, <4>1
      <4> QED
        BY <1>6, <3>1, <4>2, NothingFits
    <3> QED
      BY <3>1, <3>2 DEF None, Looping
  <2>9. CASE /\ next \in 1..(n + 1) /\ \A j \in s..(next - 1) : ~At(m, j, "data")
             /\ found = g[c][next]
    <3>1. First(s) => First(next)
      <4>1. ASSUME NEW j \in 1..(next - 1) PROVE j \in 1..(s - 1) \/ j \in s..(next - 1)
        BY <1>6, <2>1, <2>9
      <4> QED
        BY <2>9, <4>1
    <3> QED
      BY <2>3, <2>6, <2>9, <3>1
  <2>10. CASE /\ next \in 3..(n + 1) /\ s < next - 1 /\ At(m, next - 1, "data")
              /\ \A j \in s..(next - 2) : ~At(m, j, "data")
              /\ \A z \in found : \E y \in g[c][next] : z = IF y = Looping THEN y ELSE m[next - 1].ip
    <3>1. PICK y \in g[c][next] : x = IF y = Looping THEN y ELSE m[next - 1].ip
      BY <2>3, <2>10
    <3>2. all => y # Looping
      <4>1. next \in 1..(n + 1)
        BY <1>6, <2>10
      <4> QED
        BY <2>6, <3>1, <4>1
    <3>3. m[next - 1].ip # Looping
      <4>1. next - 1 \in 1..n /\ m[next - 1].k = "data"
        BY <1>6, <2>10 DEF At
      <4>2. m[next - 1] \in Token
        BY <1>4, <1>6, <4>1, ElementOfSeq DEF CutOf
      <4> QED
        BY <4>1, <4>2 DEF Token, Looping
    <3>4. ASSUME First(s) PROVE FirstAddress(m) = m[next - 1].ip
      <4>1. ASSUME NEW j \in 1..(next - 1 - 1) PROVE j \in 1..(s - 1) \/ j \in s..(next - 2)
        BY <1>6, <2>1, <2>10
      <4>2. \A j \in 1..(next - 1 - 1) : ~At(m, j, "data")
        BY <2>10, <3>4, <4>1
      <4> QED
        BY <1>6, <2>10, <4>2, AddressIsFirst
    <3>5. all => x # Looping
      BY <3>1, <3>2, <3>3
    <3>6. First(s) => Fits(m, all, x)
      BY <3>1, <3>3, <3>4, <3>5 DEF Fits
    <3> QED
      BY <3>5, <3>6
  <2> QED
    BY <2>7, <2>8, <2>9, <2>10
<1> HIDE DEF T
<1>10. \A c \in Nat : c \in T
  BY <1>8, <1>9, FromZero
<1>11. Good(N, start[1])
  <2>1. N \in T /\ N <= N /\ N + 1 - N = 1
    BY <1>1, <1>10
  <2> QED
    BY <2>1 DEF T
<1>12. e > n => Walk(m)[1].end = n + 1 /\ \A j \in 1..n : At(m, j, "label")
  <2> DEFINE s == 1
  <2>1. s \in 1..(n + 1) /\ NameAt(whole, s, e)
    BY <1>3, <1>6
  <2> HIDE DEF s
  <2>2. e > n => Walk(m)[s].end = n + 1 /\ \A j \in s..n : At(m, j, "label")
    BY <1>4, <2>1, NameCutOff
  <2> QED
    BY <2>2 DEF s
<1>13. e <= n => Walk(m)[1].end = e /\ \A j \in 1..e : ~At(m, j, "data")
  <2>1. ASSUME e <= n PROVE ~At(m, e, "pointer")
    BY <1>3, <1>6, <2>1 DEF At
  <2> QED
    BY <1>3, <1>4, <1>6, <2>1, NameWhole
<1>14. CASE e + 1 <= n
  <2>1. AfterQuestion(m) = start[1] /\ HasQuestion(m)
    BY <1>3, <1>6, <1>13, <1>14 DEF AfterQuestion, HasQuestion
  <2>2. ASSUME NEW j \in 1..(start[1] - 1) PROVE ~At(m, j, "data")
    <3>1. j \in 1..e \/ j = e + 1
      BY <1>3
    <3>2. ~At(m, e + 1, "data")
      BY <1>3, <1>6, <1>14 DEF At
    <3> QED
      BY <1>6, <1>13, <1>14, <3>1, <3>2
  <2>3. start[1] \in 1..(n + 1)
    BY <1>3, <1>6, <1>14
  <2>4. r \in g[N][start[1]]
    BY <1>1, <1>5, <1>7, <2>1 DEF Results
  <2>5. Fits(m, all, r)
    BY <1>11, <2>2, <2>3, <2>4
  <2> QED
    BY <1>5, <2>5 DEF all, whole
<1>15. CASE e + 1 > n
  <2>1. \A j \in 1..n : ~At(m, j, "data")
    <3>1. CASE e > n
      BY <1>12, <3>1 DEF At
    <3>2. CASE e <= n
      BY <1>6, <1>13, <1>15, <3>2
    <3> QED
      BY <1>6, <3>1, <3>2
  <2>2. ~all
    BY <1>3, <1>6, <1>15 DEF all, At
  <2>3. Fits(m, all, r)
    BY <1>6, <2>1, <2>2, NothingFits
  <2> QED
    BY <1>5, <2>3 DEF all, whole
<1> QED
  BY <1>3, <1>6, <1>14, <1>15

LEMMA WholeIsRead ==
    ASSUME NEW d \in Unchained, NEW r \in Reading[d]
    PROVE  /\ d \in Sound => r # Looping
           /\ r # Looping /\ (d \in Sound \/ FirstAddress(d.tokens) # None) => r = FirstAddress(d.tokens)
<1>1. ASSUME NEW a \in Sound, NEW n \in 0..Len(a.tokens), d = [a EXCEPT !.tokens = SubSeq(@, 1, n)]
      PROVE  Fits(d.tokens, n = Len(a.tokens), r)
  <2>1. a \in Answers /\ a \in [answers : Nat, tokens : Seq(Token)]
    BY DnsAssumption DEF Sound
  <2>2. d.tokens = SubSeq(a.tokens, 1, n) /\ d.answers = a.answers
    BY <1>1, <2>1
  <2>3. d \in Datagrams
    <3>1. d \in Cuts(a)
      BY <1>1 DEF Cuts
    <3> QED
      BY <2>1, <3>1 DEF Datagrams
  <2>4. r \in Results(d) /\ ~Chained(d.tokens)
    BY <2>3 DEF Reading, Unchained
  <2> QED
    BY <2>2, <2>4, FirstIsFound
<1>2. PICK a \in Sound : d \in Cuts(a)
  BY DEF Unchained
<1>3. PICK n \in 0..Len(a.tokens) : d = [a EXCEPT !.tokens = SubSeq(@, 1, n)]
  BY <1>2 DEF Cuts
<1>4. Fits(d.tokens, n = Len(a.tokens), r)
  BY <1>1, <1>3
<1>5. ASSUME d \in Sound PROVE Fits(d.tokens, TRUE, r)
  <2>1. d \in [answers : Nat, tokens : Seq(Token)]
    BY <1>5, DnsAssumption DEF Sound
  <2>2. Len(d.tokens) \in Nat /\ SubSeq(d.tokens, 1, Len(d.tokens)) = d.tokens
    BY <2>1
  <2>3. d = [d EXCEPT !.tokens = SubSeq(@, 1, Len(d.tokens))] /\ Len(d.tokens) \in 0..Len(d.tokens)
    BY <2>1, <2>2
  <2>4. Fits(d.tokens, Len(d.tokens) = Len(d.tokens), r)
    BY <1>1, <1>5, <2>3
  <2> QED
    BY <2>4 DEF Fits
<1> QED
  BY <1>4, <1>5 DEF Fits

\* What a lookup returned is what it made of the datagram it went on with.
ResultOK ==
    /\ DOMAIN got = Threads /\ DOMAIN result = Threads /\ DOMAIN pc = Threads
    /\ \A t \in Threads : got[t] # {} => pc[t] \in {"looping", "done"}
    /\ WholeAddressIsRead

LEMMA ResultInv == ResultOK /\ [Next]_vars => ResultOK'
<1> SUFFICES ASSUME ResultOK, [Next]_vars PROVE ResultOK'
  OBVIOUS
<1>1. ASSUME UNCHANGED <<got, result>>, DOMAIN pc' = Threads,
             \A t \in Threads : pc[t] \in {"looping", "done"} => pc'[t] = pc[t]
      PROVE  ResultOK'
  BY <1>1 DEF ResultOK, WholeAddressIsRead
<1>2. ASSUME NEW t \in Threads, Receive(t) PROVE ResultOK'
  <2>1. PICK e \in inbox[t], msg \in IF Faults = 0 THEN Datagrams ELSE Answers : \E r \in Reading[msg] :
            /\ pc' = [pc EXCEPT ![t] = IF r = Looping THEN "looping" ELSE "done"]
            /\ got' = [got EXCEPT ![t] = {[question |-> e.question, message |-> msg]}]
            /\ result' = [result EXCEPT ![t] = IF r = Looping THEN None ELSE r]
    BY <1>2 DEF Receive, Go
  <2>2. PICK r \in Reading[msg] :
            /\ pc' = [pc EXCEPT ![t] = IF r = Looping THEN "looping" ELSE "done"]
            /\ got' = [got EXCEPT ![t] = {[question |-> e.question, message |-> msg]}]
            /\ result' = [result EXCEPT ![t] = IF r = Looping THEN None ELSE r]
    BY <2>1
  <2>3. \A u \in Threads \ {t} : got'[u] = got[u] /\ result'[u] = result[u] /\ pc'[u] = pc[u]
    BY <2>2 DEF ResultOK
  <2>4. /\ got'[t] = {[question |-> e.question, message |-> msg]}
        /\ pc'[t] = (IF r = Looping THEN "looping" ELSE "done")
        /\ r # Looping => result'[t] = r
    BY <2>2 DEF ResultOK
  <2>5. msg \in Unchained =>
            /\ msg \in Sound => r # Looping
            /\ r # Looping /\ (msg \in Sound \/ FirstAddress(msg.tokens) # None) => r = FirstAddress(msg.tokens)
    BY WholeIsRead
  <2>6. ASSUME NEW d \in got'[t], d.message \in Unchained
        PROVE  /\ d.message \in Sound => pc'[t] = "done"
               /\ pc'[t] = "done" /\ (d.message \in Sound \/ FirstAddress(d.message.tokens) # None)
                    => result'[t] = FirstAddress(d.message.tokens)
    <3>1. d.message = msg
      BY <2>4, <2>6
    <3> QED
      BY <2>4, <2>5, <2>6, <3>1
  <2>7. ASSUME NEW u \in Threads, NEW d \in got'[u], d.message \in Unchained
        PROVE  /\ d.message \in Sound => pc'[u] = "done"
               /\ pc'[u] = "done" /\ (d.message \in Sound \/ FirstAddress(d.message.tokens) # None)
                    => result'[u] = FirstAddress(d.message.tokens)
    <3>1. CASE u = t
      BY <2>6, <2>7, <3>1
    <3>2. CASE u # t
      BY <2>3, <2>7, <3>2 DEF ResultOK, WholeAddressIsRead
    <3> QED
      BY <3>1, <3>2
  <2>8. WholeAddressIsRead'
    BY <2>7 DEF WholeAddressIsRead
  <2>9. /\ DOMAIN got' = Threads /\ DOMAIN result' = Threads /\ DOMAIN pc' = Threads
        /\ \A u \in Threads : got'[u] # {} => pc'[u] \in {"looping", "done"}
    BY <2>2, <2>3, <2>4 DEF ResultOK
  <2> QED
    BY <2>8, <2>9 DEF ResultOK
<1>3. ASSUME NEW t \in Threads, ReceiveRejected(t) \/ Interrupted(t) PROVE ResultOK'
  <2>1. /\ UNCHANGED <<got, result>> /\ pc[t] = "receive"
        /\ pc' = pc \/ pc' = [pc EXCEPT ![t] = "done"]
    BY <1>3 DEF ReceiveRejected, Interrupted, Retry, Go
  <2> QED
    BY <1>1, <2>1 DEF ResultOK
<1>4. ASSUME NEW t \in Threads,
             \/ Check(t) \/ Create(t) \/ BeginAssign(t) \/ EndAssign(t) \/ Loaded(t)
             \/ NoRequest(t) \/ Request(t)
      PROVE  ResultOK'
  <2>1. /\ UNCHANGED <<got, result>>
        /\ pc' = pc \/ (pc[t] \notin {"looping", "done"} /\ \E to : pc' = [pc EXCEPT ![t] = to])
    BY <1>4 DEF Check, Create, BeginAssign, EndAssign, Loaded, NoRequest, Request, Go
  <2> QED
    BY <1>1, <2>1 DEF ResultOK
<1>5. CASE ServerAnswers \/ Deliver \/ Duplicate \/ Lose
  BY <1>1, <1>5 DEF ServerAnswers, Deliver, Duplicate, Lose, ResultOK
<1>6. CASE UNCHANGED vars
  BY <1>1, <1>6 DEF vars, ResultOK
<1> QED
  BY <1>2, <1>3, <1>4, <1>5, <1>6 DEF Next, Lookup

\* Of a well-formed answer none of whose names leads from one pointer to another, a
\* lookup that returns returns the first address that is whole in the datagram it
\* read, wherever that was cut; and it returns when it was not.
THEOREM WholeAddress == Spec => []WholeAddressIsRead
<1>1. Init => ResultOK
  BY DEF Init, ResultOK, WholeAddressIsRead
<1>2. ResultOK => WholeAddressIsRead
  BY DEF ResultOK
<1> QED
  BY <1>1, <1>2, ResultInv, PTL DEF Spec

-----------------------------------------------------------------------------
(***************************************************************************)
(* A lookup gets on.  Each of its steps brings it to a later place, writes *)
(* a part of a line or uses up an attempt, and none of another thread, of  *)
(* the servers or of the network brings it back.                           *)
(***************************************************************************)
Place(t) ==
    CASE pc[t] = "call" -> 5 [] pc[t] = "create" -> 4 [] pc[t] = "load" -> 3
      [] pc[t] = "ask" -> 2 [] pc[t] = "receive" -> 1 [] OTHER -> 0
Unwritten(t) == 2 * (NumLines + 1 - line[t]) - (IF t \in assigning THEN 1 ELSE 0)
ToDo(t) == Place(t) + Unwritten(t) + retries[t]

MostToDo == 2 * NumLines + 8
ToDoOK == \A t \in Threads : ToDo(t) \in 0..MostToDo
LookupGetsOn ==
    \A t \in Threads :
        /\ ToDo(t)' <= ToDo(t)
        /\ Lookup(t) \/ Interrupted(t) => ToDo(t)' < ToDo(t)

LEMMA ToDoBounds ==
    ASSUME Types, WritersOK, NEW t \in Threads
    PROVE  /\ Place(t) \in 0..5 /\ Unwritten(t) \in 0..(2 * NumLines) /\ retries[t] \in 0..3
           /\ ToDo(t) \in 0..MostToDo
<1>1. NumLines \in Nat /\ line[t] \in 1..(NumLines + 1) /\ retries[t] \in 0..3
  BY LineFacts DEF Types, TypeOK, Attempts
<1>2. t \in assigning => line[t] <= NumLines
  BY DEF WritersOK
<1>3. Place(t) \in 0..5
  BY DEF Place
<1>4. Unwritten(t) \in 0..(2 * NumLines)
  BY <1>1, <1>2 DEF Unwritten
<1> QED
  BY <1>1, <1>3, <1>4 DEF ToDo, MostToDo

LEMMA ToDoInv == Types /\ WritersOK => ToDoOK
  BY ToDoBounds DEF ToDoOK

\* What is to do changes with the thread's place, its line and its attempts only.
LEMMA OthersStay ==
    ASSUME Types, WritersOK, NEW t \in Threads,
           pc'[t] = pc[t], line'[t] = line[t], retries'[t] = retries[t],
           t \in assigning' <=> t \in assigning
    PROVE  ToDo(t)' = ToDo(t)
  BY DEF ToDo, Place, Unwritten, NumLines

LEMMA GetOnInv == ASSUME Types, WritersOK, Types', WritersOK', [Next]_vars PROVE LookupGetsOn
<1>1. /\ DOMAIN pc = Threads /\ DOMAIN line = Threads /\ DOMAIN retries = Threads /\ assigning \subseteq Threads
      /\ NumLines \in Nat /\ NumLines' = NumLines
  BY LineFacts DEF Types, TypeOK, NumLines
<1>2. \A u \in Threads : /\ Place(u) \in 0..5 /\ Unwritten(u) \in Int /\ retries[u] \in 0..3
                         /\ line[u] \in 1..(NumLines + 1)
  BY ToDoBounds, LineFacts DEF Types, TypeOK
<1>3. ASSUME NEW t \in Threads, Lookup(t) \/ Interrupted(t)
      PROVE  /\ \A u \in Threads : u # t => ToDo(u)' = ToDo(u)
             /\ ToDo(t)' < ToDo(t)
  <2>1. CASE Check(t) \/ Create(t) \/ Loaded(t) \/ NoRequest(t) \/ Request(t)
    <3>1. UNCHANGED <<line, assigning, retries>>
      BY <2>1 DEF Check, Create, Loaded, NoRequest, Request, loading, asking
    <3>2. \E to \in {"create", "load", "ask", "receive", "done"} :
              /\ pc' = [pc EXCEPT ![t] = to]
              /\ \/ pc[t] = "call" /\ to \in {"create", "ask"}
                 \/ pc[t] = "create" /\ to = "load"
                 \/ pc[t] = "load" /\ to = "ask"
                 \/ pc[t] = "ask" /\ to \in {"receive", "done"}
      BY <2>1 DEF Check, Create, Loaded, NoRequest, Request, Go
    <3>3. Place(t)' < Place(t) /\ Place(t)' \in Int
      BY <3>2, <1>1 DEF Place
    <3>4. Unwritten(t)' = Unwritten(t)
      BY <3>1, <1>1 DEF Unwritten
    <3>5. ToDo(t)' < ToDo(t)
      BY <3>1, <3>3, <3>4, <1>2 DEF ToDo
    <3>6. \A u \in Threads : u # t => pc'[u] = pc[u]
      BY <3>2, <1>1
    <3> QED
      BY <3>1, <3>5, <3>6, OthersStay
  <2>2. CASE BeginAssign(t)
    <3>1. /\ UNCHANGED <<pc, line, retries>> /\ t \notin assigning
          /\ assigning' = assigning \cup {t}
      BY <2>2 DEF BeginAssign, asking
    <3>2. Place(t)' = Place(t) /\ Unwritten(t)' = Unwritten(t) - 1
      BY <3>1, <1>1, <1>2 DEF Place, Unwritten
    <3>3. ToDo(t)' < ToDo(t)
      BY <3>1, <3>2, <1>2 DEF ToDo
    <3> QED
      BY <3>1, <3>3, OthersStay
  <2>3. CASE EndAssign(t)
    <3>1. /\ UNCHANGED <<pc, retries>> /\ t \in assigning /\ assigning' = assigning \ {t}
          /\ line' = [line EXCEPT ![t] = @ + 1]
      BY <2>3 DEF EndAssign, asking
    <3>2. Place(t)' = Place(t) /\ Unwritten(t)' = Unwritten(t) - 1
      BY <3>1, <1>1, <1>2 DEF Place, Unwritten
    <3>3. ToDo(t)' < ToDo(t)
      BY <3>1, <3>2, <1>2 DEF ToDo
    <3>4. \A u \in Threads : u # t => line'[u] = line[u]
      BY <3>1, <1>1
    <3> QED
      BY <3>1, <3>3, <3>4, OthersStay
  <2>4. CASE Receive(t) \/ ReceiveRejected(t) \/ Interrupted(t)
    <3>1. pc[t] = "receive" /\ UNCHANGED <<line, assigning>>
      BY <2>4, Received DEF loading
    <3>2. \/ pc' = pc /\ retries' = [retries EXCEPT ![t] = @ - 1]
          \/ /\ \E to \in {"looping", "done"} : pc' = [pc EXCEPT ![t] = to]
             /\ retries' = retries \/ retries' = [retries EXCEPT ![t] = @ - 1]
      BY <2>4, Received DEF Stays, Ends, Reads, GivesUp
    <3>3. Unwritten(t)' = Unwritten(t)
      BY <3>1, <1>1 DEF Unwritten
    <3>4. Place(t) = 1 /\ (pc'[t] = "receive" => Place(t)' = 1) /\ (pc'[t] \in {"looping", "done"} => Place(t)' = 0)
      BY <3>1 DEF Place
    <3>5. ToDo(t)' < ToDo(t)
      BY <3>1, <3>2, <3>3, <3>4, <1>1, <1>2 DEF ToDo
    <3>6. \A u \in Threads : u # t => pc'[u] = pc[u] /\ retries'[u] = retries[u]
      BY <3>2, <1>1
    <3> QED
      BY <3>1, <3>5, <3>6, OthersStay
  <2> QED
    BY <1>3, <2>1, <2>2, <2>3, <2>4 DEF Lookup
<1>4. \A u \in Threads : ToDo(u) \in Int /\ ToDo(u)' \in Int
  <2>1. ToDoOK /\ ToDoOK'
    BY ToDoInv, PTL
  <2> QED
    BY <2>1, <1>1 DEF ToDoOK, MostToDo
<1>5. ASSUME ServerAnswers \/ Deliver \/ Duplicate \/ Lose \/ UNCHANGED vars
      PROVE  \A u \in Threads : ToDo(u)' <= ToDo(u)
  <2>1. UNCHANGED <<pc, line, assigning, retries>>
    BY <1>5 DEF ServerAnswers, Deliver, Duplicate, Lose, vars, loading, asking
  <2>2. \A u \in Threads : ToDo(u)' = ToDo(u)
    BY <2>1, OthersStay
  <2> QED
    BY <2>2, <1>4
<1>6. \A u \in Threads : ToDo(u)' <= ToDo(u)
  <2>1. ASSUME NEW t \in Threads, Lookup(t) \/ Interrupted(t), NEW u \in Threads
        PROVE  ToDo(u)' <= ToDo(u)
    BY <1>3, <1>4, <2>1
  <2> QED
    BY <1>5, <2>1 DEF Next
<1> QED
  BY <1>3, <1>6 DEF LookupGetsOn

\* Each lookup takes at most two steps for a line of resolv.conf and eight others, its attempts included;
\* it takes them whatever other threads do meanwhile, and none of those, of the servers or of the network
\* gives it more to do.  After them it has returned, waits for an answer, or is in the parser with a name
\* without end: the safety part of LookupAdvances.
THEOREM LookupsGetOn ==
    Spec => []ToDoOK /\ [][LookupGetsOn]_vars
<1>1. IInv => ToDoOK
  BY ToDoInv DEF IInv
<1>2. IInv /\ IInv' /\ [Next]_vars => LookupGetsOn
  BY GetOnInv DEF IInv
<1> QED
  BY <1>1, <1>2, Invariance, NextInv, PTL DEF Spec
=============================================================================
