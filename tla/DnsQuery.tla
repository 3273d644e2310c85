------------------------------ MODULE DnsQuery ------------------------------
(***************************************************************************)
(* fwoop::DNS::Query: threads that look hosts up through the one Query     *)
(* object.  singleton() makes that object without a lock, loadResolvConf() *)
(* assigns the static ServerAddress line by line while other threads may   *)
(* read it, and getRecord() sends one datagram and waits for one.          *)
(*                                                                         *)
(* A message is a sequence of tokens: the labels, compression pointers and *)
(* final zero of names, the type and class of the question ("query"), the  *)
(* ten bytes between the name and the data of a record ("fixed"), and an   *)
(* address ("data").  A pointer names the token it points at, whichever.   *)
(***************************************************************************)
EXTENDS Naturals, Sequences, FiniteSetsExt, SequencesExt

CONSTANTS
    Threads,        \* each looks up a host of its own, once
    Lines,          \* the addresses on the nameserver lines of resolv.conf
    Unusable,       \* the strings inet_pton() does not take
    Answers,        \* what servers answer
    Ports,          \* the ephemeral ports sendto() binds
    MaxFaults       \* bound: calls of recvfrom() that fail

Default == "127.0.0.1"
None == "none"

\* A string whose bytes come from two assignments, a record whose bytes come from
\* a wrong place, and no record at all: the parser never ends.
Torn == "torn"
Garbage == "garbage"
Looping == "looping"

Token ==
    [k : {"label", "zero", "query"}]
        \cup [k : {"pointer"}, to : Nat \ {0}]
        \cup [k : {"fixed"}, type : STRING, len : Nat]
        \cup [k : {"data"}, ip : STRING \ {None, Torn, Garbage, Looping}]

At(m, i, kind) == i \in 1..Len(m) /\ m[i].k = kind

\* A well-formed answer.  The name at i ends at e; a pointer leads to a name, or the
\* rest of one, that ended before it.  A question is followed by the records of the
\* answer; what comes behind them has no addresses.
NameAt(m, i, e) ==
    /\ e \in i..Len(m) /\ \A j \in i..(e - 1) : m[j].k = "label"
    /\ m[e].k \in {"zero", "pointer"}
PointersLeadBack(m) ==
    \A i \in 1..Len(m) : m[i].k = "pointer" =>
        m[i].to \in 1..(i - 1) /\ \E e \in 1..(i - 1) : NameAt(m, m[i].to, e)
RecordAt(m, i, next) ==
    \E e \in i..Len(m) :
        /\ NameAt(m, i, e) /\ At(m, e + 1, "fixed") /\ next = e + 2 + m[e + 1].len
        /\ IF m[e + 1].type = "A" THEN m[e + 1].len = 1 /\ At(m, e + 2, "data")
           ELSE \A j \in (e + 2)..(next - 1) : ~At(m, j, "data")
QuestionEnds(m, e) == NameAt(m, 1, e) /\ m[e].k = "zero" /\ At(m, e + 1, "query")
WellFormed(answer) ==
    LET m == answer.tokens
        n == answer.answers
    IN  /\ PointersLeadBack(m)
        /\ \E e \in 1..Len(m), start \in [1..(n + 1) -> 1..(Len(m) + 1)] :
              /\ QuestionEnds(m, e) /\ start[1] = e + 2
              /\ \A c \in 1..n : RecordAt(m, start[c], start[c + 1])
              /\ \A j \in start[n + 1]..Len(m) : m[j].k # "data"

ASSUME DnsAssumption ==
    /\ Lines \in Seq(STRING)
    /\ Answers \subseteq [answers : Nat, tokens : Seq(Token)]
    /\ None \notin Ports
    /\ MaxFaults \in Nat

\* Every answer repeats the question, its name spelled out.  Behind it may come
\* anything: the code takes a datagram from whoever sends it.
ASSUME AnswersAssumption ==
    \A a \in Answers : \E e \in 1..Len(a.tokens) : QuestionEnds(a.tokens, e)

VARIABLES
    query,          \* s_query_p is set
    address,        \* the strings the bytes of ServerAddress come from
    line,           \* the line each loading thread is at
    assigning,      \* the threads in the middle of an assignment
    over,           \* the lines others assigned in the middle of its assignment
    pc,             \* where each thread is in its lookup
    dest,           \* the address its request went to
    port,           \* the port its socket is bound to
    retries,        \* how many calls of recvfrom() it has left
    sockLen,        \* what its uninitialized socklen_t holds
    shared,         \* the lookups whose port was another's too for a while
    wire,           \* the datagrams under way
    inbox,          \* the datagrams at the socket of each thread
    copied,         \* the lookups of which the network doubled a datagram
    got,            \* the datagram getRecord() went on with, if any
    result          \* the address the lookup returned

loading == <<query, address, line, assigning, over>>
asking == <<dest, port, retries, sockLen, shared>>
network == <<wire, inbox, copied>>
vars == <<loading, pc, asking, network, got, result>>

-----------------------------------------------------------------------------
(***************************************************************************)
(* Reading a message.  Here m is its tokens.                               *)
(***************************************************************************)
\* A pointer may lead behind the end of the message: the loop stops there.
Target(m, i) == IF m[i].to <= Len(m) THEN m[i].to ELSE Len(m) + 1

\* The walk over the name at i never ends: every token it comes to is a label or a
\* pointer, and sends it on to another of them.
Loops(m, i) ==
    \E S \in SUBSET {j \in 1..Len(m) : m[j].k \in {"label", "pointer"}} :
        /\ i \in S
        /\ \A j \in S : IF m[j].k = "label" THEN j + 1 \in S ELSE Target(m, j) \in S

\* Where a walk that ends does so, and the token after the last pointer it met, 0
\* when it met none: a later pointer overwrites tmp.
Walk(m) ==
    LET walk[i \in 1..(Len(m) + 1)] ==
            CASE At(m, i, "label") -> walk[i + 1]
              [] At(m, i, "pointer") ->
                    [walk[Target(m, i)] EXCEPT !.tmp = IF @ = 0 THEN i + 1 ELSE @]
              [] OTHER -> [end |-> i, tmp |-> 0]
    IN  walk

(***************************************************************************)
(* Faulty variants, one per property.                                      *)
(***************************************************************************)
AfterName_KeepsTarget(m, i) == Walk(m)[i].end + 1

MoreAttempts_CountsFirst(n) == n > 2

NumLines_SkipsLast == Len(Lines) - 1

HasAnswer_WaitsForAll(t) == Cardinality(inbox[t]) > 1

CloseSocket_Leaks(t) == UNCHANGED <<inbox, port, dest, sockLen>>

\* The offset ResourceRecord::parse() goes on with after the name at i.
AfterName(m, i) ==
    LET w == Walk(m)[i] IN IF w.tmp # 0 THEN w.tmp ELSE w.end + 1

\* A label that ends where the message ends is an error, and so is a record
\* without a byte of data: whatever is cut off, no record after it is read.
Incomplete(m, i) ==
    \/ AfterName(m, i) >= Len(m)
    \/ LET j == AfterName(m, i)
       IN  At(m, j, "fixed") /\ j + m[j].len > Len(m)

\* Question::parse(): whether it is all there, and the offset behind it.
HasQuestion(m) == Walk(m)[1].end + 1 <= Len(m)
AfterQuestion(m) == Walk(m)[1].end + 2

-----------------------------------------------------------------------------
\* The loop goes on behind a record it could not parse, wherever the parser stopped
\* in it: bytes from a wrong place give any record, none, or a name without end.
Misread(m) == {None, Garbage, Looping} \cup {m[k].ip : k \in {k \in 1..Len(m) : At(m, k, "data")}}

\* IP(): four bytes are an address, whatever they are.
Addresses(m, f) ==
    IF m[f].len = 1 /\ At(m, f + 1, "data") THEN {m[f + 1].ip} ELSE {None, Garbage}

\* What the loop over the last c of the records, at offset j, may return: the first
\* record of type A, after the loop has been through the others.  The bytes behind
\* the end may complete a pointer of which one byte is there.
Found(m, i, n) ==
    LET found[c \in 0..n] == [j \in 1..(Len(m) + 1) |->
            LET f == AfterName(m, j)
                rest == found[c - 1][f + m[f].len + 1]
            IN  IF c = 0 THEN {None}
                ELSE IF Loops(m, j) THEN {Looping}
                ELSE IF Incomplete(m, j)
                THEN IF c > 1 THEN Misread(m)
                     ELSE IF Walk(m)[j].end <= Len(m) THEN {None} ELSE {None, Looping}
                ELSE IF ~At(m, Walk(m)[j].end, "zero") \/ ~At(m, f, "fixed") THEN Misread(m)
                ELSE IF m[f].type = "A"
                THEN {IF r = Looping THEN r ELSE a : r \in rest, a \in Addresses(m, f)}
                ELSE rest]
    IN  found[n][i]

Results(d) ==
    IF d.answers = 0 THEN {None}
    ELSE IF ~HasQuestion(d.tokens) THEN Misread(d.tokens)
    ELSE Found(d.tokens, AfterQuestion(d.tokens), d.answers)

\* What is left of an answer cut anywhere, behind a token or in the next one, and
\* what getRecord() makes of it.
Cuts(a) == {[a EXCEPT !.tokens = SubSeq(@, 1, n)] : n \in 0..Len(a.tokens)}
Datagrams == UNION {Cuts(a) : a \in Answers}
Reading == [d \in Datagrams |-> Results(d)]

-----------------------------------------------------------------------------
Attempts == 3

Init ==
    /\ query = FALSE
    /\ address = {Default}
    /\ line = [t \in Threads |-> 1]
    /\ assigning = {} /\ over = [t \in Threads |-> {}]
    /\ pc = [t \in Threads |-> "call"]
    /\ dest = [t \in Threads |-> None] /\ port = [t \in Threads |-> None]
    /\ retries = [t \in Threads |-> Attempts]
    /\ sockLen = [t \in Threads |-> None]
    /\ shared = {}
    /\ wire = {} /\ inbox = [t \in Threads |-> {}] /\ copied = {}
    /\ got = [t \in Threads |-> {}] /\ result = [t \in Threads |-> None]

\* Bounds: a datagram is doubled, or cut, where nothing else has gone wrong, and
\* then recvfrom() is not interrupted.
Faults ==
    FoldFunction(LAMBDA n, sum : sum + (Attempts - n), 0, retries)
        + MaxFaults * (Cardinality(copied)
            + Cardinality({t \in Threads : \E d \in got[t] : d.message \notin Answers}))

Go(t, from, to) == pc[t] = from /\ pc' = [pc EXCEPT ![t] = to]

(***************************************************************************)
(* singleton(): the pointer is set before the file is read, and a thread   *)
(* that saw it null makes another object and reads the file again.         *)
(***************************************************************************)
Check(t) ==
    /\ Go(t, "call", IF query THEN "ask" ELSE "create")
    /\ UNCHANGED <<loading, asking, network, got, result>>

Create(t) ==
    /\ Go(t, "create", "load")
    /\ query' = TRUE
    /\ UNCHANGED <<address, line, assigning, over, asking, network, got, result>>

(***************************************************************************)
(* loadResolvConf(): ServerAddress = *itr2, for every nameserver line.     *)
(***************************************************************************)
NumLines == Len(Lines)

BeginAssign(t) ==
    /\ pc[t] = "load" /\ t \notin assigning /\ line[t] <= NumLines
    /\ assigning' = assigning \cup {t}
    /\ address' = address \cup {Lines[line[t]]}
    /\ over' = [u \in Threads |->
            IF u = t THEN {Lines[line[v]] : v \in assigning}
            ELSE IF u \in assigning THEN over[u] \cup {Lines[line[t]]} ELSE {}]
    /\ UNCHANGED <<query, line, pc, asking, network, got, result>>

EndAssign(t) ==
    /\ t \in assigning
    /\ assigning' = assigning \ {t}
    /\ address' = address \cap ({Lines[line[t]]} \cup over[t])
    /\ over' = [over EXCEPT ![t] = {}]
    /\ line' = [line EXCEPT ![t] = @ + 1]
    /\ UNCHANGED <<query, pc, asking, network, got, result>>

Loaded(t) ==
    /\ t \notin assigning /\ line[t] > NumLines
    /\ Go(t, "load", "ask")
    /\ UNCHANGED <<loading, asking, network, got, result>>

-----------------------------------------------------------------------------
(***************************************************************************)
(* getRecord() up to sendto().  socket(), setsockopt(), inet_pton() and    *)
(* sendto() each end the lookup when they fail.                            *)
(***************************************************************************)
AddressesRead == address \cup (IF Cardinality(address) > 1 THEN {Torn} ELSE {})

NoRequest(t) ==
    /\ Go(t, "ask", "done")
    /\ UNCHANGED <<loading, asking, network, got, result>>

\* SO_REUSEADDR lets sendto() bind a port that is another socket's.  A request to
\* an address nobody configured is as good as lost.
Request(t) ==
    /\ Go(t, "ask", "receive")
    /\ \E a \in AddressesRead \ Unusable, p \in Ports :
        LET others == {u \in Threads : port[u] = p}
        IN  /\ dest' = [dest EXCEPT ![t] = a]
            /\ port' = [port EXCEPT ![t] = p]
            /\ shared' = shared \cup others \cup (IF others = {} THEN {} ELSE {t})
            /\ wire' = wire \cup
                {[k |-> "request", port |-> p, question |-> t, copy |-> FALSE] : l \in {a} \cap Range(Lines)}
    /\ \E v \in {"positive", "negative"} : sockLen' = [sockLen EXCEPT ![t] = v]
    /\ UNCHANGED <<loading, retries, inbox, copied, got, result>>

(***************************************************************************)
(* The wait for the answer, one datagram.  close(sockfd) drops what is at  *)
(* the socket.                                                             *)
(***************************************************************************)
CloseSocket(t) ==
    /\ inbox' = [inbox EXCEPT ![t] = {}]
    /\ port' = [port EXCEPT ![t] = None]
    /\ dest' = [dest EXCEPT ![t] = None]
    /\ sockLen' = [sockLen EXCEPT ![t] = None]

HasAnswer(t) == inbox[t] # {}

\* while (retries-- > 0 && bytesRead < 0), after a call with n attempts left.
MoreAttempts(n) == n > 1

\* bytesRead >= 0: whoever sent the datagram, whatever its transaction id, and
\* however much of it is there.
Receive(t) ==
    /\ sockLen[t] = "positive" /\ HasAnswer(t)
    /\ \E d \in inbox[t], m \in IF Faults = 0 THEN Datagrams ELSE Answers :
       \E r \in Reading[m] :
        /\ Go(t, "receive", IF r = Looping THEN "looping" ELSE "done")
        /\ got' = [got EXCEPT ![t] = {[question |-> d.question, message |-> m]}]
        /\ result' = [result EXCEPT ![t] = IF r = Looping THEN None ELSE r]
    /\ CloseSocket(t)
    /\ UNCHANGED <<loading, retries, shared, wire, copied>>

\* bytesRead < 0: the next of three attempts, or the end of the lookup.
Retry(t, box) ==
    /\ pc[t] = "receive"
    /\ retries' = [retries EXCEPT ![t] = @ - 1]
    /\ IF MoreAttempts(retries[t])
       THEN inbox' = [inbox EXCEPT ![t] = box] /\ UNCHANGED <<pc, port, dest, sockLen>>
       ELSE Go(t, "receive", "done") /\ CloseSocket(t)
    /\ UNCHANGED <<loading, shared, wire, copied, got, result>>

\* The kernel takes a negative socklen_t for an error after it took the datagram.
ReceiveRejected(t) ==
    /\ sockLen[t] = "negative" /\ HasAnswer(t)
    /\ \E d \in inbox[t] : Retry(t, inbox[t] \ {d})

Interrupted(t) ==
    /\ ~HasAnswer(t)
    /\ Faults < MaxFaults
    /\ Retry(t, {})

-----------------------------------------------------------------------------
(***************************************************************************)
(* Servers and the network: a request or an answer may be cut, lost, late, *)
(* doubled or out of order, and an answer never given.  What an answer     *)
(* says matters, and is chosen, when it is read.                           *)
(***************************************************************************)
Packet == [k : {"request", "answer"}, port : Ports, question : Threads, copy : BOOLEAN]
Requests == {d \in wire : d.k = "request"}

ServerAnswers ==
    /\ \E d \in Requests : wire' = (wire \ {d}) \cup {[d EXCEPT !.k = "answer"]}
    /\ UNCHANGED <<loading, pc, asking, inbox, copied, got, result>>

\* One of the sockets bound to the port gets it.
Deliver ==
    \E d \in wire \ Requests :
        /\ wire' = wire \ {d}
        /\ LET bound == {t \in Threads : port[t] = d.port}
           IN  IF bound = {} THEN inbox' = inbox
               ELSE \E t \in bound : inbox' = [inbox EXCEPT ![t] = @ \cup {d}]
    /\ UNCHANGED <<loading, pc, asking, copied, got, result>>

\* A request that is doubled is as good as an answer that is.
Duplicate ==
    /\ Faults = 0
    /\ \E d \in wire \ Requests :
        /\ d.question \notin copied
        /\ copied' = copied \cup {d.question}
        /\ wire' = wire \cup {[d EXCEPT !.copy = TRUE]}
    /\ UNCHANGED <<loading, pc, asking, inbox, got, result>>

Lose ==
    /\ \E d \in wire : wire' = wire \ {d}
    /\ UNCHANGED <<loading, pc, asking, inbox, copied, got, result>>

-----------------------------------------------------------------------------
Lookup(t) ==
    \/ Check(t) \/ Create(t) \/ BeginAssign(t) \/ EndAssign(t) \/ Loaded(t)
    \/ NoRequest(t) \/ Request(t) \/ Receive(t) \/ ReceiveRejected(t)

Next ==
    \/ \E t \in Threads : Lookup(t) \/ Interrupted(t)
    \/ ServerAnswers \/ Deliver \/ Duplicate \/ Lose

Spec == Init /\ [][Next]_vars
FairSpec == Spec /\ \A t \in Threads : WF_vars(Lookup(t))

-----------------------------------------------------------------------------
\* Types, and that a thread has a socket as long as it waits for its answer.
TypeOK ==
    /\ query \in BOOLEAN
    /\ address # {} /\ address \subseteq {Default} \cup Range(Lines)
    /\ line \in [Threads -> 1..(Len(Lines) + 1)]
    /\ assigning \subseteq Threads
    /\ pc \in [Threads -> {"call", "create", "load", "ask", "receive", "looping", "done"}]
    /\ port \in [Threads -> Ports \cup {None}]
    /\ retries \in [Threads -> 0..Attempts]
    /\ shared \subseteq Threads
    /\ wire \subseteq Packet /\ inbox \in [Threads -> SUBSET Packet]
    /\ \A t \in Threads :
        /\ (port[t] # None) = (pc[t] = "receive")
        /\ pc[t] # "receive" => inbox[t] = {}

\* Once resolv.conf has been read and no thread is reading it, every request goes
\* to its last nameserver, however the loads of two threads interleaved.
AddressIsConfigured ==
    [][\A t \in Threads :
        (dest'[t] \notin {dest[t], None} /\ query /\ Lines # <<>> /\ \A u \in Threads : pc[u] # "load")
            => dest'[t] = Last(Lines)]_vars

\* Of a well-formed answer, unless the pointer of some record's name, whole or cut
\* behind that pointer, leads to another pointer: a lookup that returns returns the
\* first address that is whole in the datagram it read, when there is one or the
\* datagram was not cut; and when it was not cut, it does return.
Chained(m) ==
    \E i \in 1..Len(m) :
        /\ At(m, i, "pointer") /\ (At(m, i + 1, "fixed") \/ i = Len(m))
        /\ Walk(m)[Target(m, i)].tmp # 0
Sound == {a \in Answers : a.answers > 0 /\ WellFormed(a)}
Unchained == {d \in UNION {Cuts(a) : a \in Sound} : ~Chained(d.tokens)}
FirstAddress(m) ==
    LET whole == {i \in 1..Len(m) : At(m, i, "data")}
    IN  IF whole = {} THEN None ELSE m[Min(whole)].ip
WholeAddressIsRead ==
    \A t \in Threads : \A d \in got[t] :
        LET first == FirstAddress(d.message.tokens)
        IN  d.message \in Unchained =>
                /\ d.message \in Sound => pc[t] = "done"
                /\ pc[t] = "done" /\ (d.message \in Sound \/ first # None) => result[t] = first

\* getRecord() compares no transaction ids.  The answer another lookup reads is that
\* of a lookup whose port was shared, of which the network doubled a datagram, which
\* was interrupted three times, or which had itself read another's answer.
Astray(t) == \E d \in got[t] : d.question # t
Disturbed(t) == t \in shared \cup copied \/ retries[t] = 0 \/ Astray(t)
AnswerIsOwn ==
    \A t \in Threads : \A d \in got[t] : d.question = t \/ Disturbed(d.question)

\* Every lookup comes, and comes back, to where it waits for an answer that is not
\* there, or of which the kernel takes no socklen_t, or has ended, or has come to a
\* name without end.
LookupAdvances ==
    \A t \in Threads :
        []<>(\/ pc[t] \in {"looping", "done"}
             \/ pc[t] = "receive" /\ (sockLen[t] = "negative" \/ inbox[t] = {}))
=============================================================================
