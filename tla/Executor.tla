------------------------------ MODULE Executor ------------------------------
(***************************************************************************)
(* What a thread pool promises, without threads: jobs are started in the   *)
(* order they were accepted, each once and by a free slot; once            *)
(* the executor has stopped it accepts at most the one job it was already  *)
(* taking; and it terminates only when every job it owed at the stop has   *)
(* finished.  After a failure it promises nothing.                         *)
(***************************************************************************)
EXTENDS Naturals

CONSTANT Slots

Idle == 0

VARIABLES accepted, started, running, stopped, owed, terminated, failed

vars == <<accepted, started, running, stopped, owed, terminated, failed>>

Finished == 1..started \ {running[s] : s \in Slots}

Init ==
    /\ accepted = 0 /\ started = 0 /\ running = [s \in Slots |-> Idle]
    /\ stopped = FALSE /\ owed = 0 /\ terminated = FALSE /\ failed = FALSE

Accept ==
    /\ stopped => accepted = owed
    /\ accepted' = accepted + 1
    /\ UNCHANGED <<started, running, stopped, owed, terminated, failed>>

Start ==
    /\ started < accepted
    /\ started' = started + 1
    /\ \E s \in Slots : running[s] = Idle /\ running' = [running EXCEPT ![s] = started + 1]
    /\ UNCHANGED <<accepted, stopped, owed, terminated, failed>>

Finish ==
    /\ \E s \in Slots : running[s] # Idle /\ running' = [running EXCEPT ![s] = Idle]
    /\ UNCHANGED <<accepted, started, stopped, owed, terminated, failed>>

Stop ==
    /\ ~stopped
    /\ stopped' = TRUE
    /\ owed' = accepted
    /\ UNCHANGED <<accepted, started, running, terminated, failed>>

Terminate ==
    /\ stopped /\ 1..owed \subseteq Finished
    /\ \A s \in Slots : running[s] = Idle
    /\ terminated' = TRUE
    /\ UNCHANGED <<accepted, started, running, stopped, owed, failed>>

Fail == failed' = TRUE

Next ==
    \/ Accept
    \/ ~terminated /\ (Start \/ Finish \/ Stop \/ Terminate)
    \/ Fail

Spec == Init /\ [][Next]_vars
=============================================================================
