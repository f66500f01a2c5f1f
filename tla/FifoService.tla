---------------------------- MODULE FifoService ----------------------------
(***************************************************************************)
(* What a queue of jobs promises, whatever it is made of: the jobs are      *)
(* served in the order in which they arrived, each by one lane and once;   *)
(* a lane serves one job at a time; a job may be withdrawn until it is      *)
(* served, and is then never served; how a job ended does not change.      *)
(***************************************************************************)
EXTENDS Integers

CONSTANTS
    Jobs,      \* positive numbers, in the order of arrival
    Lanes,     \* those who serve
    Outcomes,  \* how a job can end
    Withdrawn  \* the outcome of a job that was never served

VARIABLES
    phase,  \* "absent", "queued", "running" or an outcome, for each job
    lane    \* the job a lane serves, 0 for none

vars == <<phase, lane>>

Init ==
    /\ phase = [j \in Jobs |-> "absent"]
    /\ lane = [l \in Lanes |-> 0]

Arrive(j) ==
    /\ phase[j] = "absent"
    /\ \A k \in Jobs : k < j => phase[k] # "absent"
    /\ phase' = [phase EXCEPT ![j] = "queued"]
    /\ UNCHANGED lane

Withdraw(j) ==
    /\ phase[j] = "queued"
    /\ phase' = [phase EXCEPT ![j] = Withdrawn]
    /\ UNCHANGED lane

\* A free lane takes the first of those that wait.
Serve(l, j) ==
    /\ lane[l] = 0 /\ phase[j] = "queued"
    /\ \A k \in Jobs : k < j => phase[k] # "queued"
    /\ phase' = [phase EXCEPT ![j] = "running"]
    /\ lane' = [lane EXCEPT ![l] = j]

Leave(l, outcome) ==
    /\ lane[l] # 0
    /\ phase' = [phase EXCEPT ![lane[l]] = outcome]
    /\ lane' = [lane EXCEPT ![l] = 0]

Next ==
    \/ \E j \in Jobs : Arrive(j) \/ Withdraw(j)
    \/ \E l \in Lanes : \/ \E j \in Jobs : Serve(l, j)
                        \/ \E outcome \in Outcomes : Leave(l, outcome)

Spec == Init /\ [][Next]_vars
============================================================================
