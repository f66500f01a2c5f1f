---------------------------- MODULE JobLifecycle ----------------------------
(***************************************************************************)
(* What the dispatcher and its store promise of one job: it is created     *)
(* once, runs once, publishes updates only while it runs, and ends once.   *)
(* The event that announces a failure or a cancellation comes with the     *)
(* change of state and nothing is published after it.  A job cut off by    *)
(* the death of the process ends as failed, with no event.                 *)
(***************************************************************************)
EXTENDS Sequences

CONSTANTS Tasks

VARIABLES state, stream

Init ==
    /\ state = [t \in Tasks |-> "absent"]
    /\ stream = [t \in Tasks |-> <<>>]

Move(t, from, to) ==
    /\ state[t] = from
    /\ state' = [state EXCEPT ![t] = to]

Publish(t, kind) == stream' = [stream EXCEPT ![t] = Append(@, kind)]

Create(t) == Move(t, "absent", "pending") /\ UNCHANGED stream
Start(t)  == Move(t, "pending", "running") /\ UNCHANGED stream
Update(t) == state[t] = "running" /\ Publish(t, "update") /\ UNCHANGED state
Finish(t) == Move(t, "running", "done") /\ UNCHANGED stream
Cancel(t) == Move(t, "running", "cancelled") /\ Publish(t, "cancelled")
Fail(t)   == Move(t, "running", "failed") /\ Publish(t, "failure")

Interrupt ==
    /\ state' = [t \in Tasks |-> IF state[t] \in {"pending", "running"}
                                 THEN "failed" ELSE state[t]]
    /\ UNCHANGED stream

Next ==
    \/ \E t \in Tasks : \/ Create(t) \/ Start(t) \/ Update(t)
                        \/ Finish(t) \/ Cancel(t) \/ Fail(t)
    \/ Interrupt

Spec == Init /\ [][Next]_<<state, stream>>
============================================================================
