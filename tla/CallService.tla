---------------------------- MODULE CallService ----------------------------
(***************************************************************************)
(* What those who submit calls may rely on, however many pools of threads  *)
(* are built and dropped behind their backs: the code of a call is run at  *)
(* most once, and never when the caller had its answer before; there is    *)
(* one answer, and it comes from the code, from the time of the call being *)
(* over, or from that of another call, with which it was cancelled.  A     *)
(* call whose code is over has its answer.                                 *)
(***************************************************************************)
EXTENDS Integers

CONSTANT Calls

VARIABLES
    code,   \* "absent", "waiting", "running" or "over", for each call
    answer  \* "none", "ok", "error", "timeout" or "cancelled"

vars == <<code, answer>>

Init ==
    /\ code = [c \in Calls |-> "absent"]
    /\ answer = [c \in Calls |-> "none"]

Submit(c) ==
    /\ code[c] = "absent"
    /\ code' = [code EXCEPT ![c] = "waiting"]
    /\ UNCHANGED answer

Start(c) ==
    /\ code[c] = "waiting" /\ answer[c] = "none"
    /\ code' = [code EXCEPT ![c] = "running"]
    /\ UNCHANGED answer

\* The code returns or raises.
End(c) ==
    /\ code[c] = "running"
    /\ code' = [code EXCEPT ![c] = "over"]
    /\ \E result \in {"ok", "error", "timeout"} :
         answer' = [answer EXCEPT ![c] = IF @ = "none" THEN result ELSE @]

\* The time of c is over, and what is in S is cancelled with it: code that has
\* not been run never will be.
TimeOut(c, S) ==
    /\ code[c] \in {"waiting", "running"} /\ answer[c] = "none"
    /\ \A k \in S : code[k] \in {"waiting", "running"}
    /\ code' = [k \in Calls |->
                  IF k \in S \/ (k = c /\ code[k] = "waiting") THEN "over" ELSE code[k]]
    /\ answer' = [k \in Calls |->
                    IF answer[k] # "none" THEN answer[k]
                    ELSE IF k = c THEN "timeout"
                    ELSE IF k \in S THEN "cancelled" ELSE "none"]

Next ==
    \E c \in Calls : \/ Submit(c) \/ Start(c) \/ End(c)
                     \/ \E S \in SUBSET Calls : TimeOut(c, S)

Spec == Init /\ [][Next]_vars
============================================================================
