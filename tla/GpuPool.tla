------------------------------ MODULE GpuPool ------------------------------
(***************************************************************************)
(* The GPU pool (backend/services/model_manager.py): _ResilientGpuPool, a   *)
(* wrapper whose inner thread pool is dropped and rebuilt, the guard that   *)
(* bounds a job's time, and the engines that run in a sidecar process and  *)
(* ask the pool for a slot from inside one of its threads                  *)
(* (backend/services/subprocess_asr.py).                                   *)
(*                                                                         *)
(* Calls come from the event loop: looking up the live pool and submitting *)
(* to it is one step, and so is a reset.  A slot is asked for by a pool    *)
(* thread, whose steps interleave with all the others.                     *)
(***************************************************************************)
EXTENDS Integers, Sequences, FiniteSets

CONSTANTS
    Slots,      \* threads of an inner pool (_pick_gpu_workers)
    Kinds,      \* the calls made: "guarded", "sidecar", "unguarded"
    MaxCalls,   \* bound: calls
    MaxSidecar, \* bound: calls that use a sidecar engine
    MaxWedges   \* bound: calls whose code never returns

ASSUME GpuPoolAssumption ==
    /\ Slots \in Nat \ {0}
    /\ Kinds \subseteq {"guarded", "sidecar", "unguarded"}
    /\ {MaxCalls, MaxSidecar, MaxWedges} \subseteq Nat

VARIABLES
    job,   \* the calls made so far
    pool,  \* the inner pools built so far
    live   \* _pool: the inner pool submit uses, 0 for None

vars == <<job, pool, live>>

\* "work": the job's own code runs.  "ask", "got", "retry" and "slot" are the
\* points of submit and result a sidecar's thread can be at; slot is the pool it
\* looked up.  gone: the code has returned or was never started.
Phase  == {"queued", "ask", "got", "retry", "slot", "work", "wedged", "gone"}
Answer == {"none", "ok", "error", "timeout", "cancelled"}
Job    == [kind : Kinds, phase : Phase, pool : Nat, slot : Nat, answer : Answer]

\* An entry of an inner pool's queue: a job, or the no-op of its slot.
Entry == [job : Nat, noop : BOOLEAN]
Pool  == [open : BOOLEAN, queue : Seq(Entry)]

TypeOK ==
    /\ job \in Seq(Job) /\ Len(job) <= MaxCalls
    /\ pool \in Seq(Pool)
    /\ live \in 0..Len(pool)
    /\ \A j \in 1..Len(job) : {job[j].pool, job[j].slot} \subseteq 0..Len(pool)

Init == job = <<>> /\ pool = <<>> /\ live = 0

Jobs == 1..Len(job)

\* The jobs that hold a thread of p.
Held(p) == {j \in Jobs : job[j].pool = p /\ job[j].phase \notin {"queued", "gone"}}

Fresh == [open |-> TRUE, queue |-> <<>>]
Entered(p, e) == [p EXCEPT !.queue = Append(@, e)]

----------------------------------------------------------------------------
(* Submitting.                                                             *)

\* A call looks up the live pool, builds it if there is none, and submits.
Call(kind) ==
    LET j == Len(job) + 1
        e == [job |-> j, noop |-> FALSE]
        p == IF live = 0 THEN Len(pool) + 1 ELSE live
    IN
    /\ j <= MaxCalls
    /\ kind = "sidecar" =>
         Cardinality({k \in Jobs : job[k].kind = "sidecar"}) < MaxSidecar
    /\ job' = Append(job, [kind |-> kind, phase |-> "queued", pool |-> p,
                           slot |-> 0, answer |-> "none"])
    /\ pool' = IF live = 0 THEN Append(pool, Entered(Fresh, e))
               ELSE [pool EXCEPT ![p] = Entered(@, e)]
    /\ live' = p

\* A sidecar's thread looks up the live pool ...
AskSlot(j) ==
    /\ job[j].phase = "ask"
    /\ LET p == IF live = 0 THEN Len(pool) + 1 ELSE live IN
       /\ pool' = IF live = 0 THEN Append(pool, Fresh) ELSE pool
       /\ live' = p
       /\ job' = [job EXCEPT ![j].phase = "got", ![j].slot = p]

\* Mutant: a pool that was shut down takes the no-op.
SubmitSlotClosed(j) ==
    /\ job[j].phase = "got"
    /\ pool' = [pool EXCEPT ![job[j].slot] = Entered(@, [job |-> j, noop |-> TRUE])]
    /\ job' = [job EXCEPT ![j].phase = "slot"]
    /\ UNCHANGED live

\* ... and submits a no-op to it; if it was shut down meanwhile, a new pool is
\* built, whatever the live one is by now.
SubmitSlot(j) ==
    /\ job[j].phase = "got"
    /\ \/ /\ pool[job[j].slot].open
          /\ pool' = [pool EXCEPT ![job[j].slot] =
                        Entered(@, [job |-> j, noop |-> TRUE])]
          /\ job' = [job EXCEPT ![j].phase = "slot"]
          /\ UNCHANGED live
       \/ /\ ~pool[job[j].slot].open
          /\ pool' = Append(pool, Fresh)
          /\ live' = Len(pool) + 1
          /\ job' = [job EXCEPT ![j].phase = "retry", ![j].slot = Len(pool) + 1]

\* The code of job j raises: its thread is free, its caller gets the exception
\* unless it has its answer already.
Raised(j, answer) ==
    [job EXCEPT ![j].phase = "gone",
                ![j].answer = IF @ = "none" THEN answer ELSE @]

\* The second try is the last.
RetrySlot(j) ==
    /\ job[j].phase = "retry"
    /\ IF pool[job[j].slot].open
       THEN /\ pool' = [pool EXCEPT ![job[j].slot] =
                          Entered(@, [job |-> j, noop |-> TRUE])]
            /\ job' = [job EXCEPT ![j].phase = "slot"]
       ELSE /\ job' = Raised(j, "error")
            /\ UNCHANGED pool
    /\ UNCHANGED live

----------------------------------------------------------------------------
(* The threads of an inner pool.                                           *)

\* A free thread takes the next entry: one of a call that is gone is skipped, a
\* no-op is over at once.
Take(p) ==
    /\ pool[p].queue # <<>> /\ Cardinality(Held(p)) < Slots
    /\ pool' = [pool EXCEPT ![p].queue = Tail(@)]
    /\ LET e == Head(pool[p].queue) IN
       job' = IF job[e.job].phase = "gone" THEN job
              ELSE [job EXCEPT ![e.job].phase =
                      IF ~e.noop /\ job[e.job].kind = "sidecar" THEN "ask" ELSE "work"]
    /\ UNCHANGED live

\* Mutant: the result is not handed over.
ReturnsSilently(j) ==
    /\ job[j].phase = "work"
    /\ job' = [job EXCEPT ![j].phase = "gone"]
    /\ UNCHANGED <<pool, live>>

Returns(j) ==
    /\ job[j].phase = "work"
    /\ \E answer \in {"ok", "error"} : job' = Raised(j, answer)
    /\ UNCHANGED <<pool, live>>

Wedges(j) ==
    /\ job[j].phase = "work"
    /\ Cardinality({k \in Jobs : job[k].phase = "wedged"}) < MaxWedges
    /\ job' = [job EXCEPT ![j].phase = "wedged"]
    /\ UNCHANGED <<pool, live>>

----------------------------------------------------------------------------
(* The guard.                                                              *)

\* reset: the live pool is shut down and what waits in its queue is cancelled;
\* a no-op that is cancelled raises in the thread that waits for it.
Reset(jobs) ==
    LET cancelled == IF live = 0 THEN {}
                     ELSE {pool[live].queue[k].job : k \in 1..Len(pool[live].queue)}
    IN
    /\ live' = 0
    /\ job' = [j \in Jobs |->
                 IF j \in cancelled /\ jobs[j].phase # "gone"
                 THEN [jobs[j] EXCEPT !.phase = "gone",
                                      !.answer = IF @ = "none" THEN "cancelled" ELSE @]
                 ELSE jobs[j]]
    /\ pool' = IF live = 0 THEN pool
               ELSE [pool EXCEPT ![live] = [open |-> FALSE, queue |-> <<>>]]

\* Mutant: the caller gets its error, the pool stays as it is.
TimeoutKeeps(j) ==
    /\ job[j].kind # "unguarded" /\ job[j].answer = "none"
    /\ job' = [job EXCEPT ![j].answer = "timeout",
                          ![j].phase = IF @ = "queued" THEN "gone" ELSE @]
    /\ UNCHANGED <<pool, live>>

\* The time of a guarded call runs from its submission.  A queued job is
\* cancelled, one that runs goes on in its abandoned thread.
Timeout(j) ==
    /\ job[j].kind # "unguarded" /\ job[j].answer = "none"
    /\ Reset([job EXCEPT ![j].answer = "timeout",
                         ![j].phase = IF @ = "queued" THEN "gone" ELSE @])

\* A slot is waited for ten seconds.  The TimeoutError of result is the one
\* wait_for raises (Python 3.11): the guard takes it for its own.
SlotTimeout(j) ==
    /\ job[j].phase = "slot"
    /\ IF job[j].answer = "none" THEN Reset(Raised(j, "timeout"))
       ELSE job' = Raised(j, "timeout") /\ UNCHANGED <<pool, live>>

----------------------------------------------------------------------------
Thread(j) == AskSlot(j) \/ SubmitSlot(j) \/ RetrySlot(j) \/ Returns(j)

Next ==
    \/ \E kind \in Kinds : Call(kind)
    \/ \E p \in 1..Len(pool) : Take(p)
    \/ \E j \in Jobs : \/ Thread(j) \/ Wedges(j)
                       \/ Timeout(j) \/ SlotTimeout(j)

Spec == Init /\ [][Next]_vars

\* Threads go on, code that is not wedged returns, and the timer of a guarded
\* call that is wedged, or of a slot, goes off in the end.
FairSpec ==
    /\ Spec
    /\ \A p \in 1..(2 * MaxCalls) : WF_vars(p \in 1..Len(pool) /\ Take(p))
    /\ \A j \in 1..MaxCalls :
         /\ WF_vars(j \in Jobs /\ Thread(j))
         /\ WF_vars(j \in Jobs /\ job[j].phase = "wedged" /\ Timeout(j))
         /\ WF_vars(j \in Jobs /\ SlotTimeout(j))

----------------------------------------------------------------------------
\* What a timed-out call leaves behind takes no capacity: in the pool new jobs
\* go to, every thread works for a caller that still waits.
CapacityRestored ==
    live # 0 => \A j \in Held(live) : job[j].answer = "none"

\* No call is lost in a reset: one that has no answer yet is at work, or waits
\* in the queue of a pool that is open, and so is its slot.
NothingLost ==
    \A j \in Jobs : job[j].answer = "none" =>
      /\ job[j].phase # "gone"
      /\ job[j].phase = "queued" =>
           /\ pool[job[j].pool].open
           /\ \E k \in 1..Len(pool[job[j].pool].queue) :
                pool[job[j].pool].queue[k] = [job |-> j, noop |-> FALSE]
      /\ job[j].phase = "slot" => pool[job[j].slot].open

\* There is one inner pool: every other one is shut down and empty.  Fails
\* when a sidecar asks for its slot across a reset.
OnePool ==
    \A p \in 1..Len(pool) : p # live => ~pool[p].open /\ pool[p].queue = <<>>

\* The GPU runs at most as many jobs as it was sized for.  Fails when a call is
\* slow and not wedged: its abandoned thread goes on beside the new pool.
Serialized ==
    Cardinality({j \in Jobs : job[j].phase \in {"work", "wedged"}}) <= Slots

\* The threads of a pool never wait for one another: one of them is free or at
\* work when a slot is asked for.  Fails with one thread.
NoSelfDeadlock ==
    \A j \in Jobs : job[j].phase = "slot" =>
      \/ Cardinality(Held(job[j].slot)) < Slots
      \/ \E k \in Held(job[j].slot) : job[k].phase # "slot"

\* Every call gets an answer; nothing but the wedged have a timer that must go
\* off, so a wedged call does not starve the ones behind it either.
CallsAnswered ==
    \A j \in 1..MaxCalls : j \in Jobs ~> (j \in Jobs /\ job[j].answer # "none")

----------------------------------------------------------------------------
\* What waits is in the queue of a pool that is open.
Queued(p, j, noop) ==
    /\ pool[p].open
    /\ \E k \in 1..Len(pool[p].queue) : pool[p].queue[k] = [job |-> j, noop |-> noop]

\* The code of call j as its caller may see it; one that waits where nobody will
\* ever look is neither.
CodeOf(j) ==
    IF j \notin Jobs THEN "absent"
    ELSE CASE job[j].phase = "gone" -> "over"
           [] job[j].phase = "queued" ->
                IF Queued(job[j].pool, j, FALSE) THEN "waiting" ELSE "lost"
           [] job[j].phase = "slot" ->
                IF Queued(job[j].slot, j, TRUE) THEN "running" ELSE "lost"
           [] OTHER -> "running"

AnswerOf(j) == IF j \in Jobs THEN job[j].answer ELSE "none"

Service == INSTANCE CallService WITH
    Calls <- 1..MaxCalls,
    code <- [j \in 1..MaxCalls |-> CodeOf(j)],
    answer <- [j \in 1..MaxCalls |-> AnswerOf(j)]

\* Whatever pools are dropped and rebuilt meanwhile, the pool is a CallService: no
\* call is lost in a reset, runs twice or after it was answered, or is cancelled
\* unless the time of a call is over.
ServesCalls == Service!Spec
============================================================================
