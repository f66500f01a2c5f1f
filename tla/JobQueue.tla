------------------------------ MODULE JobQueue ------------------------------
(***************************************************************************)
(* The serial job queue for GPU-bound work (backend/core/job_queue.py).    *)
(*                                                                         *)
(* One asyncio loop: the lock of submit is never contended and the queue   *)
(* is unbounded, so submit, cancel and purge_finished are atomic.  The     *)
(* workers interleave with them at queue.get and while a job's coroutine   *)
(* runs; stop waits for its workers to notice the cancellation.            *)
(***************************************************************************)
EXTENDS Integers, Sequences, FiniteSets

CONSTANTS
    Ids,         \* job ids
    Workers,     \* one lane each (concurrency)
    Waiters,     \* callers of wait
    MaxSubmits,  \* bound: job objects made
    MaxStops,    \* bound: calls of stop, for each number of jobs made
    ReuseIds     \* may a caller submit an id it used before?

ASSUME JobQueueAssumption ==
    /\ MaxSubmits \in Nat /\ MaxStops \in [0..MaxSubmits -> Nat]
    /\ ReuseIds \in BOOLEAN

VARIABLES
    made,     \* job objects made so far; a job's name is its number
    jobs,     \* _jobs: the object an id denotes, 0 for none
    object,   \* the job objects
    order,    \* _order
    queue,    \* _queue
    phase,    \* "off": _workers is empty; "on"; "stopping": stop waits
    told,     \* workers with a cancellation they have not seen yet
    worker,   \* the id and object a worker runs, Waiting, or Gone
    finished, \* jobs that got a final state so far (the clock of purging)
    waiter,   \* the object a caller waits for, 0 for none
    stops     \* calls of stop

names == <<made, jobs, order>>
lanes == <<phase, told, stops>>
vars  == <<names, lanes, object, queue, worker, finished, waiter>>

Objects == 1..MaxSubmits
Final   == {"done", "failed", "cancelled"}
State   == {"queued", "running"} \cup Final

Waiting == [obj |-> 0]
Gone    == [obj |-> -1]

\* cancelled and done are the two events; finishedAt is 0 until the job ends;
\* runs counts the executions of fn.
Job == [id : Ids, state : State, cancelled : BOOLEAN, done : BOOLEAN,
        finishedAt : Nat, runs : Nat]

TypeOK ==
    /\ made \in 0..MaxSubmits
    /\ jobs \in [Ids -> 0..MaxSubmits]
    /\ object \in [1..made -> Job]
    /\ order \in Seq(Ids) /\ queue \in Seq(Ids)
    /\ phase \in {"off", "on", "stopping"} /\ told \subseteq Workers
    /\ worker \in [Workers -> [obj : Objects] \cup {Waiting, Gone}]
    /\ finished \in Nat
    /\ waiter \in [Waiters -> 0..MaxSubmits]
    /\ stops \in 0..MaxStops[made]

Init ==
    /\ made = 0
    /\ jobs = [i \in Ids |-> 0]
    /\ object = <<>>
    /\ order = <<>> /\ queue = <<>>
    /\ phase = "off" /\ told = {}
    /\ worker = [w \in Workers |-> Gone]
    /\ finished = 0
    /\ waiter = [x \in Waiters |-> 0]
    /\ stops = 0

InSeq(x, s) == \E i \in 1..Len(s) : s[i] = x

----------------------------------------------------------------------------
Start ==
    /\ phase = "off"
    /\ phase' = "on"
    /\ worker' = [w \in Workers |-> Waiting]
    /\ UNCHANGED <<names, object, queue, told, finished, waiter, stops>>

\* stop cancels the workers and waits for them; one that is gone is no matter.
Stop ==
    /\ phase = "on" /\ stops < MaxStops[made]
    /\ phase' = "stopping"
    /\ told' = {w \in Workers : worker[w] # Gone}
    /\ stops' = stops + 1
    /\ UNCHANGED <<names, object, queue, worker, finished, waiter>>

StopReturns ==
    /\ phase = "stopping" /\ \A w \in Workers : worker[w] = Gone
    /\ phase' = "off"
    /\ UNCHANGED <<names, object, queue, told, worker, finished, waiter, stops>>

----------------------------------------------------------------------------
NewJob(i) == [id |-> i, state |-> "queued", cancelled |-> FALSE,
              done |-> FALSE, finishedAt |-> 0, runs |-> 0]

\* submit of an id that is known returns the existing job and changes nothing.
Submit(i) ==
    /\ jobs[i] = 0 /\ made < MaxSubmits /\ stops <= MaxStops[made + 1]
    /\ ReuseIds \/ \A o \in 1..made : object[o].id # i
    /\ made' = made + 1
    /\ object' = Append(object, NewJob(i))
    /\ jobs' = [jobs EXCEPT ![i] = made + 1]
    /\ order' = Append(order, i)
    /\ queue' = Append(queue, i)
    /\ UNCHANGED <<lanes, worker, finished, waiter>>

\* The job gets its final state, its time and its done event.
Finish(o, state) ==
    /\ object' = [object EXCEPT ![o].state = state, ![o].done = TRUE,
                                ![o].finishedAt = finished + 1]
    /\ finished' = finished + 1

\* Mutant: the waiters of a job cancelled in the queue are not woken.
CancelSilently(i) ==
    /\ jobs[i] # 0
    /\ object[jobs[i]].state \in {"queued", "running"}
    /\ object' = [object EXCEPT ![jobs[i]].cancelled = TRUE,
                                ![jobs[i]].state =
                                   IF @ = "queued" THEN "cancelled" ELSE @]
    /\ UNCHANGED <<names, lanes, queue, worker, finished, waiter>>

\* A queued job is over at once, a running one is asked to stop.
Cancel(i) ==
    LET o == jobs[i] IN
    /\ o # 0
    /\ \/ /\ object[o].state = "queued"
          /\ object' = [object EXCEPT ![o].state = "cancelled",
                                      ![o].cancelled = TRUE, ![o].done = TRUE,
                                      ![o].finishedAt = finished + 1]
          /\ finished' = finished + 1
       \/ /\ object[o].state = "running"
          /\ object' = [object EXCEPT ![o].cancelled = TRUE]
          /\ UNCHANGED finished
    /\ UNCHANGED <<names, lanes, queue, worker, waiter>>

\* g lists the positions in kept, in their order (a SelectSeq by its effect).
Lists(g, kept) ==
    /\ {g[m] : m \in DOMAIN g} = kept
    /\ \A m, n \in DOMAIN g : m < n => g[m] < g[n]

\* purge_finished drops the jobs that ended before a cutoff, and the ids that
\* denote no job any more from _order.
Purge(cutoff) ==
    LET Old(i) == /\ jobs[i] # 0
                  /\ object[jobs[i]].state \in Final
                  /\ object[jobs[i]].finishedAt <= cutoff
        kept   == {k \in 1..Len(order) : jobs[order[k]] # 0 /\ ~Old(order[k])}
    IN
    /\ \E i \in Ids : Old(i)
    /\ jobs' = [i \in Ids |-> IF Old(i) THEN 0 ELSE jobs[i]]
    /\ \E g \in [1..Cardinality(kept) -> kept] :
         Lists(g, kept) /\ order' = [m \in DOMAIN g |-> order[g[m]]]
    /\ UNCHANGED <<lanes, made, object, queue, worker, finished, waiter>>

\* Mutant: cancelled jobs keep their place.
PositionCounted(i) ==
    IF jobs[i] = 0 \/ object[jobs[i]].state # "queued" THEN -1
    ELSE Cardinality({k \in 1..Len(order) :
           \E n \in (k + 1)..Len(order) : order[n] = i})

\* position: how many jobs are ahead of a queued one, -1 if it is not queued.
Position(i) ==
    LET Queued(j) == jobs[j] # 0 /\ object[jobs[j]].state = "queued" IN
    IF ~Queued(i) THEN -1
    ELSE Cardinality({k \in 1..Len(order) :
           /\ Queued(order[k])
           /\ \A n \in 1..k : order[n] # i})

----------------------------------------------------------------------------
\* Mutant: the check of the cancelled state is dropped.
WorkerGetAll(w) ==
    /\ worker[w] = Waiting /\ w \notin told /\ queue # <<>>
    /\ queue' = Tail(queue)
    /\ IF jobs[Head(queue)] = 0 THEN UNCHANGED <<object, worker>>
       ELSE /\ object' = [object EXCEPT ![jobs[Head(queue)]].state = "running",
                                        ![jobs[Head(queue)]].runs = @ + 1]
            /\ worker' = [worker EXCEPT ![w] = [obj |-> jobs[Head(queue)]]]
    /\ UNCHANGED <<names, lanes, finished, waiter>>

\* The worker takes an id; a purged or cancelled job is skipped.
WorkerGet(w) ==
    LET o == jobs[Head(queue)] IN
    /\ worker[w] = Waiting /\ w \notin told /\ queue # <<>>
    /\ queue' = Tail(queue)
    /\ IF o = 0 \/ object[o].state = "cancelled"
       THEN UNCHANGED <<object, worker>>
       ELSE /\ object' = [object EXCEPT ![o].state = "running",
                                        ![o].runs = @ + 1]
            /\ worker' = [worker EXCEPT ![w] = [obj |-> o]]
    /\ UNCHANGED <<names, lanes, finished, waiter>>

Running(w) == worker[w].obj > 0

\* fn returns; had it been told to stop, it swallowed the cancellation and the
\* worker goes on.
WorkerReturn(w) ==
    /\ Running(w)
    /\ Finish(worker[w].obj,
              IF object[worker[w].obj].cancelled THEN "cancelled" ELSE "done")
    /\ told' = told \ {w}
    /\ worker' = [worker EXCEPT ![w] = Waiting]
    /\ UNCHANGED <<names, queue, phase, waiter, stops>>

\* fn raises; again, the worker goes on.
WorkerRaise(w) ==
    /\ Running(w)
    /\ Finish(worker[w].obj, "failed")
    /\ told' = told \ {w}
    /\ worker' = [worker EXCEPT ![w] = Waiting]
    /\ UNCHANGED <<names, queue, phase, waiter, stops>>

\* Mutant: the worker dies without closing its job.
WorkerStoppedDirty(w) ==
    /\ w \in told \/ Running(w)
    /\ UNCHANGED <<object, finished>>
    /\ told' = told \ {w}
    /\ worker' = [worker EXCEPT ![w] = Gone]
    /\ UNCHANGED <<names, queue, phase, waiter, stops>>

\* A CancelledError ends the worker: stop's, inside fn or at queue.get, or one
\* that fn raises by itself (what it awaits was cancelled), for it is raised
\* again.  Nothing replaces the lane while _workers is not empty.
WorkerStopped(w) ==
    /\ w \in told \/ Running(w)
    /\ IF Running(w) THEN Finish(worker[w].obj, "cancelled")
                     ELSE UNCHANGED <<object, finished>>
    /\ told' = told \ {w}
    /\ worker' = [worker EXCEPT ![w] = Gone]
    /\ UNCHANGED <<names, queue, phase, waiter, stops>>

----------------------------------------------------------------------------
\* wait reads the object once and waits for its done event.
Wait(x, i) ==
    /\ waiter[x] = 0 /\ jobs[i] # 0
    /\ waiter' = [waiter EXCEPT ![x] = jobs[i]]
    /\ UNCHANGED <<names, lanes, object, queue, worker, finished>>

WaitReturns(x) ==
    /\ waiter[x] # 0 /\ object[waiter[x]].done
    /\ waiter' = [waiter EXCEPT ![x] = 0]
    /\ UNCHANGED <<names, lanes, object, queue, worker, finished>>

WaitTimesOut(x) ==
    /\ waiter[x] # 0 /\ ~object[waiter[x]].done
    /\ waiter' = [waiter EXCEPT ![x] = 0]
    /\ UNCHANGED <<names, lanes, object, queue, worker, finished>>

----------------------------------------------------------------------------
Worker(w) == WorkerGet(w) \/ WorkerReturn(w) \/ WorkerRaise(w)
               \/ WorkerStopped(w)

Next ==
    \/ Start \/ Stop \/ StopReturns
    \/ \E i \in Ids : Submit(i) \/ Cancel(i)
    \/ \E cutoff \in 1..finished : Purge(cutoff)
    \/ \E w \in Workers : Worker(w)
    \/ \E x \in Waiters : \/ WaitReturns(x) \/ WaitTimesOut(x)
                          \/ \E i \in Ids : Wait(x, i)

Spec == Init /\ [][Next]_vars

\* The queue is started, a worker that lives goes on, and every coroutine ends;
\* what a worker that is told to stop does then, and when, is left open.
FairSpec ==
    /\ Spec
    /\ WF_vars(Start)
    /\ \A w \in Workers : /\ WF_vars(WorkerGet(w))
                          /\ WF_vars(WorkerReturn(w) \/ WorkerRaise(w))
    /\ \A x \in Waiters : WF_vars(WaitReturns(x))

----------------------------------------------------------------------------
\* Nothing is lost: a queued job waits in the queue under its id, a running
\* one is held by a worker, and only a job with a final state has set its done
\* event -- across cancel, purge, stop and restart.  A job that was cancelled
\* is not reported as done, and never executed when it had not started.
Accounted ==
    \A i \in Ids : jobs[i] # 0 =>
      LET o == jobs[i] IN
      /\ object[o].state = "queued" => InSeq(i, queue)
      /\ object[o].state = "running" => \E w \in Workers : worker[w].obj = o
      /\ object[o].state \in Final => object[o].done
      /\ object[o].cancelled => object[o].state # "done"
      /\ object[o].cancelled /\ object[o].runs = 0 => object[o].state = "cancelled"

\* A job is executed once: no worker runs it again after it ended, and no two
\* lanes run it at the same time.  Fails with ids that are used again: a job
\* purged after its cancel leaves its id in the queue.
RunsOnce == \A o \in 1..made : object[o].runs <= 1

\* What wait has reported stays true: a final state is never left.
FinalStays ==
    [][\A o \in 1..made :
         object[o].done => object'[o].state = object[o].state]_vars

\* The position shown to the user is the number of jobs that will really be
\* taken before this one.
PositionExact ==
    \A i \in Ids : jobs[i] # 0 /\ object[jobs[i]].state = "queued" =>
      LET first == CHOOSE k \in 1..Len(queue) :
                     queue[k] = i /\ \A n \in 1..(k - 1) : queue[n] # i
      IN Position(i) = Cardinality({n \in 1..(first - 1) :
           jobs[queue[n]] # 0 /\ object[jobs[queue[n]]].state = "queued"})

\* The last lane was lost to a coroutine that was cancelled: start does nothing.
LanesLost == phase = "on" /\ \A w \in Workers : worker[w] = Gone

\* A caller that waits is answered, whatever is cancelled and purged meanwhile
\* and though lanes die, as long as nobody stops the queue and one lane is left.
WaitEnds ==
    \A x \in Waiters :
      waiter[x] # 0 ~> (waiter[x] = 0 \/ stops > 0 \/ LanesLost)

(***************************************************************************)
(* The order of service.  The number of a job is its place among the       *)
(* submissions.                                                            *)
(***************************************************************************)
Service == INSTANCE FifoService WITH
    Jobs <- Objects, Lanes <- Workers, Outcomes <- Final, Withdrawn <- "cancelled",
    phase <- [o \in Objects |-> IF o > made THEN "absent" ELSE object[o].state],
    lane <- [w \in Workers |-> IF Running(w) THEN worker[w].obj ELSE 0]

\* The lanes take the jobs in the order of their submission, each job once and
\* each lane one at a time; a job cancelled in the queue is not started; a final
\* state is final -- although what is queued are ids, and a cancelled or purged
\* job leaves its id behind.  Fails with ids that are used again.
ServesInOrder == Service!Spec
============================================================================
