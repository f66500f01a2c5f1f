--------------------------- MODULE JobQueueProofs ---------------------------
(***************************************************************************)
(* Theorems of JobQueue for every number of ids, lanes, submissions and    *)
(* stops.  No job is lost between the queue and the lanes, whatever ids    *)
(* are submitted; when no id is submitted twice, a job is executed at most *)
(* once, a final state is never left, and position is exact.               *)
(***************************************************************************)
EXTENDS JobQueue, FiniteSetTheorems, FunctionTheorems, SequenceTheorems, TLAPS

\* The types of everything but _order, which only position reads.
Types ==
    /\ made \in 0..MaxSubmits
    /\ jobs \in [Ids -> 0..MaxSubmits]
    /\ object \in [1..made -> Job]
    /\ queue \in Seq(Ids)
    /\ worker \in [Workers -> [obj : Objects] \cup {Waiting, Gone}]
    /\ finished \in Nat
    /\ waiter \in [Waiters -> 0..MaxSubmits]

\* What is referred to exists.
NamesOK ==
    /\ \A i \in Ids : jobs[i] \in 0..made
    /\ \A i \in Ids : jobs[i] # 0 => object[jobs[i]].id = i
    /\ \A w \in Workers : worker[w].obj <= made
    /\ \A x \in Waiters : waiter[x] <= made

TypeInv == Types /\ NamesOK

\* Every entry of the queue is the only one of its id, and its job has not
\* been executed.
QueueOK ==
    /\ \A m, n \in 1..Len(queue) : queue[m] = queue[n] => m = n
    /\ \A n \in 1..Len(queue) : \E o \in 1..made : object[o].id = queue[n]
    /\ \A n \in 1..Len(queue) : jobs[queue[n]] # 0 =>
         /\ object[jobs[queue[n]]].state \in {"queued", "cancelled"}
         /\ object[jobs[queue[n]]].runs = 0

ObjectsOK ==
    \A o \in 1..made : /\ object[o].runs <= 1
                       /\ object[o].done <=> object[o].state \in Final

\* A lane holds a running job, which no other lane holds.
LanesOK ==
    /\ \A w \in Workers : Running(w) => object[worker[w].obj].state = "running"
    /\ \A v, w \in Workers : Running(w) /\ worker[v].obj = worker[w].obj => v = w

OnceInv == TypeInv /\ QueueOK /\ ObjectsOK /\ LanesOK

----------------------------------------------------------------------------
\* The fields of a job that exists.
LEMMA JobFields ==
    ASSUME Types, NEW o \in 1..made
    PROVE  /\ object[o] \in Job /\ object[o].id \in Ids
           /\ object[o].state \in State /\ object[o].cancelled \in BOOLEAN
           /\ object[o].done \in BOOLEAN /\ object[o].runs \in Nat
           /\ object[o].finishedAt \in Nat
<1>1. object[o] \in Job
  BY DEF Types
<1>2. QED BY <1>1 DEF Job

\* What a lane holds.
LEMMA LaneType ==
    ASSUME TypeInv, NEW w \in Workers
    PROVE  /\ worker[w].obj \in -1..made
           /\ Running(w) => worker[w].obj \in 1..made
<1>1. worker[w] \in [obj : Objects] \cup {Waiting, Gone}
  BY DEF TypeInv, Types
<1>2. worker[w].obj \in -1..MaxSubmits /\ made \in Nat
  BY <1>1, JobQueueAssumption DEF Waiting, Gone, Objects, TypeInv, Types
<1>3. worker[w].obj <= made
  BY DEF TypeInv, NamesOK
<1>4. QED BY <1>2, <1>3, JobQueueAssumption DEF Running

\* submit adds one job and leaves the others.
LEMMA SubmitObjects ==
    ASSUME TypeInv, NEW i \in Ids, Submit(i)
    PROVE  /\ made' = made + 1 /\ made \in Nat /\ made + 1 \in 1..MaxSubmits
           /\ object' \in [1..made' -> Job]
           /\ object'[made + 1] = NewJob(i)
           /\ \A o \in 1..made : object'[o] = object[o] /\ o \in 1..made'
<1>1. made' = made + 1 /\ made \in Nat /\ made + 1 \in 1..MaxSubmits
  BY JobQueueAssumption DEF Submit, TypeInv, Types
<1>2. object \in Seq(Job) /\ Len(object) = made
  <2>1. object \in [1..made -> Job] /\ DOMAIN object = 1..made
    BY DEF TypeInv, Types
  <2>2. object \in Seq(Job)
    BY <1>1, <2>1, SeqDef
  <2>3. QED BY <1>1, <2>1, <2>2, LenProperties
<1>3. NewJob(i) \in Job
  BY DEF NewJob, Job, State
<1>4. object' = Append(object, NewJob(i))
  BY DEF Submit
<1>5. /\ object' \in Seq(Job) /\ Len(object') = made + 1
      /\ object'[made + 1] = NewJob(i)
      /\ \A o \in 1..made : object'[o] = object[o]
  BY <1>1, <1>2, <1>3, <1>4
<1>6. object' \in [1..made' -> Job]
  BY <1>1, <1>5, LenProperties
<1>7. QED BY <1>1, <1>5, <1>6

\* A submission keeps the types.
LEMMA SubmitType == ASSUME TypeInv, NEW i \in Ids, Submit(i) PROVE TypeInv'
<1>1. /\ made' = made + 1 /\ made \in Nat /\ made + 1 \in 1..MaxSubmits
      /\ object' \in [1..made' -> Job] /\ object'[made + 1] = NewJob(i)
      /\ \A o \in 1..made : object'[o] = object[o] /\ o \in 1..made'
  BY SubmitObjects
<1>2. /\ jobs' = [jobs EXCEPT ![i] = made + 1] /\ jobs[i] = 0
      /\ queue' = Append(queue, i)
      /\ UNCHANGED <<worker, finished, waiter>>
  BY DEF Submit
<1>3. /\ jobs'[i] = made + 1 /\ \A k \in Ids : k # i => jobs'[k] = jobs[k]
      /\ \A k \in Ids : jobs[k] \in 0..made /\ (jobs[k] # 0 => jobs[k] \in 1..made)
      /\ made + 1 # 0
  BY <1>1, <1>2 DEF TypeInv, Types, NamesOK
<1>4. Types'
  BY <1>1, <1>2 DEF TypeInv, Types
<1>5. NamesOK'
  <2>1. \A k \in Ids : jobs'[k] \in 0..made'
    BY <1>1, <1>3
  <2>2. \A k \in Ids : jobs'[k] # 0 => object'[jobs'[k]].id = k
    <3>1. object'[made + 1].id = i
      BY <1>1 DEF NewJob
    <3>2. QED BY <1>1, <1>3, <3>1 DEF TypeInv, NamesOK
  <2>3. \A w \in Workers : worker'[w].obj <= made'
    <3> SUFFICES ASSUME NEW w \in Workers PROVE worker'[w].obj <= made'
      OBVIOUS
    <3>1. worker[w].obj \in -1..made
      BY LaneType
    <3>2. QED BY <1>1, <1>2, <3>1
  <2>4. \A x \in Waiters : waiter'[x] <= made'
    <3> SUFFICES ASSUME NEW x \in Waiters PROVE waiter'[x] <= made'
      OBVIOUS
    <3>1. waiter[x] \in 0..MaxSubmits /\ waiter[x] <= made
      BY DEF TypeInv, Types, NamesOK
    <3>2. QED BY <1>1, <1>2, <3>1
  <2>5. QED BY <2>1, <2>2, <2>3, <2>4 DEF NamesOK
<1>6. QED BY <1>4, <1>5 DEF TypeInv

\* A step that changes one existing job keeps the rest.
LEMMA OneObject ==
    ASSUME TypeInv, NEW o \in 1..made, NEW j \in Job, j.id = object[o].id,
           object' = [object EXCEPT ![o] = j], UNCHANGED <<made, jobs>>,
           queue' \in Seq(Ids), finished' \in Nat,
           worker' \in [Workers -> [obj : Objects] \cup {Waiting, Gone}],
           \A w \in Workers : worker'[w].obj <= made, waiter' = waiter
    PROVE  TypeInv'
<1>1. object' \in [1..made' -> Job]
  BY DEF TypeInv, Types
<1>2. \A p \in 1..made : object'[p].id = object[p].id
  BY DEF TypeInv, Types
<1>3. Types'
  BY <1>1 DEF TypeInv, Types
<1>4. NamesOK'
  <2>1. \A i \in Ids : jobs[i] # 0 => jobs[i] \in 1..made
    BY DEF TypeInv, Types, NamesOK
  <2>2. QED BY <1>2, <2>1 DEF TypeInv, NamesOK
<1>5. QED BY <1>3, <1>4 DEF TypeInv

----------------------------------------------------------------------------
(***************************************************************************)
(* One lemma per action.                                                   *)
(***************************************************************************)

\* A fresh id gets a fresh job and the only entry of that id.
LEMMA SubmitOnce ==
    ASSUME OnceInv, ~ReuseIds, NEW i \in Ids, Submit(i) PROVE OnceInv'
<1>1. /\ made' = made + 1 /\ made \in Nat /\ made + 1 \in 1..MaxSubmits
      /\ object' \in [1..made' -> Job] /\ object'[made + 1] = NewJob(i)
      /\ \A o \in 1..made : object'[o] = object[o] /\ o \in 1..made'
  BY SubmitObjects DEF OnceInv
<1>2. /\ jobs' = [jobs EXCEPT ![i] = made + 1] /\ jobs[i] = 0
      /\ queue' = Append(queue, i)
      /\ UNCHANGED <<worker, finished, waiter>>
      /\ \A o \in 1..made : object[o].id # i
  BY DEF Submit
<1>3. /\ jobs'[i] = made + 1 /\ \A k \in Ids : k # i => jobs'[k] = jobs[k]
      /\ \A k \in Ids : jobs[k] \in 0..made /\ (jobs[k] # 0 => jobs[k] \in 1..made)
      /\ made + 1 # 0
  BY <1>1, <1>2 DEF OnceInv, TypeInv, Types, NamesOK
<1>4. TypeInv'
  BY SubmitType DEF OnceInv
<1>6. QueueOK'
  <2>1. /\ queue \in Seq(Ids) /\ Len(queue) \in Nat /\ Len(queue') = Len(queue) + 1
        /\ queue'[Len(queue) + 1] = i
        /\ \A n \in 1..Len(queue) : queue'[n] = queue[n]
    BY <1>2 DEF OnceInv, TypeInv, Types
  <2>2. \A n \in 1..Len(queue') : n = Len(queue) + 1 \/ n \in 1..Len(queue)
    BY <2>1
  <2>3. \A n \in 1..Len(queue) : queue[n] # i /\ queue[n] \in Ids
    BY <1>2, <2>1 DEF OnceInv, QueueOK
  <2>4. \A m, n \in 1..Len(queue') : queue'[m] = queue'[n] => m = n
    BY <2>1, <2>2, <2>3 DEF OnceInv, QueueOK
  <2>5. ASSUME NEW n \in 1..Len(queue')
        PROVE  \E o \in 1..made' : object'[o].id = queue'[n]
    <3>1. CASE n = Len(queue) + 1
      <4>1. made + 1 \in 1..made' /\ object'[made + 1].id = queue'[n]
        BY <1>1, <2>1, <3>1 DEF NewJob
      <4>2. QED BY <4>1
    <3>2. CASE n \in 1..Len(queue)
      BY <1>1, <2>1, <3>2 DEF OnceInv, QueueOK
    <3>3. QED BY <2>2, <3>1, <3>2
  <2>6. ASSUME NEW n \in 1..Len(queue'), jobs'[queue'[n]] # 0
        PROVE  /\ object'[jobs'[queue'[n]]].state \in {"queued", "cancelled"}
               /\ object'[jobs'[queue'[n]]].runs = 0
    <3>1. CASE n = Len(queue) + 1
      BY <1>1, <1>3, <2>1, <3>1 DEF NewJob
    <3>2. CASE n \in 1..Len(queue)
      <4>1. queue'[n] = queue[n] /\ jobs'[queue[n]] = jobs[queue[n]]
        BY <1>3, <2>1, <2>3, <3>2
      <4>2. object'[jobs[queue[n]]] = object[jobs[queue[n]]]
        BY <1>1, <1>3, <2>3, <2>6, <3>2, <4>1
      <4>3. QED BY <2>6, <3>2, <4>1, <4>2 DEF OnceInv, QueueOK
    <3>3. QED BY <2>2, <3>1, <3>2
  <2>7. QED BY <2>4, <2>5, <2>6 DEF QueueOK
<1>7. ObjectsOK'
  <2>1. \A o \in 1..made' : o = made + 1 \/ o \in 1..made
    BY <1>1
  <2>2. QED BY <1>1, <2>1 DEF OnceInv, ObjectsOK, NewJob, Final
<1>8. LanesOK'
  <2>1. \A w \in Workers : Running(w) => object'[worker[w].obj] = object[worker[w].obj]
    BY <1>1, LaneType DEF OnceInv
  <2>2. QED BY <1>2, <2>1 DEF OnceInv, LanesOK, Running
<1>9. QED BY <1>4, <1>6, <1>7, <1>8 DEF OnceInv

\* The end of the job a lane holds: no entry of the queue is concerned, and no
\* other lane holds it.
LEMMA FinishOnce ==
    ASSUME OnceInv, NEW w \in Workers, Running(w), NEW state \in Final,
           NEW l \in {Waiting, Gone}, Finish(worker[w].obj, state),
           worker' = [worker EXCEPT ![w] = l], UNCHANGED <<names, queue, waiter>>
    PROVE  /\ OnceInv'
           /\ \A o \in 1..made : object[o].done => object'[o].state = object[o].state
<1> DEFINE o == worker[w].obj
           j == [object[o] EXCEPT !.state = state, !.done = TRUE,
                                  !.finishedAt = finished + 1]
<1>1. o \in 1..made /\ object[o] \in Job /\ finished \in Nat /\ l.obj < 1 /\ l.obj <= made
  <2>1. o \in 1..made /\ finished \in Nat /\ made \in Nat
    BY LaneType DEF OnceInv, TypeInv, Types
  <2>2. QED BY <2>1, JobFields DEF OnceInv, TypeInv, Waiting, Gone
<1>2. object' = [object EXCEPT ![o] = j] /\ finished' = finished + 1
  BY DEF Finish
<1>3. j \in Job /\ j.id = object[o].id /\ j.state = state /\ j.done /\ j.runs = object[o].runs
  <2> DEFINE f == object[o]
  <2>1. f \in Job /\ finished + 1 \in Nat /\ state \in State
    BY <1>1 DEF State
  <2> HIDE DEF f
  <2>2. [f EXCEPT !.state = state, !.done = TRUE, !.finishedAt = finished + 1] \in Job
    BY <2>1 DEF Job
  <2>3. /\ [f EXCEPT !.state = state, !.done = TRUE, !.finishedAt = finished + 1].id = f.id
        /\ [f EXCEPT !.state = state, !.done = TRUE, !.finishedAt = finished + 1].state = state
        /\ [f EXCEPT !.state = state, !.done = TRUE, !.finishedAt = finished + 1].done
        /\ [f EXCEPT !.state = state, !.done = TRUE, !.finishedAt = finished + 1].runs = f.runs
    BY <2>1 DEF Job
  <2>4. QED BY <2>2, <2>3 DEF f
<1>4. worker' \in [Workers -> [obj : Objects] \cup {Waiting, Gone}]
  BY DEF OnceInv, TypeInv, Types
<1>5. /\ worker'[w] = l /\ \A v \in Workers : v # w => worker'[v] = worker[v]
      /\ \A v \in Workers : worker'[v].obj <= made
  BY <1>1 DEF OnceInv, TypeInv, Types, NamesOK
<1> HIDE DEF j
<1>6. /\ made' = made /\ jobs' = jobs /\ queue' = queue /\ waiter' = waiter
      /\ finished' \in Nat /\ queue' \in Seq(Ids)
  BY <1>1, <1>2 DEF names, OnceInv, TypeInv, Types
<1>7. TypeInv'
  BY <1>1, <1>2, <1>3, <1>4, <1>5, <1>6, OneObject DEF OnceInv
<1>8. object'[o] = j /\ \A p \in 1..made : p # o => object'[p] = object[p]
  BY <1>1, <1>2 DEF OnceInv, TypeInv, Types
<1>9. object[o].state = "running"
  BY DEF OnceInv, LanesOK
<1>10. QueueOK'
  <2>1. \A n \in 1..Len(queue) : jobs[queue[n]] # 0 =>
          jobs[queue[n]] # o /\ jobs[queue[n]] \in 1..made
    <3> SUFFICES ASSUME NEW n \in 1..Len(queue), jobs[queue[n]] # 0
                 PROVE  jobs[queue[n]] # o /\ jobs[queue[n]] \in 1..made
      OBVIOUS
    <3>1. queue[n] \in Ids
      BY DEF OnceInv, TypeInv, Types
    <3>2. jobs[queue[n]] \in 0..made
      BY <3>1 DEF OnceInv, TypeInv, NamesOK
    <3>3. object[jobs[queue[n]]].state \in {"queued", "cancelled"}
      BY DEF OnceInv, QueueOK
    <3>4. QED BY <1>9, <3>2, <3>3
  <2>2. \A p \in 1..made : object'[p].id = object[p].id
    BY <1>3, <1>8
  <2>3. QED BY <1>6, <1>8, <2>1, <2>2 DEF OnceInv, QueueOK
<1>11. ObjectsOK'
  BY <1>3, <1>6, <1>8 DEF OnceInv, ObjectsOK
<1>12. LanesOK'
  <2>1. \A v \in Workers : worker'[v].obj > 0 =>
          v # w /\ worker'[v] = worker[v] /\ worker[v].obj # o
    <3> SUFFICES ASSUME NEW v \in Workers, worker'[v].obj > 0
                 PROVE  v # w /\ worker'[v] = worker[v] /\ worker[v].obj # o
      OBVIOUS
    <3>1. v # w
      BY <1>5 DEF Waiting, Gone
    <3>2. QED BY <1>5, <3>1 DEF OnceInv, LanesOK
  <2>2. ASSUME NEW v \in Workers, worker'[v].obj > 0
        PROVE  object'[worker'[v].obj].state = "running"
    <3>1. Running(v) /\ worker[v].obj \in 1..made /\ worker[v].obj # o
      BY <2>1, <2>2, LaneType DEF OnceInv, Running
    <3>2. QED BY <1>8, <2>1, <2>2, <3>1 DEF OnceInv, LanesOK
  <2>3. QED BY <2>1, <2>2 DEF OnceInv, LanesOK, Running
<1>13. \A p \in 1..made : object[p].done => object'[p].state = object[p].state
  <2>1. ~object[o].done
    BY <1>1, <1>9 DEF OnceInv, ObjectsOK, Final
  <2>2. QED BY <1>8, <2>1
<1>14. QED BY <1>7, <1>10, <1>11, <1>12, <1>13 DEF OnceInv

\* A worker takes a job: the only entry of its id leaves the queue, and a job
\* in the queue has not been executed.
LEMMA WorkerGetOnce ==
    ASSUME OnceInv, NEW w \in Workers, WorkerGet(w)
    PROVE  /\ OnceInv'
           /\ \A o \in 1..made : object[o].done => object'[o].state = object[o].state
<1> DEFINE i == Head(queue)
           o == jobs[i]
           j == [object[o] EXCEPT !.state = "running", !.runs = object[o].runs + 1]
<1>1. /\ queue \in Seq(Ids) /\ queue # <<>> /\ queue' = Tail(queue)
      /\ worker[w] = Waiting /\ UNCHANGED <<names, lanes, finished, waiter>>
  BY DEF WorkerGet, OnceInv, TypeInv, Types
<1>2. /\ i = queue[1] /\ 1 \in 1..Len(queue) /\ i \in Ids /\ Len(queue) \in Nat
      /\ queue' \in Seq(Ids) /\ Len(queue') = Len(queue) - 1
      /\ \A n \in 1..Len(queue') : queue'[n] = queue[n + 1]
  BY <1>1, HeadTailProperties
<1>3. \A n \in 1..Len(queue') : n + 1 \in 1..Len(queue) /\ queue'[n] = queue[n + 1]
  BY <1>2
<1>4. \A n \in 1..Len(queue') : queue'[n] # i
  <2> SUFFICES ASSUME NEW n \in 1..Len(queue') PROVE queue'[n] # i
    OBVIOUS
  <2>1. n + 1 \in 1..Len(queue) /\ n + 1 # 1
    BY <1>2, <1>3
  <2>2. QED BY <1>2, <1>3, <2>1 DEF OnceInv, QueueOK
<1>5. /\ made' = made /\ jobs' = jobs /\ waiter' = waiter /\ finished' = finished
      /\ finished \in Nat
  BY <1>1 DEF names, OnceInv, TypeInv, Types
<1>6. \A m, n \in 1..Len(queue') : queue'[m] = queue'[n] => m = n
  BY <1>2, <1>3 DEF OnceInv, QueueOK
<1>7. CASE o = 0 \/ object[o].state = "cancelled"
  <2>1. object' = object /\ worker' = worker
    BY <1>7 DEF WorkerGet
  <2>2. TypeInv'
    BY <1>2, <1>5, <2>1 DEF OnceInv, TypeInv, Types, NamesOK
  <2>3. QueueOK'
    <3>1. \A n \in 1..Len(queue') : \E p \in 1..made : object[p].id = queue'[n]
      BY <1>3 DEF OnceInv, QueueOK
    <3>2. \A n \in 1..Len(queue') : jobs[queue'[n]] # 0 =>
            /\ object[jobs[queue'[n]]].state \in {"queued", "cancelled"}
            /\ object[jobs[queue'[n]]].runs = 0
      BY <1>3 DEF OnceInv, QueueOK
    <3>3. QED BY <1>5, <1>6, <2>1, <3>1, <3>2 DEF QueueOK
  <2>4. ObjectsOK' /\ LanesOK'
    BY <1>5, <2>1 DEF OnceInv, ObjectsOK, LanesOK, Running
  <2>5. QED BY <2>1, <2>2, <2>3, <2>4 DEF OnceInv
<1>8. CASE ~(o = 0 \/ object[o].state = "cancelled")
  <2>1. /\ o \in 1..made /\ made \in Nat
        /\ object[o].state = "queued" /\ object[o].runs = 0
    <3>1. o \in 0..made /\ made \in Nat
      BY <1>2 DEF OnceInv, TypeInv, NamesOK, Types
    <3>2. object[o].state = "queued" /\ object[o].runs = 0
      BY <1>2, <1>8 DEF OnceInv, QueueOK
    <3>3. QED BY <1>8, <3>1, <3>2
  <2>2. /\ object' = [object EXCEPT ![o] = j]
        /\ worker' = [worker EXCEPT ![w] = [obj |-> o]]
    BY <1>8 DEF WorkerGet
  <2>3. object[o] \in Job
    BY <2>1, JobFields DEF OnceInv, TypeInv
  <2>4. /\ j \in Job /\ j.id = object[o].id /\ j.state = "running"
        /\ j.runs = 1 /\ j.done = object[o].done
    <3> DEFINE f == object[o]
    <3>1. f \in Job /\ f.runs + 1 \in Nat /\ "running" \in State /\ f.runs + 1 = 1
      BY <2>1, <2>3 DEF State
    <3> HIDE DEF f
    <3>2. [f EXCEPT !.state = "running", !.runs = f.runs + 1] \in Job
      BY <3>1 DEF Job
    <3>3. /\ [f EXCEPT !.state = "running", !.runs = f.runs + 1].id = f.id
          /\ [f EXCEPT !.state = "running", !.runs = f.runs + 1].state = "running"
          /\ [f EXCEPT !.state = "running", !.runs = f.runs + 1].done = f.done
          /\ [f EXCEPT !.state = "running", !.runs = f.runs + 1].runs = 1
      BY <3>1 DEF Job
    <3>4. QED BY <3>2, <3>3 DEF f
  <2> HIDE DEF j
  <2>5. worker' \in [Workers -> [obj : Objects] \cup {Waiting, Gone}]
    <3>1. [obj |-> o] \in [obj : Objects]
      BY <2>1, JobQueueAssumption DEF Objects, OnceInv, TypeInv, Types
    <3>2. QED BY <2>2, <3>1 DEF OnceInv, TypeInv, Types
  <2>6. /\ worker'[w].obj = o /\ \A v \in Workers : v # w => worker'[v] = worker[v]
        /\ \A v \in Workers : worker'[v].obj <= made
    BY <2>1, <2>2 DEF OnceInv, TypeInv, Types, NamesOK
  <2>7. TypeInv'
    BY <1>2, <1>5, <2>1, <2>2, <2>4, <2>5, <2>6, OneObject DEF OnceInv
  <2>8. object'[o] = j /\ \A p \in 1..made : p # o => object'[p] = object[p]
    BY <2>1, <2>2 DEF OnceInv, TypeInv, Types
  <2>9. \A n \in 1..Len(queue') : jobs[queue'[n]] # 0 =>
          jobs[queue'[n]] # o /\ jobs[queue'[n]] \in 1..made
    <3> SUFFICES ASSUME NEW n \in 1..Len(queue'), jobs[queue'[n]] # 0
                 PROVE  jobs[queue'[n]] # o /\ jobs[queue'[n]] \in 1..made
      OBVIOUS
    <3>1. queue'[n] \in Ids /\ queue'[n] # i
      BY <1>2, <1>4
    <3>2. jobs[queue'[n]] \in 0..made /\ object[jobs[queue'[n]]].id = queue'[n]
      BY <3>1 DEF OnceInv, TypeInv, NamesOK
    <3>3. object[o].id = i
      BY <1>2, <2>1 DEF OnceInv, TypeInv, NamesOK
    <3>4. QED BY <2>1, <3>1, <3>2, <3>3
  <2>10. QueueOK'
    <3>1. \A p \in 1..made : object'[p].id = object[p].id
      BY <2>4, <2>8
    <3>2. \A n \in 1..Len(queue') : \E p \in 1..made : object'[p].id = queue'[n]
      BY <1>3, <3>1 DEF OnceInv, QueueOK
    <3>3. \A n \in 1..Len(queue') : jobs[queue'[n]] # 0 =>
            /\ object'[jobs[queue'[n]]].state \in {"queued", "cancelled"}
            /\ object'[jobs[queue'[n]]].runs = 0
      <4> SUFFICES ASSUME NEW n \in 1..Len(queue'), jobs[queue'[n]] # 0
                   PROVE  /\ object'[jobs[queue'[n]]].state \in {"queued", "cancelled"}
                          /\ object'[jobs[queue'[n]]].runs = 0
        OBVIOUS
      <4>1. object'[jobs[queue'[n]]] = object[jobs[queue'[n]]]
        BY <2>8, <2>9
      <4>2. n + 1 \in 1..Len(queue) /\ queue'[n] = queue[n + 1]
        BY <1>3
      <4>3. /\ object[jobs[queue[n + 1]]].state \in {"queued", "cancelled"}
            /\ object[jobs[queue[n + 1]]].runs = 0
        BY <4>2 DEF OnceInv, QueueOK
      <4>4. QED BY <4>1, <4>2, <4>3
    <3>4. QED BY <1>5, <1>6, <3>2, <3>3 DEF QueueOK
  <2>11. ObjectsOK'
    BY <1>5, <2>1, <2>4, <2>8 DEF OnceInv, ObjectsOK, Final
  <2>12. LanesOK'
    <3>1. \A v \in Workers : Running(v) =>
            /\ worker[v].obj \in 1..made /\ worker[v].obj # o
            /\ object'[worker[v].obj].state = "running"
      <4> SUFFICES ASSUME NEW v \in Workers, Running(v)
                   PROVE  /\ worker[v].obj \in 1..made /\ worker[v].obj # o
                          /\ object'[worker[v].obj].state = "running"
        OBVIOUS
      <4>1. worker[v].obj \in 1..made
        BY LaneType DEF OnceInv
      <4>2. object[worker[v].obj].state = "running"
        BY DEF OnceInv, LanesOK
      <4>3. QED BY <2>1, <2>8, <4>1, <4>2
    <3>2. \A v \in Workers : worker'[v].obj > 0 => v = w \/ Running(v)
      BY <2>6 DEF Running
    <3>3. \A v \in Workers : worker'[v].obj > 0 => object'[worker'[v].obj].state = "running"
      BY <2>4, <2>6, <2>8, <3>1, <3>2
    <3>4. ASSUME NEW u \in Workers, NEW v \in Workers, worker'[v].obj > 0,
                 worker'[u].obj = worker'[v].obj
          PROVE  u = v
      <4>1. CASE u = w \/ v = w
        BY <2>1, <2>6, <3>1, <3>2, <3>4, <4>1
      <4>2. CASE u # w /\ v # w
        <5>1. worker'[u] = worker[u] /\ worker'[v] = worker[v] /\ Running(v)
          BY <2>6, <3>2, <3>4, <4>2
        <5>2. QED BY <3>4, <5>1 DEF OnceInv, LanesOK, Running
      <4>3. QED BY <4>1, <4>2
    <3>5. QED BY <3>3, <3>4 DEF LanesOK, Running
  <2>13. \A p \in 1..made : object[p].done => object'[p].state = object[p].state
    <3>1. ~object[o].done
      BY <2>1 DEF OnceInv, ObjectsOK, Final
    <3>2. QED BY <2>8, <3>1
  <2>14. QED BY <2>7, <2>10, <2>11, <2>12, <2>13 DEF OnceInv
<1>9. QED BY <1>7, <1>8

\* cancel ends a job in the queue, which is then skipped, or sets a flag.
LEMMA CancelOnce ==
    ASSUME OnceInv, NEW i \in Ids, Cancel(i)
    PROVE  /\ OnceInv'
           /\ \A o \in 1..made : object[o].done => object'[o].state = object[o].state
<1> DEFINE o == jobs[i]
           f == object[o]
           ended == [f EXCEPT !.state = "cancelled", !.cancelled = TRUE,
                              !.done = TRUE, !.finishedAt = finished + 1]
           asked == [f EXCEPT !.cancelled = TRUE]
<1>1. /\ UNCHANGED <<names, lanes, queue, worker, waiter>>
      /\ o # 0
      /\ \/ /\ f.state = "queued" /\ object' = [object EXCEPT ![o] = ended]
            /\ finished' = finished + 1
         \/ /\ f.state = "running" /\ object' = [object EXCEPT ![o] = asked]
            /\ finished' = finished
  BY DEF Cancel
<1>2. o \in 1..made
  BY <1>1 DEF OnceInv, TypeInv, Types, NamesOK
<1>3. f \in Job /\ finished \in Nat
  BY <1>2, JobFields DEF OnceInv, TypeInv, Types
<1> HIDE DEF f
<1>4. /\ ended \in Job /\ ended.id = f.id /\ ended.state = "cancelled" /\ ended.done
      /\ ended.runs = f.runs
      /\ asked \in Job /\ asked.id = f.id /\ asked.state = f.state
      /\ asked.done = f.done /\ asked.runs = f.runs
  <2>1. finished + 1 \in Nat /\ "cancelled" \in State
    BY <1>3 DEF State, Final
  <2>2. ended \in Job /\ ended.id = f.id /\ ended.runs = f.runs
    BY <1>3, <2>1 DEF Job
  <2>3. ended.state = "cancelled" /\ ended.done
    BY <1>3, <2>1 DEF Job
  <2>4. /\ asked \in Job /\ asked.id = f.id /\ asked.state = f.state
        /\ asked.done = f.done /\ asked.runs = f.runs
    BY <1>3 DEF Job
  <2>5. QED BY <2>2, <2>3, <2>4
<1> HIDE DEF ended, asked
<1>5. PICK j \in Job :
        /\ object' = [object EXCEPT ![o] = j] /\ finished' \in Nat
        /\ j.id = f.id /\ j.runs = f.runs
        /\ \/ f.state = "queued" /\ j.state = "cancelled" /\ j.done
           \/ f.state = "running" /\ j.state = "running" /\ j.done = f.done
  BY <1>1, <1>3, <1>4
<1> USE DEF f
<1>6. /\ made' = made /\ jobs' = jobs /\ queue' = queue /\ worker' = worker
      /\ waiter' = waiter /\ queue' \in Seq(Ids)
      /\ worker' \in [Workers -> [obj : Objects] \cup {Waiting, Gone}]
      /\ \A w \in Workers : worker'[w].obj <= made
  BY <1>1 DEF names, OnceInv, TypeInv, Types, NamesOK
<1>7. TypeInv'
  BY <1>2, <1>5, <1>6, OneObject DEF OnceInv
<1>8. object'[o] = j /\ \A p \in 1..made : p # o => object'[p] = object[p]
  BY <1>2, <1>5 DEF OnceInv, TypeInv, Types
<1>9. QueueOK'
  <2>1. \A p \in 1..made : object'[p].id = object[p].id
    BY <1>5, <1>8
  <2>2. \A n \in 1..Len(queue) : \E p \in 1..made : object'[p].id = queue[n]
    BY <2>1 DEF OnceInv, QueueOK
  <2>3. ASSUME NEW n \in 1..Len(queue), jobs[queue[n]] # 0
        PROVE  /\ object'[jobs[queue[n]]].state \in {"queued", "cancelled"}
               /\ object'[jobs[queue[n]]].runs = 0
    <3>1. /\ object[jobs[queue[n]]].state \in {"queued", "cancelled"}
          /\ object[jobs[queue[n]]].runs = 0
      BY <2>3 DEF OnceInv, QueueOK
    <3>2. queue[n] \in Ids /\ jobs[queue[n]] \in 1..made
      BY <2>3 DEF OnceInv, TypeInv, Types, NamesOK
    <3>3. CASE jobs[queue[n]] = o
      BY <1>5, <1>8, <3>1, <3>3
    <3>4. CASE jobs[queue[n]] # o
      BY <1>8, <3>1, <3>2, <3>4
    <3>5. QED BY <3>3, <3>4
  <2>4. QED BY <1>6, <2>2, <2>3 DEF OnceInv, QueueOK
<1>10. ObjectsOK'
  BY <1>2, <1>5, <1>6, <1>8 DEF OnceInv, ObjectsOK, Final
<1>11. LanesOK'
  <2>1. ASSUME NEW w \in Workers, Running(w)
        PROVE  object'[worker[w].obj].state = "running"
    <3>1. worker[w].obj \in 1..made /\ object[worker[w].obj].state = "running"
      BY <2>1, LaneType DEF OnceInv, LanesOK
    <3>2. QED BY <1>5, <1>8, <3>1
  <2>2. QED BY <1>6, <2>1 DEF OnceInv, LanesOK, Running
<1>12. \A p \in 1..made : object[p].done => object'[p].state = object[p].state
  <2>1. f.state = "queued" => ~f.done
    BY <1>2 DEF OnceInv, ObjectsOK, Final
  <2>2. QED BY <1>5, <1>8, <2>1
<1>13. QED BY <1>7, <1>9, <1>10, <1>11, <1>12 DEF OnceInv

\* purge_finished forgets names only.
LEMMA PurgeOnce == ASSUME OnceInv, NEW cutoff, Purge(cutoff) PROVE OnceInv'
<1>1. /\ UNCHANGED <<made, object, queue, worker, finished, waiter>>
      /\ jobs' \in [Ids -> 0..MaxSubmits]
      /\ \A i \in Ids : jobs'[i] \in {0, jobs[i]}
  BY JobQueueAssumption DEF Purge, lanes, OnceInv, TypeInv, Types
<1>2. TypeInv'
  <2>1. Types'
    BY <1>1 DEF OnceInv, TypeInv, Types
  <2>2. \A i \in Ids : 0 \in 0..made
    BY DEF OnceInv, TypeInv, Types
  <2>3. NamesOK'
    BY <1>1, <2>2 DEF OnceInv, TypeInv, NamesOK
  <2>4. QED BY <2>1, <2>3 DEF TypeInv
<1>3. QueueOK'
  <2>1. \A n \in 1..Len(queue) : queue[n] \in Ids
    BY DEF OnceInv, TypeInv, Types
  <2>2. QED BY <1>1, <2>1 DEF OnceInv, QueueOK
<1>4. ObjectsOK' /\ LanesOK'
  BY <1>1 DEF OnceInv, ObjectsOK, LanesOK, Running
<1>5. QED BY <1>2, <1>3, <1>4 DEF OnceInv

\* Starting, stopping and waiting keep the types.
LEMMA FrameType ==
    ASSUME TypeInv, UNCHANGED <<made, jobs, object, queue, finished>>,
           \/ worker' = worker
           \/ worker' = [w \in Workers |-> Waiting]
           \/ \E w \in Workers : worker' = [worker EXCEPT ![w] = Gone],
           waiter' \in [Waiters -> 0..MaxSubmits],
           \A x \in Waiters : waiter'[x] <= made
    PROVE  /\ TypeInv'
           /\ \A w \in Workers : worker'[w] \in {worker[w], Waiting, Gone}
<1>1. /\ worker' \in [Workers -> [obj : Objects] \cup {Waiting, Gone}]
      /\ \A w \in Workers : worker'[w] \in {worker[w], Waiting, Gone}
  BY DEF TypeInv, Types
<1>2. \A w \in Workers : worker'[w].obj <= made
  <2>1. made \in Nat
    BY DEF TypeInv, Types
  <2>2. \A w \in Workers : worker[w].obj <= made
    BY DEF TypeInv, NamesOK
  <2>3. QED BY <1>1, <2>1, <2>2 DEF Waiting, Gone
<1>3. QED BY <1>1, <1>2 DEF TypeInv, Types, NamesOK

\* Starting, stopping and waiting concern no job.
LEMMA FrameOnce ==
    ASSUME OnceInv, UNCHANGED <<made, jobs, object, queue, finished>>,
           \/ worker' = worker
           \/ worker' = [w \in Workers |-> Waiting]
           \/ \E w \in Workers : worker' = [worker EXCEPT ![w] = Gone],
           waiter' \in [Waiters -> 0..MaxSubmits],
           \A x \in Waiters : waiter'[x] <= made
    PROVE  OnceInv'
<1>1. TypeInv' /\ \A w \in Workers : worker'[w] \in {worker[w], Waiting, Gone}
  BY FrameType DEF OnceInv
<1>2. \A w \in Workers : worker'[w].obj > 0 => worker'[w] = worker[w]
  BY <1>1 DEF Waiting, Gone
<1>5. QueueOK' /\ ObjectsOK'
  BY DEF OnceInv, QueueOK, ObjectsOK
<1>6. LanesOK'
  <2>1. ASSUME NEW w \in Workers, worker'[w].obj > 0
        PROVE  Running(w) /\ worker'[w] = worker[w]
    BY <1>2, <2>1 DEF Running
  <2>2. ASSUME NEW v \in Workers, NEW w \in Workers, worker'[w].obj > 0,
               worker'[v].obj = worker'[w].obj
        PROVE  v = w
    <3>1. worker'[v] = worker[v] /\ worker'[w] = worker[w] /\ Running(w)
      BY <2>1, <2>2
    <3>2. QED BY <2>2, <3>1 DEF OnceInv, LanesOK
  <2>3. QED BY <2>1, <2>2 DEF OnceInv, LanesOK, Running
<1>7. QED BY <1>1, <1>5, <1>6 DEF OnceInv

----------------------------------------------------------------------------
\* The invariant holds at first.
LEMMA InitOnce == Init => OnceInv
<1> SUFFICES ASSUME Init PROVE OnceInv
  OBVIOUS
<1>1. made = 0 /\ 1..made = {} /\ 0 \in 0..MaxSubmits
  BY JobQueueAssumption DEF Init
<1>2. object \in [1..made -> Job]
  <2>1. object = <<>> /\ <<>> \in Seq(Job) /\ Len(<<>>) = 0
    BY DEF Init
  <2>2. object \in [1..Len(object) -> Job]
    BY <2>1, LenProperties
  <2>3. QED BY <1>1, <2>1, <2>2
<1>3. TypeInv
  BY <1>1, <1>2 DEF Init, TypeInv, Types, NamesOK, Gone
<1>4. QueueOK /\ ObjectsOK /\ LanesOK
  BY <1>1 DEF Init, QueueOK, ObjectsOK, LanesOK, Running, Gone
<1>5. QED BY <1>3, <1>4 DEF OnceInv

\* With fresh ids every step keeps it and leaves final states alone.
LEMMA NextOnce ==
    ASSUME OnceInv, ~ReuseIds, [Next]_vars
    PROVE  /\ OnceInv'
           /\ \A o \in 1..made : object[o].done => object'[o].state = object[o].state
<1> DEFINE Stays == \A o \in 1..made :
                      object[o].done => object'[o].state = object[o].state
<1>0. /\ waiter \in [Waiters -> 0..MaxSubmits] /\ \A x \in Waiters : waiter[x] <= made
      /\ made \in Nat
      /\ \A i \in Ids : jobs[i] \in 0..MaxSubmits /\ jobs[i] <= made
  BY DEF OnceInv, TypeInv, Types, NamesOK
<1>1. CASE Start \/ Stop \/ StopReturns \/ UNCHANGED vars
  <2>1. /\ UNCHANGED <<made, jobs, object, queue, finished, waiter>>
        /\ \/ worker' = worker
           \/ worker' = [w \in Workers |-> Waiting]
    BY <1>1 DEF Start, Stop, StopReturns, vars, names, lanes
  <2>2. QED BY <1>0, <2>1, FrameOnce
<1>2. ASSUME NEW i \in Ids, Submit(i) PROVE OnceInv' /\ Stays
  BY <1>2, SubmitOnce, SubmitObjects DEF OnceInv
<1>3. ASSUME NEW i \in Ids, Cancel(i) PROVE OnceInv' /\ Stays
  BY <1>3, CancelOnce
<1>4. ASSUME NEW cutoff, Purge(cutoff) PROVE OnceInv' /\ Stays
  BY <1>4, PurgeOnce DEF Purge
<1>5. ASSUME NEW w \in Workers, Worker(w) PROVE OnceInv' /\ Stays
  <2>1. CASE WorkerGet(w)
    BY <2>1, WorkerGetOnce
  <2>2. CASE WorkerReturn(w)
    BY <2>2, FinishOnce DEF WorkerReturn, Final
  <2>3. CASE WorkerRaise(w)
    BY <2>3, FinishOnce DEF WorkerRaise, Final
  <2>4. CASE WorkerStopped(w) /\ Running(w)
    BY <2>4, FinishOnce DEF WorkerStopped, Final
  <2>5. CASE WorkerStopped(w) /\ ~Running(w)
    <3>1. /\ UNCHANGED <<made, jobs, object, queue, finished, waiter>>
          /\ worker' = [worker EXCEPT ![w] = Gone]
      BY <2>5 DEF WorkerStopped, names
    <3>2. QED BY <1>0, <3>1, FrameOnce
  <2>6. QED BY <1>5, <2>1, <2>2, <2>3, <2>4, <2>5 DEF Worker
<1>6. ASSUME NEW x \in Waiters,
             WaitReturns(x) \/ WaitTimesOut(x) \/ \E i \in Ids : Wait(x, i)
      PROVE  OnceInv' /\ Stays
  <2>1. /\ UNCHANGED <<made, jobs, object, queue, finished, worker>>
        /\ \E v \in 0..MaxSubmits : v <= made /\ waiter' = [waiter EXCEPT ![x] = v]
    BY <1>0, <1>6, JobQueueAssumption
       DEF WaitReturns, WaitTimesOut, Wait, names, lanes
  <2>2. /\ waiter' \in [Waiters -> 0..MaxSubmits]
        /\ \A y \in Waiters : waiter'[y] <= made
    BY <1>0, <2>1
  <2>3. QED BY <2>1, <2>2, FrameOnce
<1>7. QED
  BY <1>1, <1>2, <1>3, <1>4, <1>5, <1>6 DEF Next

\* Whatever is cancelled, purged, stopped and restarted: as long as no id is
\* submitted twice, no job is executed twice.
THEOREM ExecutedOnce == ASSUME ~ReuseIds PROVE Spec => []RunsOnce
<1>1. OnceInv /\ [Next]_vars => OnceInv'
  BY NextOnce
<1>2. Spec => []OnceInv
  BY <1>1, InitOnce, PTL DEF Spec
<1>3. OnceInv => RunsOnce
  BY DEF OnceInv, ObjectsOK, RunsOnce
<1>4. QED BY <1>2, <1>3, PTL

\* What wait has reported stays true.
THEOREM FinalForever == ASSUME ~ReuseIds PROVE Spec => FinalStays
<1>1. OnceInv /\ [Next]_vars => OnceInv'
  BY NextOnce
<1>2. OnceInv /\ [Next]_vars =>
        [\A o \in 1..made : object[o].done => object'[o].state = object[o].state]_vars
  BY NextOnce
<1>3. QED BY <1>1, <1>2, InitOnce, PTL DEF Spec, FinalStays
----------------------------------------------------------------------------
(***************************************************************************)
(* Nothing is lost, whatever ids are submitted again.                      *)
(***************************************************************************)

\* What is known of every job, purged ones and rerun ones included.
Sound(j) ==
    /\ j.state \in Final => j.done
    /\ j.cancelled => j.state # "done"
    /\ j.state = "running" => j.runs > 0
    /\ j.cancelled /\ j.runs = 0 => j.state = "cancelled"

\* A running job has its lane, and a lane holds a job that was started; while
\* the queue is off there is no lane.
HeldOK ==
    /\ \A o \in 1..made :
         object[o].state = "running" => \E w \in Workers : worker[w].obj = o
    /\ \A w \in Workers : Running(w) => object[worker[w].obj].runs > 0
    /\ phase = "off" => \A w \in Workers : worker[w] = Gone

WaitingOK ==
    \A i \in Ids : jobs[i] # 0 /\ object[jobs[i]].state = "queued" => InSeq(i, queue)

AccountInv ==
    /\ TypeInv
    /\ \A o \in 1..made : Sound(object[o])
    /\ HeldOK
    /\ WaitingOK

\* The invariant says of the job of an id what Accounted does.
LEMMA AccountGives == AccountInv => Accounted
<1> SUFFICES ASSUME AccountInv, NEW i \in Ids, jobs[i] # 0
             PROVE  LET o == jobs[i] IN
                    /\ object[o].state = "queued" => InSeq(i, queue)
                    /\ object[o].state = "running" => \E w \in Workers : worker[w].obj = o
                    /\ object[o].state \in Final => object[o].done
                    /\ object[o].cancelled => object[o].state # "done"
                    /\ object[o].cancelled /\ object[o].runs = 0
                         => object[o].state = "cancelled"
  BY DEF Accounted
<1>1. jobs[i] \in 1..made
  BY DEF AccountInv, TypeInv, Types, NamesOK
<1>2. QED BY <1>1 DEF AccountInv, Sound, HeldOK, WaitingOK

\* What a step that changes one existing job has to keep.
LEMMA OneAccount ==
    ASSUME AccountInv, NEW o \in 1..made, NEW j,
           object' = [object EXCEPT ![o] = j], UNCHANGED <<made, jobs>>,
           TypeInv', Sound(j), phase' = phase,
           phase = "off" => \A w \in Workers : worker'[w] = Gone,
           j.state = "running" => \E w \in Workers : worker'[w].obj = o,
           \A p \in 1..made, w \in Workers :
             p # o /\ worker[w].obj = p => worker'[w] = worker[w],
           \A w \in Workers : worker'[w].obj > 0 =>
             /\ worker'[w].obj \in 1..made
             /\ worker'[w].obj = o \/ worker'[w] = worker[w]
             /\ worker'[w].obj = o => j.runs > 0,
           j.state # "queued",
           \A i \in Ids : jobs[i] # 0 /\ jobs[i] # o /\ InSeq(i, queue) => InSeq(i, queue')
    PROVE  AccountInv'
<1>1. object'[o] = j /\ \A p \in 1..made : p # o => object'[p] = object[p]
  BY DEF AccountInv, TypeInv, Types
<1>2. \A p \in 1..made : Sound(object'[p])
  BY <1>1 DEF AccountInv
<1>3. HeldOK'
  <2>1. ASSUME NEW p \in 1..made, object'[p].state = "running"
        PROVE  \E w \in Workers : worker'[w].obj = p
    <3>1. CASE p = o
      BY <1>1, <2>1, <3>1
    <3>2. CASE p # o
      <4>1. PICK w \in Workers : worker[w].obj = p
        BY <1>1, <2>1, <3>2 DEF AccountInv, HeldOK
      <4>2. worker'[w] = worker[w]
        BY <3>2, <4>1
      <4>3. QED BY <4>1, <4>2
    <3>3. QED BY <3>1, <3>2
  <2>2. ASSUME NEW w \in Workers, worker'[w].obj > 0
        PROVE  object'[worker'[w].obj].runs > 0
    <3>1. CASE worker'[w].obj = o
      BY <1>1, <2>2, <3>1
    <3>2. CASE worker'[w].obj # o
      <4>1. worker'[w] = worker[w] /\ worker[w].obj \in 1..made
        BY <2>2, <3>2
      <4>2. object[worker[w].obj].runs > 0
        BY <2>2, <4>1 DEF AccountInv, HeldOK, Running
      <4>3. QED BY <1>1, <3>2, <4>1, <4>2
    <3>3. QED BY <3>1, <3>2
  <2>3. QED BY <2>1, <2>2 DEF HeldOK, Running
<1>4. WaitingOK'
  <2> SUFFICES ASSUME NEW i \in Ids, jobs[i] # 0, object'[jobs[i]].state = "queued"
               PROVE  InSeq(i, queue')
    BY DEF WaitingOK
  <2>1. jobs[i] \in 1..made
    BY DEF AccountInv, TypeInv, Types, NamesOK
  <2>2. jobs[i] # o /\ object[jobs[i]].state = "queued"
    BY <1>1, <2>1
  <2>3. QED BY <2>2 DEF AccountInv, WaitingOK
<1>5. QED BY <1>2, <1>3, <1>4 DEF AccountInv

\* The end of the job a lane holds.
LEMMA FinishAccount ==
    ASSUME AccountInv, NEW w \in Workers, Running(w), NEW state \in Final,
           object[worker[w].obj].cancelled => state # "done",
           NEW l \in {Waiting, Gone}, Finish(worker[w].obj, state),
           worker' = [worker EXCEPT ![w] = l], UNCHANGED <<names, queue, phase, waiter>>
    PROVE  AccountInv'
<1>1. PICK o : o = worker[w].obj
  OBVIOUS
<1> DEFINE f == object[o]
           j == [f EXCEPT !.state = state, !.done = TRUE, !.finishedAt = finished + 1]
<1>2. /\ o \in 1..made /\ f \in Job /\ finished \in Nat /\ made \in Nat /\ f.runs > 0
      /\ l.obj < 1 /\ l.obj <= made
  <2>1. o \in 1..made /\ finished \in Nat /\ made \in Nat
    BY <1>1, LaneType DEF AccountInv, TypeInv, Types
  <2>2. f \in Job /\ f.runs > 0
    BY <1>1, <2>1, JobFields DEF AccountInv, TypeInv, HeldOK
  <2>3. QED BY <2>1, <2>2 DEF Waiting, Gone
<1>3. object' = [object EXCEPT ![o] = j] /\ finished' = finished + 1
  BY <1>1 DEF Finish
<1> HIDE DEF f
<1>4. /\ j \in Job /\ j.id = f.id /\ j.state = state /\ j.done
      /\ j.runs = f.runs /\ j.cancelled = f.cancelled
  <2>1. finished + 1 \in Nat /\ state \in State
    BY <1>2 DEF State
  <2>2. j \in Job /\ j.id = f.id /\ j.runs = f.runs /\ j.cancelled = f.cancelled
    BY <1>2, <2>1 DEF Job
  <2>3. j.state = state /\ j.done
    BY <1>2 DEF Job
  <2>4. QED BY <2>2, <2>3
<1> HIDE DEF j
<1>5. Sound(j) /\ j.state # "running" /\ j.state # "queued"
  BY <1>1, <1>2, <1>4 DEF Sound, Final, f
<1>6. /\ worker'[w] = l /\ \A v \in Workers : v # w => worker'[v] = worker[v]
      /\ worker' \in [Workers -> [obj : Objects] \cup {Waiting, Gone}]
      /\ \A v \in Workers : worker'[v].obj <= made
  BY <1>2 DEF AccountInv, TypeInv, Types, NamesOK
<1>7. /\ UNCHANGED <<made, jobs, queue, waiter>> /\ phase' = phase
      /\ finished' \in Nat /\ queue' \in Seq(Ids)
  BY <1>2, <1>3 DEF names, AccountInv, TypeInv, Types
<1>8. TypeInv'
  BY <1>2, <1>3, <1>4, <1>6, <1>7, OneObject DEF AccountInv, f
<1>9. phase # "off"
  BY DEF AccountInv, HeldOK, Running, Gone
<1>10. \A v \in Workers : worker'[v].obj > 0 =>
         worker'[v] = worker[v] /\ worker'[v].obj \in 1..made
  <2> SUFFICES ASSUME NEW v \in Workers, worker'[v].obj > 0
               PROVE  worker'[v] = worker[v] /\ worker'[v].obj \in 1..made
    OBVIOUS
  <2>1. v # w
    BY <1>6 DEF Waiting, Gone
  <2>2. QED BY <1>6, <2>1, LaneType DEF AccountInv, Running
<1>11. ASSUME NEW v \in Workers, worker'[v].obj = o PROVE j.runs > 0
  BY <1>2, <1>4
<1>12. \A p \in 1..made, v \in Workers :
         p # o /\ worker[v].obj = p => worker'[v] = worker[v]
  BY <1>1, <1>6
<1>13. \A i \in Ids : jobs[i] # 0 /\ jobs[i] # o /\ InSeq(i, queue) => InSeq(i, queue')
  BY <1>7
<1>14. QED
  BY <1>2, <1>3, <1>5, <1>7, <1>8, <1>9, <1>10, <1>11, <1>12, <1>13, OneAccount

\* A worker takes the head of the queue: the ids behind it still wait there.
LEMMA GetAccount == ASSUME AccountInv, NEW w \in Workers, WorkerGet(w) PROVE AccountInv'
<1>1. PICK i, o : i = Head(queue) /\ o = jobs[i]
  OBVIOUS
<1>2. /\ queue \in Seq(Ids) /\ queue # <<>> /\ queue' = Tail(queue)
      /\ worker[w] = Waiting /\ UNCHANGED <<names, lanes, finished, waiter>>
  BY DEF WorkerGet, AccountInv, TypeInv, Types
<1>3. /\ i = queue[1] /\ i \in Ids /\ Len(queue) \in Nat
      /\ queue' \in Seq(Ids) /\ Len(queue') = Len(queue) - 1
      /\ \A n \in 1..Len(queue') : queue'[n] = queue[n + 1]
  BY <1>1, <1>2, HeadTailProperties
<1>4. ASSUME NEW k \in Ids, k # i, InSeq(k, queue) PROVE InSeq(k, queue')
  <2>1. PICK n \in 1..Len(queue) : queue[n] = k
    BY <1>4 DEF InSeq
  <2>2. n - 1 \in 1..Len(queue') /\ (n - 1) + 1 = n
    BY <1>3, <1>4, <2>1
  <2>3. queue'[n - 1] = k
    BY <1>3, <2>1, <2>2
  <2>4. QED BY <2>2, <2>3 DEF InSeq
<1>5. /\ UNCHANGED <<made, jobs, waiter, finished>> /\ phase' = phase
      /\ finished \in Nat
  BY <1>2 DEF names, lanes, AccountInv, TypeInv, Types
<1>6. CASE o = 0 \/ object[o].state = "cancelled"
  <2>1. object' = object /\ worker' = worker
    BY <1>1, <1>6 DEF WorkerGet
  <2>2. TypeInv'
    BY <1>3, <1>5, <2>1 DEF AccountInv, TypeInv, Types, NamesOK
  <2>3. WaitingOK'
    BY <1>1, <1>4, <1>5, <1>6, <2>1 DEF AccountInv, WaitingOK
  <2>4. QED BY <1>5, <2>1, <2>2, <2>3 DEF AccountInv, HeldOK, Running
<1>7. CASE ~(o = 0 \/ object[o].state = "cancelled")
  <2> DEFINE f == object[o]
             j == [f EXCEPT !.state = "running", !.runs = f.runs + 1]
  <2>1. /\ object' = [object EXCEPT ![o] = j]
        /\ worker' = [worker EXCEPT ![w] = [obj |-> o]]
    BY <1>1, <1>7 DEF WorkerGet
  <2>2. o \in 1..made /\ made \in Nat
    BY <1>1, <1>3, <1>7 DEF AccountInv, TypeInv, Types, NamesOK
  <2>3. f \in Job /\ f.runs \in Nat /\ Sound(f)
    BY <2>2, JobFields DEF AccountInv, TypeInv
  <2> HIDE DEF f
  <2>4. /\ j \in Job /\ j.id = f.id /\ j.state = "running" /\ j.runs = f.runs + 1
    <3>1. f.runs + 1 \in Nat /\ "running" \in State
      BY <2>3 DEF State
    <3>2. QED BY <2>3, <3>1 DEF Job
  <2> HIDE DEF j
  <2>5. Sound(j) /\ j.runs > 0
    BY <2>3, <2>4 DEF Sound, Final
  <2>6. worker' \in [Workers -> [obj : Objects] \cup {Waiting, Gone}]
    <3>1. [obj |-> o] \in [obj : Objects]
      BY <2>2, JobQueueAssumption DEF Objects, AccountInv, TypeInv, Types
    <3>2. QED BY <2>1, <3>1 DEF AccountInv, TypeInv, Types
  <2>7. /\ worker'[w].obj = o /\ \A v \in Workers : v # w => worker'[v] = worker[v]
        /\ \A v \in Workers : worker'[v].obj <= made
    BY <2>1, <2>2 DEF AccountInv, TypeInv, Types, NamesOK
  <2>8. TypeInv'
    BY <1>3, <1>5, <2>1, <2>2, <2>4, <2>6, <2>7, OneObject DEF AccountInv, f
  <2>9. \A v \in Workers : worker'[v].obj > 0 =>
          /\ worker'[v].obj \in 1..made
          /\ worker'[v].obj = o \/ worker'[v] = worker[v]
    BY <2>2, <2>7, LaneType DEF AccountInv, Running
  <2>10. \A p \in 1..made, v \in Workers :
           p # o /\ worker[v].obj = p => worker'[v] = worker[v]
    BY <1>2, <2>7 DEF Waiting
  <2>11. phase # "off"
    BY <1>2 DEF AccountInv, HeldOK, Waiting, Gone
  <2>12. \A k \in Ids : jobs[k] # 0 /\ jobs[k] # o /\ InSeq(k, queue) => InSeq(k, queue')
    BY <1>1, <1>4
  <2>13. \A v \in Workers : worker'[v].obj = o => j.runs > 0
    BY <2>5
  <2>14. j.state # "queued" /\ UNCHANGED <<made, jobs>>
    BY <1>5, <2>4
  <2>15. QED
    BY <1>5, <2>1, <2>2, <2>5, <2>7, <2>8, <2>9, <2>10, <2>11, <2>12, <2>13, <2>14,
       OneAccount
<1>8. QED BY <1>6, <1>7

\* cancel ends a job in the queue or sets the flag of a running one.
LEMMA CancelAccount == ASSUME AccountInv, NEW i \in Ids, Cancel(i) PROVE AccountInv'
<1>1. PICK o : o = jobs[i]
  OBVIOUS
<1> DEFINE f == object[o]
           ended == [f EXCEPT !.state = "cancelled", !.cancelled = TRUE,
                              !.done = TRUE, !.finishedAt = finished + 1]
           asked == [f EXCEPT !.cancelled = TRUE]
<1>2. /\ UNCHANGED <<names, lanes, queue, worker, waiter>>
      /\ o # 0
      /\ \/ /\ f.state = "queued" /\ object' = [object EXCEPT ![o] = ended]
            /\ finished' = finished + 1
         \/ /\ f.state = "running" /\ object' = [object EXCEPT ![o] = asked]
            /\ finished' = finished
  BY <1>1 DEF Cancel
<1>3. o \in 1..made /\ f \in Job /\ finished \in Nat /\ Sound(f)
  <2>1. o \in 1..made
    BY <1>1, <1>2 DEF AccountInv, TypeInv, Types, NamesOK
  <2>2. QED BY <2>1, JobFields DEF AccountInv, TypeInv, Types
<1> HIDE DEF f
<1>4. /\ ended \in Job /\ ended.id = f.id /\ ended.state = "cancelled" /\ ended.done
      /\ ended.runs = f.runs
      /\ asked \in Job /\ asked.id = f.id /\ asked.state = f.state
      /\ asked.done = f.done /\ asked.runs = f.runs
  <2>1. finished + 1 \in Nat /\ "cancelled" \in State
    BY <1>3 DEF State, Final
  <2>2. ended \in Job /\ ended.id = f.id /\ ended.runs = f.runs
    BY <1>3, <2>1 DEF Job
  <2>3. ended.state = "cancelled" /\ ended.done
    BY <1>3, <2>1 DEF Job
  <2>4. /\ asked \in Job /\ asked.id = f.id /\ asked.state = f.state
        /\ asked.done = f.done /\ asked.runs = f.runs
    BY <1>3 DEF Job
  <2>5. QED BY <2>2, <2>3, <2>4
<1> HIDE DEF ended, asked
<1>5. PICK j \in Job :
        /\ object' = [object EXCEPT ![o] = j] /\ finished' \in Nat
        /\ j.id = f.id /\ j.runs = f.runs
        /\ \/ j.state = "cancelled" /\ j.done
           \/ f.state = "running" /\ j.state = "running" /\ j.done = f.done
  BY <1>2, <1>3, <1>4
<1>6. Sound(j) /\ j.state # "queued"
  BY <1>3, <1>5 DEF Sound, Final
<1>7. /\ UNCHANGED <<made, jobs, queue, worker, waiter>> /\ phase' = phase
      /\ queue' \in Seq(Ids)
      /\ worker' \in [Workers -> [obj : Objects] \cup {Waiting, Gone}]
      /\ \A w \in Workers : worker'[w].obj <= made
  BY <1>2 DEF names, lanes, AccountInv, TypeInv, Types, NamesOK
<1>8. TypeInv'
  BY <1>3, <1>5, <1>7, OneObject DEF AccountInv, f
<1>9. j.state = "running" => \E w \in Workers : worker'[w].obj = o
  BY <1>3, <1>5, <1>7 DEF AccountInv, HeldOK, f
<1>10. ASSUME NEW w \in Workers, worker[w].obj > 0
       PROVE  worker[w].obj \in 1..made /\ (worker[w].obj = o => j.runs > 0)
  <2>1. worker[w].obj \in 1..made /\ object[worker[w].obj].runs > 0
    BY <1>10, LaneType DEF AccountInv, HeldOK, Running
  <2>2. QED BY <1>5, <2>1 DEF f
<1>11. phase = "off" => \A w \in Workers : worker'[w] = Gone
  BY <1>7 DEF AccountInv, HeldOK
<1>12. \A p \in 1..made, w \in Workers : p # o /\ worker[w].obj = p => worker'[w] = worker[w]
  BY <1>7
<1>13. \A w \in Workers : worker'[w].obj > 0 =>
         /\ worker'[w].obj \in 1..made
         /\ worker'[w].obj = o \/ worker'[w] = worker[w]
         /\ worker'[w].obj = o => j.runs > 0
  BY <1>7, <1>10
<1>14. \A k \in Ids : jobs[k] # 0 /\ jobs[k] # o /\ InSeq(k, queue) => InSeq(k, queue')
  BY <1>7
<1>15. o \in 1..made /\ object' = [object EXCEPT ![o] = j] /\ UNCHANGED <<made, jobs>>
      /\ phase' = phase
  BY <1>3, <1>5, <1>7
<1>16. QED
  BY <1>6, <1>8, <1>9, <1>11, <1>12, <1>13, <1>14, <1>15, OneAccount

\* A new job waits under its id; the jobs before it keep their entries.
LEMMA SubmitAccount == ASSUME AccountInv, NEW i \in Ids, Submit(i) PROVE AccountInv'
<1>1. /\ made' = made + 1 /\ made \in Nat /\ object'[made + 1] = NewJob(i)
      /\ \A o \in 1..made : object'[o] = object[o] /\ o \in 1..made'
  BY SubmitObjects DEF AccountInv
<1>2. /\ jobs' = [jobs EXCEPT ![i] = made + 1] /\ queue' = Append(queue, i)
      /\ UNCHANGED <<worker, phase>>
  BY DEF Submit, lanes
<1>3. TypeInv' /\ queue \in Seq(Ids)
  BY SubmitType DEF AccountInv, TypeInv, Types
<1>4. \A o \in 1..made' : o = made + 1 \/ o \in 1..made
  BY <1>1
<1>5. \A o \in 1..made' : Sound(object'[o])
  BY <1>1, <1>4 DEF AccountInv, Sound, NewJob, Final
<1>6. HeldOK'
  <2>1. \A o \in 1..made' : object'[o].state = "running" =>
          \E w \in Workers : worker[w].obj = o
    BY <1>1, <1>4 DEF AccountInv, HeldOK, NewJob
  <2>2. \A w \in Workers : Running(w) => object'[worker[w].obj].runs > 0
    BY <1>1, LaneType DEF AccountInv, HeldOK
  <2>3. QED BY <1>2, <2>1, <2>2 DEF AccountInv, HeldOK, Running
<1>7. WaitingOK'
  <2>1. /\ Len(queue) \in Nat /\ Len(queue') = Len(queue) + 1 /\ queue'[Len(queue) + 1] = i
        /\ \A n \in 1..Len(queue) : queue'[n] = queue[n]
    BY <1>2, <1>3
  <2>2. InSeq(i, queue')
    <3>1. Len(queue) + 1 \in 1..Len(queue')
      BY <2>1
    <3>2. QED BY <2>1, <3>1 DEF InSeq
  <2>3. ASSUME NEW k \in Ids, InSeq(k, queue) PROVE InSeq(k, queue')
    <3>1. \A n \in 1..Len(queue) : n \in 1..Len(queue')
      BY <2>1
    <3>2. QED BY <2>1, <2>3, <3>1 DEF InSeq
  <2>4. ASSUME NEW k \in Ids, k # i, jobs'[k] # 0, object'[jobs'[k]].state = "queued"
        PROVE  InSeq(k, queue')
    <3>1. jobs'[k] = jobs[k] /\ jobs[k] \in 1..made
      BY <1>2, <2>4 DEF AccountInv, TypeInv, Types, NamesOK
    <3>2. object[jobs[k]].state = "queued"
      BY <1>1, <2>4, <3>1
    <3>3. QED BY <2>3, <2>4, <3>1, <3>2 DEF AccountInv, WaitingOK
  <2>5. QED BY <2>2, <2>4 DEF WaitingOK
<1>8. QED BY <1>3, <1>5, <1>6, <1>7 DEF AccountInv

\* Steps that change no job: lanes that hold one keep it.
LEMMA FrameAccount ==
    ASSUME AccountInv, UNCHANGED <<made, object, queue>>, TypeInv',
           \A i \in Ids : jobs'[i] \in {0, jobs[i]},
           \A w \in Workers : worker'[w] \in {worker[w], Waiting, Gone},
           \A w \in Workers : Running(w) => worker'[w] = worker[w],
           phase' = "off" => \A w \in Workers : worker'[w] = Gone
    PROVE  AccountInv'
<1>1. \A w \in Workers : worker'[w].obj > 0 => worker'[w] = worker[w]
  BY DEF Waiting, Gone
<1>2. HeldOK'
  <2>1. ASSUME NEW o \in 1..made, object[o].state = "running"
        PROVE  \E w \in Workers : worker'[w].obj = o
    <3>1. PICK w \in Workers : worker[w].obj = o
      BY <2>1 DEF AccountInv, HeldOK
    <3>2. Running(w)
      BY <3>1 DEF Running, AccountInv, TypeInv, Types
    <3>3. QED BY <3>1, <3>2
  <2>2. \A w \in Workers : worker'[w].obj > 0 => object[worker'[w].obj].runs > 0
    BY <1>1 DEF AccountInv, HeldOK, Running
  <2>3. QED BY <2>1, <2>2 DEF HeldOK, Running
<1>3. WaitingOK'
  BY DEF AccountInv, WaitingOK
<1>4. QED BY <1>2, <1>3 DEF AccountInv

LEMMA InitAccount == Init => AccountInv
<1> SUFFICES ASSUME Init PROVE AccountInv
  OBVIOUS
<1>1. TypeInv
  BY InitOnce DEF OnceInv
<1>2. 1..made = {}
  BY DEF Init
<1>3. QED BY <1>1, <1>2 DEF Init, AccountInv, HeldOK, WaitingOK, Running, Gone

LEMMA NextAccount == AccountInv /\ [Next]_vars => AccountInv'
<1> SUFFICES ASSUME AccountInv, [Next]_vars PROVE AccountInv'
  OBVIOUS
<1>0. /\ waiter \in [Waiters -> 0..MaxSubmits] /\ \A x \in Waiters : waiter[x] <= made
      /\ made \in Nat
      /\ \A i \in Ids : jobs[i] \in 0..MaxSubmits /\ jobs[i] <= made
  BY DEF AccountInv, TypeInv, Types, NamesOK
<1>1. ASSUME UNCHANGED <<made, jobs, object, queue, finished>>,
             \/ worker' = worker
             \/ worker' = [w \in Workers |-> Waiting]
             \/ \E w \in Workers : worker' = [worker EXCEPT ![w] = Gone],
             \A w \in Workers : Running(w) => worker'[w] = worker[w],
             waiter' \in [Waiters -> 0..MaxSubmits],
             \A x \in Waiters : waiter'[x] <= made,
             phase' = "off" => \A w \in Workers : worker'[w] = Gone
      PROVE  AccountInv'
  <2>1. TypeInv' /\ \A w \in Workers : worker'[w] \in {worker[w], Waiting, Gone}
    BY <1>1, FrameType DEF AccountInv
  <2>2. \A i \in Ids : jobs'[i] \in {0, jobs[i]}
    BY <1>1
  <2>3. QED BY <1>1, <2>1, <2>2, FrameAccount
<1>2. CASE Start
  <2>1. /\ UNCHANGED <<made, jobs, object, queue, finished, waiter>>
        /\ worker' = [w \in Workers |-> Waiting] /\ phase' = "on" /\ phase = "off"
    BY <1>2 DEF Start, names
  <2>2. \A w \in Workers : ~Running(w)
    BY <2>1 DEF AccountInv, HeldOK, Running, Gone
  <2>3. QED BY <1>0, <1>1, <2>1, <2>2
<1>3. CASE Stop \/ StopReturns \/ UNCHANGED vars
  <2>1. /\ UNCHANGED <<made, jobs, object, queue, finished, waiter, worker>>
        /\ phase' = "off" => \A w \in Workers : worker[w] = Gone
    BY <1>3 DEF Stop, StopReturns, vars, names, lanes, AccountInv, HeldOK
  <2>2. QED BY <1>0, <1>1, <2>1
<1>4. ASSUME NEW cutoff, Purge(cutoff) PROVE AccountInv'
  <2>1. /\ UNCHANGED <<made, object, queue, worker, finished, waiter>> /\ phase' = phase
        /\ jobs' \in [Ids -> 0..MaxSubmits]
        /\ \A i \in Ids : jobs'[i] \in {0, jobs[i]}
    BY <1>4, JobQueueAssumption DEF Purge, lanes, AccountInv, TypeInv, Types
  <2>2. TypeInv'
    <3>1. \A i \in Ids : 0 \in 0..made
      BY <1>0
    <3>2. QED BY <2>1, <3>1 DEF AccountInv, TypeInv, Types, NamesOK
  <2>3. QED BY <2>1, <2>2, FrameAccount DEF AccountInv, HeldOK
<1>5. ASSUME NEW w \in Workers, Worker(w) PROVE AccountInv'
  <2>1. CASE WorkerGet(w)
    BY <2>1, GetAccount
  <2>2. CASE WorkerReturn(w)
    BY <2>2, FinishAccount DEF WorkerReturn, Final
  <2>3. CASE WorkerRaise(w)
    BY <2>3, FinishAccount DEF WorkerRaise, Final
  <2>4. CASE WorkerStopped(w) /\ Running(w)
    BY <2>4, FinishAccount DEF WorkerStopped, Final
  <2>5. CASE WorkerStopped(w) /\ ~Running(w)
    <3>1. /\ UNCHANGED <<made, jobs, object, queue, finished, waiter>> /\ phase' = phase
          /\ worker' = [worker EXCEPT ![w] = Gone]
      BY <2>5 DEF WorkerStopped, names
    <3>2. \A v \in Workers : worker'[v] = IF v = w THEN Gone ELSE worker[v]
      BY <3>1 DEF AccountInv, TypeInv, Types
    <3>3. phase' = "off" => \A v \in Workers : worker'[v] = Gone
      BY <3>1, <3>2 DEF AccountInv, HeldOK
    <3>4. \A v \in Workers : Running(v) => worker'[v] = worker[v]
      BY <2>5, <3>2
    <3>5. QED BY <1>0, <1>1, <3>1, <3>3, <3>4
  <2>6. QED BY <1>5, <2>1, <2>2, <2>3, <2>4, <2>5 DEF Worker
<1>6. ASSUME NEW x \in Waiters,
             WaitReturns(x) \/ WaitTimesOut(x) \/ \E i \in Ids : Wait(x, i)
      PROVE  AccountInv'
  <2>1. /\ UNCHANGED <<made, jobs, object, queue, finished, worker>> /\ phase' = phase
        /\ \E v \in 0..MaxSubmits : v <= made /\ waiter' = [waiter EXCEPT ![x] = v]
    BY <1>0, <1>6, JobQueueAssumption
       DEF WaitReturns, WaitTimesOut, Wait, names, lanes
  <2>2. /\ waiter' \in [Waiters -> 0..MaxSubmits]
        /\ \A y \in Waiters : waiter'[y] <= made
    BY <1>0, <2>1
  <2>3. phase' = "off" => \A w \in Workers : worker'[w] = Gone
    BY <2>1 DEF AccountInv, HeldOK
  <2>4. QED BY <1>1, <2>1, <2>2, <2>3
<1>7. QED
  BY <1>2, <1>3, <1>4, <1>5, <1>6, SubmitAccount, CancelAccount DEF Next

\* Whatever ids are submitted again: a queued job waits in the queue, a running
\* one is held by a lane, a final state has set the done event, and no cancelled
\* job is reported as done (cancel, purge_finished, stop and start).
THEOREM NothingIsLost == Spec => []Accounted
<1>1. AccountInv => Accounted
  BY AccountGives
<1>2. QED BY <1>1, InitAccount, NextAccount, PTL DEF Spec
----------------------------------------------------------------------------
(***************************************************************************)
(* The position of a queued job, computed from _order.                     *)
(***************************************************************************)

\* _order names each known job once, in the order of the queue.
OrderOK ==
    /\ order \in Seq(Ids)
    /\ \A m, n \in 1..Len(order) : order[m] = order[n] => m = n
    /\ \A n \in 1..Len(order) : \E o \in 1..made : object[o].id = order[n]
    /\ \A i \in Ids : jobs[i] # 0 => InSeq(i, order)
    /\ \A m, n \in 1..Len(order), p, q \in 1..Len(queue) :
         order[m] = queue[p] /\ order[n] = queue[q] /\ m < n => p < q

PositionInv == OnceInv /\ AccountInv /\ OrderOK

QueuedId(i) == jobs[i] # 0 /\ object[jobs[i]].state = "queued"

\* The queued ids before one in _order are those before it in the queue.
LEMMA PositionGives == PositionInv => PositionExact
<1> SUFFICES ASSUME PositionInv, NEW i \in Ids, QueuedId(i)
             PROVE  LET first == CHOOSE k \in 1..Len(queue) :
                                   queue[k] = i /\ \A n \in 1..(k - 1) : queue[n] # i
                    IN Position(i) = Cardinality({n \in 1..(first - 1) :
                         jobs[queue[n]] # 0 /\ object[jobs[queue[n]]].state = "queued"})
  BY DEF PositionExact, QueuedId
<1>1. /\ order \in Seq(Ids) /\ Len(order) \in Nat /\ queue \in Seq(Ids) /\ Len(queue) \in Nat
      /\ \A n \in 1..Len(order) : order[n] \in Ids
      /\ \A n \in 1..Len(queue) : queue[n] \in Ids
  <2>1. order \in Seq(Ids) /\ queue \in Seq(Ids)
    BY DEF PositionInv, OrderOK, OnceInv, TypeInv, Types
  <2>2. QED BY <2>1
<1>2. ASSUME NEW k \in Ids, QueuedId(k)
      PROVE  /\ \E m \in 1..Len(order) : order[m] = k
             /\ \E p \in 1..Len(queue) : queue[p] = k
  BY <1>2 DEF PositionInv, OrderOK, AccountInv, WaitingOK, QueuedId, InSeq
<1>3. PICK k0 \in 1..Len(order) : order[k0] = i
  BY <1>2
<1>4. PICK p0 \in 1..Len(queue) : queue[p0] = i
  BY <1>2
<1>5. /\ \A m, n \in 1..Len(order) : order[m] = order[n] => m = n
      /\ \A p, q \in 1..Len(queue) : queue[p] = queue[q] => p = q
      /\ \A m, n \in 1..Len(order), p, q \in 1..Len(queue) :
           order[m] = queue[p] /\ order[n] = queue[q] /\ m < n => p < q
  BY DEF PositionInv, OrderOK, OnceInv, QueueOK
<1>6. (CHOOSE k \in 1..Len(queue) : queue[k] = i /\ \A n \in 1..(k - 1) : queue[n] # i) = p0
  <2>1. \A n \in 1..(p0 - 1) : queue[n] # i
    <3> SUFFICES ASSUME NEW n \in 1..(p0 - 1) PROVE queue[n] # i
      OBVIOUS
    <3>1. n \in 1..Len(queue) /\ n # p0
      BY <1>1
    <3>2. QED BY <1>4, <1>5, <3>1
  <2>2. \A k \in 1..Len(queue) : queue[k] = i => k = p0
    BY <1>4, <1>5
  <2>3. QED BY <1>4, <2>1, <2>2
<1> DEFINE A == {k \in 1..Len(order) : QueuedId(order[k]) /\ \A n \in 1..k : order[n] # i}
           B == {n \in 1..(p0 - 1) : QueuedId(queue[n])}
           f == [k \in A |-> CHOOSE p \in 1..Len(queue) : queue[p] = order[k]]
<1>7. Position(i) = Cardinality(A)
  BY DEF Position, QueuedId
<1>8. \A k \in 1..Len(order) : k < k0 <=> \A n \in 1..k : order[n] # i
  <2>1. ASSUME NEW k \in 1..Len(order), k < k0, NEW n \in 1..k PROVE order[n] # i
    <3>1. n \in 1..Len(order) /\ n # k0
      BY <1>1, <2>1
    <3>2. QED BY <1>3, <1>5, <3>1
  <2>2. ASSUME NEW k \in 1..Len(order), ~(k < k0) PROVE k0 \in 1..k
    BY <1>1, <2>2
  <2>3. QED BY <1>3, <2>1, <2>2
<1>9. ASSUME NEW k \in A
      PROVE  f[k] \in 1..Len(queue) /\ queue[f[k]] = order[k] /\ f[k] \in B
  <2>1. k \in 1..Len(order) /\ QueuedId(order[k]) /\ k < k0 /\ order[k] \in Ids
    BY <1>1, <1>8
  <2>2. \E p \in 1..Len(queue) : queue[p] = order[k]
    BY <1>2, <2>1
  <2>3. f[k] \in 1..Len(queue) /\ queue[f[k]] = order[k]
    BY <2>2
  <2> HIDE DEF f
  <2>4. f[k] < p0
    BY <1>3, <1>4, <1>5, <2>1, <2>3
  <2>5. f[k] \in 1..(p0 - 1)
    BY <1>1, <2>3, <2>4
  <2>6. QED BY <2>1, <2>3, <2>5
<1>10. f \in [A -> B]
  <2>1. f = [k \in A |-> f[k]]
    OBVIOUS
  <2> HIDE DEF f, A, B
  <2>2. QED BY <1>9, <2>1
<1>11. ASSUME NEW a \in A, NEW b \in A, f[a] = f[b] PROVE a = b
  <2>1. a \in 1..Len(order) /\ b \in 1..Len(order)
    OBVIOUS
  <2>2. queue[f[a]] = order[a] /\ queue[f[b]] = order[b]
    BY <1>9
  <2> HIDE DEF f, A
  <2>3. QED BY <1>5, <1>11, <2>1, <2>2
<1>12. ASSUME NEW n \in B PROVE \E k \in A : f[k] = n
  <2>1. n \in 1..Len(queue) /\ n < p0 /\ QueuedId(queue[n]) /\ queue[n] \in Ids
    BY <1>1
  <2>2. PICK k \in 1..Len(order) : order[k] = queue[n]
    BY <1>2, <2>1
  <2>3. k # k0
    BY <1>3, <1>4, <1>5, <2>1, <2>2
  <2>4. ~(k0 < k)
    <3>1. k0 < k => p0 < n
      BY <1>3, <1>4, <1>5, <2>1, <2>2
    <3>2. QED BY <1>1, <2>1, <3>1
  <2>5. k < k0
    BY <1>1, <2>3, <2>4
  <2>6. k \in A
    BY <1>8, <2>1, <2>2, <2>5
  <2>7. f[k] \in 1..Len(queue) /\ queue[f[k]] = order[k]
    BY <1>9, <2>6
  <2> HIDE DEF f, A, B
  <2>8. f[k] = n
    BY <1>5, <2>1, <2>2, <2>7
  <2>9. QED BY <2>6, <2>8
<1>13. IsFiniteSet(A)
  <2>1. \A n \in Nat : IsFiniteSet(1..n)
    BY FS_Interval
  <2>2. A \subseteq 1..Len(order) /\ IsFiniteSet(1..Len(order))
    BY <1>1, <2>1
  <2> HIDE DEF A
  <2>3. QED BY <2>2, FS_Subset
<1>14. Cardinality(A) = Cardinality(B)
  <2> HIDE DEF A, B, f
  <2>1. f \in Bijection(A, B)
    BY <1>10, <1>11, <1>12, Fun_IsBij
  <2>2. ExistsBijection(A, B)
    BY <2>1 DEF ExistsBijection
  <2>3. QED BY <1>13, <2>2, FS_Bijection
<1>15. B = {n \in 1..(p0 - 1) : jobs[queue[n]] # 0 /\ object[jobs[queue[n]]].state = "queued"}
  BY DEF QueuedId
<1> HIDE DEF A, B, f
<1>16. QED BY <1>6, <1>7, <1>14, <1>15

\* A step of the queue, of lanes or of waiters leaves _order alone.
LEMMA FrameOrder ==
    ASSUME OrderOK, queue \in Seq(Ids), UNCHANGED <<order, jobs, made>>,
           \A o \in 1..made : object'[o].id = object[o].id,
           queue' = queue \/ (queue # <<>> /\ queue' = Tail(queue))
    PROVE  OrderOK'
<1>1. \E d \in {0, 1} : \A p \in 1..Len(queue') : p + d \in 1..Len(queue)
                                                  /\ queue'[p] = queue[p + d]
  <2>1. CASE queue' = queue
    <3>1. \A p \in 1..Len(queue') : p + 0 \in 1..Len(queue) /\ queue'[p] = queue[p + 0]
      BY <2>1
    <3>2. QED BY <3>1
  <2>2. CASE queue # <<>> /\ queue' = Tail(queue)
    <3>1. Len(queue) \in Nat /\ Len(queue') = Len(queue) - 1
      BY <2>2
    <3>2. \A p \in 1..Len(queue') : p + 1 \in 1..Len(queue)
      BY <3>1
    <3>3. \A p \in 1..Len(queue') : queue'[p] = queue[p + 1]
      BY <2>2, HeadTailProperties
    <3>4. QED BY <3>2, <3>3
  <2>3. QED BY <2>1, <2>2
<1>2. PICK d \in {0, 1} : \A p \in 1..Len(queue') : p + d \in 1..Len(queue)
                                                    /\ queue'[p] = queue[p + d]
  BY <1>1
<1>3. ASSUME NEW m \in 1..Len(order), NEW n \in 1..Len(order),
             NEW p \in 1..Len(queue'), NEW q \in 1..Len(queue'),
             order[m] = queue'[p], order[n] = queue'[q], m < n
      PROVE  p < q
  <2>1. p + d < q + d
    BY <1>2, <1>3 DEF OrderOK
  <2>2. QED BY <2>1
<1>4. QED BY <1>3 DEF OrderOK

\* A fresh id is behind all others in both.
LEMMA SubmitOrder ==
    ASSUME OnceInv, OrderOK, ~ReuseIds, NEW i \in Ids, Submit(i) PROVE OrderOK'
<1>1. /\ made' = made + 1 /\ made \in Nat /\ object'[made + 1] = NewJob(i)
      /\ \A o \in 1..made : object'[o] = object[o] /\ o \in 1..made'
  BY SubmitObjects DEF OnceInv
<1>2. /\ order' = Append(order, i) /\ queue' = Append(queue, i)
      /\ jobs' = [jobs EXCEPT ![i] = made + 1]
      /\ \A o \in 1..made : object[o].id # i
  BY DEF Submit
<1>3. /\ order \in Seq(Ids) /\ queue \in Seq(Ids) /\ jobs \in [Ids -> 0..MaxSubmits]
  BY DEF OrderOK, OnceInv, TypeInv, Types
<1>4. /\ Len(order) \in Nat /\ Len(order') = Len(order) + 1 /\ order'[Len(order) + 1] = i
      /\ \A n \in 1..Len(order) : order'[n] = order[n]
      /\ order' \in Seq(Ids)
  BY <1>2, <1>3
<1>5. /\ Len(queue) \in Nat /\ Len(queue') = Len(queue) + 1 /\ queue'[Len(queue) + 1] = i
      /\ \A n \in 1..Len(queue) : queue'[n] = queue[n]
  BY <1>2, <1>3
<1>6. \A n \in 1..Len(order) : order[n] # i
  BY <1>2 DEF OrderOK
<1>7. \A n \in 1..Len(queue) : queue[n] # i
  BY <1>2 DEF OnceInv, QueueOK
<1>8. /\ \A n \in 1..Len(order') : n = Len(order) + 1 \/ n \in 1..Len(order)
      /\ \A n \in 1..Len(queue') : n = Len(queue) + 1 \/ n \in 1..Len(queue)
  BY <1>4, <1>5
<1>9. \A m, n \in 1..Len(order') : order'[m] = order'[n] => m = n
  BY <1>4, <1>6, <1>8 DEF OrderOK
<1>10. ASSUME NEW n \in 1..Len(order') PROVE \E o \in 1..made' : object'[o].id = order'[n]
  <2>1. CASE n = Len(order) + 1
    <3>1. made + 1 \in 1..made' /\ object'[made + 1].id = i
      BY <1>1 DEF NewJob
    <3>2. QED BY <1>4, <2>1, <3>1
  <2>2. CASE n \in 1..Len(order)
    BY <1>1, <1>4, <2>2 DEF OrderOK
  <2>3. QED BY <1>8, <2>1, <2>2
<1>11. ASSUME NEW k \in Ids, jobs'[k] # 0 PROVE InSeq(k, order')
  <2>1. CASE k = i
    <3>1. Len(order) + 1 \in 1..Len(order')
      BY <1>4
    <3>2. QED BY <1>4, <2>1, <3>1 DEF InSeq
  <2>2. CASE k # i
    <3>1. jobs[k] # 0
      BY <1>2, <1>3, <1>11, <2>2
    <3>2. PICK n \in 1..Len(order) : order[n] = k
      BY <3>1 DEF OrderOK, InSeq
    <3>3. n \in 1..Len(order')
      BY <1>4
    <3>4. QED BY <1>4, <3>2, <3>3 DEF InSeq
  <2>3. QED BY <2>1, <2>2
<1>12. ASSUME NEW m \in 1..Len(order'), NEW n \in 1..Len(order'),
              NEW p \in 1..Len(queue'), NEW q \in 1..Len(queue'),
              order'[m] = queue'[p], order'[n] = queue'[q], m < n
       PROVE  p < q
  <2>1. m \in 1..Len(order) /\ order'[m] = order[m]
    BY <1>4, <1>8, <1>12
  <2>2. p \in 1..Len(queue) /\ queue'[p] = queue[p]
    BY <1>5, <1>6, <1>8, <1>12, <2>1
  <2>3. CASE n = Len(order) + 1
    <3>1. q = Len(queue) + 1
      BY <1>4, <1>5, <1>7, <1>8, <1>12, <2>3
    <3>2. QED BY <1>5, <2>2, <3>1
  <2>4. CASE n \in 1..Len(order)
    <3>1. q \in 1..Len(queue) /\ queue'[q] = queue[q]
      BY <1>4, <1>5, <1>6, <1>8, <1>12, <2>4
    <3>2. order[m] = queue[p] /\ order[n] = queue[q]
      BY <1>4, <1>12, <2>1, <2>2, <2>4, <3>1
    <3>3. QED BY <1>12, <2>1, <2>2, <2>4, <3>1, <3>2 DEF OrderOK
  <2>5. QED BY <1>8, <2>3, <2>4
<1>13. QED BY <1>4, <1>9, <1>10, <1>11, <1>12 DEF OrderOK

\* purge_finished keeps the order of what it keeps, and keeps every known id.
LEMMA PurgeOrder == ASSUME OnceInv, OrderOK, NEW cutoff, Purge(cutoff) PROVE OrderOK'
<1> DEFINE Old(i) == /\ jobs[i] # 0
                     /\ object[jobs[i]].state \in Final
                     /\ object[jobs[i]].finishedAt <= cutoff
           kept   == {k \in 1..Len(order) : jobs[order[k]] # 0 /\ ~Old(order[k])}
<1>1. PICK g \in [1..Cardinality(kept) -> kept] :
        Lists(g, kept) /\ order' = [m \in DOMAIN g |-> order[g[m]]]
  BY DEF Purge
<1>2. /\ UNCHANGED <<made, object, queue>>
      /\ \A i \in Ids : jobs'[i] # 0 => jobs[i] # 0 /\ ~Old(i)
  BY DEF Purge
<1>3. /\ Len(order) \in Nat /\ kept \subseteq 1..Len(order) /\ order \in Seq(Ids)
      /\ \A k \in 1..Len(order) : order[k] \in Ids
  BY DEF OrderOK
<1>4. \A k \in 1..Len(order) : jobs[order[k]] # 0 /\ ~Old(order[k]) => k \in kept
  OBVIOUS
<1> HIDE DEF kept, Old
<1>5. IsFiniteSet(kept)
  <2>1. \A n \in Nat : IsFiniteSet(1..n)
    BY FS_Interval
  <2>2. QED BY <1>3, <2>1, FS_Subset
<1>6. PICK N \in Nat : N = Cardinality(kept)
  BY <1>5, FS_CardinalityType
<1>7. /\ DOMAIN g = 1..N /\ \A m \in 1..N : g[m] \in 1..Len(order)
      /\ \A k \in kept : \E m \in 1..N : g[m] = k
      /\ \A m, n \in 1..N : m < n => g[m] < g[n]
  BY <1>1, <1>3, <1>6 DEF Lists
<1>8. /\ order' = [m \in 1..N |-> order[g[m]]]
      /\ order' \in Seq(Ids) /\ Len(order') = N
      /\ \A m \in 1..N : order'[m] = order[g[m]]
  <2>1. order' = [m \in 1..N |-> order[g[m]]]
    BY <1>1, <1>7
  <2>2. \A m \in 1..N : order[g[m]] \in Ids
    BY <1>3, <1>7
  <2>3. order' \in [1..N -> Ids]
    BY <2>1, <2>2
  <2>4. QED BY <1>6, <2>1, <2>3
<1>9. ASSUME NEW m \in 1..N, NEW n \in 1..N, order'[m] = order'[n] PROVE m = n
  <2>1. g[m] = g[n]
    BY <1>7, <1>8, <1>9 DEF OrderOK
  <2>2. ~(m < n) /\ ~(n < m)
    <3>1. g[m] \in Nat
      BY <1>7
    <3>2. QED BY <1>7, <2>1, <3>1
  <2>3. QED BY <1>6, <2>2
<1>10. ASSUME NEW i \in Ids, jobs'[i] # 0 PROVE InSeq(i, order')
  <2>1. PICK k \in 1..Len(order) : order[k] = i
    BY <1>2, <1>10 DEF OrderOK, InSeq
  <2>2. k \in kept
    BY <1>2, <1>4, <1>10, <2>1
  <2>3. PICK m \in 1..N : g[m] = k
    BY <1>7, <2>2
  <2>4. QED BY <1>8, <2>1, <2>3 DEF InSeq
<1>11. ASSUME NEW m \in 1..N, NEW n \in 1..N,
              NEW p \in 1..Len(queue), NEW q \in 1..Len(queue),
              order'[m] = queue[p], order'[n] = queue[q], m < n
       PROVE  p < q
  BY <1>7, <1>8, <1>11 DEF OrderOK
<1>12. \A n \in 1..N : \E o \in 1..made : object[o].id = order'[n]
  BY <1>7, <1>8 DEF OrderOK
<1>13. QED BY <1>2, <1>8, <1>9, <1>10, <1>11, <1>12 DEF OrderOK

\* A job keeps its id.
LEMMA IdStays ==
    ASSUME TypeInv, NEW w \in Workers, Worker(w) PROVE \A o \in 1..made : object'[o].id = object[o].id
<1>1. \A o \in 1..made : object[o] \in Job
  BY DEF TypeInv, Types
<1>2. ASSUME NEW p, NEW s, Finish(p, s) PROVE \A o \in 1..made : object'[o].id = object[o].id
  BY <1>1, <1>2 DEF Finish, TypeInv, Types, Job
<1>3. CASE WorkerGet(w)
  <2>1. CASE UNCHANGED object
    BY <2>1
  <2>2. ASSUME NEW p, object' = [object EXCEPT ![p].state = "running", ![p].runs = @ + 1]
        PROVE  \A o \in 1..made : object'[o].id = object[o].id
    <3> SUFFICES ASSUME NEW o \in 1..made PROVE object'[o].id = object[o].id
      OBVIOUS
    <3>1. object \in [1..made -> Job] /\ object[o] \in Job
      BY <1>1 DEF TypeInv, Types
    <3>2. CASE o # p
      BY <2>2, <3>1, <3>2
    <3>3. CASE o = p
      <4>1. object'[o] = [object[o] EXCEPT !.state = "running", !.runs = @ + 1]
        BY <2>2, <3>1, <3>3
      <4>2. QED BY <3>1, <4>1 DEF Job
    <3>4. QED BY <3>2, <3>3
  <2>3. QED BY <1>3, <2>1, <2>2 DEF WorkerGet
<1>4. QED
  BY <1>2, <1>3 DEF Worker, WorkerReturn, WorkerRaise, WorkerStopped

LEMMA NextOrder ==
    ASSUME PositionInv, ~ReuseIds, [Next]_vars PROVE OrderOK'
<1>0. TypeInv /\ OnceInv /\ OrderOK /\ queue \in Seq(Ids)
  BY DEF PositionInv, OnceInv, TypeInv, Types
<1>1. CASE Start \/ Stop \/ StopReturns \/ UNCHANGED vars
  <2>1. UNCHANGED <<order, jobs, made, object, queue>>
    BY <1>1 DEF Start, Stop, StopReturns, vars, names
  <2>2. QED BY <1>0, <2>1, FrameOrder
<1>2. ASSUME NEW i \in Ids, Cancel(i) PROVE OrderOK'
  <2>1. UNCHANGED <<order, jobs, made, queue>>
    BY <1>2 DEF Cancel, names
  <2>2. \A o \in 1..made : object[o] \in Job
    BY <1>0 DEF TypeInv, Types
  <2>3. ASSUME NEW p, \/ object' = [object EXCEPT ![p].state = "cancelled",
                              ![p].cancelled = TRUE, ![p].done = TRUE,
                              ![p].finishedAt = finished + 1]
                      \/ object' = [object EXCEPT ![p].cancelled = TRUE]
        PROVE  \A o \in 1..made : object'[o].id = object[o].id
    <3> SUFFICES ASSUME NEW o \in 1..made PROVE object'[o].id = object[o].id
      OBVIOUS
    <3>1. object \in [1..made -> Job] /\ object[o] \in Job
      BY <1>0, <2>2 DEF TypeInv, Types
    <3>2. CASE o # p
      BY <2>3, <3>1, <3>2
    <3>3. CASE o = p
      <4>1. \/ object'[o] = [object[o] EXCEPT !.state = "cancelled",
                  !.cancelled = TRUE, !.done = TRUE, !.finishedAt = finished + 1]
            \/ object'[o] = [object[o] EXCEPT !.cancelled = TRUE]
        BY <2>3, <3>1, <3>3
      <4>2. QED BY <3>1, <4>1 DEF Job
    <3>4. QED BY <3>2, <3>3
  <2>4. \A o \in 1..made : object'[o].id = object[o].id
    BY <1>2, <2>3 DEF Cancel
  <2>5. QED BY <1>0, <2>1, <2>4, FrameOrder
<1>3. ASSUME NEW w \in Workers, Worker(w) PROVE OrderOK'
  <2>1. /\ UNCHANGED <<order, jobs, made>>
        /\ queue' = queue \/ (queue # <<>> /\ queue' = Tail(queue))
    BY <1>3 DEF Worker, WorkerGet, WorkerReturn, WorkerRaise, WorkerStopped, names
  <2>2. QED BY <1>0, <1>3, <2>1, IdStays, FrameOrder
<1>4. ASSUME NEW x \in Waiters,
             WaitReturns(x) \/ WaitTimesOut(x) \/ \E i \in Ids : Wait(x, i)
      PROVE  OrderOK'
  <2>1. UNCHANGED <<order, jobs, made, object, queue>>
    BY <1>4 DEF WaitReturns, WaitTimesOut, Wait, names
  <2>2. QED BY <1>0, <2>1, FrameOrder
<1>5. QED BY <1>0, <1>1, <1>2, <1>3, <1>4, SubmitOrder, PurgeOrder DEF Next

\* As long as no id is submitted twice, position tells how many jobs the lanes
\* will really take before this one, although it counts along _order, which
\* purge_finished rewrites, and the lanes take from the queue.
THEOREM PositionIsExact == ASSUME ~ReuseIds PROVE Spec => []PositionExact
<1>1. Init => PositionInv
  <2>1. Init => OrderOK
    BY DEF Init, OrderOK
  <2>2. QED BY <2>1, InitOnce, InitAccount DEF PositionInv
<1>2. PositionInv /\ [Next]_vars => PositionInv'
  BY NextOnce, NextAccount, NextOrder DEF PositionInv
<1>3. QED BY <1>1, <1>2, PositionGives, PTL DEF Spec

----------------------------------------------------------------------------
(***************************************************************************)
(* The queue and its lanes implement FifoService.                          *)
(***************************************************************************)

\* A job that has not ended is known, and the ids in the queue denote jobs in
\* the order of their submission.
ArrivalOK ==
    /\ \A o \in 1..made : object[o].state \notin Final => jobs[object[o].id] = o
    /\ \A m, n \in 1..Len(queue) :
         m < n /\ jobs[queue[m]] # 0 /\ jobs[queue[n]] # 0
           => jobs[queue[m]] < jobs[queue[n]]

ServiceInv == OnceInv /\ AccountInv /\ ArrivalOK

\* The state of FifoService that the queue shows.
Phases == [o \in Objects |-> IF o > made THEN "absent" ELSE object[o].state]
Served == [w \in Workers |-> IF Running(w) THEN worker[w].obj ELSE 0]

\* What a step that moves one existing job from a state to another does to it.
LEMMA PhaseMoves ==
    ASSUME Types, made' = made, NEW o \in 1..made, NEW s,
           \A k \in 1..made : object'[k].state = IF k = o THEN s ELSE object[k].state
    PROVE  Phases' = [Phases EXCEPT ![o] = s] /\ o \in Objects
<1>1. made \in Nat /\ 1..made \subseteq Objects
  BY JobQueueAssumption DEF Types, Objects
<1>2. \A k \in Objects : k > made \/ k \in 1..made
  BY <1>1, JobQueueAssumption DEF Objects
<1>3. ASSUME NEW k \in Objects PROVE Phases'[k] = [Phases EXCEPT ![o] = s][k]
  <2>1. CASE k > made
    <3>1. k # o
      BY <1>1, <2>1
    <3>2. QED BY <2>1, <3>1 DEF Phases
  <2>2. CASE k \in 1..made
    <3>1. ~(k > made)
      BY <1>1, <2>2
    <3>2. QED BY <2>2, <3>1 DEF Phases
  <2>3. QED BY <1>2, <2>1, <2>2
<1>4. QED BY <1>1, <1>3 DEF Phases

\* The lane of a worker that takes or leaves a job.
LEMMA LaneMoves ==
    ASSUME Types, NEW w \in Workers, NEW v, worker' = [worker EXCEPT ![w] = v],
           NEW j, j = IF v.obj > 0 THEN v.obj ELSE 0
    PROVE  Served' = [Served EXCEPT ![w] = j]
<1>1. \A u \in Workers : worker'[u] = IF u = w THEN v ELSE worker[u]
  BY DEF Types
<1>2. \A u \in Workers : Served'[u] = [Served EXCEPT ![w] = j][u]
  BY <1>1 DEF Served, Running
<1>3. QED BY <1>2 DEF Served

----------------------------------------------------------------------------
\* submit: the job is known and behind all others.
LEMMA SubmitServes ==
    ASSUME ServiceInv, ~ReuseIds, NEW i \in Ids, Submit(i)
    PROVE  ArrivalOK' /\ Service!Next
<1>1. /\ made' = made + 1 /\ made \in Nat /\ made + 1 \in 1..MaxSubmits
      /\ object'[made + 1] = NewJob(i)
      /\ \A o \in 1..made : object'[o] = object[o] /\ o \in 1..made'
  BY SubmitObjects DEF ServiceInv, OnceInv
<1>2. /\ queue' = Append(queue, i) /\ jobs' = [jobs EXCEPT ![i] = made + 1]
      /\ \A o \in 1..made : object[o].id # i
      /\ worker' = worker
  BY DEF Submit
<1>3. /\ jobs \in [Ids -> 0..MaxSubmits] /\ queue \in Seq(Ids)
      /\ \A k \in Ids : jobs[k] \in 0..made
      /\ \A o \in 1..made : object[o].id \in Ids
  BY JobFields DEF ServiceInv, OnceInv, TypeInv, Types, NamesOK
<1>4. \A o \in 1..made' : o = made + 1 \/ o \in 1..made
  BY <1>1
<1>5. ASSUME NEW o \in 1..made', object'[o].state \notin Final
      PROVE  jobs'[object'[o].id] = o
  <2>1. CASE o = made + 1
    BY <1>1, <1>2, <1>3, <2>1 DEF NewJob
  <2>2. CASE o \in 1..made
    BY <1>1, <1>2, <1>3, <1>5, <2>2 DEF ServiceInv, ArrivalOK
  <2>3. QED BY <1>4, <2>1, <2>2
<1>6. /\ Len(queue) \in Nat /\ Len(queue') = Len(queue) + 1 /\ queue'[Len(queue) + 1] = i
      /\ \A n \in 1..Len(queue) : queue'[n] = queue[n] /\ queue[n] \in Ids
      /\ \A n \in 1..Len(queue') : n = Len(queue) + 1 \/ n \in 1..Len(queue)
  BY <1>2, <1>3
<1>7. \A n \in 1..Len(queue) : queue[n] # i
  BY <1>2 DEF ServiceInv, OnceInv, QueueOK
<1>8. ASSUME NEW m \in 1..Len(queue'), NEW n \in 1..Len(queue'), m < n,
             jobs'[queue'[m]] # 0, jobs'[queue'[n]] # 0
      PROVE  jobs'[queue'[m]] < jobs'[queue'[n]]
  <2>1. m \in 1..Len(queue)
    BY <1>6, <1>8
  <2>2. /\ queue'[m] = queue[m] /\ jobs'[queue[m]] = jobs[queue[m]]
        /\ jobs[queue[m]] \in 0..made
    BY <1>2, <1>3, <1>6, <1>7, <2>1
  <2>3. CASE n = Len(queue) + 1
    <3>1. jobs'[queue'[n]] = made + 1
      BY <1>2, <1>3, <1>6, <2>3
    <3>2. QED BY <1>1, <2>2, <3>1
  <2>4. CASE n \in 1..Len(queue)
    <3>1. queue'[n] = queue[n] /\ jobs'[queue[n]] = jobs[queue[n]]
      BY <1>2, <1>3, <1>6, <1>7, <2>4
    <3>2. QED BY <1>8, <2>1, <2>2, <2>4, <3>1 DEF ServiceInv, ArrivalOK
  <2>5. QED BY <1>6, <2>3, <2>4
<1>9. \E j \in Objects : Service!Arrive(j)
  <2>0. PICK j \in Objects : j = made + 1
    BY <1>1 DEF Objects
  <2>1. /\ j > made
        /\ \A k \in Objects : k < j => k \in 1..made /\ ~(k > made)
        /\ \A k \in Objects : k \in 1..made \/ k = j \/ (k > j /\ k > made)
    BY <1>1, <2>0 DEF Objects
  <2>2. Phases[j] = "absent"
    BY <2>1 DEF Phases
  <2>3. \A k \in Objects : k < j => Phases[k] # "absent"
    BY <2>1, JobFields DEF Phases, State, Final, ServiceInv, OnceInv, TypeInv
  <2>4. ASSUME NEW k \in Objects PROVE Phases'[k] = [Phases EXCEPT ![j] = "queued"][k]
    <3>1. CASE k \in 1..made
      <4>1. k # j /\ ~(k > made) /\ ~(k > made')
        BY <1>1, <2>0, <3>1
      <4>2. QED BY <1>1, <3>1, <4>1 DEF Phases
    <3>2. CASE k = j
      <4>1. ~(k > made')
        BY <1>1, <2>0, <3>2
      <4>2. QED BY <1>1, <2>0, <3>2, <4>1 DEF Phases, NewJob
    <3>3. CASE k > j /\ k > made
      <4>1. k # j /\ k > made'
        BY <1>1, <2>0, <3>3
      <4>2. QED BY <3>3, <4>1 DEF Phases
    <3>4. QED BY <2>1, <3>1, <3>2, <3>3
  <2>5. Phases' = [Phases EXCEPT ![j] = "queued"]
    BY <2>4 DEF Phases
  <2>6. Served' = Served
    BY <1>2 DEF Served, Running
  <2>7. QED BY <2>2, <2>3, <2>5, <2>6 DEF Service!Arrive, Phases, Served
<1>10. Service!Next
  BY <1>9 DEF Service!Next, Objects
<1>11. QED BY <1>5, <1>8, <1>10 DEF ArrivalOK

\* cancel: a queued job is withdrawn, a running one goes on.
LEMMA CancelServes ==
    ASSUME ServiceInv, NEW i \in Ids, Cancel(i)
    PROVE  ArrivalOK' /\ [Service!Next]_<<Phases, Served>>
<1>1. PICK o \in 1..made : o = jobs[i]
  BY DEF Cancel, ServiceInv, OnceInv, TypeInv, Types, NamesOK
<1>2. /\ UNCHANGED <<made, jobs, queue, worker>>
      /\ \/ /\ object[o].state = "queued"
            /\ object' = [object EXCEPT ![o].state = "cancelled",
                             ![o].cancelled = TRUE, ![o].done = TRUE,
                             ![o].finishedAt = finished + 1]
         \/ /\ object[o].state = "running"
            /\ object' = [object EXCEPT ![o].cancelled = TRUE]
  BY <1>1 DEF Cancel, names
<1>3. object \in [1..made -> Job]
  BY DEF ServiceInv, OnceInv, TypeInv, Types
<1>4. PICK s : /\ s = IF object[o].state = "queued" THEN "cancelled" ELSE object[o].state
               /\ \A k \in 1..made :
                    /\ object'[k].state = IF k = o THEN s ELSE object[k].state
                    /\ object'[k].id = object[k].id
  <2>1. \A k \in 1..made : k # o => object'[k] = object[k]
    BY <1>2, <1>3
  <2>2. /\ object'[o].id = object[o].id
        /\ object'[o].state = IF object[o].state = "queued" THEN "cancelled"
                              ELSE object[o].state
    <3>1. \/ /\ object[o].state = "queued"
             /\ object'[o] = [object[o] EXCEPT !.state = "cancelled",
                                !.cancelled = TRUE, !.done = TRUE,
                                !.finishedAt = finished + 1]
          \/ /\ object[o].state = "running"
             /\ object'[o] = [object[o] EXCEPT !.cancelled = TRUE]
      BY <1>2, <1>3
    <3>2. object[o] \in Job
      BY <1>3
    <3>3. QED BY <3>1, <3>2 DEF Job
  <2>3. QED BY <2>1, <2>2
<1>5. ArrivalOK'
  BY <1>2, <1>4 DEF ServiceInv, ArrivalOK, Final
<1>6. Phases' = [Phases EXCEPT ![o] = s] /\ o \in Objects
  BY <1>2, <1>4, PhaseMoves DEF ServiceInv, OnceInv, TypeInv
<1>7. Served' = Served
  BY <1>2 DEF Served, Running
<1>8. Phases[o] = object[o].state
  BY <1>6, <1>1 DEF Phases, ServiceInv, OnceInv, TypeInv, Types
<1>9. CASE object[o].state = "queued"
  <2>1. Service!Withdraw(o)
    BY <1>4, <1>6, <1>7, <1>8, <1>9 DEF Service!Withdraw, Phases, Served
  <2>2. QED BY <1>5, <1>6, <2>1 DEF Service!Next, Objects
<1>10. CASE object[o].state # "queued"
  BY <1>4, <1>5, <1>6, <1>7, <1>8, <1>10 DEF Phases
<1>11. QED BY <1>9, <1>10

\* A lane that takes an id out of the queue serves the first job that waits.
LEMMA GetServes ==
    ASSUME ServiceInv, NEW w \in Workers, WorkerGet(w)
    PROVE  ArrivalOK' /\ [Service!Next]_<<Phases, Served>>
<1>1. /\ worker[w] = Waiting /\ queue # <<>> /\ queue' = Tail(queue)
      /\ UNCHANGED <<made, jobs>>
  BY DEF WorkerGet, names
<1>2. /\ queue \in Seq(Ids) /\ Len(queue) \in Nat /\ Len(queue) # 0
      /\ 1 \in 1..Len(queue) /\ Head(queue) = queue[1] /\ queue[1] \in Ids
      /\ Len(queue') = Len(queue) - 1
      /\ \A n \in 1..Len(queue') : queue'[n] = queue[n + 1] /\ n + 1 \in 1..Len(queue)
  <2>1. queue \in Seq(Ids)
    BY DEF ServiceInv, OnceInv, TypeInv, Types
  <2>2. QED BY <1>1, <2>1
<1>3. \A m, n \in 1..Len(queue') :
        m < n /\ jobs'[queue'[m]] # 0 /\ jobs'[queue'[n]] # 0
          => jobs'[queue'[m]] < jobs'[queue'[n]]
  BY <1>1, <1>2 DEF ServiceInv, ArrivalOK
<1>4. CASE UNCHANGED <<object, worker>>
  <2>1. ArrivalOK'
    BY <1>1, <1>3, <1>4 DEF ServiceInv, ArrivalOK
  <2>2. UNCHANGED <<Phases, Served>>
    BY <1>1, <1>4 DEF Phases, Served, Running
  <2>3. QED BY <2>1, <2>2 DEF Phases, Served
<1>5. CASE ~UNCHANGED <<object, worker>>
  <2>1. PICK o \in 1..made : o = jobs[queue[1]]
    BY <1>1, <1>2, <1>5 DEF WorkerGet, ServiceInv, OnceInv, TypeInv, Types, NamesOK
  <2>2. /\ object[o].state = "queued"
        /\ object' = [object EXCEPT ![o].state = "running", ![o].runs = @ + 1]
        /\ worker' = [worker EXCEPT ![w] = [obj |-> o]]
    <3>1. o # 0
      BY <2>1 DEF ServiceInv, OnceInv, TypeInv, Types
    <3>2. QED BY <1>1, <1>2, <1>5, <2>1, <3>1 DEF WorkerGet, ServiceInv, OnceInv, QueueOK
  <2>3. object \in [1..made -> Job] /\ made \in Nat
    BY JobQueueAssumption DEF ServiceInv, OnceInv, TypeInv, Types
  <2>4. \A k \in 1..made : /\ object'[k].state = IF k = o THEN "running" ELSE object[k].state
                           /\ object'[k].id = object[k].id
    <3>1. \A k \in 1..made : k # o => object'[k] = object[k]
      BY <2>2, <2>3
    <3>2. object'[o] = [object[o] EXCEPT !.state = "running", !.runs = @ + 1]
      BY <2>2, <2>3
    <3>3. object'[o].state = "running" /\ object'[o].id = object[o].id
      BY <2>3, <3>2 DEF Job
    <3>4. QED BY <3>1, <3>3
  <2>5. ArrivalOK'
    <3>1. \A k \in 1..made : object'[k].state \notin Final => jobs[object'[k].id] = k
      BY <2>2, <2>4 DEF ServiceInv, ArrivalOK, Final
    <3>2. QED BY <1>1, <1>3, <3>1 DEF ArrivalOK
  <2>6. Phases' = [Phases EXCEPT ![o] = "running"] /\ o \in Objects
    BY <1>1, <2>4, PhaseMoves DEF ServiceInv, OnceInv, TypeInv
  <2>7. Served' = [Served EXCEPT ![w] = o] /\ Served[w] = 0
    <3>1. o = IF [obj |-> o].obj > 0 THEN [obj |-> o].obj ELSE 0
      BY <2>3
    <3>2. Types
      BY DEF ServiceInv, OnceInv, TypeInv
    <3>3. Served' = [Served EXCEPT ![w] = o]
      BY <2>2, <3>1, <3>2, LaneMoves
    <3>4. QED BY <1>1, <3>3 DEF Served, Running, Waiting
  <2>8. Phases[o] = "queued"
    BY <2>2, <2>3, <2>6 DEF Phases
  <2>9. ASSUME NEW k \in Objects, k < o PROVE Phases[k] # "queued"
    <3>1. k \in 1..made /\ ~(k > made)
      BY <2>3, <2>6, <2>9 DEF Objects
    <3> SUFFICES ASSUME object[k].state = "queued" PROVE FALSE
      BY <3>1 DEF Phases
    <3>2. object[k].id \in Ids /\ jobs[object[k].id] = k
      BY <3>1, JobFields DEF ServiceInv, OnceInv, TypeInv, ArrivalOK, Final
    <3>3. k # 0
      BY <3>1, <2>3
    <3>4. PICK n \in 1..Len(queue) : queue[n] = object[k].id
      BY <3>2, <3>3 DEF ServiceInv, AccountInv, WaitingOK, InSeq
    <3>5. n # 1
      BY <2>1, <2>3, <2>9, <3>1, <3>2, <3>4
    <3>6. o < k
      BY <1>2, <2>1, <2>3, <3>2, <3>3, <3>4, <3>5 DEF ServiceInv, ArrivalOK
    <3>7. QED BY <2>3, <2>9, <3>1, <3>6
  <2>10. Service!Serve(w, o)
    BY <2>6, <2>7, <2>8, <2>9 DEF Service!Serve, Phases, Served
  <2>11. QED BY <2>5, <2>6, <2>10 DEF Service!Next, Objects
<1>6. QED BY <1>4, <1>5

\* A lane whose job ends leaves it.
LEMMA FinishServes ==
    ASSUME ServiceInv, NEW w \in Workers, Running(w), NEW s \in Final,
           Finish(worker[w].obj, s), UNCHANGED <<made, jobs, queue>>,
           NEW v \in {Waiting, Gone}, worker' = [worker EXCEPT ![w] = v]
    PROVE  ArrivalOK' /\ Service!Next
<1>1. PICK o \in 1..made : o = worker[w].obj
  BY LaneType DEF ServiceInv, OnceInv
<1>2. object \in [1..made -> Job] /\ made \in Nat /\ Types
  BY JobQueueAssumption DEF ServiceInv, OnceInv, TypeInv, Types
<1>3. \A k \in 1..made : /\ object'[k].state = IF k = o THEN s ELSE object[k].state
                         /\ object'[k].id = object[k].id
  <2>1. \A k \in 1..made : k # o => object'[k] = object[k]
    BY <1>1, <1>2 DEF Finish
  <2>2. object'[o] = [object[o] EXCEPT !.state = s, !.done = TRUE,
                                       !.finishedAt = finished + 1]
    BY <1>1, <1>2 DEF Finish
  <2>3. object'[o].state = s /\ object'[o].id = object[o].id
    BY <1>2, <2>2 DEF Job
  <2>4. QED BY <2>1, <2>3
<1>4. ArrivalOK'
  BY <1>3 DEF ServiceInv, ArrivalOK
<1>5. Phases' = [Phases EXCEPT ![o] = s] /\ o \in Objects
  BY <1>2, <1>3, PhaseMoves
<1>6. Served' = [Served EXCEPT ![w] = 0] /\ Served[w] = o /\ o # 0
  <2>1. 0 = IF v.obj > 0 THEN v.obj ELSE 0
    BY DEF Waiting, Gone
  <2>2. Served' = [Served EXCEPT ![w] = 0]
    BY <1>2, <2>1, LaneMoves
  <2>3. QED BY <1>1, <1>2, <2>2 DEF Served
<1>7. Service!Leave(w, s)
  BY <1>5, <1>6 DEF Service!Leave, Phases, Served
<1>8. QED BY <1>4, <1>7 DEF Service!Next

\* What neither moves a job nor a lane.
LEMMA FrameServes ==
    ASSUME ServiceInv, UNCHANGED <<made, object, queue>>,
           \A i \in Ids : \/ jobs'[i] = jobs[i]
                          \/ /\ jobs[i] # 0 /\ jobs'[i] = 0
                             /\ object[jobs[i]].state \in Final,
           \A w \in Workers : \/ worker'[w] = worker[w]
                              \/ ~Running(w) /\ worker'[w] \in {Waiting, Gone}
    PROVE  ArrivalOK' /\ UNCHANGED <<Phases, Served>>
<1>1. queue \in Seq(Ids) /\ \A n \in 1..Len(queue) : queue[n] \in Ids
  <2>1. queue \in Seq(Ids)
    BY DEF ServiceInv, OnceInv, TypeInv, Types
  <2>2. QED BY <2>1
<1>2. \A o \in 1..made : object[o].state \notin Final => jobs'[object[o].id] = o
  BY JobFields DEF ServiceInv, OnceInv, TypeInv, ArrivalOK
<1>3. \A m, n \in 1..Len(queue) :
        m < n /\ jobs'[queue[m]] # 0 /\ jobs'[queue[n]] # 0
          => jobs'[queue[m]] < jobs'[queue[n]]
  BY <1>1 DEF ServiceInv, ArrivalOK
<1>4. Phases' = Phases
  BY DEF Phases
<1>5. \A w \in Workers : (IF Running(w) THEN worker[w].obj ELSE 0)' = (IF Running(w) THEN worker[w].obj ELSE 0)
  BY DEF Running, Waiting, Gone
<1>6. QED BY <1>2, <1>3, <1>4, <1>5 DEF ArrivalOK, Served

\* Every step of the queue is a step of FifoService or none.
LEMMA NextServes ==
    ASSUME ServiceInv, ~ReuseIds, [Next]_vars
    PROVE  ArrivalOK' /\ [Service!Next]_<<Phases, Served>>
<1>0. HeldOK /\ TypeInv /\ \A i \in Ids : jobs[i] \in 0..MaxSubmits
  BY DEF ServiceInv, AccountInv, OnceInv, TypeInv, Types
<1>1. CASE Start \/ Stop \/ StopReturns \/ UNCHANGED vars
  <2>1. /\ UNCHANGED <<made, jobs, object, queue>>
        /\ \/ worker' = worker
           \/ phase = "off" /\ worker' = [w \in Workers |-> Waiting]
    BY <1>1 DEF Start, Stop, StopReturns, vars, names, lanes
  <2>2. \A w \in Workers : \/ worker'[w] = worker[w]
                           \/ ~Running(w) /\ worker'[w] \in {Waiting, Gone}
    BY <1>0, <2>1 DEF HeldOK, Running, Gone
  <2>3. QED BY <2>1, <2>2, FrameServes
<1>2. ASSUME NEW i \in Ids, Submit(i)
      PROVE  ArrivalOK' /\ [Service!Next]_<<Phases, Served>>
  BY <1>2, SubmitServes
<1>3. ASSUME NEW i \in Ids, Cancel(i)
      PROVE  ArrivalOK' /\ [Service!Next]_<<Phases, Served>>
  BY <1>3, CancelServes
<1>4. ASSUME NEW cutoff, Purge(cutoff)
      PROVE  ArrivalOK' /\ [Service!Next]_<<Phases, Served>>
  <2>1. /\ UNCHANGED <<made, object, queue, worker>>
        /\ \A i \in Ids : \/ jobs'[i] = jobs[i]
                          \/ /\ jobs[i] # 0 /\ jobs'[i] = 0
                             /\ object[jobs[i]].state \in Final
    BY <1>4 DEF Purge
  <2>2. QED BY <2>1, FrameServes
<1>5. ASSUME NEW w \in Workers, Worker(w)
      PROVE  ArrivalOK' /\ [Service!Next]_<<Phases, Served>>
  <2>1. CASE WorkerGet(w)
    BY <2>1, GetServes
  <2>2. CASE WorkerReturn(w)
    BY <2>2, FinishServes DEF WorkerReturn, Final, names
  <2>3. CASE WorkerRaise(w)
    BY <2>3, FinishServes DEF WorkerRaise, Final, names
  <2>4. CASE WorkerStopped(w) /\ Running(w)
    BY <2>4, FinishServes DEF WorkerStopped, Final, names
  <2>5. CASE WorkerStopped(w) /\ ~Running(w)
    <3>1. /\ UNCHANGED <<made, jobs, object, queue>>
          /\ \A u \in Workers : \/ worker'[u] = worker[u]
                                \/ ~Running(u) /\ worker'[u] \in {Waiting, Gone}
      BY <1>0, <2>5 DEF WorkerStopped, names, TypeInv, Types
    <3>2. QED BY <3>1, FrameServes
  <2>6. QED BY <1>5, <2>1, <2>2, <2>3, <2>4, <2>5 DEF Worker
<1>6. ASSUME NEW x \in Waiters,
             WaitReturns(x) \/ WaitTimesOut(x) \/ \E i \in Ids : Wait(x, i)
      PROVE  ArrivalOK' /\ [Service!Next]_<<Phases, Served>>
  <2>1. UNCHANGED <<made, jobs, object, queue, worker>>
    BY <1>6 DEF WaitReturns, WaitTimesOut, Wait, names
  <2>2. QED BY <2>1, FrameServes
<1>7. QED BY <1>1, <1>2, <1>3, <1>4, <1>5, <1>6 DEF Next

\* As long as no id is submitted twice, the queue is a FifoService on as many
\* lanes as it has workers: the jobs are started in the order of their submission,
\* each by one lane and once, none after it was cancelled in the queue, and a final
\* state is final; purging, stopping and restarting change nothing of that.
THEOREM JobsInOrder == ASSUME ~ReuseIds PROVE Spec => ServesInOrder
<1>1. Init => ServiceInv /\ Service!Init
  <2> SUFFICES ASSUME Init PROVE ServiceInv /\ Service!Init
    OBVIOUS
  <2>1. made = 0 /\ 1..made = {} /\ queue = <<>> /\ Len(queue) = 0
    BY DEF Init
  <2>2. ArrivalOK
    BY <2>1 DEF ArrivalOK
  <2>3. \A o \in Objects : o > made
    BY <2>1, JobQueueAssumption DEF Objects
  <2>4. Service!Init
    BY <2>3 DEF Init, Service!Init, Running, Gone
  <2>5. QED BY <2>2, <2>4, InitOnce, InitAccount DEF ServiceInv
<1>2. ServiceInv /\ [Next]_vars => ServiceInv' /\ [Service!Next]_<<Phases, Served>>
  BY NextOnce, NextAccount, NextServes DEF ServiceInv
<1>3. QED
  BY <1>1, <1>2, PTL DEF Spec, ServesInOrder, Service!Spec, Service!vars, Phases, Served
============================================================================
