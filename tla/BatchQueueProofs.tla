-------------------------- MODULE BatchQueueProofs --------------------------
(***************************************************************************)
(* Theorems of BatchQueue, for any number of uploads, languages, segments, *)
(* cancelling threads and resets of the GPU pool.                          *)
(***************************************************************************)
EXTENDS BatchQueue, SequenceTheorems, TLAPS

\* A job enters the queue once and in the order of the uploads; the worker's
\* job has left it; what waits there was not started.
QueueOK ==
    /\ \A i, k \in 1..Len(queue) : i < k => queue[i] < queue[k]
    /\ \A i \in 1..Len(queue) :
         worker.job < queue[i] /\ Status(queue[i]) \in {"queued", "cancelled"}

\* How the job the worker runs stands at each stage.  The pipeline returns with
\* a reason, with all videos, or because of a cancel.
WorkerOK ==
    /\ worker.stage = "take" => Status(worker.job) \in {"queued", "cancelled"}
    /\ worker.stage \in Stages => Status(worker.job) \in {"running", "cancelled"}
    /\ worker.stage \in {"end", "finish"} =>
         \/ job[worker.job].error \/ job[worker.job].outputs = Langs
         \/ worker.stage = "end" /\ Status(worker.job) = "cancelled"
    /\ worker.stage \in {"end", "finish"} => Status(worker.job) # "queued"

\* Without a thread switch between a check and its write no cancel is halfway,
\* and what the worker has just taken is not cancelled.
WholeChecks ==
    ~Preempt => /\ \A c \in Clients : client[c] = 0
                /\ worker.stage = "take" => Status(worker.job) # "cancelled"

IInv == TypeOK /\ QueueOK /\ WorkerOK /\ Accounted /\ DoneIsComplete /\ WholeChecks

----------------------------------------------------------------------------
(***************************************************************************)
(* Lemmas about the operators of the model.                                *)
(***************************************************************************)

\* The fields of the worker, busy or not.
LEMMA WorkerFields ==
    ASSUME TypeOK
    PROVE  /\ worker.job \in 0..Len(job) /\ worker.lang \in 0..Langs
           /\ worker.seg \in 0..Segs /\ Len(job) \in Nat /\ Len(job) \in 0..MaxJobs
           /\ worker.stage \in Stages \cup {"take", "end", "finish", "idle"}
           /\ worker.stage = "idle" <=> worker = Idle
           /\ worker.stage # "idle" => worker.job \in 1..Len(job)
<1>1. Len(job) \in Nat /\ Len(job) <= MaxJobs
  BY DEF TypeOK
<1>2. CASE worker = Idle
  BY <1>1, <1>2, BatchQueueAssumption DEF Idle
<1>3. CASE worker # Idle
  BY <1>1, <1>3, BatchQueueAssumption DEF TypeOK, Idle, Stages, GpuStages
<1>4. QED BY <1>2, <1>3

\* The fields of a job.
LEMMA JobFields ==
    ASSUME TypeOK, NEW j \in 1..Len(job)
    PROVE  /\ job[j] \in Job /\ job[j].status \in {"queued", "running"} \cup Final
           /\ job[j].error \in BOOLEAN /\ job[j].outputs \in 0..Langs
<1>1. job[j] \in Job
  BY DEF TypeOK
<1>2. QED BY <1>1 DEF Job

\* One entry of the jobs is replaced.
LEMMA JobChange ==
    ASSUME TypeOK, NEW j \in 1..Len(job), NEW e \in Job,
           job' = [job EXCEPT ![j] = e]
    PROVE  /\ job' \in Seq(Job) /\ Len(job') = Len(job)
           /\ \A k \in 1..Len(job) : job'[k] = IF k = j THEN e ELSE job[k]
BY ExceptSeq DEF TypeOK

\* What a write of a status does to the jobs.
LEMMA StatusChange ==
    ASSUME TypeOK, NEW j \in 1..Len(job), NEW s \in {"queued", "running"} \cup Final,
           SetStatus(j, s)
    PROVE  /\ job' \in Seq(Job) /\ Len(job') = Len(job)
           /\ \A k \in 1..Len(job) :
                /\ job'[k].status = IF k = j THEN s ELSE job[k].status
                /\ job'[k].error = job[k].error /\ job'[k].outputs = job[k].outputs
<1> DEFINE e == [job[j] EXCEPT !.status = s]
<1>1. e \in Job /\ e.status = s /\ e.error = job[j].error /\ e.outputs = job[j].outputs
  BY JobFields DEF Job
<1>2. job' = [job EXCEPT ![j] = e]
  BY DEF SetStatus
<1> HIDE DEF e
<1>3. /\ job' \in Seq(Job) /\ Len(job') = Len(job)
      /\ \A k \in 1..Len(job) : job'[k] = IF k = j THEN e ELSE job[k]
  BY <1>1, <1>2, JobChange
<1>4. QED BY <1>1, <1>3, Zenon

\* A failure of the pipeline also says why.
LEMMA FailChange ==
    ASSUME TypeOK, NEW j \in 1..Len(job),
           job' = [job EXCEPT ![j].status = "failed", ![j].error = TRUE]
    PROVE  /\ job' \in Seq(Job) /\ Len(job') = Len(job)
           /\ \A k \in 1..Len(job) :
                /\ job'[k].status = IF k = j THEN "failed" ELSE job[k].status
                /\ job'[k].error = IF k = j THEN TRUE ELSE job[k].error
                /\ job'[k].outputs = job[k].outputs
<1> DEFINE e == [job[j] EXCEPT !.status = "failed", !.error = TRUE]
<1>1. /\ e \in Job /\ e.status = "failed" /\ e.error = TRUE
      /\ e.outputs = job[j].outputs
  BY JobFields DEF Job, Final
<1>2. job' = [job EXCEPT ![j] = e]
  BY DEF TypeOK
<1> HIDE DEF e
<1>3. /\ job' \in Seq(Job) /\ Len(job') = Len(job)
      /\ \A k \in 1..Len(job) : job'[k] = IF k = j THEN e ELSE job[k]
  BY <1>1, <1>2, JobChange
<1>4. ASSUME NEW k \in 1..Len(job)
      PROVE  /\ job'[k].status = IF k = j THEN "failed" ELSE job[k].status
             /\ job'[k].error = IF k = j THEN TRUE ELSE job[k].error
             /\ job'[k].outputs = job[k].outputs
  <2>1. CASE k = j
    BY <1>1, <1>3, <2>1
  <2>2. CASE k # j
    BY <1>3, <2>2
  <2>3. QED BY <2>1, <2>2
<1>5. QED BY <1>3, <1>4

----------------------------------------------------------------------------
(***************************************************************************)
(* The routes keep the invariant.                                          *)
(***************************************************************************)

\* An upload waits at the end of the queue, with a number of its own.
LEMMA EnqueueKeeps == ASSUME IInv, Enqueue PROVE IInv'
<1> DEFINE n == Len(job) + 1
           e == [status |-> "queued", error |-> FALSE, outputs |-> 0]
<1>1. /\ n \in Nat \ {0} /\ n <= MaxJobs /\ Len(job) \in Nat /\ job \in Seq(Job)
      /\ queue \in Seq(1..Len(job)) /\ Len(queue) \in Nat /\ listed \subseteq 1..Len(job)
  <2>1. job \in Seq(Job) /\ listed \subseteq 1..Len(job) /\ queue \in Seq(1..Len(job))
    BY DEF IInv, TypeOK
  <2>2. Len(job) < MaxJobs /\ MaxJobs \in Nat
    BY BatchQueueAssumption DEF Enqueue
  <2>3. Len(job) \in Nat /\ Len(queue) \in Nat
    BY <2>1, LenProperties
  <2>4. QED BY <2>1, <2>2, <2>3
<1>2. e \in Job /\ e.status = "queued" /\ e.error = FALSE
  BY BatchQueueAssumption DEF Job
<1>3. /\ job' = Append(job, e) /\ listed' = listed \cup {n} /\ queue' = Append(queue, n)
      /\ worker' = worker /\ client' = client /\ resets' = resets
  BY DEF Enqueue
<1> HIDE DEF e
<1>4. /\ job' \in Seq(Job) /\ Len(job') = n /\ job'[n] = e
      /\ \A j \in 1..Len(job) : job'[j] = job[j]
  BY <1>1, <1>2, <1>3, AppendProperties
<1>5. 1..Len(job) \subseteq 1..n /\ n \in 1..n
  BY <1>1
<1>6. queue \in Seq(1..n)
  BY <1>1, <1>5
<1>7. /\ queue' \in Seq(1..n) /\ Len(queue') = Len(queue) + 1
      /\ queue'[Len(queue) + 1] = n
      /\ \A i \in 1..Len(queue) : queue'[i] = queue[i]
  BY <1>3, <1>5, <1>6, AppendProperties
<1>8. /\ worker.job \in 0..Len(job)
      /\ worker.stage # "idle" => worker.job \in 1..Len(job)
      /\ worker.stage \in Stages \cup {"take", "end", "finish"} => worker.stage # "idle"
  BY WorkerFields DEF IInv, Stages, GpuStages
<1>9. \A i \in 1..Len(queue) : queue[i] \in 1..Len(job)
  BY <1>1, ElementOfSeq
<1>10. TypeOK'
  <2>1. worker' \in [job : 1..n, stage : Stages \cup {"take", "end", "finish"},
                     lang : 0..Langs, seg : 0..Segs] \cup {Idle}
    BY <1>3, <1>5 DEF IInv, TypeOK
  <2>2. client' \in [Clients -> 0..n]
    <3>1. 0..Len(job) \subseteq 0..n
      BY <1>1
    <3>2. QED BY <1>3, <3>1 DEF IInv, TypeOK
  <2>3. listed' \subseteq 1..n
    BY <1>1, <1>3, <1>5
  <2>4. resets' \in 0..MaxResets
    BY <1>3 DEF IInv, TypeOK
  <2> HIDE DEF n
  <2>5. QED BY <1>1, <1>4, <1>7, <2>1, <2>2, <2>3, <2>4 DEF TypeOK
<1>11. QueueOK'
  <2>1. ASSUME NEW i \in 1..Len(queue'), NEW k \in 1..Len(queue'), i < k
        PROVE  queue'[i] < queue'[k]
    <3>1. i \in 1..Len(queue) /\ queue'[i] = queue[i] /\ queue[i] \in 1..Len(job)
      BY <1>1, <1>7, <1>9, <2>1
    <3>2. CASE k = Len(queue) + 1
      BY <1>1, <1>7, <3>1, <3>2
    <3>3. CASE k # Len(queue) + 1
      <4>1. k \in 1..Len(queue) /\ queue'[k] = queue[k]
        BY <1>1, <1>7, <3>3
      <4>2. QED BY <2>1, <3>1, <4>1 DEF IInv, QueueOK
    <3>4. QED BY <3>2, <3>3
  <2>2. ASSUME NEW i \in 1..Len(queue')
        PROVE  worker.job < queue'[i] /\ job'[queue'[i]].status \in {"queued", "cancelled"}
    <3>1. CASE i = Len(queue) + 1
      <4>1. queue'[i] = n /\ worker.job < n
        BY <1>1, <1>7, <1>8, <3>1
      <4>2. job'[n].status = "queued"
        BY <1>2, <1>4
      <4>3. QED BY <4>1, <4>2
    <3>2. CASE i # Len(queue) + 1
      <4>1. i \in 1..Len(queue) /\ queue'[i] = queue[i] /\ queue[i] \in 1..Len(job)
        BY <1>1, <1>7, <1>9, <3>2
      <4>2. job'[queue'[i]] = job[queue[i]]
        BY <1>4, <4>1
      <4>3. QED BY <4>1, <4>2 DEF IInv, QueueOK, Status
    <3>3. QED BY <3>1, <3>2
  <2>3. QED BY <1>3, <2>1, <2>2 DEF QueueOK, Status
<1>12. WorkerOK' /\ WholeChecks'
  <2>1. worker.stage # "idle" => job'[worker.job] = job[worker.job]
    BY <1>4, <1>8
  <2>2. WorkerOK'
    BY <1>3, <1>8, <2>1 DEF IInv, WorkerOK, Status
  <2>3. WholeChecks'
    BY <1>3, <1>8, <2>1 DEF IInv, WholeChecks, Status
  <2>4. QED BY <2>2, <2>3
<1>13. Accounted'
  <2> SUFFICES ASSUME NEW j \in listed'
               PROVE  /\ job'[j].status = "queued" =>
                           \/ \E k \in 1..Len(queue') : queue'[k] = j
                           \/ worker.job = j /\ worker.stage = "take"
                      /\ job'[j].status = "running" => worker.job = j
    BY <1>3 DEF Accounted, Status
  <2>1. CASE j = n
    <3>1. Len(queue) + 1 \in 1..Len(queue') /\ queue'[Len(queue) + 1] = j
      BY <1>1, <1>7, <2>1
    <3>2. job'[j].status = "queued"
      BY <1>2, <1>4, <2>1
    <3>3. QED BY <3>1, <3>2
  <2>2. CASE j # n
    <3>1. j \in listed /\ job'[j] = job[j]
      BY <1>1, <1>3, <1>4, <2>2
    <3>2. ASSUME NEW k \in 1..Len(queue), queue[k] = j
          PROVE  \E i \in 1..Len(queue') : queue'[i] = j
      <4>1. k \in 1..Len(queue') /\ queue'[k] = j
        BY <1>1, <1>7, <3>2
      <4>2. QED BY <4>1
    <3>3. QED BY <3>1, <3>2 DEF IInv, Accounted, Status
  <2>3. QED BY <2>1, <2>2
<1>14. DoneIsComplete'
  <2> SUFFICES ASSUME NEW j \in 1..n, job'[j].status = "done", ~job'[j].error
               PROVE  job'[j].outputs = Langs
    BY <1>4 DEF DoneIsComplete, Status
  <2>1. j # n
    BY <1>2, <1>4
  <2>2. j \in 1..Len(job) /\ job'[j] = job[j]
    BY <1>1, <1>4, <2>1
  <2>3. QED BY <2>2 DEF IInv, DoneIsComplete, Status
<1>15. QED BY <1>10, <1>11, <1>12, <1>13, <1>14 DEF IInv

\* A cancelled job stays where it is, in the queue or with the worker.
LEMMA CancelledKeeps ==
    ASSUME IInv, NEW j \in 1..Len(job), SetStatus(j, "cancelled"),
           UNCHANGED <<listed, queue, worker, resets>>,
           client' \in [Clients -> 0..Len(job)],
           ~Preempt => worker.stage # "take" /\ \A c \in Clients : client'[c] = 0
    PROVE  IInv'
<1>1. /\ job' \in Seq(Job) /\ Len(job') = Len(job)
      /\ \A k \in 1..Len(job) :
           /\ job'[k].status = IF k = j THEN "cancelled" ELSE job[k].status
           /\ job'[k].error = job[k].error /\ job'[k].outputs = job[k].outputs
  BY StatusChange DEF IInv, Final
<1>2. /\ worker.stage # "idle" => worker.job \in 1..Len(job)
      /\ worker.stage \in Stages \cup {"take", "end", "finish"} => worker.stage # "idle"
      /\ \A i \in 1..Len(queue) : queue[i] \in 1..Len(job)
      /\ listed \subseteq 1..Len(job)
  BY WorkerFields, ElementOfSeq DEF IInv, TypeOK, Stages, GpuStages
<1>3. TypeOK'
  BY <1>1 DEF IInv, TypeOK
<1>4. QueueOK'
  BY <1>1, <1>2 DEF IInv, QueueOK, Status
<1>5. WorkerOK'
  <2>1. worker.stage = "take" => job'[worker.job].status \in {"queued", "cancelled"}
    BY <1>1, <1>2 DEF IInv, WorkerOK, Status
  <2>2. worker.stage \in Stages => job'[worker.job].status \in {"running", "cancelled"}
    BY <1>1, <1>2 DEF IInv, WorkerOK, Status
  <2>3. worker.stage \in {"end", "finish"} =>
          \/ job'[worker.job].error \/ job'[worker.job].outputs = Langs
          \/ worker.stage = "end" /\ job'[worker.job].status = "cancelled"
    BY <1>1, <1>2 DEF IInv, WorkerOK, Status
  <2>4. worker.stage \in {"end", "finish"} => job'[worker.job].status # "queued"
    BY <1>1, <1>2 DEF IInv, WorkerOK, Status
  <2>5. QED BY <2>1, <2>2, <2>3, <2>4 DEF WorkerOK, Status
<1>6. Accounted'
  <2>1. \A k \in listed : /\ job'[k].status = "queued" => job[k].status = "queued"
                          /\ job'[k].status = "running" => job[k].status = "running"
    BY <1>1, <1>2
  <2>2. QED BY <2>1 DEF IInv, Accounted, Status
<1>7. DoneIsComplete'
  BY <1>1 DEF IInv, DoneIsComplete, Status
<1>8. WholeChecks'
  BY DEF WholeChecks
<1>9. QED BY <1>3, <1>4, <1>5, <1>6, <1>7, <1>8 DEF IInv

\* cancel looks, and writes at once or, after a thread switch, later.
LEMMA CancelKeeps ==
    ASSUME IInv, NEW c \in Clients, NEW j \in listed, Cancel(c, j) PROVE IInv'
<1>1. j \in 1..Len(job) /\ UNCHANGED <<listed, queue, worker, resets>>
  BY DEF Cancel, IInv, TypeOK
<1>2. CASE Preempt
  <2>1. client' = [client EXCEPT ![c] = j] /\ job' = job
    BY <1>2 DEF Cancel
  <2>2. client' \in [Clients -> 0..Len(job)]
    BY <1>1, <2>1 DEF IInv, TypeOK
  <2>3. QED
    BY <1>1, <1>2, <2>1, <2>2
       DEF IInv, TypeOK, QueueOK, WorkerOK, Accounted, DoneIsComplete, WholeChecks, Status
<1>3. CASE ~Preempt
  <2>1. worker.stage # "take" /\ SetStatus(j, "cancelled") /\ client' = client
    BY <1>3 DEF Cancel, InCheck
  <2>2. client' \in [Clients -> 0..Len(job)] /\ \A d \in Clients : client'[d] = 0
    BY <1>3, <2>1 DEF IInv, TypeOK, WholeChecks
  <2>3. QED BY <1>1, <2>1, <2>2, CancelledKeeps
<1>4. QED BY <1>2, <1>3

\* The late write.
LEMMA CancelWriteKeeps ==
    ASSUME IInv, NEW c \in Clients, CancelWrite(c) PROVE IInv'
<1>1. /\ client[c] # 0 /\ SetStatus(client[c], "cancelled")
      /\ client' = [client EXCEPT ![c] = 0] /\ UNCHANGED <<listed, queue, worker, resets>>
  BY DEF CancelWrite
<1>2. Preempt
  BY <1>1 DEF IInv, WholeChecks
<1>3. client[c] \in 0..Len(job) /\ Len(job) \in Nat
  BY WorkerFields DEF IInv, TypeOK
<1>4. client[c] \in 1..Len(job) /\ client' \in [Clients -> 0..Len(job)]
  BY <1>1, <1>3 DEF IInv, TypeOK
<1>5. QED BY <1>1, <1>2, <1>4, CancelledKeeps

\* A deleted job is no longer listed, and nothing else changes.
LEMMA DeleteKeeps == ASSUME IInv, NEW j \in listed, Delete(j) PROVE IInv'
<1>1. listed' = listed \ {j} /\ UNCHANGED <<job, queue, worker, client, resets>>
  BY DEF Delete
<1>2. TypeOK'
  BY <1>1 DEF IInv, TypeOK
<1>3. QED
  BY <1>1, <1>2 DEF IInv, QueueOK, WorkerOK, Accounted, DoneIsComplete, WholeChecks, Status

----------------------------------------------------------------------------
(***************************************************************************)
(* The worker and the pipeline keep it.                                    *)
(***************************************************************************)

\* What a step of the worker may do to its job and become itself.
Allowed(d, w) ==
    /\ d.status # "queued" /\ (d.status = "running" => w # Idle)
    /\ w.stage \in Stages => d.status \in {"running", "cancelled"}
    /\ w.stage \in {"end", "finish"} =>
         d.error \/ d.outputs = Langs \/ (w.stage = "end" /\ d.status = "cancelled")
    /\ d.status = "done" /\ ~d.error => d.outputs = Langs

LEMMA WorkerStep ==
    ASSUME IInv, worker.stage # "idle",
           \/ worker' = Idle
           \/ /\ worker' \in [job : 1..Len(job), stage : Stages \cup {"end", "finish"},
                               lang : 0..Langs, seg : 0..Segs]
              /\ worker'.job = worker.job,
           job' \in Seq(Job), Len(job') = Len(job),
           \A k \in 1..Len(job) : k # worker.job => job'[k] = job[k],
           Allowed(job'[worker.job], worker'),
           UNCHANGED <<listed, queue, client>>, resets' \in 0..MaxResets
    PROVE  IInv'
<1>1. /\ worker.job \in 1..Len(job) /\ Len(job) \in Nat
      /\ \A i \in 1..Len(queue) : queue[i] \in 1..Len(job)
      /\ listed \subseteq 1..Len(job)
  BY WorkerFields, ElementOfSeq DEF IInv, TypeOK
<1>2. /\ worker' = Idle => worker'.job = 0 /\ worker'.stage = "idle"
      /\ worker' # Idle => worker'.job = worker.job /\ worker'.stage \in Stages \cup {"end", "finish"}
  BY DEF Idle
<1>3. "idle" \notin Stages /\ "take" \notin Stages
  BY DEF Stages, GpuStages
<1>4. TypeOK'
  BY DEF IInv, TypeOK
<1>5. QueueOK'
  <2>1. ASSUME NEW i \in 1..Len(queue)
        PROVE  worker'.job < queue[i] /\ job'[queue[i]].status \in {"queued", "cancelled"}
    <3>1. worker.job < queue[i] /\ job[queue[i]].status \in {"queued", "cancelled"}
      BY DEF IInv, QueueOK, Status
    <3>2. queue[i] # worker.job
      BY <1>1, <3>1
    <3>3. worker'.job < queue[i]
      BY <1>1, <1>2, <3>1
    <3>4. QED BY <1>1, <3>1, <3>2, <3>3
  <2>2. QED BY <2>1 DEF IInv, QueueOK, Status
<1>6. WorkerOK'
  BY <1>1, <1>2, <1>3 DEF WorkerOK, Allowed, Status
<1>7. Accounted'
  <2> SUFFICES ASSUME NEW j \in listed
               PROVE  /\ job'[j].status = "queued" => \E k \in 1..Len(queue) : queue[k] = j
                      /\ job'[j].status = "running" => worker'.job = j
    BY DEF Accounted, Status
  <2>1. CASE j = worker.job
    BY <1>2, <2>1 DEF Allowed
  <2>2. CASE j # worker.job
    BY <1>1, <2>2 DEF IInv, Accounted, Status
  <2>3. QED BY <2>1, <2>2
<1>8. DoneIsComplete'
  BY <1>1 DEF IInv, DoneIsComplete, Allowed, Status
<1>9. WholeChecks'
  BY <1>2, <1>3 DEF IInv, WholeChecks
<1>10. QED BY <1>4, <1>5, <1>6, <1>7, <1>8, <1>9 DEF IInv

\* The worker takes the head of the queue, or skips it.
LEMMA WorkerGetKeeps == ASSUME IInv, WorkerGet PROVE IInv'
<1> DEFINE h == Head(queue)
<1>1. /\ queue \in Seq(1..Len(job)) /\ queue # <<>> /\ worker = Idle /\ Len(queue) \in Nat
      /\ queue' = Tail(queue) /\ UNCHANGED <<job, listed, client, resets>>
  BY DEF WorkerGet, IInv, TypeOK
<1>2. h = queue[1] /\ 1 \in 1..Len(queue) /\ h \in 1..Len(job) /\ h # 0
  BY <1>1
<1>3. /\ queue' \in Seq(1..Len(job)) /\ Len(queue') = Len(queue) - 1
      /\ \A i \in 1..Len(queue') : i + 1 \in 1..Len(queue) /\ queue'[i] = queue[i + 1]
  <2>1. queue' \in Seq(1..Len(job)) /\ Len(queue') = Len(queue) - 1
    BY <1>1
  <2>2. \A i \in 1..Len(queue') : i + 1 \in 1..Len(queue)
    BY <1>1, <2>1
  <2>3. QED BY <1>1, <2>1, <2>2, HeadTailProperties
<1>4. h \in listed /\ Status(h) # "cancelled" =>
        /\ worker'.job = h /\ worker'.stage = "take" /\ worker' # Idle
        /\ worker' \in [job : 1..Len(job), stage : Stages \cup {"take", "end", "finish"},
                        lang : 0..Langs, seg : 0..Segs]
  <2> DEFINE w == [job |-> h, stage |-> "take", lang |-> 0, seg |-> 0]
  <2>1. h \in listed /\ Status(h) # "cancelled" => worker' = w
    BY DEF WorkerGet, Idle
  <2>2. 0 \in 0..Langs /\ 0 \in 0..Segs
    BY BatchQueueAssumption
  <2>3. w # Idle
    BY DEF Idle
  <2>4. QED BY <1>2, <2>1, <2>2, <2>3
<1>5. ~(h \in listed /\ Status(h) # "cancelled") => worker' = Idle
  BY <1>1 DEF WorkerGet
<1>6. Status(h) \in {"queued", "cancelled"}
  BY <1>2 DEF IInv, QueueOK
<1>7. /\ worker'.job \in {0, h} /\ (worker'.stage = "take" => worker'.job = h)
      /\ worker'.stage \in {"idle", "take"} /\ Idle.stage = "idle"
  BY <1>4, <1>5 DEF Idle
<1>8. worker'.stage = "take" => Status(h) = "queued"
  BY <1>4, <1>5, <1>6, <1>7
<1> HIDE DEF h
<1>9. TypeOK'
  BY <1>1, <1>3, <1>4, <1>5 DEF IInv, TypeOK
<1>10. QueueOK'
  <2>1. ASSUME NEW i \in 1..Len(queue'), NEW k \in 1..Len(queue'), i < k
        PROVE  queue'[i] < queue'[k]
    <3>1. i + 1 < k + 1
      BY <2>1
    <3>2. QED BY <1>3, <3>1 DEF IInv, QueueOK
  <2>2. ASSUME NEW i \in 1..Len(queue')
        PROVE  worker'.job < queue'[i] /\ Status(queue'[i]) \in {"queued", "cancelled"}
    <3>1. i + 1 \in 1..Len(queue) /\ 1 < i + 1 /\ queue'[i] = queue[i + 1]
      BY <1>3
    <3>2. h < queue'[i] /\ Status(queue'[i]) \in {"queued", "cancelled"}
      BY <1>2, <3>1 DEF IInv, QueueOK
    <3>3. h \in Nat /\ queue'[i] \in Nat
      BY <1>2, <1>3, <3>1
    <3>4. h > 0
      BY <1>2
    <3>5. 0 < queue'[i]
      BY <3>2, <3>3, <3>4
    <3>6. QED BY <1>7, <3>2, <3>5
  <2>3. QED BY <1>1, <2>1, <2>2 DEF QueueOK, Status
<1>11. WorkerOK' /\ WholeChecks'
  <2>1. "take" \notin Stages /\ "idle" \notin Stages
    BY DEF Stages, GpuStages
  <2>2. WorkerOK'
    BY <1>1, <1>6, <1>7, <2>1 DEF WorkerOK, Status
  <2>3. WholeChecks'
    BY <1>1, <1>7, <1>8 DEF IInv, WholeChecks, Status
  <2>4. QED BY <2>2, <2>3
<1>12. Accounted'
  <2> SUFFICES ASSUME NEW j \in listed
               PROVE  /\ Status(j) = "queued" =>
                           \/ \E k \in 1..Len(queue') : queue'[k] = j
                           \/ worker'.job = j /\ worker'.stage = "take"
                      /\ Status(j) = "running" => worker'.job = j
    BY <1>1 DEF Accounted, Status
  <2>1. worker.job = 0 /\ worker.stage = "idle" /\ j # 0
    BY <1>1 DEF Idle, IInv, TypeOK
  <2>2. Status(j) # "running"
    BY <2>1 DEF IInv, Accounted
  <2>3. ASSUME Status(j) = "queued", j = h
        PROVE  worker'.job = j /\ worker'.stage = "take"
    BY <1>4, <2>3
  <2>4. ASSUME Status(j) = "queued", j # h
        PROVE  \E k \in 1..Len(queue') : queue'[k] = j
    <3>1. PICK k \in 1..Len(queue) : queue[k] = j
      BY <2>1, <2>4 DEF IInv, Accounted
    <3>2. k # 1
      BY <1>2, <2>4, <3>1
    <3>3. k - 1 \in 1..Len(queue') /\ (k - 1) + 1 = k
      BY <1>1, <1>3, <3>2
    <3>4. queue'[k - 1] = j
      BY <1>3, <3>1, <3>3
    <3>5. QED BY <3>3, <3>4
  <2>5. QED BY <2>2, <2>3, <2>4
<1>13. DoneIsComplete'
  BY <1>1 DEF IInv, DoneIsComplete, Status
<1>14. QED BY <1>9, <1>10, <1>11, <1>12, <1>13 DEF IInv

\* The worker's fields at a stage it works in.
LEMMA BusyFields ==
    ASSUME IInv, worker.stage \in Stages \cup {"take", "end", "finish"}
    PROVE  /\ worker.stage # "idle" /\ worker # Idle /\ worker.job \in 1..Len(job)
           /\ worker \in [job : 1..Len(job), stage : Stages \cup {"take", "end", "finish"},
                          lang : 0..Langs, seg : 0..Segs]
BY DEF IInv, TypeOK, Idle, Stages, GpuStages

\* Where the pipeline looks at the status and goes on, or returns.
LEMMA GoOnKeeps ==
    ASSUME IInv, worker.stage \in Stages, NEW next, GoOn(next),
           next \in [job : 1..Len(job), stage : Stages, lang : 0..Langs, seg : 0..Segs],
           next.job = worker.job, UNCHANGED <<job, listed, queue, client, resets>>
    PROVE  IInv'
<1> DEFINE stop == [worker EXCEPT !.stage = "end"]
<1>1. /\ worker.stage # "idle" /\ worker.job \in 1..Len(job)
      /\ worker \in [job : 1..Len(job), stage : Stages \cup {"take", "end", "finish"},
                     lang : 0..Langs, seg : 0..Segs]
  BY BusyFields
<1>2. /\ stop.job = worker.job /\ stop.stage = "end"
      /\ stop \in [job : 1..Len(job), stage : Stages \cup {"end", "finish"},
                   lang : 0..Langs, seg : 0..Segs]
  BY <1>1
<1>3. IF Status(worker.job) = "cancelled" THEN worker' = stop ELSE worker' = next
  BY DEF GoOn
<1> HIDE DEF stop
<1>4. /\ worker' \in [job : 1..Len(job), stage : Stages \cup {"end", "finish"},
                      lang : 0..Langs, seg : 0..Segs]
      /\ worker'.job = worker.job
  BY <1>2, <1>3
<1>5. Allowed(job[worker.job], worker')
  <2>1. job[worker.job].status \in {"running", "cancelled"}
    BY DEF IInv, WorkerOK, Status
  <2>2. CASE Status(worker.job) = "cancelled"
    <3>1. worker' = stop
      BY <1>3, <2>2
    <3>2. "end" \notin Stages
      BY DEF Stages, GpuStages
    <3>3. QED BY <1>2, <2>2, <3>1, <3>2 DEF Allowed, Status
  <2>3. CASE Status(worker.job) # "cancelled"
    <3>1. worker' = next /\ next.stage \in Stages
      BY <1>3, <2>3
    <3>2. "end" \notin Stages /\ "finish" \notin Stages
      BY DEF Stages, GpuStages
    <3>3. next # Idle
      BY DEF Idle, Stages, GpuStages
    <3>4. QED BY <2>1, <3>1, <3>2, <3>3 DEF Allowed
  <2>4. QED BY <2>2, <2>3
<1>6. job' \in Seq(Job) /\ resets' \in 0..MaxResets
  BY DEF IInv, TypeOK
<1>7. QED BY <1>1, <1>4, <1>5, <1>6, WorkerStep

\* The job starts to run.
LEMMA WorkerStartKeeps == ASSUME IInv, WorkerStart PROVE IInv'
<1>1. /\ worker.stage = "take" /\ SetStatus(worker.job, "running")
      /\ worker' = [worker EXCEPT !.stage = "extract"]
      /\ UNCHANGED <<listed, queue, client, resets>>
  BY DEF WorkerStart
<1>2. /\ worker.stage # "idle" /\ worker.job \in 1..Len(job)
      /\ worker \in [job : 1..Len(job), stage : Stages \cup {"take", "end", "finish"},
                     lang : 0..Langs, seg : 0..Segs]
  BY <1>1, BusyFields
<1>3. /\ job' \in Seq(Job) /\ Len(job') = Len(job)
      /\ \A k \in 1..Len(job) : k # worker.job => job'[k].status = job[k].status
      /\ job'[worker.job].status = "running"
      /\ \A k \in 1..Len(job) :
           job'[k].error = job[k].error /\ job'[k].outputs = job[k].outputs
  BY <1>1, <1>2, StatusChange DEF IInv
<1>4. \A k \in 1..Len(job) : k # worker.job => job'[k] = job[k]
  BY <1>1 DEF SetStatus, IInv, TypeOK
<1>5. /\ worker' \in [job : 1..Len(job), stage : Stages \cup {"end", "finish"},
                      lang : 0..Langs, seg : 0..Segs]
      /\ worker'.job = worker.job /\ worker'.stage = "extract"
  BY <1>1, <1>2 DEF Stages
<1>6. Allowed(job'[worker.job], worker')
  BY <1>3, <1>5 DEF Allowed, Idle
<1>7. resets' \in 0..MaxResets
  BY <1>1 DEF IInv, TypeOK
<1>8. QED BY <1>1, <1>2, <1>3, <1>4, <1>5, <1>6, <1>7, WorkerStep

\* The end of a run: the worker is free, its job has a final status.
LEMMA EndKeeps ==
    ASSUME IInv, worker.stage \in Stages \cup {"take", "end", "finish"}, worker' = Idle,
           UNCHANGED <<listed, queue, client>>, resets' \in 0..MaxResets,
           NEW s \in Final,
           \/ SetStatus(worker.job, s)
           \/ s = "failed" /\ job' = [job EXCEPT ![worker.job].status = "failed",
                                              ![worker.job].error = TRUE]
           \/ job' = job /\ Status(worker.job) = s,
           s = "done" => job[worker.job].error \/ job[worker.job].outputs = Langs
    PROVE  IInv'
<1>1. worker.stage # "idle" /\ worker.job \in 1..Len(job)
  BY BusyFields
<1>2. /\ job' \in Seq(Job) /\ Len(job') = Len(job)
      /\ \A k \in 1..Len(job) : k # worker.job => job'[k] = job[k]
      /\ job'[worker.job].status = s
      /\ s = "done" => /\ job'[worker.job].error = job[worker.job].error
                       /\ job'[worker.job].outputs = job[worker.job].outputs
  <2>1. CASE SetStatus(worker.job, s)
    <3>1. \A k \in 1..Len(job) : k # worker.job => job'[k] = job[k]
      BY <2>1 DEF SetStatus, IInv, TypeOK
    <3>2. /\ job' \in Seq(Job) /\ Len(job') = Len(job)
          /\ job'[worker.job].status = s
          /\ job'[worker.job].error = job[worker.job].error
          /\ job'[worker.job].outputs = job[worker.job].outputs
      BY <1>1, <2>1, StatusChange DEF IInv
    <3>3. QED BY <3>1, <3>2
  <2>2. CASE s = "failed" /\ job' = [job EXCEPT ![worker.job].status = "failed",
                                               ![worker.job].error = TRUE]
    <3>1. \A k \in 1..Len(job) : k # worker.job => job'[k] = job[k]
      BY <2>2 DEF IInv, TypeOK
    <3>2. /\ job' \in Seq(Job) /\ Len(job') = Len(job)
          /\ job'[worker.job].status = "failed"
      BY <1>1, <2>2, FailChange DEF IInv
    <3>3. QED BY <2>2, <3>1, <3>2
  <2>3. CASE job' = job /\ Status(worker.job) = s
    BY <2>3 DEF Status, IInv, TypeOK
  <2>4. QED BY <2>1, <2>2, <2>3
<1>3. Allowed(job'[worker.job], worker')
  BY <1>2 DEF Allowed, Final, Idle, Stages, GpuStages
<1>4. QED BY <1>1, <1>2, <1>3, WorkerStep

\* Transcription: on to the translation, or an empty transcript.
LEMMA TranscribedKeeps == ASSUME IInv, Transcribed PROVE IInv'
<1>1. worker.stage = "transcribe" /\ UNCHANGED <<listed, queue, client, resets>>
  BY DEF Transcribed
<1>2. /\ worker.stage # "idle" /\ worker.job \in 1..Len(job) /\ worker.stage \in Stages
      /\ worker \in [job : 1..Len(job), stage : Stages \cup {"take", "end", "finish"},
                     lang : 0..Langs, seg : 0..Segs]
  BY <1>1, BusyFields DEF Stages, GpuStages
<1>3. CASE GoOn([worker EXCEPT !.stage = "translate", !.lang = 1]) /\ UNCHANGED job
  <2> DEFINE next == [worker EXCEPT !.stage = "translate", !.lang = 1]
  <2>1. 1 \in 0..Langs
    BY BatchQueueAssumption
  <2>2. next \in [job : 1..Len(job), stage : Stages, lang : 0..Langs, seg : 0..Segs]
    BY <1>2, <2>1 DEF Stages
  <2>3. next.job = worker.job
    BY <1>2
  <2> HIDE DEF next
  <2>4. QED BY <1>1, <1>2, <1>3, <2>2, <2>3, GoOnKeeps DEF next
<1>4. CASE /\ job' = [job EXCEPT ![worker.job].status = "failed", ![worker.job].error = TRUE]
           /\ worker' = [worker EXCEPT !.stage = "end"]
  <2>1. /\ job' \in Seq(Job) /\ Len(job') = Len(job)
        /\ job'[worker.job].status = "failed" /\ job'[worker.job].error = TRUE
    BY <1>2, <1>4, FailChange DEF IInv
  <2>2. \A k \in 1..Len(job) : k # worker.job => job'[k] = job[k]
    BY <1>4 DEF IInv, TypeOK
  <2>3. /\ worker' \in [job : 1..Len(job), stage : Stages \cup {"end", "finish"},
                        lang : 0..Langs, seg : 0..Segs]
        /\ worker'.job = worker.job /\ worker'.stage = "end"
    BY <1>2, <1>4
  <2>4. Allowed(job'[worker.job], worker')
    BY <2>1, <2>3 DEF Allowed, Stages, GpuStages
  <2>5. resets' \in 0..MaxResets
    BY <1>1 DEF IInv, TypeOK
  <2>6. QED BY <1>1, <1>2, <2>1, <2>2, <2>3, <2>4, <2>5, WorkerStep
<1>5. QED BY <1>3, <1>4 DEF Transcribed

\* Extraction, translation and the load of the model: a look at the status.
LEMMA SimpleStageKeeps ==
    ASSUME IInv, Extracted \/ Translated \/ ModelReady PROVE IInv'
<1>1. worker.stage \in Stages /\ UNCHANGED <<job, listed, queue, client, resets>>
  BY DEF Extracted, Translated, ModelReady, Stages, GpuStages
<1>2. worker \in [job : 1..Len(job), stage : Stages \cup {"take", "end", "finish"},
                 lang : 0..Langs, seg : 0..Segs]
  BY <1>1, BusyFields
<1> DEFINE Next1(s) == [worker EXCEPT !.stage = s]
           gen == [worker EXCEPT !.stage = "generate", !.seg = 1]
<1>3. ASSUME NEW s \in {"transcribe", "model"}
      PROVE  /\ Next1(s) \in [job : 1..Len(job), stage : Stages, lang : 0..Langs, seg : 0..Segs]
             /\ Next1(s).job = worker.job
  BY <1>2 DEF Stages, GpuStages
<1>4. /\ gen \in [job : 1..Len(job), stage : Stages, lang : 0..Langs, seg : 0..Segs]
      /\ gen.job = worker.job
  <2>1. 1 \in 0..Segs
    BY BatchQueueAssumption
  <2>2. QED BY <1>2, <2>1 DEF Stages, GpuStages
<1>5. GoOn(Next1("transcribe")) \/ GoOn(Next1("model")) \/ GoOn(gen)
  BY DEF Extracted, Translated, ModelReady
<1> HIDE DEF Next1, gen
<1>6. QED BY <1>1, <1>3, <1>4, <1>5, GoOnKeeps

\* A segment is done; after the last one the track is mixed unseen.
LEMMA SegmentDoneKeeps == ASSUME IInv, SegmentDone PROVE IInv'
<1>1. /\ worker.stage = "generate" /\ worker.stage \in Stages
      /\ UNCHANGED <<job, listed, queue, client, resets>>
  BY DEF SegmentDone, Stages, GpuStages
<1>2. /\ worker.stage # "idle" /\ worker.job \in 1..Len(job)
      /\ worker \in [job : 1..Len(job), stage : Stages \cup {"take", "end", "finish"},
                     lang : 0..Langs, seg : 0..Segs]
  BY <1>1, BusyFields
<1>3. CASE worker.seg < Segs
  <2> DEFINE next == [worker EXCEPT !.seg = @ + 1]
  <2>1. worker.seg + 1 \in 0..Segs
    BY <1>2, <1>3, BatchQueueAssumption
  <2>2. next.job = worker.job /\ next.stage = worker.stage
    BY <1>2
  <2>3. next \in [job : 1..Len(job), stage : Stages, lang : 0..Langs, seg : 0..Segs]
    BY <1>1, <1>2, <2>1
  <2>4. GoOn(next)
    BY <1>3 DEF SegmentDone
  <2> HIDE DEF next
  <2>5. QED BY <1>1, <2>2, <2>3, <2>4, GoOnKeeps
<1>4. CASE ~(worker.seg < Segs)
  <2>1. worker' = [worker EXCEPT !.stage = "mix", !.seg = 0]
    BY <1>4 DEF SegmentDone
  <2>2. 0 \in 0..Segs
    BY BatchQueueAssumption
  <2>3. /\ worker' \in [job : 1..Len(job), stage : Stages \cup {"end", "finish"},
                        lang : 0..Langs, seg : 0..Segs]
        /\ worker'.job = worker.job /\ worker'.stage = "mix"
    BY <1>2, <2>1, <2>2 DEF Stages
  <2>4. job[worker.job].status \in {"running", "cancelled"}
    BY <1>1 DEF IInv, WorkerOK, Status
  <2>5. Allowed(job[worker.job], worker')
    BY <2>3, <2>4 DEF Allowed, Idle, Stages, GpuStages
  <2>6. job' \in Seq(Job) /\ resets' \in 0..MaxResets
    BY <1>1 DEF IInv, TypeOK
  <2>7. QED BY <1>1, <1>2, <2>3, <2>5, <2>6, WorkerStep
<1>5. QED BY <1>3, <1>4

\* A language is mixed; after the last one the outputs are set.
LEMMA MixedKeeps == ASSUME IInv, Mixed PROVE IInv'
<1>1. worker.stage = "mix" /\ worker.stage \in Stages
      /\ UNCHANGED <<listed, queue, client, resets>>
  BY DEF Mixed, Stages, GpuStages
<1>2. /\ worker.stage # "idle" /\ worker.job \in 1..Len(job)
      /\ worker \in [job : 1..Len(job), stage : Stages \cup {"take", "end", "finish"},
                     lang : 0..Langs, seg : 0..Segs]
  BY <1>1, BusyFields
<1>3. CASE worker.lang < Langs
  <2> DEFINE next == [worker EXCEPT !.stage = "translate", !.lang = @ + 1]
  <2>1. worker.lang + 1 \in 0..Langs
    BY <1>2, <1>3, BatchQueueAssumption
  <2>2. next.job = worker.job
    BY <1>2
  <2>3. next \in [job : 1..Len(job), stage : Stages, lang : 0..Langs, seg : 0..Segs]
    BY <1>2, <2>1 DEF Stages
  <2>4. GoOn(next) /\ job' = job
    BY <1>3 DEF Mixed
  <2> HIDE DEF next
  <2>5. QED BY <1>1, <2>2, <2>3, <2>4, GoOnKeeps
<1>4. CASE ~(worker.lang < Langs)
  <2> DEFINE d == [job[worker.job] EXCEPT !.outputs = Langs]
  <2>1. worker' = [worker EXCEPT !.stage = "end"] /\ job' = [job EXCEPT ![worker.job] = d]
    BY <1>4 DEF Mixed
  <2>2. /\ worker' \in [job : 1..Len(job), stage : Stages \cup {"end", "finish"},
                        lang : 0..Langs, seg : 0..Segs]
        /\ worker'.job = worker.job /\ worker'.stage = "end"
    BY <1>2, <2>1
  <2>3. Langs \in 0..Langs
    BY BatchQueueAssumption
  <2>4. d \in Job /\ d.outputs = Langs /\ d.status = job[worker.job].status
    BY <1>2, <2>3, JobFields DEF Job, IInv
  <2> HIDE DEF d
  <2>5. /\ job' \in Seq(Job) /\ Len(job') = Len(job) /\ job'[worker.job] = d
        /\ \A k \in 1..Len(job) : k # worker.job => job'[k] = job[k]
    <3>1. TypeOK
      BY DEF IInv
    <3>2. /\ job' \in Seq(Job) /\ Len(job') = Len(job)
          /\ \A k \in 1..Len(job) :
               job'[k] = IF k = worker.job THEN d ELSE job[k]
      BY <1>2, <2>1, <2>4, <3>1, JobChange
    <3>3. QED BY <1>2, <3>2
  <2>6. d.status \in {"running", "cancelled"}
    BY <1>1, <2>4 DEF IInv, WorkerOK, Status
  <2>7. Allowed(d, worker')
    BY <2>2, <2>4, <2>6 DEF Allowed, Idle, Stages, GpuStages
  <2>8. resets' \in 0..MaxResets
    BY <1>1 DEF IInv, TypeOK
  <2>9. QED BY <1>1, <1>2, <2>2, <2>5, <2>7, <2>8, WorkerStep
<1>5. QED BY <1>3, <1>4

\* _worker keeps a cancelled job's status and goes on to the final write else.
LEMMA PipelineReturnsKeeps == ASSUME IInv, PipelineReturns PROVE IInv'
<1>1. worker.stage = "end" /\ UNCHANGED <<job, listed, queue, client, resets>>
  BY DEF PipelineReturns
<1>2. /\ worker.stage # "idle" /\ worker.job \in 1..Len(job)
      /\ worker \in [job : 1..Len(job), stage : Stages \cup {"take", "end", "finish"},
                     lang : 0..Langs, seg : 0..Segs]
  BY <1>1, BusyFields
<1>3. resets' \in 0..MaxResets /\ job' \in Seq(Job)
  BY <1>1 DEF IInv, TypeOK
<1>4. CASE Status(worker.job) = "cancelled"
  <2>1. worker' = Idle
    BY <1>4 DEF PipelineReturns
  <2>2. QED BY <1>1, <1>3, <1>4, <2>1, EndKeeps DEF Final
<1>5. CASE Status(worker.job) # "cancelled"
  <2>1. worker' = [worker EXCEPT !.stage = "finish"]
    BY <1>5 DEF PipelineReturns
  <2>2. /\ worker' \in [job : 1..Len(job), stage : Stages \cup {"end", "finish"},
                        lang : 0..Langs, seg : 0..Segs]
        /\ worker'.job = worker.job /\ worker'.stage = "finish"
    BY <1>2, <2>1
  <2>3. job[worker.job].error \/ job[worker.job].outputs = Langs
    BY <1>1, <1>5 DEF IInv, WorkerOK
  <2>4. worker' # Idle /\ "finish" \notin Stages
    BY <2>2 DEF Idle, Stages, GpuStages
  <2>5. job[worker.job].status # "queued"
    BY <1>1, <1>2 DEF IInv, WorkerOK, Status
  <2>6. Allowed(job[worker.job], worker')
    BY <2>2, <2>3, <2>4, <2>5 DEF Allowed
  <2>7. QED BY <1>1, <1>2, <1>3, <2>2, <2>6, WorkerStep
<1>6. QED BY <1>4, <1>5

\* The final write, a failure of the pipeline, and a reset of the GPU pool.
LEMMA WorkerEndsKeeps ==
    ASSUME IInv, WorkerDone \/ PipelineRaises \/ PoolReset PROVE IInv'
<1>1. CASE WorkerDone
  <2>1. /\ worker.stage = "finish" /\ SetStatus(worker.job, "done") /\ worker' = Idle
        /\ UNCHANGED <<listed, queue, client>> /\ resets' \in 0..MaxResets
    BY <1>1 DEF WorkerDone, IInv, TypeOK
  <2>2. job[worker.job].error \/ job[worker.job].outputs = Langs
    BY <2>1 DEF IInv, WorkerOK
  <2>3. QED BY <2>1, <2>2, EndKeeps DEF Final
<1>2. CASE PipelineRaises
  <2>1. /\ worker.stage \in Stages /\ worker' = Idle
        /\ job' = [job EXCEPT ![worker.job].status = "failed", ![worker.job].error = TRUE]
        /\ UNCHANGED <<listed, queue, client>> /\ resets' \in 0..MaxResets
    BY <1>2 DEF PipelineRaises, IInv, TypeOK
  <2>2. "failed" \in Final /\ "failed" # "done"
    BY DEF Final
  <2>3. QED BY <2>1, <2>2, EndKeeps
<1>3. CASE PoolReset
  <2>1. /\ worker.stage \in Stages /\ worker' = Idle /\ SetStatus(worker.job, "cancelled")
        /\ UNCHANGED <<listed, queue, client>>
    BY <1>3 DEF PoolReset, Stages
  <2>2. resets' \in 0..MaxResets
    BY <1>3, BatchQueueAssumption DEF PoolReset, IInv, TypeOK
  <2>3. "cancelled" \in Final /\ "cancelled" # "done"
    BY DEF Final
  <2>4. QED BY <2>1, <2>2, <2>3, EndKeeps
<1>4. QED BY <1>1, <1>2, <1>3

----------------------------------------------------------------------------
\* The invariant holds at first.
LEMMA Initially == Init => IInv
<1> SUFFICES ASSUME Init PROVE IInv
  OBVIOUS
<1>1. /\ job = <<>> /\ Len(job) = 0 /\ listed = {} /\ queue = <<>> /\ Len(queue) = 0
      /\ worker = Idle /\ client = [c \in Clients |-> 0] /\ resets = 0
  BY DEF Init
<1>2. TypeOK
  BY <1>1, BatchQueueAssumption DEF TypeOK
<1>3. worker.stage = "idle" /\ "idle" \notin Stages
  BY <1>1 DEF Idle, Stages, GpuStages
<1>4. QueueOK /\ WorkerOK /\ Accounted /\ DoneIsComplete /\ WholeChecks
  BY <1>1, <1>3 DEF QueueOK, WorkerOK, Accounted, DoneIsComplete, WholeChecks
<1>5. QED BY <1>2, <1>4 DEF IInv

\* Every step keeps it.
LEMMA Inductive == IInv /\ [Next]_vars => IInv'
<1> SUFFICES ASSUME IInv, [Next]_vars PROVE IInv'
  OBVIOUS
<1>1. CASE Enqueue
  BY <1>1, EnqueueKeeps
<1>2. ASSUME NEW c \in Clients, CancelWrite(c) PROVE IInv'
  BY <1>2, CancelWriteKeeps
<1>3. ASSUME NEW c \in Clients, NEW j \in listed, Cancel(c, j) PROVE IInv'
  BY <1>3, CancelKeeps
<1>4. ASSUME NEW j \in listed, Delete(j) PROVE IInv'
  BY <1>4, DeleteKeeps
<1>5. CASE WorkerGet \/ WorkerStart
  BY <1>5, WorkerGetKeeps, WorkerStartKeeps
<1>6. CASE Extracted \/ Translated \/ ModelReady
  BY <1>6, SimpleStageKeeps
<1>7. CASE Transcribed \/ SegmentDone \/ Mixed \/ PipelineReturns
  BY <1>7, TranscribedKeeps, SegmentDoneKeeps, MixedKeeps, PipelineReturnsKeeps
<1>8. CASE WorkerDone \/ PipelineRaises \/ PoolReset
  BY <1>8, WorkerEndsKeeps
<1>9. CASE UNCHANGED vars
  BY <1>9 DEF vars, IInv, TypeOK, QueueOK, WorkerOK, Accounted, DoneIsComplete,
              WholeChecks, Status
<1>10. QED
  BY <1>1, <1>2, <1>3, <1>4, <1>5, <1>6, <1>7, <1>8, <1>9 DEF Next, Worker, Pipeline

LEMMA Invariant == Spec => []IInv
BY Initially, Inductive, PTL DEF Spec

\* A listed job that shows as queued or running is in the queue or with the
\* worker, whatever is cancelled, deleted, raised or reset (_worker).
THEOREM JobsAccounted == Spec => []Accounted
BY Invariant, PTL DEF IInv

\* The downloads offered for a job that is done are complete (_run_pipeline).
THEOREM DownloadsComplete == Spec => []DoneIsComplete
BY Invariant, PTL DEF IInv

\* While a job's status says cancelled, its pipeline starts neither work on the GPU nor
\* a language (the looks at the status between the stages).  A cancel that WorkerStart
\* wrote over (batch.py:473) is not such a state: its job does use the GPU.
THEOREM CancelStopsGpu == Spec => CancelSavesGpu
<1> DEFINE A == worker # Idle /\ Status(worker.job) = "cancelled" =>
                  /\ worker'.stage \in GpuStages => worker' = worker
                  /\ worker'.lang <= worker.lang
<1>1. IInv /\ [Next]_vars => [A]_vars
  <2> SUFFICES ASSUME IInv, Next, worker # Idle, Status(worker.job) = "cancelled"
               PROVE  /\ worker'.stage \in GpuStages => worker' = worker
                      /\ worker'.lang <= worker.lang
    OBVIOUS
  <2>1. /\ worker.stage # "idle" /\ worker.lang \in 0..Langs /\ Langs \in Nat
        /\ worker.lang >= 0
        /\ worker \in [job : 1..Len(job), stage : Stages \cup {"take", "end", "finish"},
                       lang : 0..Langs, seg : 0..Segs]
    BY WorkerFields, BatchQueueAssumption DEF IInv, TypeOK
  <2>2. CASE worker' = worker
    BY <2>1, <2>2
  <2>3. ASSUME NEW s \in {"extract", "end", "finish", "mix"}, NEW g,
               worker' = [worker EXCEPT !.stage = s] \/ worker' = [worker EXCEPT !.stage = s, !.seg = g]
        PROVE  worker'.lang <= worker.lang /\ worker'.stage \notin GpuStages
    <3>1. worker'.lang = worker.lang /\ worker'.stage = s
      BY <2>1, <2>3
    <3>2. worker.lang <= worker.lang
      BY <2>1
    <3>3. QED BY <3>1, <3>2 DEF GpuStages
  <2>4. ASSUME NEW next, GoOn(next) PROVE worker' = [worker EXCEPT !.stage = "end"]
    BY <2>4 DEF GoOn
  <2>5. CASE worker' = Idle
    BY <2>1, <2>5 DEF Idle, GpuStages
  <2>6. CASE Extracted \/ Transcribed \/ Translated \/ ModelReady
    BY <2>3, <2>4, <2>6 DEF Extracted, Transcribed, Translated, ModelReady
  <2>7. CASE SegmentDone \/ Mixed \/ PipelineReturns \/ WorkerStart
    BY <2>3, <2>4, <2>5, <2>7 DEF SegmentDone, Mixed, PipelineReturns, WorkerStart
  <2>8. QED
    BY <2>2, <2>5, <2>6, <2>7
       DEF Next, Worker, Pipeline, Enqueue, Cancel, CancelWrite, Delete, WorkerGet,
           WorkerDone, PipelineRaises, PoolReset
<1>2. QED BY <1>1, Invariant, PTL DEF Spec, CancelSavesGpu

\* If no thread switch separates a check from its write, a job cancelled in the
\* queue is never started: only that switch lets WorkerStart override a cancel.
THEOREM CancelledStaysInQueue == ASSUME ~Preempt PROVE Spec => CancelledNotStarted
<1> DEFINE A == \A j \in 1..Len(job) :
                  Status(j) = "cancelled" => job'[j].status # "running"
<1>1. IInv /\ [Next]_vars => [A]_vars
  <2> SUFFICES ASSUME IInv, Next, NEW j \in 1..Len(job), Status(j) = "cancelled",
                      job'[j] # job[j]
               PROVE  job'[j].status # "running"
    BY DEF Status
  <2>1. CASE Enqueue
    BY <2>1 DEF Enqueue, IInv, TypeOK
  <2>2. ASSUME NEW k \in 1..Len(job), NEW s \in Final, SetStatus(k, s)
        PROVE  job'[j].status # "running"
    <3>1. job'[j].status = IF j = k THEN s ELSE job[j].status
      BY <2>2, StatusChange DEF IInv
    <3>2. QED BY <3>1 DEF Final, Status
  <2>3. ASSUME NEW c \in Clients, Cancel(c, j) \/ CancelWrite(c)
               \/ \E k \in listed : Cancel(c, k)
        PROVE  job'[j].status # "running"
    <3>1. client[c] = 0
      BY DEF IInv, WholeChecks
    <3>2. \E k \in 1..Len(job) : SetStatus(k, "cancelled")
      BY <2>3, <3>1 DEF Cancel, CancelWrite, IInv, TypeOK
    <3>3. QED BY <2>2, <3>2 DEF Final
  <2>4. CASE WorkerStart
    <3>1. worker.job # j /\ SetStatus(worker.job, "running")
      BY <2>4 DEF WorkerStart, IInv, WholeChecks
    <3>2. QED BY <3>1 DEF SetStatus, Status, IInv, TypeOK
  <2>5. CASE WorkerDone \/ PoolReset
    <3>1. worker.job \in 1..Len(job)
      BY <2>5, BusyFields DEF WorkerDone, PoolReset, Stages
    <3>2. QED BY <2>2, <2>5, <3>1 DEF WorkerDone, PoolReset, Final
  <2>6. ASSUME worker.stage \in Stages, job' = [job EXCEPT ![worker.job].status = "failed",
                                                         ![worker.job].error = TRUE]
        PROVE  job'[j].status # "running"
    <3>1. worker.job \in 1..Len(job)
      BY <2>6, BusyFields
    <3>2. job'[j].status = IF j = worker.job THEN "failed" ELSE job[j].status
      BY <2>6, <3>1, FailChange DEF IInv
    <3>3. QED BY <3>2 DEF Status
  <2>7. CASE Transcribed \/ PipelineRaises
    BY <2>6, <2>7 DEF Transcribed, PipelineRaises, Stages, GpuStages
  <2>8. CASE Mixed
    <3>1. job' = [job EXCEPT ![worker.job].outputs = Langs] /\ worker.job \in 1..Len(job)
      BY <2>8, BusyFields DEF Mixed, Stages
    <3>2. job'[j].status = job[j].status
      BY <3>1, JobFields DEF IInv, TypeOK, Job
    <3>3. QED BY <3>2 DEF Status
  <2>9. QED
    BY <2>1, <2>3, <2>4, <2>5, <2>7, <2>8
       DEF Next, Worker, Pipeline, Delete, WorkerGet, Extracted, Translated, ModelReady,
           SegmentDone, PipelineReturns
<1>2. QED BY <1>1, Invariant, PTL DEF Spec, CancelledNotStarted

\* Under the same condition what was reported done stays done: only a cancel
\* between whose look and write the job ended can take the downloads away.
THEOREM DoneForGood == ASSUME ~Preempt PROVE Spec => DoneStays
<1> DEFINE A == \A j \in 1..Len(job) :
                  Status(j) = "done" /\ ~job[j].error => job'[j].status = "done"
<1>1. IInv /\ [Next]_vars => [A]_vars
  <2> SUFFICES ASSUME IInv, Next, NEW j \in 1..Len(job), Status(j) = "done",
                      job'[j] # job[j]
               PROVE  job'[j].status = "done"
    BY DEF Status
  <2>1. CASE Enqueue
    BY <2>1 DEF Enqueue, IInv, TypeOK
  <2>2. ASSUME NEW c \in Clients, CancelWrite(c) \/ \E k \in listed : Cancel(c, k)
        PROVE  job'[j].status = "done"
    <3>1. client[c] = 0
      BY DEF IInv, WholeChecks
    <3>2. PICK k \in 1..Len(job) : Status(k) \notin Final /\ SetStatus(k, "cancelled")
      BY <2>2, <3>1 DEF Cancel, CancelWrite, IInv, TypeOK
    <3>3. k # j
      BY <3>2 DEF Final
    <3>4. QED BY <3>2, <3>3 DEF SetStatus, Status, IInv, TypeOK
  <2>3. worker.stage \in Stages \cup {"take"} => worker.job # j
    BY DEF IInv, WorkerOK
  <2>4. CASE WorkerStart \/ PoolReset
    <3>1. worker.job # j /\ \E s : SetStatus(worker.job, s)
      BY <2>3, <2>4 DEF WorkerStart, PoolReset, Stages
    <3>2. QED BY <3>1 DEF SetStatus, Status, IInv, TypeOK
  <2>5. CASE WorkerDone
    <3>1. worker.job \in 1..Len(job) /\ SetStatus(worker.job, "done")
      BY <2>5, BusyFields DEF WorkerDone
    <3>2. job'[j].status = IF j = worker.job THEN "done" ELSE job[j].status
      BY <3>1, StatusChange DEF IInv, Final
    <3>3. QED BY <3>2 DEF Status
  <2>6. CASE Transcribed \/ PipelineRaises \/ Mixed
    <3>1. worker.job # j
      BY <2>3, <2>6 DEF Transcribed, PipelineRaises, Mixed, Stages, GpuStages
    <3>2. QED BY <2>6, <3>1 DEF Transcribed, PipelineRaises, Mixed, IInv, TypeOK
  <2>7. QED
    BY <2>1, <2>2, <2>4, <2>5, <2>6
       DEF Next, Worker, Pipeline, Delete, WorkerGet, Extracted, Translated, ModelReady,
           SegmentDone, PipelineReturns
<1>2. QED BY <1>1, Invariant, PTL DEF Spec, DoneStays

----------------------------------------------------------------------------
(***************************************************************************)
(* The worker and its queue implement FifoService.                         *)
(***************************************************************************)

\* The state of FifoService that the queue shows.
Phases == [j \in 1..MaxJobs |-> PhaseOf(j)]
Served == [l \in {"worker"} |-> worker.job]

\* What the numbers of jobs are, and that no job that waits is being served.
LEMMA Places ==
    ASSUME IInv
    PROVE  /\ Len(job) \in 0..MaxJobs /\ MaxJobs \in Nat
           /\ 1..Len(job) \subseteq 1..MaxJobs
           /\ \A j \in 1..MaxJobs : j > Len(job) \/ (j \in 1..Len(job) /\ ~(j > Len(job)))
           /\ \A j \in 1..Len(job) : ~(j > Len(job))
           /\ \A i \in 1..Len(queue) : queue[i] \in 1..Len(job) /\ queue[i] # worker.job
           /\ \A j \in 1..MaxJobs : Waits(j) => j # worker.job /\ j \in 1..Len(job)
<1>1. Len(job) \in 0..MaxJobs /\ MaxJobs \in Nat /\ worker.job \in 0..Len(job)
  BY WorkerFields, BatchQueueAssumption DEF IInv
<1>2. \A i \in 1..Len(queue) : queue[i] \in 1..Len(job) /\ worker.job < queue[i]
  BY ElementOfSeq DEF IInv, TypeOK, QueueOK
<1>3. \A i \in 1..Len(queue) : queue[i] # worker.job
  BY <1>1, <1>2
<1>4. QED BY <1>1, <1>2, <1>3 DEF Waits

\* The worker goes on with its job, whatever becomes of its status, or is done
\* with it.
LEMMA WorkerServes ==
    ASSUME IInv, worker # Idle, UNCHANGED <<listed, queue>>, Len(job') = Len(job),
           \A k \in 1..Len(job) : k # worker.job => job'[k].status = job[k].status,
           worker'.job = worker.job \/ worker' = Idle
    PROVE  [Service!Next]_<<Phases, Served>>
<1>1. worker.job \in 1..Len(job) /\ worker.job \in 1..MaxJobs /\ worker.job # 0
  BY WorkerFields, Places DEF IInv
<1>2. \A j \in 1..MaxJobs : Waits(j)' = Waits(j)
  BY Places DEF Waits, Status
<1>3. ~Waits(worker.job) /\ ~(worker.job > Len(job))
  BY <1>1, Places
<1>4. CASE worker'.job = worker.job
  <2>1. \A j \in 1..MaxJobs : PhaseOf(j)' = PhaseOf(j)
    BY <1>2, <1>4 DEF PhaseOf
  <2>2. Phases' = Phases /\ Served' = Served
    BY <1>4, <2>1 DEF Phases, Served
  <2>3. QED BY <2>2
<1>5. CASE worker' = Idle
  <2>0. worker'.job = 0
    BY <1>5 DEF Idle
  <2>1. ASSUME NEW j \in 1..MaxJobs
        PROVE  Phases'[j] = [Phases EXCEPT ![worker.job] = "over"][j]
    <3>1. CASE j = worker.job
      <4>1. PhaseOf(j)' = "over"
        BY <1>1, <1>2, <1>3, <2>0, <3>1 DEF PhaseOf
      <4>2. QED BY <3>1, <4>1 DEF Phases
    <3>2. CASE j # worker.job
      <4>1. j # worker'.job
        BY <2>0
      <4>2. PhaseOf(j)' = PhaseOf(j)
        BY <1>2, <3>2, <4>1 DEF PhaseOf
      <4>3. QED BY <3>2, <4>2 DEF Phases
    <3>3. QED BY <3>1, <3>2
  <2>2. Phases' = [Phases EXCEPT ![worker.job] = "over"]
    BY <2>1 DEF Phases
  <2>3. Served["worker"] = worker.job /\ Served' = [Served EXCEPT !["worker"] = 0]
    BY <2>0 DEF Served
  <2>4. Service!Leave("worker", "over")
    BY <1>1, <2>2, <2>3 DEF Service!Leave, Phases, Served
  <2>5. QED BY <2>4 DEF Service!Next
<1>6. QED BY <1>4, <1>5

\* A job is taken out of the list, or its status becomes "cancelled".
LEMMA WithdrawServes ==
    ASSUME IInv, UNCHANGED <<queue, worker>>, Len(job') = Len(job), NEW j \in 1..Len(job),
           \A k \in 1..Len(job) : k # j => /\ job'[k].status = job[k].status
                                           /\ k \in listed' <=> k \in listed,
           j \notin listed' \/ job'[j].status = "cancelled"
    PROVE  [Service!Next]_<<Phases, Served>>
<1>1. \A k \in 1..MaxJobs : k # j => Waits(k)' = Waits(k)
  BY Places DEF Waits, Status
<1>2. ~Waits(j)' /\ j \in 1..MaxJobs /\ ~(j > Len(job))
  BY Places DEF Waits, Status
<1>3. Served' = Served
  BY DEF Served
<1>4. ASSUME NEW k \in 1..MaxJobs, k # j PROVE PhaseOf(k)' = PhaseOf(k)
  BY <1>1, <1>4 DEF PhaseOf
<1>5. CASE ~Waits(j)
  <2>1. PhaseOf(j)' = PhaseOf(j)
    BY <1>2, <1>5 DEF PhaseOf
  <2>2. Phases' = Phases
    BY <1>4, <2>1 DEF Phases
  <2>3. QED BY <1>3, <2>2
<1>6. CASE Waits(j)
  <2>1. j # worker.job
    BY <1>2, <1>6, Places
  <2>2. PhaseOf(j) = "queued" /\ PhaseOf(j)' = "over"
    BY <1>2, <1>6, <2>1 DEF PhaseOf
  <2>3. \A k \in 1..MaxJobs : Phases'[k] = [Phases EXCEPT ![j] = "over"][k]
    BY <1>4, <2>2 DEF Phases
  <2>4. Phases' = [Phases EXCEPT ![j] = "over"] /\ Phases[j] = "queued"
    BY <1>2, <2>2, <2>3 DEF Phases
  <2>5. Service!Withdraw(j)
    BY <1>3, <2>4 DEF Service!Withdraw, Phases, Served
  <2>6. QED BY <1>2, <2>5 DEF Service!Next
<1>7. QED BY <1>5, <1>6

\* An upload is behind all others.
LEMMA EnqueueServes == ASSUME IInv, Enqueue PROVE Service!Next
<1>1. PICK n \in 1..MaxJobs : n = Len(job) + 1
  BY Places DEF Enqueue
<1>2. /\ listed' = listed \cup {n} /\ queue' = Append(queue, n) /\ worker' = worker
      /\ Len(job') = n /\ job'[n].status = "queued"
      /\ \A j \in 1..Len(job) : job'[j] = job[j]
  <2>1. job \in Seq(Job) /\ job' = Append(job, [status |-> "queued", error |-> FALSE, outputs |-> 0])
    BY DEF Enqueue, IInv, TypeOK
  <2>2. QED BY <1>1, <2>1 DEF Enqueue
<1>3. /\ Len(queue) \in Nat /\ Len(queue') = Len(queue) + 1 /\ queue'[Len(queue) + 1] = n
      /\ \A k \in 1..Len(queue) : queue'[k] = queue[k] /\ k \in 1..Len(queue')
      /\ \A k \in 1..Len(queue') : k = Len(queue) + 1 \/ k \in 1..Len(queue)
      /\ Len(queue) + 1 \in 1..Len(queue')
  <2>1. queue \in Seq(1..Len(job))
    BY DEF IInv, TypeOK
  <2>2. QED BY <1>2, <2>1
<1>4. \A j \in 1..MaxJobs : \/ j < n /\ j \in 1..Len(job) /\ ~(j > Len(job)) /\ ~(j > n) /\ j # n
                            \/ j = n /\ j > Len(job) /\ ~(j > n)
                            \/ j > n /\ j > Len(job) /\ j # n /\ ~(j < n)
  BY <1>1, Places
<1>5. \A j \in 1..Len(job) : Waits(j)' = Waits(j)
  BY <1>1, <1>2, <1>3, <1>4, Places DEF Waits, Status
<1>6. Waits(n)'
  BY <1>2, <1>3 DEF Waits, Status
<1>7. \A j \in 1..MaxJobs : Phases'[j] = [Phases EXCEPT ![n] = "queued"][j]
  <2> SUFFICES ASSUME NEW j \in 1..MaxJobs PROVE Phases'[j] = [Phases EXCEPT ![n] = "queued"][j]
    OBVIOUS
  <2>1. CASE j \in 1..Len(job) /\ ~(j > Len(job)) /\ ~(j > n) /\ j # n
    <3>1. PhaseOf(j)' = PhaseOf(j)
      BY <1>2, <1>5, <2>1 DEF PhaseOf
    <3>2. QED BY <2>1, <3>1 DEF Phases
  <2>2. CASE j = n
    <3>1. PhaseOf(j)' = "queued"
      BY <1>2, <1>4, <1>6, <2>2 DEF PhaseOf
    <3>2. QED BY <2>2, <3>1 DEF Phases
  <2>3. CASE j > n /\ j > Len(job) /\ j # n
    BY <1>2, <2>3 DEF Phases, PhaseOf
  <2>4. QED BY <1>4, <2>1, <2>2, <2>3
<1>8. Phases' = [Phases EXCEPT ![n] = "queued"] /\ Served' = Served
  BY <1>2, <1>7 DEF Phases, Served
<1>9. Phases[n] = "absent" /\ \A j \in 1..MaxJobs : j < n => Phases[j] # "absent"
  BY <1>1, <1>4 DEF Phases, PhaseOf
<1>10. Service!Arrive(n)
  BY <1>8, <1>9 DEF Service!Arrive, Phases, Served
<1>11. QED BY <1>10 DEF Service!Next

\* The worker takes the first job that waits, or skips one that does not.
LEMMA GetServes == ASSUME IInv, WorkerGet PROVE [Service!Next]_<<Phases, Served>>
<1>1. /\ worker = Idle /\ worker.job = 0 /\ queue # <<>> /\ queue' = Tail(queue)
      /\ UNCHANGED <<job, listed>>
  BY DEF WorkerGet, Idle
<1>2. /\ Len(queue) \in Nat /\ Len(queue) # 0 /\ 1 \in 1..Len(queue) /\ Head(queue) = queue[1]
      /\ Len(queue') = Len(queue) - 1
      /\ \A k \in 1..Len(queue') : queue'[k] = queue[k + 1] /\ k + 1 \in 1..Len(queue)
      /\ \A k \in 1..Len(queue) : k = 1 \/ (k - 1 \in 1..Len(queue') /\ queue'[k - 1] = queue[k])
  <2>1. queue \in Seq(1..Len(job))
    BY DEF IInv, TypeOK
  <2>2. QED BY <1>1, <2>1
<1>3. PICK n \in 1..Len(job) : n = Head(queue)
  BY <1>2, Places
<1>4. /\ n \in 1..MaxJobs /\ ~(n > Len(job)) /\ n # 0
      /\ \A k \in 1..Len(queue) : k = 1 \/ n < queue[k]
  BY <1>2, <1>3, Places DEF IInv, QueueOK
<1>5. \A j \in 1..MaxJobs : j # n => Waits(j)' = Waits(j)
  BY <1>1, <1>2, <1>3 DEF Waits, Status
<1>6. ~Waits(n)'
  <2>1. \A k \in 1..Len(queue') : n < queue'[k] /\ queue'[k] \in 1..Len(job)
    BY <1>2, <1>4, Places
  <2>2. \A k \in 1..Len(queue') : queue'[k] # n
    BY <1>3, <2>1
  <2>3. QED BY <2>2 DEF Waits
<1>7. Waits(n) <=> n \in listed /\ Status(n) # "cancelled"
  BY <1>2, <1>3 DEF Waits
<1>8. CASE ~Waits(n)
  <2>1. worker' = worker
    BY <1>3, <1>7, <1>8 DEF WorkerGet
  <2>2. \A j \in 1..MaxJobs : PhaseOf(j)' = PhaseOf(j)
    BY <1>1, <1>5, <1>6, <1>8, <2>1 DEF PhaseOf
  <2>3. Phases' = Phases /\ Served' = Served
    BY <2>1, <2>2 DEF Phases, Served
  <2>4. QED BY <2>3
<1>9. CASE Waits(n)
  <2>1. worker'.job = n
    BY <1>3, <1>7, <1>9 DEF WorkerGet, Idle
  <2>2. PhaseOf(n) = "queued" /\ PhaseOf(n)' = "running"
    BY <1>1, <1>4, <1>6, <1>9, <2>1 DEF PhaseOf
  <2>3. ASSUME NEW j \in 1..MaxJobs, j # n PROVE PhaseOf(j)' = PhaseOf(j)
    <3>1. j # worker.job /\ j # worker'.job
      BY <1>1, <2>1, <2>3, Places
    <3>2. QED BY <1>1, <1>5, <2>3, <3>1 DEF PhaseOf
  <2>4. \A j \in 1..MaxJobs : Phases'[j] = [Phases EXCEPT ![n] = "running"][j]
    BY <2>2, <2>3 DEF Phases
  <2>5. Phases' = [Phases EXCEPT ![n] = "running"] /\ Phases[n] = "queued"
    BY <1>4, <2>2, <2>4 DEF Phases
  <2>6. Served' = [Served EXCEPT !["worker"] = n] /\ Served["worker"] = 0
    BY <1>1, <2>1 DEF Served
  <2>7. ASSUME NEW j \in 1..MaxJobs, j < n PROVE Phases[j] # "queued"
    <3>1. \A k \in 1..Len(queue) : queue[k] # j
      BY <1>2, <1>3, <1>4, <2>7, Places
    <3>2. QED BY <3>1 DEF Phases, PhaseOf, Waits
  <2>8. Service!Serve("worker", n)
    BY <2>5, <2>6, <2>7 DEF Service!Serve, Phases, Served
  <2>9. QED BY <1>4, <2>8 DEF Service!Next
<1>10. QED BY <1>8, <1>9

\* Every step of the queue is a step of FifoService or none.
LEMMA NextServes == ASSUME IInv, [Next]_vars PROVE [Service!Next]_<<Phases, Served>>
<1>1. CASE Enqueue
  BY <1>1, EnqueueServes
<1>2. CASE WorkerGet
  BY <1>2, GetServes
<1>3. ASSUME NEW j \in 1..Len(job), SetStatus(j, "cancelled"), UNCHANGED <<listed, queue, worker>>
      PROVE  [Service!Next]_<<Phases, Served>>
  <2>1. /\ Len(job') = Len(job)
        /\ \A k \in 1..Len(job) : job'[k].status = IF k = j THEN "cancelled" ELSE job[k].status
    BY <1>3, StatusChange DEF IInv, Final
  <2>2. QED BY <1>3, <2>1, WithdrawServes
<1>4. ASSUME UNCHANGED <<job, listed, queue, worker>> PROVE UNCHANGED <<Phases, Served>>
  BY <1>4 DEF Phases, Served, PhaseOf, Waits, Status
<1>5. ASSUME NEW c \in Clients, CancelWrite(c) \/ \E j \in listed : Cancel(c, j)
      PROVE  [Service!Next]_<<Phases, Served>>
  <2>1. /\ UNCHANGED <<listed, queue, worker>>
        /\ job' = job \/ \E j \in 1..Len(job) : SetStatus(j, "cancelled")
    BY <1>5, Places DEF CancelWrite, Cancel, IInv, TypeOK
  <2>2. QED BY <1>3, <1>4, <2>1
<1>6. ASSUME NEW j \in listed, Delete(j) PROVE [Service!Next]_<<Phases, Served>>
  <2>1. /\ j \in 1..Len(job) /\ UNCHANGED <<job, queue, worker>> /\ listed' = listed \ {j}
    BY <1>6 DEF Delete, IInv, TypeOK
  <2>2. QED BY <2>1, WithdrawServes
<1>7. ASSUME worker # Idle, UNCHANGED <<listed, queue>>,
             worker'.job = worker.job \/ worker' = Idle,
             \/ job' = job
             \/ \E s \in {"running", "done", "cancelled"} : SetStatus(worker.job, s)
             \/ job' = [job EXCEPT ![worker.job].status = "failed", ![worker.job].error = TRUE]
             \/ job' = [job EXCEPT ![worker.job].outputs = Langs]
      PROVE  [Service!Next]_<<Phases, Served>>
  <2>1. worker.job \in 1..Len(job) /\ job[worker.job] \in Job
    BY <1>7, WorkerFields, JobFields DEF IInv
  <2>2. ASSUME NEW e \in Job, job' = [job EXCEPT ![worker.job] = e]
        PROVE  /\ Len(job') = Len(job)
               /\ \A k \in 1..Len(job) : k # worker.job => job'[k].status = job[k].status
    BY <2>1, <2>2, JobChange DEF IInv
  <2>3. CASE job' = job
    BY <1>7, <2>3, WorkerServes
  <2>4. CASE job' # job
    <3>1. \E e \in Job : job' = [job EXCEPT ![worker.job] = e]
      <4>1. /\ \A s \in {"running", "done", "cancelled"} : [job[worker.job] EXCEPT !.status = s] \in Job
            /\ [job[worker.job] EXCEPT !.status = "failed", !.error = TRUE] \in Job
            /\ [job[worker.job] EXCEPT !.outputs = Langs] \in Job
        <5>1. Langs \in 0..Langs
          BY BatchQueueAssumption
        <5>2. \A s \in {"running", "done", "cancelled"} : [job[worker.job] EXCEPT !.status = s] \in Job
          BY <2>1 DEF Job, Final
        <5>3. [job[worker.job] EXCEPT !.status = "failed", !.error = TRUE] \in Job
          BY <2>1 DEF Job, Final
        <5>4. [job[worker.job] EXCEPT !.outputs = Langs] \in Job
          BY <2>1, <5>1 DEF Job
        <5>5. QED BY <5>2, <5>3, <5>4
      <4>2. \/ \E s \in {"running", "done", "cancelled"} :
                 job' = [job EXCEPT ![worker.job] = [job[worker.job] EXCEPT !.status = s]]
            \/ job' = [job EXCEPT ![worker.job] =
                         [job[worker.job] EXCEPT !.status = "failed", !.error = TRUE]]
            \/ job' = [job EXCEPT ![worker.job] = [job[worker.job] EXCEPT !.outputs = Langs]]
        BY <1>7, <2>1, <2>4 DEF SetStatus, IInv, TypeOK
      <4>3. QED BY <4>1, <4>2
    <3>2. QED BY <1>7, <2>2, <3>1, WorkerServes
  <2>5. QED BY <2>3, <2>4
<1>8. ASSUME worker # Idle
      PROVE  worker \in [job : 1..Len(job), stage : Stages \cup {"take", "end", "finish"},
                         lang : 0..Langs, seg : 0..Segs]
  BY <1>8 DEF IInv, TypeOK
<1>9. worker.stage \in Stages \cup {"take", "end", "finish"} => worker # Idle
  BY DEF Idle, Stages, GpuStages
<1>10. CASE Extracted \/ Translated \/ ModelReady \/ SegmentDone \/ PipelineReturns
  <2>1. worker # Idle /\ UNCHANGED <<job, listed, queue>>
    BY <1>9, <1>10 DEF Extracted, Translated, ModelReady, SegmentDone, PipelineReturns, Stages, GpuStages
  <2>2. worker'.job = worker.job \/ worker' = Idle
    <3>1. CASE Extracted
      BY <1>8, <2>1, <3>1 DEF Extracted, GoOn
    <3>2. CASE Translated
      BY <1>8, <2>1, <3>2 DEF Translated, GoOn
    <3>3. CASE ModelReady
      BY <1>8, <2>1, <3>3 DEF ModelReady, GoOn
    <3>4. CASE SegmentDone
      BY <1>8, <2>1, <3>4 DEF SegmentDone, GoOn
    <3>5. CASE PipelineReturns
      BY <1>8, <2>1, <3>5 DEF PipelineReturns
    <3>6. QED BY <1>10, <3>1, <3>2, <3>3, <3>4, <3>5
  <2>3. QED BY <1>7, <2>1, <2>2
<1>11. CASE Transcribed \/ Mixed \/ WorkerStart
  <2>1. worker # Idle /\ UNCHANGED <<listed, queue>>
    BY <1>9, <1>11 DEF Transcribed, Mixed, WorkerStart, Stages, GpuStages
  <2>2. worker'.job = worker.job
    <3>1. CASE Transcribed
      BY <1>8, <2>1, <3>1 DEF Transcribed, GoOn
    <3>2. CASE Mixed
      BY <1>8, <2>1, <3>2 DEF Mixed, GoOn
    <3>3. CASE WorkerStart
      BY <1>8, <2>1, <3>3 DEF WorkerStart
    <3>4. QED BY <1>11, <3>1, <3>2, <3>3
  <2>3. QED BY <1>7, <1>11, <2>1, <2>2 DEF Transcribed, Mixed, WorkerStart
<1>12. CASE WorkerDone \/ PipelineRaises \/ PoolReset
  <2>1. worker # Idle /\ UNCHANGED <<listed, queue>> /\ worker' = Idle
    BY <1>9, <1>12 DEF WorkerDone, PipelineRaises, PoolReset, Stages, GpuStages
  <2>2. QED BY <1>7, <1>12, <2>1 DEF WorkerDone, PipelineRaises, PoolReset
<1>13. QED
  BY <1>1, <1>2, <1>4, <1>5, <1>6, <1>10, <1>11, <1>12 DEF Next, Worker, Pipeline, vars

\* The worker is a FifoService on one lane: the uploads are taken up in their
\* order, one at a time and each once, and one that was cancelled or deleted in the
\* queue is never taken up -- also when a thread cancels or deletes between any two
\* lines of the worker.
THEOREM UploadsInOrder == Spec => ServesInOrder
<1>1. Init => Service!Init
  <2> SUFFICES ASSUME Init PROVE Service!Init
    OBVIOUS
  <2>1. Len(job) = 0 /\ worker.job = 0
    BY DEF Init, Idle
  <2>2. \A j \in 1..MaxJobs : PhaseOf(j) = "absent"
    BY <2>1, BatchQueueAssumption DEF PhaseOf
  <2>3. QED BY <2>1, <2>2 DEF Service!Init
<1>2. IInv /\ [Next]_vars => [Service!Next]_<<Phases, Served>>
  BY NextServes
<1>3. QED
  BY <1>1, <1>2, Invariant, PTL DEF Spec, ServesInOrder, Service!Spec, Service!vars, Phases, Served
=============================================================================
