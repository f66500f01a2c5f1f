----------------------------- MODULE BatchQueue -----------------------------
(***************************************************************************)
(* The batch dubbing queue (backend/api/routers/batch.py, the /batch/jobs   *)
(* half): one worker task takes uploaded videos and runs                    *)
(* extract, transcribe, translate, generate and mix on each.                *)
(*                                                                         *)
(* enqueue and the worker are coroutines of one loop, but cancel and delete *)
(* are plain functions: the server runs them in threads, so they interleave *)
(* with every await of the pipeline and, when Preempt holds, also with the  *)
(* lines between a check of the status and the write that follows it.       *)
(***************************************************************************)
EXTENDS Integers, Sequences, FiniteSets

CONSTANTS
    Clients,    \* threads that serve cancel
    Langs,      \* number of target languages of a job
    Segs,       \* number of segments of a transcript that is not empty
    MaxJobs,    \* bound: uploads
    MaxResets,  \* bound: resets of the GPU pool that meet a batch job
    Preempt     \* may a thread switch separate a check from its write?

ASSUME BatchQueueAssumption ==
    /\ {Langs, Segs} \subseteq Nat \ {0}
    /\ {MaxJobs, MaxResets} \subseteq Nat
    /\ Preempt \in BOOLEAN

VARIABLES
    job,     \* the job dicts, numbered by upload
    listed,  \* _jobs: the jobs the routes can find
    queue,   \* _queue
    worker,  \* the job, stage, language and segment of _worker
    client,  \* the job whose status a cancel has checked, 0 for none
    resets   \* resets so far

vars == <<job, listed, queue, worker, client, resets>>

Final == {"done", "failed", "cancelled"}

\* outputs counts the languages of job["outputs"]; error is set with a reason.
Job == [status : {"queued", "running"} \cup Final, error : BOOLEAN,
        outputs : 0..Langs]

GpuStages == {"transcribe", "model", "generate"}
Stages    == {"extract", "translate", "mix"} \cup GpuStages

Idle == [job |-> 0, stage |-> "idle", lang |-> 0, seg |-> 0]

TypeOK ==
    /\ job \in Seq(Job) /\ Len(job) <= MaxJobs
    /\ listed \subseteq 1..Len(job)
    /\ queue \in Seq(1..Len(job))
    /\ worker \in [job : 1..Len(job), stage : Stages \cup {"take", "end", "finish"},
                   lang : 0..Langs, seg : 0..Segs] \cup {Idle}
    /\ client \in [Clients -> 0..Len(job)]
    /\ resets \in 0..MaxResets

Init ==
    /\ job = <<>> /\ listed = {} /\ queue = <<>>
    /\ worker = Idle
    /\ client = [c \in Clients |-> 0]
    /\ resets = 0

\* Between a check of the worker and the write it guards.
InCheck == worker.stage \in {"take", "finish"}

Status(j) == job[j].status
SetStatus(j, s) == job' = [job EXCEPT ![j].status = s]

----------------------------------------------------------------------------
(* The routes.                                                             *)

Enqueue ==
    /\ Len(job) < MaxJobs
    /\ job' = Append(job, [status |-> "queued", error |-> FALSE,
                           outputs |-> 0])
    /\ listed' = listed \cup {Len(job) + 1}
    /\ queue' = Append(queue, Len(job) + 1)
    /\ UNCHANGED <<worker, client, resets>>

\* cancel answers at once for a job that has ended.
Cancel(c, j) ==
    /\ client[c] = 0 /\ j \in listed /\ Status(j) \notin Final
    /\ IF Preempt THEN client' = [client EXCEPT ![c] = j] /\ UNCHANGED job
                  ELSE ~InCheck /\ SetStatus(j, "cancelled") /\ UNCHANGED client
    /\ UNCHANGED <<listed, queue, worker, resets>>

CancelWrite(c) ==
    /\ client[c] # 0
    /\ SetStatus(client[c], "cancelled")
    /\ client' = [client EXCEPT ![c] = 0]
    /\ UNCHANGED <<listed, queue, worker, resets>>

\* delete forgets the job and its video; a worker that runs it is not told.
Delete(j) ==
    /\ j \in listed /\ (Preempt \/ ~InCheck)
    /\ listed' = listed \ {j}
    /\ UNCHANGED <<job, queue, worker, client, resets>>

----------------------------------------------------------------------------
(* The worker and the pipeline.                                            *)

\* Mutant: the status is not looked at.
WorkerGetUnchecked ==
    /\ worker = Idle /\ queue # <<>>
    /\ queue' = Tail(queue)
    /\ IF Head(queue) \in listed
       THEN worker' = [Idle EXCEPT !.job = Head(queue), !.stage = "take"]
       ELSE UNCHANGED worker
    /\ UNCHANGED <<job, listed, client, resets>>

\* A job that was deleted or cancelled in the queue is skipped.
WorkerGet ==
    /\ worker = Idle /\ queue # <<>>
    /\ queue' = Tail(queue)
    /\ IF Head(queue) \in listed /\ Status(Head(queue)) # "cancelled"
       THEN worker' = [Idle EXCEPT !.job = Head(queue), !.stage = "take"]
       ELSE UNCHANGED worker
    /\ UNCHANGED <<job, listed, client, resets>>

WorkerStart ==
    /\ worker.stage = "take"
    /\ SetStatus(worker.job, "running")
    /\ worker' = [worker EXCEPT !.stage = "extract"]
    /\ UNCHANGED <<listed, queue, client, resets>>

\* The pipeline goes on with next unless the job was cancelled meanwhile.
GoOn(next) ==
    worker' = IF Status(worker.job) = "cancelled"
              THEN [worker EXCEPT !.stage = "end"] ELSE next

Extracted ==
    /\ worker.stage = "extract"
    /\ GoOn([worker EXCEPT !.stage = "transcribe"])
    /\ UNCHANGED <<job, listed, queue, client, resets>>

\* A transcript without segments fails the job, whatever its status was.
Transcribed ==
    /\ worker.stage = "transcribe"
    /\ \/ /\ GoOn([worker EXCEPT !.stage = "translate", !.lang = 1])
          /\ UNCHANGED job
       \/ /\ job' = [job EXCEPT ![worker.job].status = "failed",
                                ![worker.job].error = TRUE]
          /\ worker' = [worker EXCEPT !.stage = "end"]
    /\ UNCHANGED <<listed, queue, client, resets>>

\* Mutant: no look at the status after the translation.
TranslatedBlind ==
    /\ worker.stage = "translate"
    /\ worker' = [worker EXCEPT !.stage = "model"]
    /\ UNCHANGED <<job, listed, queue, client, resets>>

\* A translation that fails leaves the original text.
Translated ==
    /\ worker.stage = "translate"
    /\ GoOn([worker EXCEPT !.stage = "model"])
    /\ UNCHANGED <<job, listed, queue, client, resets>>

ModelReady ==
    /\ worker.stage = "model"
    /\ GoOn([worker EXCEPT !.stage = "generate", !.seg = 1])
    /\ UNCHANGED <<job, listed, queue, client, resets>>

\* A segment that fails or times out stays silent.  The status is read before
\* a segment, not after the last one: the track is saved and mixed.
SegmentDone ==
    /\ worker.stage = "generate"
    /\ IF worker.seg < Segs THEN GoOn([worker EXCEPT !.seg = @ + 1])
       ELSE worker' = [worker EXCEPT !.stage = "mix", !.seg = 0]
    /\ UNCHANGED <<job, listed, queue, client, resets>>

\* Mutant: the job is over with its first language.
MixedFirst ==
    /\ worker.stage = "mix"
    /\ worker' = [worker EXCEPT !.stage = "finish", !.lang = 0]
    /\ job' = [job EXCEPT ![worker.job].outputs = worker.lang]
    /\ UNCHANGED <<listed, queue, client, resets>>

\* job["outputs"] is set once every language has its video.
Mixed ==
    /\ worker.stage = "mix"
    /\ IF worker.lang < Langs
       THEN /\ GoOn([worker EXCEPT !.stage = "translate", !.lang = @ + 1])
            /\ UNCHANGED job
       ELSE /\ job' = [job EXCEPT ![worker.job].outputs = Langs]
            /\ worker' = [worker EXCEPT !.stage = "end"]
    /\ UNCHANGED <<listed, queue, client, resets>>

\* Back in _worker: a cancelled job keeps its status.
PipelineReturns ==
    /\ worker.stage = "end"
    /\ worker' = IF Status(worker.job) = "cancelled" THEN Idle
                 ELSE [worker EXCEPT !.stage = "finish"]
    /\ UNCHANGED <<job, listed, queue, client, resets>>

WorkerDone ==
    /\ worker.stage = "finish"
    /\ SetStatus(worker.job, "done")
    /\ worker' = Idle
    /\ UNCHANGED <<listed, queue, client, resets>>

\* Mutant: a failure is logged, the job is left as it is.
PipelineRaisesQuietly ==
    /\ worker.stage \in Stages \ {"translate"}
    /\ worker' = Idle
    /\ UNCHANGED <<job, listed, queue, client, resets>>

\* Extraction, transcription, the model, saving a track or a mix raises.
PipelineRaises ==
    /\ worker.stage \in Stages \ {"translate"}
    /\ job' = [job EXCEPT ![worker.job].status = "failed",
                          ![worker.job].error = TRUE]
    /\ worker' = Idle
    /\ UNCHANGED <<listed, queue, client, resets>>

\* Mutant: the worker task ends with the future it waited for.
PoolResetKills ==
    /\ worker.stage \in GpuStages /\ resets < MaxResets
    /\ resets' = resets + 1
    /\ UNCHANGED <<job, listed, queue, client>>
    /\ worker' = [worker EXCEPT !.stage = "dead"]

\* Another job's timeout resets the GPU pool and cancels the future this one
\* still has in the pool's queue.
PoolReset ==
    /\ worker.stage \in GpuStages /\ resets < MaxResets
    /\ resets' = resets + 1
    /\ SetStatus(worker.job, "cancelled")
    /\ worker' = Idle
    /\ UNCHANGED <<listed, queue, client>>

----------------------------------------------------------------------------
Pipeline == Extracted \/ Transcribed \/ Translated \/ ModelReady \/ SegmentDone
              \/ Mixed \/ PipelineReturns \/ PipelineRaises

Worker == WorkerGet \/ WorkerStart \/ WorkerDone \/ Pipeline

Next ==
    \/ Enqueue
    \/ \E c \in Clients : \/ CancelWrite(c)
                          \/ \E j \in listed : Cancel(c, j)
    \/ \E j \in listed : Delete(j)
    \/ Worker
    \/ PoolReset

Spec == Init /\ [][Next]_vars

\* Every stage has a timeout of its own, except the translation, whose web
\* service is taken to answer or to fail: the worker goes on.
FairSpec == Spec /\ WF_vars(Worker)

----------------------------------------------------------------------------
\* No spinner without work: a queued job is in the queue or just taken, and a
\* running one is the one the worker runs.
Accounted ==
    \A j \in listed :
      /\ Status(j) = "queued" => \/ \E k \in 1..Len(queue) : queue[k] = j
                                 \/ worker.job = j /\ worker.stage = "take"
      /\ Status(j) = "running" => worker.job = j

\* What the download route offers is complete: a job that is done, and did not
\* end by an empty transcript, has a video for every language it was asked for.
DoneIsComplete ==
    \A j \in 1..Len(job) :
      Status(j) = "done" /\ ~job[j].error => job[j].outputs = Langs

\* A job whose status says cancelled starts no further work on the GPU, and no
\* further language.  (A cancel that WorkerStart wrote over is forgotten.)
CancelSavesGpu ==
    [][worker # Idle /\ Status(worker.job) = "cancelled" =>
         /\ worker'.stage \in GpuStages => worker' = worker
         /\ worker'.lang <= worker.lang]_vars

\* A job cancelled in the queue is not started.  Fails when Preempt holds: the
\* write of WorkerStart covers a cancel that came after the check.
CancelledNotStarted ==
    [][\A j \in 1..Len(job) :
         Status(j) = "cancelled" => job'[j].status # "running"]_vars

\* A job that was reported done, with its downloads, stays done.  Fails when
\* Preempt holds: a cancel that has passed its check writes over it.
DoneStays ==
    [][\A j \in 1..Len(job) :
         Status(j) = "done" /\ ~job[j].error => job'[j].status = "done"]_vars

\* A job that reports an error does not report success.  Fails: an empty
\* transcript is marked failed, then done.
ErrorsAreFailures ==
    \A j \in 1..Len(job) : job[j].error => Status(j) # "done"

\* Every listed job ends, whatever fails in the pipeline and however often the
\* GPU pool is reset.
JobsEnd ==
    \A j \in 1..MaxJobs :
      j \in listed ~> (j \notin listed \/ Status(j) \in Final)

(***************************************************************************)
(* The order of service.  A job waits as long as the worker would take it; *)
(* it is served until the worker is idle again, whatever its status says.  *)
(***************************************************************************)
Waits(j) == /\ \E k \in 1..Len(queue) : queue[k] = j
            /\ j \in listed /\ Status(j) # "cancelled"

PhaseOf(j) ==
    IF j > Len(job) THEN "absent"
    ELSE IF Waits(j) THEN "queued"
    ELSE IF worker.job = j THEN "running"
    ELSE "over"

Service == INSTANCE FifoService WITH
    Jobs <- 1..MaxJobs, Lanes <- {"worker"},
    Outcomes <- {"over"}, Withdrawn <- "over",
    phase <- [j \in 1..MaxJobs |-> PhaseOf(j)],
    lane <- [l \in {"worker"} |-> worker.job]

\* The worker takes the uploads in their order, one at a time and each once; one
\* that was cancelled or deleted in the queue is never taken up, also when a
\* thread cancels between the check of the worker and its write.
ServesInOrder == Service!Spec
============================================================================
