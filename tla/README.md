# OmniVoice Studio: specifications, model checking and proofs

This directory holds TLA+ specifications of the concurrent core of OmniVoice
Studio (the FastAPI backend under `src/backend`), the TLC configurations that
check them on small instances and theorems that TLAPS proves for every instance.

## 1. The system

OmniVoice Studio is a desktop application for speech synthesis, dubbing and
dictation. A Tauri shell starts a Python backend; a React front end talks to it
over HTTP, server-sent events and websockets. The backend runs on **one asyncio
loop**; blocking work goes to thread pools (a default pool, a CPU pool and a GPU
pool of one or two workers) and to child processes (sidecars for engines that
need their own Python environment, ffmpeg, demucs). State that must survive is
kept in SQLite and in files written next to the audio.

### 1.1 Inventory

| Component (source) | State | Operations | Talks to | What is hard |
|---|---|---|---|---|
| Task manager (`core/tasks.py`) | `active_tasks`, the task objects, a FIFO queue, one worker | `add_task`, worker loop, `cancel_task`, listeners | job store, SSE endpoint | a generator that suspends between updates, cancellation, ids used twice, death of the process or of the worker task |
| Job store (`core/job_store.py`, `core/db.py`) | `jobs`, `job_events` | status upserts, `append_event` with trimming, `events_since`, startup sweep | task manager | a write may fail, seq is computed from the rows left |
| Task stream (`stream_task` in `routers/dub_export.py`) | a cursor and a listener queue per connection | replay, hand-over, follow, disconnect | both above | the hand-over from stored to live events |
| Job queue (`core/job_queue.py`) | `_jobs`, `_queue`, worker task | submit, cancel, wait, purge, start, stop | (library code and its tests) | cancellation in every phase, waiters at stop, lanes that die |
| GPU pool (`services/model_manager.py`) | the pool and its threads | submit, guarded run with timeout and reset | every generation endpoint | a hung job, a reset that hits innocent jobs |
| Speech model (`services/model_manager.py`, `services/model_lifecycle.py`) | the loaded model, `_last_used`, `_model_lock` | load with a deadline, preload, idle unload, unload | GPU pool, every generation endpoint | an abandoned load, a caller that goes away, unload during use, two copies |
| Sidecar (`services/subprocess_backend.py`, `services/subprocess_asr.py`, `engines/*/main.py`) | the child process, a lock, `_last_used`, readiness | spawn, send/receive, timeout kill, reap idle, unload, shutdown | GPU pool, batch | a late watchdog, a reaper or an unload during a call |
| Batch queue (`routers/batch.py`, first half) | `_jobs`, an asyncio queue, one worker | enqueue, cancel, delete, pipeline stages | model manager, ASR | cancel from another thread between a check and a write |
| Batch render (`routers/batch.py`, second half) | in-memory mirrors of two tables, a queue, one worker | create, rerun, delete, worker, reload on every read | job tables | stale references, reloads, deletes and reruns in several steps, restart |
| Segmented download (`services/segmented_download.py`) | a `.part` file, a `.done` manifest | probe, fetch segments, fall back to one stream, verify, rename | model install | a manifest that outlives the bytes it describes |
| Model install (`routers/setup/download.py`) | `_cancelled`, `_install_cooldowns`, the cache of the hub | install with retries, cancel, delete | segmented download, hub | installs that overlap, a deletion during a download, a cancel turned into a fallback |
| Dubbing job (`services/dub_pipeline.py`, `services/proc_registry.py`, `routers/dub_core.py`) | `_dub_jobs` and its rows, files per job, `_active_procs` | ingest pipeline, transcription stream, import, abort, delete, hydration | task manager, GPU pool, speech model | processes that outlive the pipeline, an abort or a deletion from a thread, overlapping streams |
| Speech generation of a dub (`routers/dub_generate.py`, `services/incremental.py`) | per language: a file and a fingerprint for each segment, the track, its texts | generate, regenerate what changed, plan | task manager, GPU pool, export | files, fingerprints and texts that are written at different moments, an editor that plans with fingerprints of its own, runs cut short, files without a language |
| Event bus (`core/event_bus.py`) | bounded queue per subscriber | subscribe, emit, drop the oldest | front end | a slow subscriber |
| Long-form and audiobook (`routers/audiobook.py`, `services/longform_*.py`) | chapter checkpoints | render, resume | GPU pool | crash between two chapters |
| Dictation (`routers/capture_ws.py`) | one session per websocket | partial and final transcripts | ASR | messages in flight at the end |
| Preferences, settings, database backup | JSON files, SQLite, rotated copies | save by temporary file and rename, rotate | all | concurrent savers, crash between two files |
| Desktop shell (`frontend/src-tauri/src`) | the backend process it started or found | start, attach, watch, stop | backend | a stale process on the port |

The remaining components (engines, audio and text processing, profiles and
gallery, setup probes, providers, MCP, training) are listed in `PROJECT.json`
with the reason why they are not modelled: they are numerical code, pure
functions, plain row-and-file endpoints, or thin adapters.

### 1.2 What makes each modelled or planned component correct

* *Task manager, store and stream*: one life cycle per job, kept in its row;
  event rows in publication order under seqs that are never reused; a client
  sees events in order and without repetition, gets every event published while
  it listens, is told about the end; no job is left pending or running for ever by a worker that lives.
* *Job queue*: every submitted job gets exactly one final state and every waiter
  returns; a cancelled job never starts.
* *GPU pool and model*: a hung job does not block the rest, a reset loses no call,
  the model is in memory once and leaves it when nobody uses it.
* *Sidecar*: a reply answers the request that is waiting for it; nobody kills a
  process another call is using; after a timeout the next call works.
* *Batch*: the final status tells what happened; a cancel is not forgotten; a
  deleted row stays deleted; memory and table agree.
* *Dubbing job*: no process of a stage outlives its pipeline, an abort ends what is
  registered, a deleted job stays deleted, the speech model comes back after a
  transcription that reaches its end.
* *Speech generation*: a track contains only what was rendered for its language and says
  what its subtitles say, also when most of it is taken from files of earlier runs.
* *Downloads*: a file in the cache is whole; every install comes to its end.

## 2. Plan

Order, most important first; each is a module, its MC module, its runs and,
where marked (P), a proof module.

1. **TaskManager**, with the abstract **JobLifecycle** it implements (P). *Done.*
2. **JobQueue**, with the abstract **FifoService** it implements (P). *Done.*
3. **BatchQueue**: queue, cancel from a thread, delete (P); it implements
   **FifoService** too. *Done.*
4. **BatchRender**: memory and table, reload, rerun, restart (P). *Done.*
5. **GpuPool**: the resilient pool, the guarded run, the slot of a sidecar, with
   the abstract **CallService** it implements (P). *Done.*
6. **Sidecar**: calls, watchdog, reaper, unload and the child's loop (P).
   *Done.* What a request/response channel promises, that an answer belongs to its
   request, is the invariant `AnswersOwn` there.
7. **ModelLifecycle**: load, deadline, idle unload (P). *Done.*
8. **DubJob**: pipeline, processes, streams, abort, deletion (P). *Done.*
9. **ModelInstall** with the segmented download of one file (P). *Done* for one file.
10. **DubGenerate**: fingerprints and partial regeneration (P). *Done.*
11. **Longform**, **Dictation**, **Settings** (saves and rotation),
    **DesktopShell**.
12. Pure algorithms: fitting, chunking, segment planning, as operators against
    reference definitions.

The proofs planned for items 1 to 10 are done; a new module brings its own.

## 3. TaskManager

`TaskManager.tla` models `core/tasks.py`, the part of `core/job_store.py` it
uses and `stream_task`. A handler is atomic between two suspension points of the
loop; the comment at the head of the module says which they are.

| Specification | Code |
|---|---|
| `up`, `alive` | the process; the task of `worker()` |
| `active`, `object` | `active_tasks[id]` and the dictionaries it holds; objects have numbers so that a replaced object can still be referenced |
| `queue`, `worker` | `self.queue` and the locals `task_id`, `task` of `worker()` |
| `job`, `rows` | the `status` column and the `job_events` rows of an id |
| `client[c]` | the locals of one `stream_task` response: the object read at the start, the cursor, the rows still to send, its queue |
| `log`, `missed`, `restarts`, `faults` | history variables and bounds |
| `AddTask`, `CancelTask`, `WorkerGet`, `WorkerUpdate`, `WorkerCancelled`, `WorkerFail`, `WorkerFinish`, `WorkerDies` | `add_task`, `cancel_task`, and the stretches of `worker()` between two awaits |
| `OpenStream`, `StartReplay`, `Replay`, `EndReplay`, `Follow`, `Disconnect` | `stream_task` from the request to the end of its generator |
| `Crash`, `Restart` | death of the process; start with `sweep_orphans_on_startup` |

The generator a task runs is nondeterministic: it may yield any number of
updates, raise or return at any moment, and what it raises may be a `CancelledError`
(`WorkerDies`, see the disagreements). Every write of the store may fail: the
code logs it and goes on, and so does the action. An event is represented by its
number under the id; its text is not modelled.

`JobLifecycle.tla` is the abstract promise: one life cycle per id and a stream
that ends with the verdict. `Lifecycle` in `TaskManager` is the refinement
mapping: the state is the row, the stream the kinds of the published events.

### Runs

| Run | Instance | Shows |
|---|---|---|
| `tm_fresh` | 2 ids, each submitted once, 1 client, 1 failed write, 1 crash, table of 2 rows, 2 updates | order of store and stream, live completeness, EOF, one story: the row, the object and the announced verdict agree, a restart leaves no spinner, and an interrupted job has failed (`OneStory`) |
| `tm_live` | 2 ids, no failed write, 1 crash, with fairness | implements JobLifecycle; jobs and streams end unless the worker task dies |

*Bounds.* Two ids are needed for one task to wait behind another and for two
rows to be swept; one client suffices because responses interact only through the listener set,
which treats them alike, and it reconnects any number of times. `EventCap = 2` with
up to four events makes the table trim; `ReplayLimit` is at the cap as in the code, where
1000 exceeds 500. One failed write can hit any write, one crash any state.
`MaxLog` bounds the updates only: final events are always published.

*Fairness.* `FairSpec` assumes weak fairness of the worker's `queue.get`, of the
end of the generator it runs, of the reading loop of a connected client and of the
restart. That generators end is an assumption, not a fact: a dub pipeline can wait for
ever in a download, and section 10 says where. Nothing starts a dead worker but a
restart of the process, which nobody owes. Nothing is assumed of callers: adding, cancelling, connecting and disconnecting
may stop at any time. `CHECK_DEADLOCK FALSE`: a server whose callers are done
stops.

### Disagreements found

* `core/tasks.py:19` promises that a reconnecting client catches up. The
  response reads the stored rows once, sends them one by one, and attaches its
  listener afterwards: what is published in between is in neither, and when the
  job ends meanwhile the response returns without its last event.
  `NothingMissedLive` therefore counts from the attachment of the listener.
* A reset of the GPU pool (`model_manager.py:169`) cancels what waits in it, and the
  generators of dubs wait there (`dub_generate.py:630`). `tasks.py:128` catches
  `Exception` only: the `CancelledError` passes, `EOF` is sent, and `worker()` ends for
  good. The run keeps the status running, and nothing that is queued is served before
  the process is restarted. `JobsEnd` and `StreamsEnd` end in `~alive` for this reason;
  without it both are violated.
* `core/job_store.py:9-11` promises that a crash leaves an interrupted job
  failed. A client may choose the job id at `/dub/upload`; used twice, the first
  run's end is announced for the second, and a crash of the second is invisible:
  with `ReuseIds = TRUE` and one id `OneStory` is violated. A stream attached to the first object waits for ever (`StreamsEnd`,
  same instance), although `dub_core.py:276` tells the client to wait on it. What
  survives reuse is the order of store and streams and that a listener is sent
  everything: `StoreInOrder`, `StreamInOrder` and `NothingMissed` below hold with
  and without it.

### Proofs

`TaskManagerProofs` proves, for every set of ids and clients, every bound, any
number of restarts and, but for the last theorem, of failed writes (assumption
`TaskManagerAssumption`: the bounds are natural numbers, the two limits positive;
the last three theorems assume `~ReuseIds`, see above):

* `TypeCorrect`: `Spec => []TypeOK`. Types alone are not inductive: the worker's
  object exists only because every queued id denotes one (`QueueOK`), two ids
  never share an object (`ActiveOK`), a listener of an object in use is a live response
  of that id (`ListenersOK`; it makes the delivery well typed), and the table
  never exceeds the cap (`CapOK`; it makes trimming remove at most one row).
* `StoreInOrder`: `Spec => []StoreOrdered`. The newest row always survives a
  trim, so the next seq, computed from the rows left, is above all of them.
* `StreamInOrder`: `Spec => []StreamOrdered`. The strengthening `ResponseInv`
  orders, for each response, what it received, what it still replays or has
  queued, and what will be published next; the queue is empty until the listener
  is attached, which is why the hand-over cannot repeat an event.
* `NothingMissed`: `Spec => []NothingMissedLive`, with or without reuse, for the
  responses whose listener is on the object the id denotes now. The property is
  inductive together with `OpenOK`: an open response belongs to this process, and
  the id of an object it saw still denotes one. The refused row does not matter,
  since `_push_event` also sends what it could not store.
* `EofReaches`: `Spec => []EofReachesListeners`, with fresh ids. `SightOK`: the object
  a response saw is the one its id denotes. No suspension point lies between its look
  at the status and its `add_listener`, so the end of the run falls before the look,
  and is seen, or after the attachment, and is sent.
* `StoryIsOne`: `Spec => []OneStory`, with fresh ids. `RunOK` says that an id is queued
  once, for an object that has not started, and that the worker runs the object its
  id denotes, which is not queued as well; so nothing but the worker's own end writes a
  verdict. A response with another object in sight, or an id queued twice, breaks
  it.
* `LifecycleKept`: `Spec => ImplementsLifecycle`, with fresh ids and no failed
  write: the initial states map to initial states and every step to a step of
  `JobLifecycle` or a stutter. Without `MaxFaults = 0` a row may lag behind its task
  (the code logs the failed write and goes on), so the promise is one about a store
  that works; `OneStory` is what remains of it when the store does not.

Model-checked only: what holds under fairness (liveness is out of the prover's
reach).

## 4. JobQueue

`JobQueue.tla` models `core/job_queue.py` whole, except `list_jobs`, which only
reads.

| Specification | Code |
|---|---|
| `object[o]` | a `Job`: its state, its two events (`cancelled`, `done`), `finished_at`; `runs` counts the executions of `fn` |
| `jobs`, `order`, `queue` | `_jobs`, `_order`, the asyncio queue `_queue` |
| `worker[w]`, `told` | the job a lane runs; the lanes whose task has a cancellation it has not seen yet |
| `phase` | `_workers`: empty, at work, or awaited by `stop` |
| `waiter[x]` | the job object a caller of `wait` holds |
| `finished` | the clock of `finished_at`, counted in jobs that ended |

`submit`, `cancel` and `purge_finished` do not suspend and are atomic. A worker
suspends at `queue.get` and while `fn` runs. `fn` may swallow the cancellation of
`stop`, or turn it into another exception; the worker then goes on and `stop`
waits for it (`WorkerReturn` and `WorkerRaise` clear `told`). `fn` may also raise a
`CancelledError` of its own, without any stop: `job_queue.py:193-195` raises it again
and the lane ends (`WorkerStopped`).

The run `jobs` has three ids, two lanes and one waiting caller, under `FairSpec`; up to
two jobs meet two stops, three meet none (`MCMaxStops`). Two lanes and two jobs are what
double execution, a stop with one lane gone and one still at work, and a position behind
a cancelled job need, and a third job is the one that nobody takes when both lanes have
died; more ids and lanes are what the theorems are for. Fairness is that the queue is
started again, that lanes take what is in the queue and that coroutines end.
`ServesInOrder` is the promise of the whole module, stated as the abstract
`FifoService.tla`: jobs are served in the order in which they arrived, each by one
lane and once; a lane serves one job at a time; a job withdrawn before it was served
never is; how it ended does not change. `Service` in `JobQueue` is the refinement
mapping: a job is the number of its submission, its phase its state, and a lane
serves what `worker[w]` holds. Purging, stopping and restarting are stuttering steps.
`Accounted` says that no job is lost between the dicts, the queue and the lanes,
that only final jobs have set their event, and that a cancelled job is neither
started nor reported done. `WaitEnds` holds as long as nobody calls `stop` and one lane
is left. After a stop, what is queued stays queued until the next start, which nothing
promises, and `stop` itself may wait for ever for a lane that swallowed its cancellation.
When the last lane has died (`LanesLost`), `_workers` is not empty, so `start` does
nothing and every waiter hangs: `WaitEnds` is violated without that exception.

*Disagreement.* `job_queue.py:99` says that `submit` is idempotent on the id. A
job cancelled in the queue leaves its id there, `purge_finished` forgets the
job, and the next `submit` under that id is executed once for each of the two
entries: with `ReuseIds = TRUE`, one id, one lane and two submits `RunsOnce` is
violated, and with it `ServesInOrder`. This is why the theorems assume fresh ids.

*Proofs.* `JobQueueProofs` proves five theorems for any ids, lanes and bounds. With
fresh ids no job is executed twice (`ExecutedOnce`) and a final state is never
left (`FinalForever`). The inductive invariant is `OnceInv`: types; `QueueOK`, an id
is in the queue at most once and a queued job has not been executed;
`ObjectsOK`, done events and final states agree; `LanesOK`, no two lanes hold
the same job and the job a lane holds is running.

`NothingIsLost` (`Spec => []Accounted`) needs no fresh ids. `AccountInv` says that the
done event, the final state and the cancel flag of each job agree, that a running job
is held by a lane (`HeldOK`), and that a queued one waits in the queue
(`WaitingOK`); a queue that is off has no lanes. Reused ids put an id into the queue
twice, and two lanes may hold one job, but nothing falls between the two.

`PositionIsExact` (`Spec => []PositionExact`, fresh ids) is about two sequences that
are kept apart: `position` counts along `_order`, the lanes take from `_queue`.
`OrderOK` says that `_order` names no id twice, names every known job, and lists ids
in the order in which the queue does; a purge keeps that order. The ids counted
on either side are then in bijection. `Purge` states the list comprehension of the
code by its effect, because the provers have no facts about `SelectSeq`.

`JobsInOrder` (`Spec => ServesInOrder`, fresh ids) is the refinement. `OnceInv` and
`AccountInv` are not enough for it: they say what is in the queue, not in which order.
`ArrivalOK` adds that the ids in the queue stand for jobs of ascending number, and that
a job which has not ended is the one its id names, so that the id a lane takes is that
of the first job still queued: cancelled ones before it are passed over. The two are
one argument with `WaitingOK`, which puts every queued job somewhere in that order.

## 5. BatchQueue

`BatchQueue.tla` models the first half of `routers/batch.py`: uploaded videos,
dubbed one after the other by one worker.

| Specification | Code |
|---|---|
| `job[j]`, `listed` | the job dicts, and those `_jobs` still knows |
| `queue`, `worker` | `_queue`; the job and the point of `_run_batch_pipeline` the worker is at |
| `client[c]` | a `cancel_batch_job` between its check of the status (1079) and its write (1081) |

`cancel_batch_job` and `delete_batch_job` are plain functions, so FastAPI runs
them in threads: they interleave with every line of the worker. The constant
`Preempt` says whether a thread switch may also fall between a check and the
write that follows it. All state is in memory: a restart is a return to `Init`,
and no action models it. (The module's comment, `batch.py:7`, speaks of a `jobs`
table; the code writes none.)

The run `batch` has three jobs of two languages and two segments, two threads
that cancel, one reset of the GPU pool, and `FairSpec`: the worker goes on,
because every stage has a timeout except the translation, whose web service is
taken to answer or to fail. It shows that no listed job is lost (`Accounted`),
that what is offered for download is complete, that a job shown as cancelled starts no
further GPU work or language, that uploads are served as a `FifoService` serves them
(`ServesInOrder`), and that every job ends. In that mapping a job waits as long as
it is listed, its id is in the queue and it is not cancelled, whatever its status says
(`Waits`), the one lane serves the job the worker is at, and a job is withdrawn by a
cancel or a deletion in the queue. Two languages are needed for a job to be half done,
two cancels for one to write over the other's job.

Disagreements:

* `ErrorsAreFailures` is violated by one job: a video without speech is marked
  failed with an error (586-587), the pipeline returns, and the worker marks it
  done (479).
* With `Preempt = TRUE`, one job and one client,
  `CancelledNotStarted` is violated (a cancel between the worker's check at 469
  and its write at 473 is answered with success and overwritten), and so is
  `DoneStays` (a cancel that passed its check before the job ended turns a
  finished job into a cancelled one, whose download is then refused). With
  `Preempt = FALSE` both are theorems (below). `ServesInOrder` survives both: a job
  whose cancel is overwritten had been taken from the queue before it.

*Proofs.* `BatchQueueProofs` proves, for any number of uploads, languages, segments,
cancelling threads and resets, that no listed job is lost (`JobsAccounted`), that a
download offered is complete (`DownloadsComplete`), and that while a job has the status
cancelled neither work on the GPU nor another language is begun for it
(`CancelStopsGpu`, an action property from the same invariant; a cancel that the write
at 473 has overwritten is no longer there to be seen, and that job goes on). The invariant: the queue is ascending and the job of the
worker is behind none of it, so an upload enters once (`QueueOK`); what the status of the
worker's job may be at each stage of the pipeline; and that the pipeline returns only
with a reason, all videos made, or a cancel.
`UploadsInOrder` (`Spec => ServesInOrder`, whatever `Preempt`) is the refinement of
`FifoService`, from the same invariant: `QueueOK` makes the head of the queue the first
of those that wait, and a client that cancels a job which still waits withdraws it.
`CancelledStaysInQueue` and `DoneForGood` assume `~Preempt`: a job cancelled in the
queue is never started, a done job stays done. Together with the two
counterexamples this says that the thread switch between a check and its write is the
only way to either failure.

## 6. BatchRender

`BatchRender.tla` models the second half of `routers/batch.py`: batches of
sources times templates, kept in dicts and in two tables.

| Specification | Code |
|---|---|
| `rows[i]`, `dict[i]` | an item's row and its dict in `_render_items`; `live` says that the worker holds this very dict |
| `own[i]` | the status in the dict the worker holds |
| `listed`, `stored` | the batches in `_render_batches` and in their table |
| `queue`, `worker` | `_render_queue`; the batch, the source and the items the worker has still to do, or `dead` |
| `read` | a row `_load_render_state` has selected and made no dict of yet |
| `deleting` | a deletion that has popped the dicts and not yet deleted the rows |
| `rerun` | the item a rerun has found and not yet written |
| `crossed` | history: items that a reload or a rerun had read while another request deleted or reran them |

Every route first calls `_load_render_state`, which replaces all dicts by new
ones made from the rows, while the worker goes on with the dicts it collected:
`Write` changes the rows and the worker's dicts, and `dict` only where it still holds
that dict. Most routes are plain functions, which FastAPI runs in threads, so they have
the seams of the code: `Read` and `Fill` are the SELECT and the dict that is made of what
it returned (189-201), `Pop` and `DeleteRows` the two halves of a deletion,
`RerunFinds` and `RerunWrites` those of a rerun. The routes that are coroutines, and what
a coroutine reloads (`Loaded`), run when the worker awaits.

The variable `regime` says what a behaviour is about: `busy`, requests arrive at any
moment; `faulty`, they arrive and end while the worker rests, a source may be refused
and the process restarted. A reset of the GPU pool may end the worker in both. One row of
a reload, one deletion and one rerun are followed at a time. Abstracted: database writes
succeed; whether a template is there is a choice of the worker's look-up (`StartItem`),
since templates come, go and are put back by reloads like everything else. Not modelled:
a thread that iterates over a dict while another makes it larger may get a
`RuntimeError`, which ends that request.

The run `render` has a batch of two items, one rerun, one reset of the pool and one
restart, both regimes, and `FairSpec`. `MCShapes` says what the batch may be: with
requests at any moment one source with two templates, else that or two sources with one
template. Two items let one be deleted, reread or rerun while the worker is at the
other, and one of a source be finished when the other fails; two sources let one fail
while another waits. Batches interact only through the queue and the worker. The run
shows that no item spins behind a worker that goes on (`NoSpinner`), that ended items
stay ended (`EndedStays`) and deleted ones deleted (`DeletedStays`), and that every item
ends (`ItemsEnd`); each names in its premise the regime and the exceptions below.

*Fairness.* The worker goes on, and so do deletions and reruns that have begun. Of what
the worker awaits only ffmpeg and the guarded work on the GPU have a deadline; that the
download of a source and its translation end is an assumption. Reloads need no fairness.

Disagreements, each the reason of an exception in a premise:

* A reset of the GPU pool cancels queued futures (`model_manager.py:113` calls it
  self-healing); the `CancelledError` is no `Exception`, passes both handlers of the
  render worker and ends its task (`PoolReset`), and `_ensure_render_queue` starts one only
  when there is no queue. No batch is rendered until the next restart. `ItemsEnd` is
  violated without `worker.stage = "dead"`.
* A reload that has read a row before the deletion makes the item's dict after it. The
  item is back in memory, and the next write of its state puts its row back
  (`INSERT OR REPLACE`, 261); a rerun that has found it does the same. `DeletedStays`
  is violated without `crossed`. An item deleted while its batch runs comes back with the
  worker's next write, hence its `own[i] = "none"`.
* A reload that has read the row of an ended item before its rerun makes the dict after
  it: the dict says ended, the row queued, and when the worker comes to the batch it finds
  nothing to do. The row stays queued until it is reloaded and rerun. `ItemsEnd` excludes
  `crossed` for this reason.
* A GET during the run makes new dicts, the worker goes on with the old ones, and the
  status of the batch, computed from the new ones, stays running for ever;
  `backend/tests/test_batch.py:356` expects done. (The status is only shown, so the model
  does not keep it.)
* With a rerun of an item while its batch runs, which `EndedStays` excludes: the
  rerun reloads every dict; those the worker finishes later stay queued there, and
  the rerun's queue entry renders them again.

*Proofs.* `BatchRenderProofs` proves `NoSpinner`, `EndedStays` and `DeletedStays` for
any sources, templates, batches, reruns, resets and restarts (`NobodySpins`, `EndedForGood`,
`RemovedForGood`), each with the premise it has in the run. The invariant, `RenderInv`,
has four parts. An item whose row is gone or about to go is in no dict and in the hands of
no reload and no rerun, unless it is `crossed` (`CrossOK`). What the worker
holds is of its batch, is queued in the dict it holds until its source is taken up,
and running only while the worker is at it (`OwnOK`, `PlaceOK`). In the faulty regime
rows, dicts and the worker's dicts agree, because no request is under way while it works
(`FaultyOK`). In the busy regime they do not, as the disagreements above show, and
`NoSpinner` holds all the same: only the worker writes `running`, into the row and its
own dict at once, and it ends every item in both before it leaves the source. What requests do
to an item is one lemma (`Asked`): its row becomes queued or goes, its dict goes, or becomes
that of a row. The worker takes the least number of a set of batches; that it exists is
drawn from the well-foundedness of the numbers.

## 7. GpuPool

`GpuPool.tla` models `_ResilientGpuPool` and `run_on_gpu_pool_guarded` of
`services/model_manager.py`, the guard of `services/asr_backend.py`, and the slot
that `services/subprocess_asr.py` asks for.

| Specification | Code |
|---|---|
| `pool[p]`, `live` | the inner `ThreadPoolExecutor`s built so far; `_pool`, 0 for `None` |
| `job[j]` | a call: the pool it was given to, where its code is, the answer its caller got |
| phases `ask`, `got`, `retry`, `slot` | the points of `submit` and `result` in a sidecar engine's pool thread |

Calls and resets run on the event loop and are atomic; a slot is asked for by a
pool thread, which interleaves with them. A call that timed out is abandoned:
its thread goes on in the pool that was dropped. `concurrent.futures` is external
and modelled by what the code relies on: a free thread takes the next entry, one that
was cancelled is skipped when a thread comes to it,
`shutdown(cancel_futures=True)` cancels what is queued, a submit after it raises.

The run `pool` has two threads, three calls, two of them of a sidecar, and two
that wedge, with fairness: threads go on, code that is not wedged returns, and
timers go off. Two threads and three calls are the least with both a queue and
a slot that can be served. It shows that in the pool new calls go to every
thread works for a caller that still waits, that none starves, that each is answered,
and that the pool is a `CallService` (`ServesCalls`).

`CallService.tla` is the abstract promise to those who submit calls: the code of a call
is run at most once, and never after its caller was answered; there is one answer, from
the code, from the time of the call being over, or from that of another call, with which
it was cancelled; code that is over has left an answer. It knows neither pools nor
slots. In the refinement mapping (`Service` in `GpuPool`) a call waits as long as its
entry is in the queue of an open pool, and runs as long as its thread is at work or its
slot is in such a queue; one that waits where nobody will ever look is `"lost"`, which
`CallService` does not know. So `ServesCalls` says too that a reset loses no call.

`pool_nested` is **violated**: on one thread (cards below the size for two, and
MPS) a sidecar engine waits for the thread it occupies; after ten seconds the
slot's `TimeoutError` is taken for the guard's own, and the pool is reset under
everybody. The same happens on two threads with two sidecar calls: `SlotsAreServed`
(below) says when it cannot.

Three more disagreements:

* `OnePool` (two threads, four calls, one of a sidecar): a thread that looked up
  the pool before a reset and submits after another call rebuilt it puts a third
  pool in the place of the second, which stays open with its jobs, out of reach
  of any reset. `model_manager.py:122` says references never go stale.
* `CallsAnswered` with `Kinds` including `"unguarded"`, one thread and one
  wedged call: `model_manager.py:209-211` says every dispatch goes through the
  guard; `dub_translate.py:302`, `audiobook.py:392` and `:512`,
  `dub_generate.py:694` and `dub_core.py:944` do not, and wait for ever.
* `Serialized` (one thread, two calls, none wedged): a call that is only slow
  goes on in its abandoned thread beside the next one, although
  `tests/test_gpu_worker_sizing.py:17-18` sizes small cards to one worker so that
  two jobs never run together.

*Proofs.* `ModelProofs`, in its first part, proves `CapacityRestored`, `NothingLost`
and `ServesCalls` for any number of threads, calls, sidecars and wedged jobs
(`CapacityComesBack`, `ResetLosesNothing`, `CallsAreServed`). The
invariant (`PoolInv`): the live pool is open (`LiveOK`); every entry of a queue is of
a job that is gone or that waits for exactly this pool (`EntryOK`), once (`OnceOK`), so
that taking it leaves no second one behind; and a job that waits has its entry in the
queue of an open pool (`WaitOK`). The last two together say that a reset, which shuts
a pool and cancels what its queue holds, cancels all that wait there and nobody else:
this is `NothingLost`. The same invariant carries the refinement: by `WaitOK` no call is
`"lost"` (`CallsAreSeen`), by `EntryOK` a thread that takes an entry starts a call nobody
has answered, or serves a slot, and a reset is one `TimeOut` of `CallService`, with the
calls whose phase becomes `gone` as its set. Both hold beside `OnePool` failing: the
third pool of the counterexample above keeps its jobs and serves them, although no reset
reaches it.

`SlotsAreServed` (`Spec => [](Cardinality(AtWork) < Slots => NoSelfDeadlock)`) is the
other side of `pool_nested`: in every state in which fewer sidecar calls hold threads, of the live
pool or of pools that were dropped, than a pool has threads, a slot can be served. The premise is about the calls
at work at that moment, not about how many were ever made. The invariant is
`SidecarsOK`: only sidecars ask for slots. The premise cannot be weakened: one thread and
one such call, or two and two, violate `NoSelfDeadlock`.

## 8. Sidecar

`Sidecar.tla` models one `SubprocessBackend`: the calls that share its child, the
threads that reap or unload it, and the child.

| Specification | Code |
|---|---|
| `child[p]` | a `Popen` and the process behind it: requests on its stdin, frames on its stdout, how much of its model is loaded |
| `proc`, `lock` | `self._proc` (0 for `None`), `self._lock` |
| `call[c]` | a `health_check`, `generate` or `transcribe`, at a point where it blocks or reads `self._proc`; `pipe` is the child whose stdout it reads |
| `timer`, `late` | the `Timer` of a receive; those that expired and kill only after their receive is over |
| `down[u]` | a thread in `shutdown()`, with the process it captured |

The child's operations follow `engines/indextts/main.py`, whose loop the other
sidecars repeat. It may crash, hang or answer at any moment. Frames carry the
number of the call they answer, which the wire does not: it is what
`AnswersOwn` is about. Abstracted: frames are written whole (a bare unload could
also cut one in two), the reaper may find any sidecar idle, `SIGKILL` works.

The run `sidecar` has two callers, one thread that reaps or unloads, two calls and
two settings: an engine whose child reports progress once and is only reaped, and
one with a frame for each request, pings too, that the bare `unload` meets at any
moment. Fairness: threads go on, timers expire, what is killed dies. Nothing is
assumed of the child. The run shows, for engines that are only reaped, that the reaper
spares a busy child, that no process is lost and that every call ends, and, for children
that write one frame for a request, that an answer belongs to the call that returns it. Two calls are the one that leaves a frame or a timer behind and the one
that meets it. `MaxLate` lets one timer at a time outlive its receive; only one
receive runs at a time, and the late kill itself is immediate.

`AnswersOwn` is about children that write one frame for a request. With the one that
reports progress its conclusion, `RepliesMatch`, is violated: `indextts`,
`moss_tts_v15`, `dots_tts` and `confucius4` report the progress of their first load
before the audio. `generate` takes the first frame for the reply and raises; what is left in the
pipe answers the calls that follow, until one of them returns the audio of an
earlier text.

In the setting with the bare unload, which the premises of three properties exclude and
with them the theorems, their conclusions are violated.
`subprocess_backend.py:304-306` says that `unload` spares a busy sidecar, but a
second definition at 452 replaces it and calls `shutdown` without the lock; the
engine switch (`tts_backend.py:1563`) and the end of a batch transcription
(`batch.py:568`, on an instance that `asr_backend.py:1848` shares) use it.

* `BusyIsSpared`: a call in flight loses its child.
* `NoOrphan`: `shutdown` forgets whatever is in `self._proc` when it ends, also a
  child started meanwhile; that one runs, unreachable, until the backend exits.
* `CallsReturn`: the watchdog of a call whose `self._proc` was forgotten kills
  nothing; if its child is silent, the call and all that wait for its lock hang.

*Proofs.* `SidecarProofs` proves `BusyIsSpared`, `NoOrphan` and `AnswersOwn`, each with the
premise on the setting it has in the run, for any callers, unloading threads, calls,
late timers and engines (`NobodyShutsABusyChild`, `NoProcessIsLost`, `AnswersBelong`).
The invariant they share: one call at most is inside the lock; without bare unloads
the process `proc` is the only one that runs, and a shutdown frame in a pipe means that a
thread in `shutdown()` still waits for that process; for a child that
writes one frame for a request, the two pipes of a live child hold at most one frame
together, and none when no call waits for it. The last part is where the child that
reports progress fails.

## 9. ModelLifecycle

`ModelLifecycle.tla` models the in-process speech model of
`services/model_manager.py`: `get_model`, `preload_model`, the load, the idle worker,
and `unload` of `services/model_lifecycle.py`.

| Specification | Code |
|---|---|
| `model` | the global `model`; copies have numbers, those of the calls that load them |
| `copy[n]` | `_load_model_sync` in its pool thread: queued, loading, ready, failed |
| `fresh` | whether `time.time() - _last_used` is within the idle timeout |
| `call[c]` | a caller: waiting for `_model_lock`, for its load, or using the model |

A section under `_model_lock` awaits only while it loads, so the lock is held
exactly when some call is at `load`, and no variable stands for it. The repairs of a
broken download are part of loading. A deadline abandons the thread that loads; the
reset of the pool cancels the loads that wait. A caller may be cancelled while it waits for
the lock or for its load (`CallerLeaves`), as an SSE generator is when its client
disconnects (`audiobook.py:498`): the lock is released, a load still in the queue of the
pool is dropped with it, and one that has begun goes on in its thread. `regime` is `quick`, every load and
every use is over within the idle timeout and nobody unloads by hand, or `slow`.

The run `model` has two callers and four calls. Two callers are what a double load
needs; four calls let a load fail, a second succeed, a third meet the idle worker and
a fourth load again. Fairness: time passes, the lock is handed on, uses end. In the
slow regime a thread that loads may hang for ever. It shows that no two copies are
in memory but for abandoned loads (`OneCopy`), that calls end also when loads hang
(`AsksEnd`), and that an unused model leaves the memory (`GpuFreed`).

*Proof.* `ModelProofs`, in its second part, on an instance of the module, proves
`Spec => []OneCopy` for any callers and any number of calls (`ModelLoadedOnce`):
two copies that somebody waits for or uses are one. Its invariant says that one call at most is at
`load`, that there is no model while one is (`LockOK`), and, in the quick regime,
that the copy a call uses is the
model, and that the idle timeout has not passed while a call is in progress
(`QuickOK`): without the last of them the idle worker could take a model in use.

Disagreements, the first in both regimes, the others in the slow one:

* A caller that is cancelled during its load releases the lock while the load goes on
  (`model_manager.py:998` and `1019-1021`); the retry loads a second copy beside it, which
  the lock is there to prevent. Without `Abandoned`, `OneCopy` is violated in the quick
  regime as soon as somebody asks again.
* `_last_used` is noted before the load and before the use
  (`model_manager.py:1015`). A load longer than the idle timeout is unloaded as soon
  as it is there; a use longer than the timeout keeps its copy while the next call
  loads a second one.
* A load past its deadline goes on in its thread and ends in a copy nobody refers
  to; the retry loads beside it.
* `unload` of a model in use frees nothing, and the next call loads a second copy.
* The executor of the compile thread (`model_manager.py:563-612`) is no part of a
  pool reset: what is wedged there stays.

## 10. DubJob

`DubJob.tla` models one dubbing job before its speech is generated: `ingest_pipeline`
of `services/dub_pipeline.py` with its processes, `services/proc_registry.py`, and
from `routers/dub_core.py` the transcription stream, the import of subtitles, abort
and deletion.

| Specification | Code |
|---|---|
| `prep` | where the pipeline is |
| `proc[g]` | the process of a stage: `spawned`, made while the pipeline still awaits `create_subprocess_exec`; `running`; `mute`, a demucs that has closed its error output; ended |
| `thread` | `yt_download_sync` in its thread: the download, then the ffmpeg of `_ensure_browser_playable_mp4` |
| `registry` | `_active_procs[job_id]` |
| `abort` | a `dub_abort` in its thread, with the snapshot of `kill_job_procs`; `ran` is what ran then |
| `mem`, `dict` | `_dub_jobs[job_id]` and the dicts it held, by number: a user may go on with one that was replaced |
| `row`, `files` | the row of `dub_history`, the directory of the job |
| `deletion`, `gone` | `delete_single_dub_history` or `clear_dub_history` in its thread; a deletion has ended that nothing else overlapped and that left the job in no memory |
| `user[u]` | a `dub_transcribe_stream` or a `dub_import_srt`, with the dict it holds |
| `tts`, `left` | where the speech model is; whether the last stream to end left it there or could not move it |

The pipeline, streams and the import run on the loop; abort and deletion are plain
functions, so FastAPI runs them in threads and they meet the others anywhere. The thread
of a download cannot be stopped: it and its ffmpeg, which is never registered, go on when
their pipeline has been dropped (`ThreadStep`). Processes end by themselves, fail, or hang.
A behaviour is about the preparation or about what follows it (`phase`): the two share
only the dict and the row, and a stream refuses a job that is still being prepared. A
write of the row may fail, and so may moving the model back (`Restore`).

The run `dub` has two aborts, two streams of two chunks, an import, exports and a
deletion. It shows:

* no process of a stage outlives its pipeline, however that ends (`NoProcLeft`);
* when an abort returns, what it found in the registry is dead, and the first one found
  all that the pipeline knew to run (`KillsAll`);
* a job deleted with nothing under way stays deleted, unless the whole history was
  cleared while the job was in memory (`DeletedStays`);
* the speech model is not left in main memory by the last stream, unless it ends early or
  cannot move it (`ModelBack`);
* the preparation and every stream end, or wait for something that has no deadline
  (`EveryoneEnds`, with `PrepHangs` and `Hangs`).

Two aborts are what the forgetful registry needs; two streams let one restore the model
the other has moved; two chunks let an abort fall between them; the stages are those of the
code.

*Fairness.* Coroutines and threads go on, registered processes have their deadline
(`StageTimesOut`), and work on local files ends. Nothing is assumed of what the code
awaits without a deadline: the worker that is to take up the pipeline, the thread of its
download, its turn to start a process, a demucs that has closed its error output
(`p.wait()` at 336), the loading of a recognizer, and the diarization. `EveryoneEnds`
names these places and claims the end of everything else.

Disagreements:

* `proc_registry.py` says it kills every process still running under a job id. One
  that is registered between the snapshot and the removal of the entry is taken off
  the registry alive; a second abort then misses it. `KillsAll` is violated without
  `abort.count = 1 \/ g \in abort.procs`. A process that is being made is missed as
  well: it is registered only when the coroutine that awaits it goes on (238, 243). And
  the ffmpeg that converts a download is never registered.
* `dub_abort` cancels the task named `job_id`, but tasks are named
  `prep_<job_id>` and `dub_<job_id>_<time>`: an abort ends the current process, a
  failed stage is mostly no error, and the pipeline goes on with the next. In the model,
  as in the code, `Mark` only sets the flag.
* The flag `aborted` is cleared by an export only (`dub_export.py:548`): a
  transcription that is started again after an abort ends at once, and an export
  revives a stream that has not looked yet.
* Streams that end early, by an abort, an empty transcript or a disconnect, skip the
  restore at their end, and a restore that fails is only logged
  (`model_manager.py:1209-1216`); the variable `left` notes these.
* A reset of the GPU pool cancels what waits in it; the `CancelledError` passes the
  `except Exception` of the stream, which closes without the error event that the
  comment about #516 promises (`PoolCancels`).
* Two streams that hydrate a job at the same moment get two dicts, and only one of
  them is in memory afterwards.
* `clear_dub_history` deletes every row and every directory and leaves every job in memory:
  it can still be opened, and its next save brings its row back. `DeletedStays` is violated
  if such a deletion counts (`mem = 0` in `DeleteRow`).

*Proofs.* `DubJobProofs` proves the four invariants for any set of streams (finite, as
every set of open connections is; the count of streams at work needs it), any number
of chunks and of aborts: `NoProcessLeft`, `AbortKills`, `DeletedForGood`,
`ModelComesBack`, each with the exceptions above. A process belongs to the stage the
pipeline is at, or is a demucs that is being closed (`ProcOK`), whether the registry
knows of it or not. The pipeline never returns to a stage (`Passed`), so what an abort is to
end cannot be started anew; before the first abort nobody takes anything out of the
registry (`AbortOK`), which is why the first is to end more than the others. A deletion that
nothing overlaps finds nobody who holds the dict, and nobody obtains one afterwards
(`GoneOK`). The speech model is away only while a stream that moved it is at work, or when
`left` says so.

## 11. ModelInstall

`ModelInstall.tla` models the installation of a model (`routers/setup/download.py`)
and the segmented download of its weights (`services/segmented_download.py`).

| Specification | Code |
|---|---|
| `install[i]` | a thread in `_do`: the attempt, and where it is in `_segmented_snapshot` and `segmented_download`; `open` are the handles of its fetches, each of one segment, `file` the file a single stream writes |
| `dir` | the directory of the blobs exists: made by `_segmented_snapshot` and by the library, removed with the last revision |
| `part`, `manifest`, `blob` | `<blob>.part`, `<blob>.part.done`, the blob in the cache of the hub |
| `file[f]` | what a file holds of each segment; files have numbers, because one that is open survives its renaming and its removal |
| `victims` | the names that deletions in progress have still to remove |
| `cancelled`, `cooldown` | the model is in `_cancelled`, in `_install_cooldowns` |
| `alone`, `hashed`, `ranges` | fixed in a behaviour: whether installs do not overlap, the etag is a SHA-256, the server always accepts ranges |

One file of the repository is modelled, the one with the weights; the others take the
same path. `snapshot_download` is external: it finds the blob, makes it from a file
of its own, or raises. A deletion is possible as soon as there is a directory, in the
middle of a download too, and `rmtree` (`download.py:595`) is not one step: it lists the
names that are there (`Delete`), removes one after the other (`Removes`), and the
directory last and only when it is empty; whatever it meets, it may stop there. What a
download writes in between stays. A segment is absent (beyond the end of the file), zero
(preallocated), partly there or whole.

The run `install` has three installs in turn, with a hash or with ranges, or two
that overlap, with both (`MCRegimes`, `MCMaxStarts`); a crash, a deletion of a model whose
installs do not overlap (`MCMaxDeletes`; nothing is claimed of the others after one),
cancels at any moment, two attempts where the code has five, three files (`MaxFiles`).
Three installs are what a stale manifest needs: one leaves it, the
next empties the part, the third resumes. It shows that what the cache holds is whole
(`Intact`) and that every install ends (`InstallsEnd`). `Intact` is about installs in turn
with a hash, or with ranges and without a deletion, and about two that overlap with both
and without a deletion. *Fairness*: threads go on, connections have timeouts, the
library's included: an install awaits nothing else.

Proved in the third part of `ModelProofs`, on an instance of the module, for any
number of segments, files, attempts, crashes and deletions:
`CacheIntact == Spec => []Intact`. `Intact` is not inductive, because the blob was
once the part, the part was verified in an earlier step, and what was verified goes
back to a manifest some earlier install wrote. `CacheInv` adds, per regime, what carries
this: names denote different files (`PathsOK`), an install about to rename finds the
whole file or nothing (`RenameOK`). With ranges alone, and no deletion, the manifest, and
what an install read from it, name segments that are there, and every open handle is one of
the part (`ManifestOK`); with a hash alone only a stream could empty what was verified, and
no other install runs. For two that overlap the argument is `OverlapOK`: one that lost
its part to the other's rename will not find it made anew, because the other is past
that. Its steps are `QuietStep` (no file is touched), `DownloadStep` (names stay, no
finished segment is lost), `FewerNames` (a deletion takes names away), and the few that
give a name another file.

Disagreements:

* `download.py:137` says that the segmented download can never compromise a correct
  install. The conclusion of `Intact` is violated
  - with neither hash nor ranges, or with installs that overlap and one of the two
    missing: `_stream_single` empties the part and leaves the manifest; after a crash the
    next install takes every segment for finished, preallocation fills the file with zeros,
    its size is right, and the zeros become the blob;
  - with ranges and no hash, when a deletion meets a download: the part is removed, and a
    `_save_done` of the download writes the manifest again before the directory would go.
    The next install skips the segments it names, and zeros become the blob;
  - with installs that overlap, even with a hash, when a deletion meets them;
  - with three that overlap, with hash and ranges: the first renames the verified part, the
    third, which looked for the blob before, makes a part anew, and the second, whose check
    was of the first part, renames that one.
* A cancel noticed inside the segmented download is a `DownloadCancelled`, not an
  `_InstallCancelled`: it is answered by `snapshot_download`, and the install finishes.
* A cancel that arrives before the thread starts is discarded with the old ones
  (line 340); the `finally` of one install forgets a cancel meant for another.
* "A cancel is user intent, not a failure" (518): a cancel that meets the last
  attempt or an error that is not of the network still leaves the cooldown.
* A part that fails its hash is never removed, so every later install fails on it
  before it falls back.

## 12. DubGenerate

`DubGenerate.tla` models `dub_generate` with the plan of `services/incremental.py`: the
speech of a job with several languages, made segment by segment, in whole or in part.

| Specification | Code |
|---|---|
| `wav[l][s]`, `old[s]` | `seg_<lang>_<id>.wav`; `seg_<id>.wav` of builds that had no language in the name. A file holds what is said, the language it was rendered for, and whether it was fitted to its slot |
| `track[l][s]` | `dubbed_<lang>.wav`, piece by piece |
| `job` | `seg_hashes_by_lang`, `seg_wav_kind_by_lang`, the keys of `dubbed_tracks`, `segments_i18n` |
| `run` | a `_stream` under way: its request, the segment it is at, the pieces, `_pending_seg_writes` |
| `rough` | history: segments whose fingerprint does not vouch for their file: one was written without the other |
| `run.doubt` | history: segments the run took from a file though the job's fingerprints called them stale, or from a rough one |
| `torn` | history: pieces of tracks nothing vouches for: those in doubt, and, between the mix and the save, those whose text the run changed |

What a segment says stands for everything in its fingerprint: text, voice, speed,
direction. `Blank` is a text or a slot that gets silence. A segment fails (the model, or
its deadline), is not written although its fingerprint was noted (`RenderUnwritten`), a
file that is to be reused cannot be read (`ReuseFails`: reported, and silence in the
track, 403-416), and a run may end between any two steps (`Cut`). Order on the time line,
retiming and trimming, effects, RVC, the preview of one segment and a failing `_save_job`
are left out. The initial states are a new job, one with tracks of this build and one with
tracks of an earlier build.

`regen_only` is any set of segments. The editor does plan with `plan_incremental`, but
against fingerprints of its own, which it takes over when a run is `done`
(`useDubWorkflow.js:928-944`) or from a saved project (`App.jsx:1020-1027`), in a call whose
answer may come after another edit; `finalizeTtsBeforeExport` (`App.jsx:888`) asks for the
segments of preview quality only. What the job's own fingerprints say of the segments a run
does not render is `Vouched`, and what they do not vouch for is in doubt.

The run `generate` has two languages, two segments, three texts with the blank one, two
runs in two strategies and one fault; the strategies are the one that fits speech to
slots and the one that must not take such speech from its files. Two runs are what
reuse needs, and the jobs it begins with have a track already, so that there are three
generations of a text and an edit can be taken back. It shows that a track
never contains speech that was rendered for another (`OwnLanguage`), and that a finished
track says what its subtitles say, segment by segment, but for torn pieces (`TrackTrue`).
No fairness is assumed and nothing live is claimed: a run is finite. `CHECK_DEADLOCK
FALSE`: the bound on runs.

Both are proved for any languages, segments, texts, strategies, runs and faults, from
`DubGenerateAssumption` and `NoneIsNothing` (`None` is neither speech nor a fingerprint):

* `TracksSpeakTheirLanguage == Spec => []OwnLanguage`, with `OwnInv`: a keyed file
  holds its own language, one without a key a language the job has a track in, and the
  run's pieces are of its language. The second conjunct is why the guard may look at
  `dubbed_tracks` alone, and holds of the jobs `Init` allows (see below).
* `TracksSayTheirSubtitles == Spec => []TrackTrue`, with `TrueParts`: outside `rough`, a
  stored fingerprint is that of its file (`Fresh`); what the run rendered is in its file
  unless it could not be written (`PendingInv`); so each piece behind the loop is right or
  in doubt (`PieceInv`: what is not rendered and not in doubt has the fingerprint of the
  request, and by `Fresh` so has its file), and what is saved with the texts is what was
  mixed (`MixInv`).

Disagreements, each with a formula of the module that fails when it is checked, or seen
while reading:

* `incremental.py:141-142` calls a segment with a matching fingerprint "safe to reuse".
  `FreshIsTrue` is violated: a run cut short leaves new files under old fingerprints (they
  are flushed once, line 762), so an edit that is taken back counts as rendered and its
  old fingerprint vouches for the new speech. A segment whose write fails has its
  fingerprint noted before (686) and keeps its old file. `App.jsx:1093` still says that
  fingerprints are written per successful segment and that a crash resumes where it was.
* The editor's fingerprints may be older than the job's, and one window suffices: a run
  renders an edit, flushes files and fingerprints, and fails in the mix, so no `done` reaches
  the editor. When the edit is taken back, the editor's copy calls the segment fresh, and
  its file says the edit. The job's fingerprints would have told; `dub_generate` does
  not look at them. `TrackTrue` is violated without `run.doubt`.
* `finalizeTtsBeforeExport` renders the segments of preview quality only. If others are
  stale too, the saved subtitles are new and their speech is old; these are in doubt as
  well.
* `dub_generate.py:385` says that the guard guarantees natural-rate files.
  `NaturalOnly` is violated: a partial run in `concise` after `strict_slot` declares all
  files of the language natural, those it took over included.
* `_legacy_seg_cache_ok` trusts `dubbed_tracks`. A run of an earlier build that was cut
  short left files of a language that is not listed there; `Init` excludes such a job, for
  which `OwnLanguage` fails.
* A track is renamed into place before its texts are saved (`Mix`, `Save`): a run that
  ends in between leaves a track that says something else than its subtitles.
* `segment_fingerprint` promises the inputs that affect the speech, but a request's own
  `instruct`, `speed` and `language`, the fall-backs of what a segment lacks (576-579),
  are not in it. `seg_num_step` has no language: a preview of one track hides that
  another needs, or does not need, its full quality.

## 13. How the modules fit together

Three abstract specifications say what a part promises to the others: `JobLifecycle`
(a task and its stream), `FifoService` (both queues with workers of their own) and
`CallService` (the GPU pool). The components share little state. What crosses their
borders is modelled on
both sides: a reset of the GPU pool (`GpuPool!Reset`) reaches the batch workers as
a cancelled future (`PoolReset` in `BatchQueue` and `BatchRender`, which treat it
differently: the first catches `CancelledError`, the second does not and dies of it), and
the worker of `TaskManager` as `WorkerDies`; the slot that a call
of `Sidecar` asks for first is part of `GpuPool`, and an exception of the call is
an error of the job there. In `ModelLifecycle` a reset is `PoolReset`, which fails the
loads that wait; in `DubJob` it is `PoolCancels`, which closes a stream. `DubJob` takes
the speech model as present or not, as `get_model` in `ModelLifecycle` leaves it, and
its pipeline is one of the generators the worker of `TaskManager` runs: `Dropped` is
what `WorkerCancelled` does to it. So is a run of `DubGenerate`, which therefore has one
run at a time; its `Cut` is `WorkerCancelled`, `WorkerDies` or `Crash`, and its `RenderFails` what
`run_on_gpu_pool_guarded` of `GpuPool` tells a caller whose call hung. The task stream reads the rows the task manager
writes, in one module.

## 14. Scope

*Proved* (for every value of the constants): the theorems of sections 3 to 12. They
cover every safety property that a passing run checks, and four refinements: of
`JobLifecycle` by `TaskManager`, of `FifoService` by `JobQueue` and by `BatchQueue`, and
of `CallService` by `GpuPool`. Two theorems are about an instance inside `ModelProofs`, where the
property carries its prefix: `ModelLoadedOnce` is `Model!OneCopy`, `CacheIntact` is
`Cache!Intact`.

*Model-checked only*: everything under fairness, since neither liveness nor `ENABLED`
is within the prover's reach.
Every module has a type invariant `TypeOK`. No run spends a property on it: the
inductive invariants contain it, or its types without the bounds on counters (`Types`).

*Not modelled*: the components of section 2 from item 11 on, and those the last
paragraph of 1.1 names; `PROJECT.json` gives the reason for each, and lists every hazard
found while reading.
