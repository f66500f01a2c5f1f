------------------------------ MODULE DubJob ------------------------------
(***************************************************************************)
(* One dubbing job before its speech is generated: the ingest pipeline with *)
(* its processes (services/dub_pipeline.py, services/proc_registry.py), the *)
(* transcription streams, an import of subtitles, abort and deletion        *)
(* (api/routers/dub_core.py), and the speech model that transcription moves *)
(* out of the GPU memory and back.                                          *)
(*                                                                          *)
(* The pipeline, the streams and the import are coroutines of one loop;     *)
(* abort and deletion are endpoints in threads of their own, a download has *)
(* a thread that nothing can stop, and processes run by themselves: they    *)
(* meet anywhere.                                                           *)
(***************************************************************************)
EXTENDS Naturals, FiniteSets

CONSTANTS
    Streams,   \* requests for a transcription stream
    Chunks,    \* windows of audio to transcribe
    MaxAborts, \* bound: calls of abort
    Phases     \* what a behaviour is about: "prep", "transcribe"

ASSUME DubJobAssumption ==
    /\ {Chunks, MaxAborts} \subseteq Nat
    /\ Phases \subseteq {"prep", "transcribe"}
    /\ IsFiniteSet(Streams)

VARIABLES
    phase,    \* one of Phases
    prep,     \* where the ingest pipeline is
    thread,   \* yt_download_sync: it downloads, then converts by a process of its own
    proc,     \* the process of each stage, until it has been waited for
    registry, \* _active_procs: stages whose process is registered
    abort,    \* an abort in progress, and the aborts so far
    mem,      \* _dub_jobs: the number of the job's dict, 0 without
    dict,     \* the dicts made for the job: put_job, then those of get_job
    row,      \* dub_history.job_data
    files,    \* the job's directory exists
    deletion, \* a deletion in progress
    gone,     \* a deletion ended that nothing else of the job overlapped, and
              \* that left it in no memory
    user,     \* each stream and the import: where it is and the dict it holds
    tts,      \* the speech model: "none", "gpu", "cpu"
    left      \* the last stream to end left it, or could not restore it

prepVars == <<prep, thread, proc, registry>>
jobVars == <<mem, dict, row, files, gone>>
ttsVars == <<tts, left>>
vars == <<phase, prepVars, abort, jobVars, deletion, user, ttsVars>>

Stages == {"extract", "demucs", "scene", "thumb"}
Import == "import"
Users == Streams \cup {Import}

NoDict == [aborted |-> FALSE, segments |-> FALSE]
Dict == [aborted : BOOLEAN, segments : BOOLEAN]
NoRow == [saved |-> FALSE, job |-> NoDict]
NoUser == [at |-> "idle", dict |-> 0, chunk |-> 0, tries |-> 0, got |-> FALSE]
Over == [NoUser EXCEPT !.at = "over"]

\* put_job makes one dict, and every user and no one else may make another.
Dicts == 1..(1 + Cardinality(Users))

TypeOK ==
    /\ phase \in Phases
    /\ prep \in Stages \cup {"task", "download", "hash", "update", "save", "tell",
                            "closing", "over"}
    /\ thread \in {"none", "download", "convert", "ok", "failed"}
    /\ proc \in [Stages -> {"none", "spawned", "running", "mute", "ok", "failed"}]
    /\ registry \subseteq Stages
    /\ abort \in [at : {"idle", "kill", "forget", "mark"}, procs : SUBSET Stages,
                  ran : SUBSET Stages, count : 0..MaxAborts]
    /\ mem \in {0} \cup Dicts /\ dict \in [Dicts -> Dict]
    /\ row \in [saved : BOOLEAN, job : Dict]
    /\ {files, gone, left} \subseteq BOOLEAN
    /\ deletion \in [at : {"idle", "files", "pop", "over"}, all : BOOLEAN, alone : BOOLEAN]
    /\ user \in [Users -> [at : {"idle", "found", "have", "open", "loop", "asr",
                                 "diarize", "clones", "restore", "over"},
                           dict : {0} \cup Dicts, chunk : 0..Chunks, tries : 0..2,
                           got : BOOLEAN]]
    /\ tts \in {"none", "gpu", "cpu"}

\* The job is about to be prepared, or was with nothing in the way.
Init ==
    /\ phase \in Phases
    /\ IF phase = "prep"
       THEN /\ prep = "task"
            /\ mem = 0 /\ row = NoRow
       ELSE /\ prep = "over"
            /\ mem = 1 /\ row = [saved |-> TRUE, job |-> NoDict]
    /\ thread = "none" /\ proc = [g \in Stages |-> "none"] /\ registry = {}
    /\ abort = [at |-> "idle", procs |-> {}, ran |-> {}, count |-> 0]
    /\ dict = [n \in Dicts |-> NoDict]
    /\ files = TRUE /\ gone = FALSE
    /\ deletion = [at |-> "idle", all |-> FALSE, alone |-> FALSE]
    /\ user = [u \in Users |-> NoUser]
    /\ tts \in {"none", "gpu"} /\ left = FALSE

----------------------------------------------------------------------------
(* save_job and get_job.                                                   *)

\* An error of the database is logged, and the row stays as it was.
SaveJob(job) == row' = [saved |-> TRUE, job |-> job] \/ row' = row

Fresh(n) == n # mem /\ \A u \in Users : user[u].dict # n

\* The job is looked up in memory and then in its row, with no lock around the
\* two: what is read from the row is put into memory only later.
GetJob(u) ==
    \/ /\ mem # 0
       /\ user' = [user EXCEPT ![u].at = "have", ![u].dict = mem]
       /\ UNCHANGED dict
    \/ /\ mem = 0 /\ row.saved
       /\ \E n \in Dicts : /\ Fresh(n) /\ \A m \in Dicts : Fresh(m) => n <= m
                           /\ dict' = [dict EXCEPT ![n] = row.job]
                           /\ user' = [user EXCEPT ![u].at = "found", ![u].dict = n]
    \/ /\ mem = 0 /\ ~row.saved
       /\ user' = [user EXCEPT ![u] = Over]
       /\ UNCHANGED dict

Hydrate(u) ==
    /\ user[u].at = "found"
    /\ mem' = user[u].dict
    /\ user' = [user EXCEPT ![u].at = "have"]
    /\ UNCHANGED <<phase, prepVars, abort, dict, row, files, gone, deletion, ttsVars>>

----------------------------------------------------------------------------
(* ingest_pipeline.                                                        *)

\* The generator ends; its finally clause clears the registry.
PrepEnds == prep' = "over" /\ registry' = {}

PrepUnchanged == UNCHANGED <<phase, thread, abort, deletion, user, gone, ttsVars>>

\* The worker of the task manager takes the task up; only a URL is downloaded.
PrepBegins ==
    /\ prep = "task"
    /\ \/ prep' = "download" /\ thread' = "download"
       \/ prep' = "extract" /\ UNCHANGED thread
    /\ UNCHANGED <<phase, proc, registry, abort, jobVars, deletion, user, ttsVars>>

\* The download, and a process that makes its result playable: not registered, and
\* without a deadline.  Both go on when the pipeline has ended, and make the
\* directory anew.
ThreadStep ==
    /\ \/ thread = "download" /\ thread' \in {"convert", "ok", "failed"}
       \/ thread = "convert" /\ thread' \in {"ok", "failed"}
    /\ files' \in {files, TRUE}
    /\ UNCHANGED <<phase, prep, proc, registry, abort, mem, dict, row, gone, deletion,
                    user, ttsVars>>

Download ==
    /\ prep = "download"
    /\ \/ thread = "ok" /\ prep' = "extract" /\ UNCHANGED <<registry, files>>
       \/ thread = "failed" /\ PrepEnds /\ files' = FALSE
    /\ UNCHANGED <<proc, mem, dict, row>> /\ PrepUnchanged

\* Once it is its turn among all processes of ffmpeg and demucs, a process is made.
StageStarts(g) ==
    /\ prep = g /\ proc[g] = "none"
    /\ proc' = [proc EXCEPT ![g] = "spawned"]
    /\ UNCHANGED <<prep, registry, mem, dict, row, files>> /\ PrepUnchanged

\* The coroutine that awaited it goes on.
Registers(g) ==
    /\ prep = g /\ proc[g] = "spawned"
    /\ proc' = [proc EXCEPT ![g] = "running"]
    /\ registry' = registry \cup {g}
    /\ UNCHANGED <<prep, mem, dict, row, files>> /\ PrepUnchanged

\* What follows a stage: only a failed extraction ends the pipeline; audio has
\* no scenes and no thumbnail.
Follows(g, ok) ==
    /\ proc' = [proc EXCEPT ![g] = "none"]
    /\ registry' = IF g = "extract" /\ ~ok THEN {} ELSE registry \ {g}
    /\ prep' \in CASE g = "extract" -> {IF ok THEN "hash" ELSE "over"}
                    [] g = "demucs"  -> {"scene", "update"}
                    [] g = "scene"   -> {"thumb"}
                    [] g = "thumb"   -> {"update"}

StageEnds(g) ==
    /\ prep = g /\ proc[g] \in {"ok", "failed"}
    /\ Follows(g, proc[g] = "ok")
    /\ UNCHANGED <<mem, dict, row, files>> /\ PrepUnchanged

\* Mutant: processes have no deadline.
StageWaits(g) == FALSE

\* demucs has one only until it closes its error output.
StageTimesOut(g) ==
    /\ prep = g /\ proc[g] = "running"
    /\ Follows(g, FALSE)
    /\ UNCHANGED <<mem, dict, row, files>> /\ PrepUnchanged

GoesMute ==
    /\ proc["demucs"] = "running"
    /\ proc' = [proc EXCEPT !["demucs"] = "mute"]
    /\ UNCHANGED <<prep, registry, mem, dict, row, files>> /\ PrepUnchanged

\* A process ends by itself, or never.
ProcEnds(g) ==
    /\ proc[g] \in {"running", "mute"}
    /\ \E end \in {"ok", "failed"} : proc' = [proc EXCEPT ![g] = end]
    /\ UNCHANGED <<prep, registry, mem, dict, row, files>> /\ PrepUnchanged

\* The audio's hash: the artifacts of a job with the same audio are copied, or
\* the stages that make them follow.  Either way the job becomes known.
Hash ==
    /\ prep = "hash"
    /\ mem' = 1 /\ dict' = [dict EXCEPT ![1] = NoDict] /\ SaveJob(NoDict)
    /\ prep' \in {"tell", "demucs"}
    /\ UNCHANGED <<proc, registry, files>> /\ PrepUnchanged

\* _dub_jobs[job_id], twice: a job that was deleted meanwhile is an error.
Update ==
    /\ prep = "update"
    /\ IF mem = 0 THEN PrepEnds ELSE prep' = "save" /\ UNCHANGED registry
    /\ UNCHANGED <<proc, mem, dict, row, files>> /\ PrepUnchanged

Save ==
    /\ prep = "save"
    /\ IF mem = 0 THEN PrepEnds /\ UNCHANGED row
                  ELSE prep' = "tell" /\ SaveJob(dict[mem]) /\ UNCHANGED registry
    /\ UNCHANGED <<proc, mem, dict, files>> /\ PrepUnchanged

Tell ==
    /\ prep = "tell" /\ PrepEnds
    /\ UNCHANGED <<proc, mem, dict, row, files>> /\ PrepUnchanged

\* The task is cancelled, so its worker drops the generator at an event: between
\* stages, or at a progress report of demucs, whose process belongs to a second
\* generator that is closed afterwards.
Dropped ==
    /\ \/ prep \in Stages /\ proc[prep] = "none" /\ prep' = "over"
       \/ prep \in {"download", "update", "tell"} /\ prep' = "over"
       \/ prep = "demucs" /\ proc["demucs"] \in {"running", "ok", "failed"}
          /\ prep' = "closing"
    /\ registry' = {}
    /\ UNCHANGED <<proc, mem, dict, row, files>> /\ PrepUnchanged

Killed(procs) == [g \in Stages |-> IF g \in procs /\ proc[g] \in {"running", "mute"}
                                   THEN "failed" ELSE proc[g]]

\* Mutant: the generator of a process only takes it off the registry.
ClosedAlone ==
    /\ prep = "closing" /\ prep' = "over"
    /\ UNCHANGED <<proc, registry, mem, dict, row, files>> /\ PrepUnchanged

Closed ==
    /\ prep = "closing" /\ prep' = "over"
    /\ proc' = [proc EXCEPT !["demucs"] = "none"]
    /\ UNCHANGED <<registry, mem, dict, row, files>> /\ PrepUnchanged

\* The worker itself is cancelled where the pipeline waits, as at shutdown.  A process
\* that is being made asyncio kills.
PrepCancelled ==
    /\ prep \in Stages \cup {"download", "hash"}
    /\ PrepEnds
    /\ proc' = [g \in Stages |-> IF g \in registry \cup {prep} THEN "none" ELSE proc[g]]
    /\ files' = FALSE /\ mem' = 0
    /\ UNCHANGED <<dict, row>> /\ PrepUnchanged

PrepStep ==
    \/ Download \/ Hash \/ Update \/ Save \/ Tell \/ Closed
    \/ \E g \in Stages : Registers(g) \/ StageEnds(g) \/ StageTimesOut(g)

----------------------------------------------------------------------------
(* dub_abort, with kill_job_procs.                                         *)

\* What the pipeline knows to run.
Running == {g \in Stages : proc[g] \in {"running", "mute"}}

\* After the preparation there is no process left, so only the flag matters.
\* ran notes what the abort is to end.
Snapshot ==
    /\ abort.at = "idle" /\ abort.count < MaxAborts
    /\ abort' = [at |-> IF phase = "prep" THEN "kill" ELSE "mark", procs |-> registry,
                 ran |-> IF prep = "closing" THEN {} ELSE Running,
                 count |-> abort.count + 1]
    /\ UNCHANGED <<phase, prepVars, jobVars, deletion, user, ttsVars>>

\* Mutant: what is no longer registered by then is spared.
KillSkips ==
    /\ abort.at = "kill" /\ abort' = [abort EXCEPT !.at = "forget"]
    /\ proc' = Killed(abort.procs \cap registry)
    /\ UNCHANGED <<phase, prep, thread, registry, jobVars, deletion, user, ttsVars>>

Kill ==
    /\ abort.at = "kill" /\ abort' = [abort EXCEPT !.at = "forget"]
    /\ proc' = Killed(abort.procs)
    /\ UNCHANGED <<phase, prep, thread, registry, jobVars, deletion, user, ttsVars>>

\* The whole entry of the job goes, with what was registered since.
Forget ==
    /\ abort.at = "forget" /\ abort' = [abort EXCEPT !.at = "mark"]
    /\ registry' = {}
    /\ UNCHANGED <<phase, prep, thread, proc, jobVars, deletion, user, ttsVars>>

\* The flag is set in the dict that is in memory now.  The task that is
\* cancelled afterwards is named as the job, which none is.
Mark ==
    /\ abort.at = "mark"
    /\ abort' = [abort EXCEPT !.at = "idle", !.procs = {}, !.ran = {}]
    /\ dict' = IF mem = 0 THEN dict ELSE [dict EXCEPT ![mem].aborted = TRUE]
    /\ UNCHANGED <<phase, prepVars, mem, row, files, gone, deletion, user, ttsVars>>

AbortStep == Kill \/ Forget \/ Mark

\* An export forgets an earlier abort.
ExportClears ==
    /\ phase = "transcribe" /\ mem # 0
    /\ dict' = [dict EXCEPT ![mem].aborted = FALSE]
    /\ UNCHANGED <<phase, prepVars, abort, mem, row, files, gone, deletion, user, ttsVars>>

----------------------------------------------------------------------------
(* Deletion of this job, or of the whole history.                          *)

Busy(u) == user[u].at \notin {"idle", "over"}
Alone == prep = "over" /\ \A u \in Users : ~Busy(u)

DeleteRow(all) ==
    /\ deletion.at = "idle" /\ (all => row.saved)
    /\ row' = NoRow
    /\ deletion' = [at |-> "files", all |-> all, alone |-> Alone /\ (all => mem = 0)]
    /\ UNCHANGED <<phase, prepVars, abort, mem, dict, files, gone, user, ttsVars>>

\* Clearing the whole history ends here: every job stays in memory.
DeleteFiles ==
    /\ deletion.at = "files"
    /\ files' = FALSE
    /\ deletion' = [deletion EXCEPT !.at = IF deletion.all THEN "over" ELSE "pop"]
    /\ gone' = (gone \/ (deletion.all /\ deletion.alone))
    /\ UNCHANGED <<phase, prepVars, abort, mem, dict, row, user, ttsVars>>

\* Mutant: a deletion leaves the job in memory.
PopNothing ==
    /\ deletion.at = "pop" /\ deletion' = [deletion EXCEPT !.at = "over"]
    /\ gone' = deletion.alone
    /\ UNCHANGED <<phase, prepVars, abort, mem, dict, row, files, user, ttsVars>>

Pop ==
    /\ deletion.at = "pop" /\ deletion' = [deletion EXCEPT !.at = "over"]
    /\ mem' = 0
    /\ gone' = deletion.alone
    /\ UNCHANGED <<phase, prepVars, abort, dict, row, files, user, ttsVars>>

\* What finds the job while it is being deleted overlaps the deletion.
Overlaps(u) ==
    deletion' = [deletion EXCEPT !.alone = @ /\ user'[u].at = "over"]

----------------------------------------------------------------------------
(* dub_transcribe_stream.                                                  *)

Open(s) ==
    /\ phase = "transcribe" /\ user[s].at = "idle"
    /\ GetJob(s) /\ Overlaps(s)
    /\ UNCHANGED <<phase, prepVars, abort, mem, row, files, gone, ttsVars>>

\* From offload to restore a stream that ends leaves the model where it is.
Offloaded(s) == user[s].at \in {"loop", "asr", "diarize", "clones", "restore"}

Ends(s) ==
    /\ user' = [user EXCEPT ![s] = Over]
    /\ left' = (left \/ Offloaded(s))

StreamUnchanged == UNCHANGED <<phase, prepVars, abort, deletion, mem, files, gone>>

At(s, at) == user' = [user EXCEPT ![s].at = at]

\* The speech model and the recognizer are loaded, the audio is looked for.
Preflight(s) ==
    /\ s \in Streams /\ user[s].at = "have"
    /\ \/ Ends(s) /\ tts' \in {tts, IF tts = "none" THEN "gpu" ELSE tts}
       \/ /\ files /\ At(s, "open")
          /\ tts' = IF tts = "none" THEN "gpu" ELSE tts
          /\ UNCHANGED left
    /\ UNCHANGED <<dict, row>> /\ StreamUnchanged

\* The audio is read, and where memory is short the speech model makes room.
Offload(s) ==
    /\ user[s].at = "open"
    /\ \/ Ends(s) /\ UNCHANGED tts
       \/ /\ files /\ At(s, "loop")
          /\ tts' \in {tts, IF tts = "gpu" THEN "cpu" ELSE tts}
          /\ UNCHANGED left
    /\ UNCHANGED <<dict, row>> /\ StreamUnchanged

\* Before each chunk and after the last: aborted?  Nothing recognized?
Loop(s) ==
    /\ user[s].at = "loop"
    /\ \/ dict[user[s].dict].aborted /\ Ends(s)
       \/ /\ ~dict[user[s].dict].aborted /\ user[s].chunk < Chunks
          /\ user' = [user EXCEPT ![s].at = "asr", ![s].tries = 1] /\ UNCHANGED left
       \/ /\ ~dict[user[s].dict].aborted /\ user[s].chunk = Chunks
          /\ IF user[s].got THEN At(s, "diarize") /\ UNCHANGED left
                            ELSE Ends(s)
    /\ UNCHANGED <<dict, row, tts>> /\ StreamUnchanged

\* A chunk that fails or passes its deadline is tried a second time.
Attempt(s) ==
    /\ user[s].at = "asr"
    /\ \/ user[s].tries < 2 /\ user' = [user EXCEPT ![s].tries = @ + 1]
       \/ \E got \in BOOLEAN :
            user' = [user EXCEPT ![s].at = "loop", ![s].chunk = @ + 1,
                                 ![s].tries = 0, ![s].got = @ \/ got]
    /\ UNCHANGED <<dict, row, ttsVars>> /\ StreamUnchanged

Diarize(s) ==
    /\ user[s].at = "diarize"
    /\ At(s, "clones")
    /\ dict' = [dict EXCEPT ![user[s].dict].segments = TRUE]
    /\ UNCHANGED <<row, ttsVars>> /\ StreamUnchanged

Clones(s) ==
    /\ user[s].at = "clones"
    /\ At(s, "restore")
    /\ SaveJob(dict[user[s].dict])
    /\ UNCHANGED <<dict, ttsVars>> /\ StreamUnchanged

\* Mutant: nothing is moved back.
RestoreNothing(s) ==
    /\ user[s].at = "restore"
    /\ user' = [user EXCEPT ![s] = Over]
    /\ left' = FALSE
    /\ UNCHANGED <<dict, row, tts>> /\ StreamUnchanged

\* An error, as for want of memory, is only logged.
Restore(s) ==
    /\ user[s].at = "restore"
    /\ user' = [user EXCEPT ![s] = Over]
    /\ \/ tts' = IF tts = "cpu" THEN "gpu" ELSE tts
       \/ tts = "cpu" /\ tts' = "cpu"
    /\ left' = (tts' = "cpu")
    /\ UNCHANGED <<dict, row>> /\ StreamUnchanged

StreamStep(s) == Offload(s) \/ Loop(s) \/ Attempt(s) \/ Clones(s) \/ Restore(s)

\* Something raises, and the last resort of the stream reports it.
Crashes(s) ==
    /\ user[s].at \in {"diarize", "clones", "restore"}
    /\ Ends(s)
    /\ UNCHANGED <<dict, row, tts>> /\ StreamUnchanged

\* Another job resets the pool while a job of this stream waits there: what is
\* raised is no Exception, and the stream closes without a word.
PoolCancels(s) ==
    /\ s \in Streams /\ user[s].at \in {"have", "asr", "diarize"}
    /\ Ends(s)
    /\ UNCHANGED <<dict, row, tts>> /\ StreamUnchanged

Disconnects(s) ==
    /\ s \in Streams /\ Busy(s) /\ user[s].at \notin {"found", "have"}
    /\ Ends(s)
    /\ UNCHANGED <<dict, row, tts>> /\ StreamUnchanged

\* The idle worker or the user frees the memory of the speech model.
Unload ==
    /\ phase = "transcribe" /\ tts # "none" /\ tts' = "none"
    /\ UNCHANGED <<phase, prepVars, abort, jobVars, deletion, user, left>>

----------------------------------------------------------------------------
(* dub_import_srt: the upload is read between the lookup and the save.      *)

ImportBegins ==
    /\ phase = "transcribe" /\ user[Import].at = "idle"
    /\ GetJob(Import) /\ Overlaps(Import)
    /\ UNCHANGED <<phase, prepVars, abort, mem, row, files, gone, ttsVars>>

ImportEnds ==
    /\ user[Import].at = "have"
    /\ user' = [user EXCEPT ![Import] = Over]
    /\ LET job == [dict[user[Import].dict] EXCEPT !.segments = TRUE] IN
         \/ dict' = [dict EXCEPT ![user[Import].dict] = job] /\ SaveJob(job)
         \/ UNCHANGED <<dict, row>>
    /\ UNCHANGED ttsVars /\ StreamUnchanged

----------------------------------------------------------------------------
Next ==
    \/ PrepBegins \/ PrepStep \/ Dropped \/ PrepCancelled
    \/ ThreadStep \/ GoesMute
    \/ \E g \in Stages : StageStarts(g) \/ ProcEnds(g)
    \/ Snapshot \/ AbortStep \/ ExportClears
    \/ \E all \in BOOLEAN : DeleteRow(all)
    \/ DeleteFiles \/ Pop
    \/ \E u \in Users : Hydrate(u)
    \/ \E s \in Streams : \/ Open(s) \/ Preflight(s) \/ Diarize(s) \/ StreamStep(s)
                          \/ Crashes(s) \/ PoolCancels(s) \/ Disconnects(s)
    \/ Unload \/ ImportBegins \/ ImportEnds

Spec == Init /\ [][Next]_vars

\* Coroutines, threads and deadlines are always served in the end, and work on local
\* files ends.  What waits for something else without a deadline may wait for ever.
FairSpec ==
    /\ Spec
    /\ WF_vars(PrepStep) /\ WF_vars(AbortStep) /\ WF_vars(DeleteFiles \/ Pop)
    /\ \A u \in Users : WF_vars(Hydrate(u))
    /\ \A s \in Streams : WF_vars(StreamStep(s))
    /\ WF_vars(ImportEnds)

----------------------------------------------------------------------------
\* The pipeline waits without a deadline: for the worker that is to take it up, the
\* thread of its download, its turn to start a process, or the end of a demucs that
\* has closed its error output.
PrepHangs ==
    \/ prep = "task"
    \/ prep = "download" /\ thread \in {"download", "convert"}
    \/ prep \in Stages /\ proc[prep] = "none"
    \/ prep = "demucs" /\ proc["demucs"] = "mute"

\* So does a stream while the recognizer is loaded, and while the speakers are told
\* apart.
Hangs(u) == u \in Streams /\ user[u].at \in {"have", "diarize"}

\* No process of a stage outlives the pipeline that started it, however it ends: by
\* an abort, a deadline, a cancelled task or worker, or an error.  (The process that
\* converts a download is not one of them: it goes on when the pipeline has ended.)
NoProcLeft == prep = "over" => \A g \in Stages : proc[g] \in {"none", "ok", "failed"}

\* A deleted job comes back neither to the history nor to memory, unless what
\* was under way during the deletion brings it back, or the whole history was cleared
\* while the job was in memory: that leaves it there, and its next save brings it back.
DeletedStays == gone => mem = 0 /\ ~row.saved

\* When transcriptions are over, the speech model is not left in main memory,
\* however they overlap, unless the last one ended before its final event or could
\* not move it.
ModelBack ==
    tts = "cpu" => left \/ \E s \in Streams : Offloaded(s)

\* Preparation and transcriptions end, also when processes hang, or wait for ever
\* where the code has no deadline.
EveryoneEnds ==
    <>[](/\ prep = "over" \/ PrepHangs
         /\ \A u \in Users : ~Busy(u) \/ Hangs(u))

\* When an abort returns, what it found in the registry is dead, whatever started and
\* ended meanwhile; and the first abort found all that the pipeline knew to run, but
\* for a pipeline that was being closed, which kills its process itself.  A process
\* that was still being made it did not, and a later abort may miss one: the first
\* takes the whole entry off the registry, with what came after its look.
KillsAll ==
    abort.at = "mark" =>
      \A g \in abort.ran : abort.count = 1 \/ g \in abort.procs => g \notin Running
============================================================================
