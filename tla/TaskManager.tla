---------------------------- MODULE TaskManager ----------------------------
(***************************************************************************)
(* The background-task dispatcher (backend/core/tasks.py), its SQLite      *)
(* mirror (backend/core/job_store.py) and the SSE endpoint that replays    *)
(* and follows a task (stream_task in backend/api/routers/dub_export.py).  *)
(*                                                                         *)
(* Everything runs on one asyncio loop, so a handler is atomic between two *)
(* suspension points.  The listener lock is never held across an await     *)
(* that suspends and the listener queues are unbounded: publishing an      *)
(* event to every listener is one step.  What does interleave is           *)
(*   - the task's generator, which suspends between two updates,           *)
(*   - each SSE response, which suspends at every event it sends,          *)
(*   - the HTTP handlers (add, cancel), and                                *)
(*   - the death of the process, followed by the sweep of the next start.  *)
(* A database write may fail; the code logs that and goes on.  A process   *)
(* killed between two writes of one handler leaves the database as a       *)
(* failed second write followed by a crash does.                           *)
(***************************************************************************)
EXTENDS Naturals, Sequences, FiniteSets

CONSTANTS
    Tasks,        \* task ids
    Clients,      \* SSE clients, one connection each at a time
    MaxAdds,      \* bound: calls of add_task
    MaxLog,       \* bound: updates are published while a log is shorter
    MaxFaults,    \* bound: failed database writes
    MaxRestarts,  \* bound: deaths of the process
    EventCap,     \* _EVENT_CAP_PER_JOB (500 in the code)
    ReplayLimit,  \* the limit argument of events_since (1000 in the code)
    ReuseIds      \* may a caller hand add_task an id it used before?

ASSUME TaskManagerAssumption ==
    /\ MaxAdds \in Nat /\ MaxLog \in Nat /\ MaxFaults \in Nat
    /\ MaxRestarts \in Nat
    /\ EventCap \in Nat \ {0} /\ ReplayLimit \in Nat \ {0}
    /\ ReuseIds \in BOOLEAN

VARIABLES
    up,        \* is the server process alive?
    alive,     \* has its worker task not ended?
    restarts,  \* deaths so far
    added,     \* task objects made so far; the object's name is its number
    active,    \* active_tasks: the object an id denotes, 0 for none
    object,    \* the task objects: status, cancelled flag, listeners
    queue,     \* the dispatcher's queue of ids
    worker,    \* what the single worker runs: the id and the object it read
    job,       \* the status column of the id's row in jobs
    rows,      \* the id's rows in job_events, ORDER BY seq ASC
    log,       \* every event published under the id, in order
    missed,    \* ids with a lost write of the status column
    faults,    \* failed writes so far
    client     \* the SSE responses

memory == <<added, active, object, queue, worker>>
disk   == <<job, rows, missed, faults>>
vars   == <<up, alive, restarts, memory, disk, log, client>>

----------------------------------------------------------------------------
Objects  == 1..MaxAdds
Active   == {"pending", "running"}
Terminal == {"done", "failed", "cancelled"}
Status   == Active \cup Terminal
Kinds    == {"update", "cancelled", "failure"}

\* The None that ends a listener's queue.  Events are numbered from 1.
EOF == 0

Idle == [obj |-> 0]

Object == [status : Status, cancelled : BOOLEAN, listeners : SUBSET Clients]
Row    == [seq : Nat, ev : Nat]
Event  == [kind : Kinds, obj : Nat]

(***************************************************************************)
(* One SSE response: the object read when the request came in (live), the  *)
(* cursor it was given, the rows still to replay, its listener queue, and  *)
(* what the client has received.  attached counts the events published     *)
(* when the listener was added.                                            *)
(***************************************************************************)
NoStream == [pc |-> "idle"]
OpenPc   == {"opening", "replaying", "live"}
Client == [pc : OpenPc \cup {"ended"}, task : Tasks, live : Nat, after : Nat,
           replay : Seq(Nat), inbox : Seq(Nat), got : Seq(Nat),
           attached : Nat] \cup {NoStream}

TypeOK ==
    /\ up \in BOOLEAN
    /\ alive \in BOOLEAN
    /\ restarts \in 0..MaxRestarts
    /\ added \in 0..MaxAdds
    /\ active \in [Tasks -> 0..MaxAdds]
    /\ object \in [Objects -> Object]
    /\ queue \in Seq(Tasks)
    /\ worker \in [task : Tasks, obj : Objects] \cup {Idle}
    /\ job \in [Tasks -> Status \cup {"absent"}]
    /\ rows \in [Tasks -> Seq(Row)]
    /\ log \in [Tasks -> Seq(Event)]
    /\ missed \subseteq Tasks
    /\ faults \in 0..MaxFaults
    /\ client \in [Clients -> Client]

NewObject == [status |-> "pending", cancelled |-> FALSE, listeners |-> {}]

Init ==
    /\ up = TRUE
    /\ alive = TRUE
    /\ restarts = 0
    /\ added = 0
    /\ active = [t \in Tasks |-> 0]
    /\ object = [o \in Objects |-> NewObject]
    /\ queue = <<>>
    /\ worker = Idle
    /\ job = [t \in Tasks |-> "absent"]
    /\ rows = [t \in Tasks |-> <<>>]
    /\ log = [t \in Tasks |-> <<>>]
    /\ missed = {}
    /\ faults = 0
    /\ client = [c \in Clients |-> NoStream]

----------------------------------------------------------------------------
(***************************************************************************)
(* Database writes.                                                        *)
(***************************************************************************)
MaxSeq(rs) == IF rs = <<>> THEN 0 ELSE rs[Len(rs)].seq

\* Mutant: one row too many survives.
TrimLate(rs) == IF Len(rs) > EventCap + 1 THEN SubSeq(rs, 2, Len(rs)) ELSE rs

\* The newest EventCap rows survive an insert.
Trim(rs) == IF Len(rs) > EventCap
            THEN SubSeq(rs, Len(rs) - EventCap + 1, Len(rs))
            ELSE rs

AppendRow(rs, n) == Trim(Append(rs, [seq |-> MaxSeq(rs) + 1, ev |-> n]))

\* ok[i] says whether the i-th write of the step succeeds.
Faults(ok) ==
    /\ faults' = faults + Cardinality({i \in DOMAIN ok : ~ok[i]})
    /\ faults' <= MaxFaults

\* UPDATE jobs SET status = s: nothing happens when there is no row.
SetStatus(t, s, ok) ==
    /\ job' = IF ok /\ job[t] # "absent" THEN [job EXCEPT ![t] = s] ELSE job
    /\ missed' = IF ok THEN missed ELSE missed \cup {t}

(***************************************************************************)
(* _push_event: history and job_events first, then every listener of the   *)
(* object the id denotes now; a failed insert does not stop the delivery.  *)
(***************************************************************************)
Record(t, kind, ok) ==
    /\ log' = [log EXCEPT ![t] = Append(@, [kind |-> kind, obj |-> active[t]])]
    /\ rows' = IF ok THEN [rows EXCEPT ![t] = AppendRow(@, Len(log[t]) + 1)]
                     ELSE rows

Deliver(t, evs) ==
    client' = [c \in Clients |->
                 IF c \in object[active[t]].listeners
                 THEN [client[c] EXCEPT !.inbox = @ \o evs]
                 ELSE client[c]]

----------------------------------------------------------------------------
(***************************************************************************)
(* HTTP handlers.                                                          *)
(***************************************************************************)
AddTask(t) ==
    /\ up /\ added < MaxAdds
    /\ ReuseIds \/ (log[t] = <<>> /\ active[t] = 0 /\ job[t] = "absent"
                      /\ t \notin missed)
    /\ added' = added + 1
    /\ active' = [active EXCEPT ![t] = added + 1]
    /\ object' = [object EXCEPT ![added + 1] = NewObject]
    /\ \E ok \in [1..1 -> BOOLEAN] :
         /\ Faults(ok)
         /\ job' = IF ok[1] THEN [job EXCEPT ![t] = "pending"] ELSE job
         /\ missed' = IF ok[1] THEN missed ELSE missed \cup {t}
    /\ queue' = Append(queue, t)
    /\ UNCHANGED <<up, alive, restarts, worker, rows, log, client>>

CancelTask(t) ==
    /\ up /\ active[t] # 0
    /\ object' = [object EXCEPT ![active[t]].cancelled = TRUE]
    /\ UNCHANGED <<up, alive, restarts, added, active, queue, worker, disk, log, client>>

----------------------------------------------------------------------------
(***************************************************************************)
(* The worker.                                                             *)
(***************************************************************************)
\* Mutant: an entry cancelled while it was queued is skipped, as the worker
\* of job_queue does, but without recording its end.
WorkerGetSkip ==
    /\ up /\ alive /\ worker = Idle /\ queue # <<>>
    /\ queue' = Tail(queue)
    /\ IF object[active[Head(queue)]].cancelled
       THEN UNCHANGED <<worker, object, disk>>
       ELSE /\ worker' = [task |-> Head(queue), obj |-> active[Head(queue)]]
            /\ object' = [object EXCEPT ![active[Head(queue)]].status = "running"]
            /\ SetStatus(Head(queue), "running", TRUE)
            /\ UNCHANGED <<rows, faults>>
    /\ UNCHANGED <<up, alive, restarts, added, active, log, client>>

WorkerGet ==
    /\ up /\ alive /\ worker = Idle /\ queue # <<>>
    /\ LET t == Head(queue) IN
         /\ queue' = Tail(queue)
         /\ worker' = [task |-> t, obj |-> active[t]]
         /\ object' = [object EXCEPT ![active[t]].status = "running"]
         /\ \E ok \in [1..1 -> BOOLEAN] :
              Faults(ok) /\ SetStatus(t, "running", ok[1])
    /\ UNCHANGED <<up, alive, restarts, added, active, rows, log, client>>

\* Mutant: an event the disk refused is not delivered either.
WorkerUpdatePersistedOnly ==
    /\ up /\ alive /\ worker # Idle
    /\ ~object[worker.obj].cancelled
    /\ Len(log[worker.task]) < MaxLog
    /\ \E ok \in [1..1 -> BOOLEAN] :
         /\ Faults(ok)
         /\ Record(worker.task, "update", ok[1])
         /\ IF ok[1] THEN Deliver(worker.task, <<Len(log[worker.task]) + 1>>)
                     ELSE UNCHANGED client
    /\ UNCHANGED <<up, alive, restarts, memory, job, missed>>

\* The generator yields and its object is not cancelled: publish the update.
WorkerUpdate ==
    /\ up /\ alive /\ worker # Idle
    /\ ~object[worker.obj].cancelled
    /\ LET t == worker.task IN
         /\ Len(log[t]) < MaxLog
         /\ \E ok \in [1..1 -> BOOLEAN] :
              Faults(ok) /\ Record(t, "update", ok[1])
         /\ Deliver(t, <<Len(log[t]) + 1>>)
    /\ UNCHANGED <<up, alive, restarts, memory, job, missed>>

\* The run is over: its object and its row take the final status, an event
\* may announce it, and every listener gets EOF.
EndRun(status, kind) ==
    LET t == worker.task IN
    /\ object' = [object EXCEPT ![worker.obj].status = status]
    /\ worker' = Idle
    /\ \E ok \in [1..2 -> BOOLEAN] :
         /\ Faults(ok)
         /\ SetStatus(t, status, ok[1])
         /\ Record(t, kind, ok[2])
    /\ Deliver(t, <<Len(log[t]) + 1, EOF>>)
    /\ UNCHANGED <<up, alive, restarts, added, active, queue>>

\* Mutant: the loop announces the cancellation but does not break.
WorkerCancelledNoBreak ==
    /\ up /\ alive /\ worker # Idle
    /\ object[worker.obj].cancelled
    /\ Len(log[worker.task]) < MaxLog
    /\ Record(worker.task, "cancelled", TRUE)
    /\ Deliver(worker.task, <<Len(log[worker.task]) + 1>>)
    /\ UNCHANGED <<up, alive, restarts, memory, job, missed, faults>>

\* The generator yields and its object is cancelled: the update is dropped.
WorkerCancelled ==
    /\ up /\ alive /\ worker # Idle
    /\ object[worker.obj].cancelled
    /\ EndRun("cancelled", "cancelled")

\* The generator raises.
WorkerFail ==
    /\ up /\ alive /\ worker # Idle
    /\ EndRun("failed", "failure")

\* Mutant: EOF is not sent when the run succeeds.
WorkerFinishNoEof ==
    /\ up /\ alive /\ worker # Idle
    /\ object' = [object EXCEPT ![worker.obj].status = "done"]
    /\ worker' = Idle
    /\ SetStatus(worker.task, "done", TRUE)
    /\ UNCHANGED <<up, alive, restarts, added, active, queue, rows, log, faults, client>>

\* The generator, or the coroutine, returns: nothing is published but EOF.
WorkerFinish ==
    /\ up /\ alive /\ worker # Idle
    /\ object' = [object EXCEPT ![worker.obj].status = "done"]
    /\ worker' = Idle
    /\ \E ok \in [1..1 -> BOOLEAN] :
         Faults(ok) /\ SetStatus(worker.task, "done", ok[1])
    /\ Deliver(worker.task, <<EOF>>)
    /\ UNCHANGED <<up, alive, restarts, added, active, queue, rows, log>>

\* The generator raises CancelledError, as one that awaits a GPU pool does
\* when reset_gpu_pool drops its work: `except Exception` lets it pass.  EOF
\* is sent and worker() ends; the run keeps its status and its row.
WorkerDies ==
    /\ up /\ alive /\ worker # Idle
    /\ alive' = FALSE
    /\ Deliver(worker.task, <<EOF>>)
    /\ UNCHANGED <<up, restarts, memory, disk, log>>

----------------------------------------------------------------------------
(***************************************************************************)
(* stream_task.                                                            *)
(***************************************************************************)
\* The request: the object is read here and used, unchecked, to the end.
OpenStream(c, t) ==
    /\ up /\ client[c].pc \notin OpenPc
    /\ active[t] # 0 \/ job[t] # "absent"
    /\ \E after \in {0} \cup {rows[t][i].seq : i \in 1..Len(rows[t])} :
         client' = [client EXCEPT ![c] =
                      [pc |-> "opening", task |-> t, live |-> active[t],
                       after |-> after, replay |-> <<>>, inbox |-> <<>>,
                       got |-> <<>>, attached |-> 0]]
    /\ UNCHANGED <<up, alive, restarts, memory, disk, log>>

\* Mutant: the final-status check is dropped.
AttachAlways(c) ==
    LET s == client[c] IN
    IF s.live = 0
    THEN /\ client' = [client EXCEPT ![c].pc = "ended"]
         /\ UNCHANGED object
    ELSE /\ client' = [client EXCEPT ![c].pc = "live",
                                     ![c].attached = Len(log[s.task])]
         /\ object' = [object EXCEPT ![active[s.task]].listeners = @ \cup {c}]

\* Mutant: the new listener is primed with the in-memory history.
AttachPrimed(c) ==
    LET s == client[c] IN
    IF s.live = 0 \/ object[s.live].status \in Terminal
    THEN /\ client' = [client EXCEPT ![c].pc = "ended"]
         /\ UNCHANGED object
    ELSE /\ client' = [client EXCEPT ![c].pc = "live",
                                     ![c].inbox = [i \in 1..Len(log[s.task]) |-> i],
                                     ![c].attached = Len(log[s.task])]
         /\ object' = [object EXCEPT ![active[s.task]].listeners = @ \cup {c}]

\* With nothing (left) to replay: return if there was no live object or it
\* is finished, else add a listener to the object the id denotes now.
Attach(c) ==
    LET s == client[c] IN
    IF s.live = 0 \/ object[s.live].status \in Terminal
    THEN /\ client' = [client EXCEPT ![c].pc = "ended"]
         /\ UNCHANGED object
    ELSE /\ client' = [client EXCEPT ![c].pc = "live",
                                     ![c].attached = Len(log[s.task])]
         /\ object' = [object EXCEPT ![active[s.task]].listeners = @ \cup {c}]

\* The first step of the response body: events_since, then the first event.
\* k rows are at or below the cursor.  The query may fail: nothing is replayed.
StartReplay(c) ==
    /\ up /\ client[c].pc = "opening"
    /\ LET rs == rows[client[c].task] IN
       \E k \in 0..Len(rs), ok \in [1..1 -> BOOLEAN] :
         /\ Faults(ok)
         /\ IF ok[1]
            THEN \A i \in 1..Len(rs) : rs[i].seq <= client[c].after <=> i <= k
            ELSE k = Len(rs)
         /\ LET n == IF Len(rs) - k < ReplayLimit THEN Len(rs) - k
                                                  ELSE ReplayLimit IN
            IF n = 0
            THEN Attach(c)
            ELSE /\ client' = [client EXCEPT
                                 ![c].pc = "replaying",
                                 ![c].got = <<rs[k + 1].ev>>,
                                 ![c].replay =
                                    [i \in 1..(n - 1) |-> rs[k + 1 + i].ev]]
                 /\ UNCHANGED object
    /\ UNCHANGED <<up, alive, restarts, added, active, queue, worker, job, rows, missed,
                   log>>

Replay(c) ==
    /\ up /\ client[c].pc = "replaying" /\ client[c].replay # <<>>
    /\ client' = [client EXCEPT ![c].got = Append(@, Head(client[c].replay)),
                                ![c].replay = Tail(@)]
    /\ UNCHANGED <<up, alive, restarts, memory, disk, log>>

EndReplay(c) ==
    /\ up /\ client[c].pc = "replaying" /\ client[c].replay = <<>>
    /\ Attach(c)
    /\ UNCHANGED <<up, alive, restarts, added, active, queue, worker, disk, log>>

\* remove_listener looks the id up again.
Detach(c) ==
    object' = IF active[client[c].task] = 0 THEN object
              ELSE [object EXCEPT ![active[client[c].task]].listeners = @ \ {c}]

Follow(c) ==
    /\ up /\ client[c].pc = "live" /\ client[c].inbox # <<>>
    /\ LET ev == Head(client[c].inbox) IN
       IF ev = EOF
       THEN /\ client' = [client EXCEPT ![c].pc = "ended",
                                        ![c].inbox = Tail(@)]
            /\ Detach(c)
       ELSE /\ client' = [client EXCEPT ![c].got = Append(@, ev),
                                        ![c].inbox = Tail(@)]
            /\ UNCHANGED object
    /\ UNCHANGED <<up, alive, restarts, added, active, queue, worker, disk, log>>

\* The client goes away: the response is closed at its suspension point.
Disconnect(c) ==
    /\ up /\ client[c].pc \in {"replaying", "live"}
    /\ client' = [client EXCEPT ![c] = NoStream]
    /\ IF client[c].pc = "live" THEN Detach(c) ELSE UNCHANGED object
    /\ UNCHANGED <<up, alive, restarts, added, active, queue, worker, disk, log>>

----------------------------------------------------------------------------
(***************************************************************************)
(* The process dies; memory is unreachable from then on and is reset by    *)
(* the next start, which sweeps the orphans before it serves a request.    *)
(***************************************************************************)
Crash ==
    /\ up /\ restarts < MaxRestarts
    /\ up' = FALSE
    /\ UNCHANGED alive
    /\ restarts' = restarts + 1
    /\ client' = [c \in Clients |-> IF client[c].pc = "ended" THEN client[c]
                                    ELSE NoStream]
    /\ UNCHANGED <<memory, disk, log>>

\* Mutant: only running rows are swept.
RestartRunningOnly ==
    /\ ~up
    /\ up' = TRUE
    /\ alive' = TRUE
    /\ active' = [t \in Tasks |-> 0]
    /\ queue' = <<>>
    /\ worker' = Idle
    /\ job' = [t \in Tasks |-> IF job[t] = "running" THEN "failed" ELSE job[t]]
    /\ UNCHANGED <<restarts, added, object, rows, log, missed, faults, client>>

Restart ==
    /\ ~up
    /\ up' = TRUE
    /\ alive' = TRUE
    /\ active' = [t \in Tasks |-> 0]
    /\ queue' = <<>>
    /\ worker' = Idle
    /\ \E ok \in [1..1 -> BOOLEAN] :
         /\ Faults(ok)
         /\ job' = [t \in Tasks |-> IF ok[1] /\ job[t] \in Active
                                    THEN "failed" ELSE job[t]]
         /\ missed' = IF ok[1] THEN missed
                      ELSE missed \cup {t \in Tasks : job[t] \in Active}
    /\ UNCHANGED <<restarts, added, object, rows, log, client>>

----------------------------------------------------------------------------
Worker == WorkerGet \/ WorkerUpdate \/ WorkerCancelled \/ WorkerFail
            \/ WorkerFinish \/ WorkerDies

Stream(c) == StartReplay(c) \/ Replay(c) \/ EndReplay(c) \/ Follow(c)

Next ==
    \/ \E t \in Tasks : AddTask(t) \/ CancelTask(t)
    \/ Worker
    \/ \E c \in Clients : Stream(c) \/ Disconnect(c)
                            \/ \E t \in Tasks : OpenStream(c, t)
    \/ Crash
    \/ Restart

Spec == Init /\ [][Next]_vars

(***************************************************************************)
(* The loop keeps running: a worker that lives takes what is queued, every *)
(* generator it runs comes to an end (what that asks of a dub pipeline is  *)
(* the subject of DubJob), a connected client keeps reading, and a dead    *)
(* server is started again.  Nothing starts a dead worker again.           *)
(***************************************************************************)
Fairness ==
    /\ WF_vars(WorkerGet)
    /\ WF_vars(WorkerCancelled \/ WorkerFail \/ WorkerFinish)
    /\ \A c \in Clients : WF_vars(Stream(c))
    /\ WF_vars(Restart)

FairSpec == Spec /\ Fairness

----------------------------------------------------------------------------
(***************************************************************************)
(* What holds whatever the ids are.                                        *)
(***************************************************************************)

Increasing(s) == \A i, j \in 1..Len(s) : i < j => s[i] < s[j]

\* job_events keeps each job's events in publication order under strictly
\* ascending seq, trimming included: a cursor stays meaningful, and no seq is
\* given twice although the seq is computed from the rows left in the table.
StoreOrdered ==
    \A t \in Tasks :
      /\ Len(rows[t]) <= EventCap
      /\ \A i \in 1..Len(rows[t]) : rows[t][i].ev <= Len(log[t])
      /\ \A i, j \in 1..Len(rows[t]) : i < j =>
           /\ rows[t][i].seq < rows[t][j].seq
           /\ rows[t][i].ev < rows[t][j].ev

\* A response never repeats or reorders events, across the hand-over from the
\* persisted rows to the live queue.
StreamOrdered ==
    \A c \in Clients : client[c].pc # "idle" => Increasing(client[c].got)

Attached(c) ==
    /\ client[c].pc = "live"
    /\ c \in object[active[client[c].task]].listeners

InSeq(x, s) == \E i \in 1..Len(s) : s[i] = x

\* From the moment a response has its listener on the id's object it is sent
\* every event published under the id, the ones the disk refused included.
NothingMissedLive ==
    \A c \in Clients : up /\ Attached(c) =>
      \A n \in (client[c].attached + 1)..Len(log[client[c].task]) :
        InSeq(n, client[c].got \o client[c].inbox)

----------------------------------------------------------------------------
(***************************************************************************)
(* What holds when every add_task brings a fresh id.                       *)
(***************************************************************************)

\* A row that is not excused by a lost write shows the status of the object, and
\* one shown as pending or running belongs to a task that this process still has
\* to finish: no fake spinner after a crash.
RowAgrees(t) ==
    /\ active[t] # 0 => job[t] = object[active[t]].status
    /\ job[t] \in Active => active[t] # 0

Published(t, kind) == \E i \in 1..Len(log[t]) : log[t][i].kind = kind

\* A task announced as cancelled or failed is never done, nor the reverse.
VerdictAgrees(t) ==
    active[t] # 0 =>
      /\ Published(t, "cancelled") <=> object[active[t]].status = "cancelled"
      /\ Published(t, "failure") <=> object[active[t]].status = "failed"

\* The row, the object and the stream tell the same story of a task in every
\* state, across lost writes, late cancels and restarts.
OneStory ==
    up => \A t \in Tasks : VerdictAgrees(t) /\ (t \in missed \/ RowAgrees(t))

\* A response that listens to a finished object has EOF waiting: the status
\* check and add_listener leave no room for the end of the run in between.
EofReachesListeners ==
    \A c \in Clients :
      (up /\ Attached(c)
         /\ object[active[client[c].task]].status \in Terminal)
      => InSeq(EOF, client[c].inbox)

\* Every job that is shown as pending or running gets a final status, across
\* restarts too, unless the worker task itself dies: only then may a row
\* stand still.
JobsEnd == \A t \in Tasks : job[t] \in Active ~> job[t] \in Terminal \/ ~alive

\* No response hangs: each one ends or its client goes away, unless the
\* worker task dies.
StreamsEnd == \A c \in Clients : client[c].pc \in OpenPc
                                   ~> client[c].pc \notin OpenPc \/ ~alive

(***************************************************************************)
(* The promise of job_store: one life cycle per job, kept in its row.      *)
(***************************************************************************)
Lifecycle == INSTANCE JobLifecycle WITH
    state <- job,
    stream <- [t \in Tasks |-> [i \in 1..Len(log[t]) |-> log[t][i].kind]]

ImplementsLifecycle == Lifecycle!Spec
============================================================================
