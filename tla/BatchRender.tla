---------------------------- MODULE BatchRender ----------------------------
(***************************************************************************)
(* The batch render queue (backend/api/routers/batch.py, the               *)
(* /batch/render-batches half): a batch renders every source with every    *)
(* template; a source is dubbed once and then rendered for each template.  *)
(*                                                                         *)
(* Batches, items and templates live in dicts of the process and as rows   *)
(* of a database.  Every route first calls _load_render_state, which puts   *)
(* a NEW dict for every row in place of the one that is there -- also in    *)
(* place of the dicts the worker holds and goes on to write.  Most routes  *)
(* run in threads: between the SELECT that reads a row and the dict that   *)
(* is made from it anything may happen, and so may between the two halves  *)
(* of a deletion.  The model follows one row of a reload, one deletion and *)
(* one rerun at a time.  Writes to the database succeed.                   *)
(***************************************************************************)
EXTENDS Integers, Sequences, FiniteSetsExt

CONSTANTS
    Sources,     \* source indices of a batch
    Templates,   \* templates, named by numbers
    MaxBatches,  \* bound: batches created
    MaxReruns,   \* bound: reruns of an item
    MaxResets,   \* bound: resets of the GPU pool that meet the worker
    MaxRestarts, \* bound: restarts of the process
    Regimes,     \* what a behaviour is about: "busy", "faulty"
    Shapes       \* what a batch may ask for in a regime: up to which source,
                 \* up to which template (whose names are all the same to the code)

ASSUME BatchRenderAssumption ==
    /\ Sources \in SUBSET (Nat \ {0}) \ {{}} /\ Templates \in SUBSET (Nat \ {0}) \ {{}}
    /\ {MaxBatches, MaxReruns, MaxResets, MaxRestarts} \subseteq Nat
    /\ Regimes \subseteq {"busy", "faulty"}
    /\ Shapes \subseteq Regimes \X Sources \X Templates

\* Either requests arrive at any moment, or a batch may hold a source that is
\* refused and the process may be restarted, and requests arrive and end while
\* the worker rests.  A reset of the GPU pool may end the worker in both.
VARIABLES
    regime,     \* one of Regimes
    made,       \* batches created so far
    listed,     \* the batches in _render_batches
    stored,     \* the batches in batch_render_batches
    rows,       \* status of an item in batch_render_items
    dict,       \* its dict in _render_items; live: the worker holds this dict
    own,        \* status in the dict the worker holds
    queue,      \* _render_queue
    worker,     \* what _render_worker does
    read,       \* the row a reload has read and made no dict of yet
    deleting,   \* popped from the dicts, the rows not deleted yet
    rerun,      \* the item a rerun has found and not yet written
    crossed,    \* history: items a request read or reran while another one
                \* deleted or reran them
    counts      \* reruns, resets and restarts so far

items == <<listed, stored, rows, dict>>
calls == <<read, deleting, rerun, crossed>>
vars  == <<made, items, own, queue, worker, calls, counts>>

Batches == 1..MaxBatches
Items   == Batches \X Sources \X Templates
Final   == {"done", "failed"}
Status  == {"none", "queued", "running"} \cup Final

NoItem  == <<0, 0, 0>>
NoRow   == [of |-> NoItem, status |-> "none"]
None    == [batch |-> 0, items |-> {}]

Idle == [batch |-> 0, stage |-> "idle", left |-> {}, src |-> 0, todo |-> {}]

TypeOK ==
    /\ made \in 0..MaxBatches
    /\ listed \subseteq Batches /\ stored \subseteq Batches
    /\ rows \in [Items -> Status]
    /\ dict \in [Items -> [status : Status, live : BOOLEAN]]
    /\ own \in [Items -> Status]
    /\ queue \in Seq(1..made)
    /\ worker \in [batch : 1..made, stage : {"next", "dub", "item", "render", "dead"},
                   left : SUBSET Sources, src : Sources \cup {0},
                   todo : SUBSET Templates] \cup {Idle}
    /\ read \in [of : Items \cup (Batches \X {0} \X {0}), status : Status] \cup {NoRow}
    /\ deleting \in [batch : 0..made, items : SUBSET Items]
    /\ rerun \in Items \cup {NoItem} /\ crossed \subseteq Items
    /\ counts \in [reruns : 0..MaxReruns, resets : 0..MaxResets,
                   restarts : 0..MaxRestarts]

Absent == [status |-> "none", live |-> FALSE]

Init ==
    /\ regime \in Regimes
    /\ made = 0
    /\ listed = {} /\ stored = {}
    /\ rows = [i \in Items |-> "none"]
    /\ dict = [i \in Items |-> Absent]
    /\ own = [i \in Items |-> "none"]
    /\ queue = <<>> /\ worker = Idle
    /\ read = NoRow /\ deleting = None
    /\ rerun = NoItem /\ crossed = {}
    /\ counts = [reruns |-> 0, resets |-> 0, restarts |-> 0]

ItemsOf(b) == {i \in Items : i[1] = b}

\* A batch among the keys of rows.
BatchKey(b) == <<b, 0, 0>>

----------------------------------------------------------------------------
\* _set_render_batch_status: a batch that is listed is stored, again if it must,
\* under a status that follows from the dicts of its items and is only shown.
SetBatch(b) == stored' = IF b \in listed THEN stored \cup {b} ELSE stored

\* _set_render_item_state for the dicts the worker holds: the row is inserted
\* or replaced, _render_items only changes where it still has that dict.
Write(I, s) ==
    /\ own' = [i \in Items |-> IF i \in I THEN s ELSE own[i]]
    /\ dict' = [i \in Items |-> IF i \in I /\ dict[i].live
                                THEN [dict[i] EXCEPT !.status = s] ELSE dict[i]]
    /\ rows' = [i \in Items |-> IF i \in I THEN s ELSE rows[i]]
    /\ SetBatch(worker.batch) /\ UNCHANGED listed

\* _load_render_state within a coroutine: the worker, on the same loop, waits.
Loaded == [i \in Items |-> IF rows[i] = "none" THEN dict[i]
                           ELSE [status |-> rows[i], live |-> FALSE]]

----------------------------------------------------------------------------
(* The routes.  The coroutines among them run when the worker awaits.      *)

Open == regime = "busy" \/ worker = Idle
Awaits == /\ worker.stage \in {"idle", "dub", "render", "dead"}
          /\ rerun = NoItem

\* _load_render_state in a thread: a row is read, ...
Read(i) ==
    /\ Open /\ read = NoRow /\ rows[i] # "none"
    /\ read' = [of |-> i, status |-> rows[i]]
    /\ crossed' = IF i \in deleting.items \/ rerun = i THEN crossed \cup {i}
                  ELSE crossed
    /\ UNCHANGED <<made, items, own, queue, worker, deleting, rerun, counts>>

\* ... and its dict is made later, whatever became of the row.
Fill ==
    /\ read.of \in Items
    /\ dict' = [dict EXCEPT ![read.of] = [status |-> read.status, live |-> FALSE]]
    /\ read' = NoRow
    /\ UNCHANGED <<made, listed, stored, rows, own, queue, worker, deleting, rerun,
                   crossed, counts>>

ReadBatch(b) ==
    /\ Open /\ read = NoRow /\ b \in stored
    /\ read' = [of |-> BatchKey(b), status |-> "none"]
    /\ crossed' = IF deleting.batch = b THEN crossed \cup ItemsOf(b) ELSE crossed
    /\ UNCHANGED <<made, items, own, queue, worker, deleting, rerun, counts>>

FillBatch ==
    /\ read # NoRow /\ read.of \notin Items
    /\ listed' = listed \cup {read.of[1]}
    /\ read' = NoRow
    /\ UNCHANGED <<made, stored, rows, dict, own, queue, worker, deleting, rerun,
                   crossed, counts>>

\* The batch is stored first, then the items of one source after the other, one
\* for each template that is asked for; a source that is refused ends the request
\* and leaves what is there.
Create ==
    /\ Open /\ Awaits /\ made < MaxBatches
    /\ \E shape \in Shapes,
          bad \in IF regime = "faulty" THEN Sources \cup {0} ELSE {0} :
         LET b == made + 1
             I == {i \in ItemsOf(b) : /\ i[2] <= shape[2] /\ i[3] <= shape[3]
                                      /\ bad = 0 \/ i[2] < bad}
         IN
         /\ shape[1] = regime /\ bad <= shape[2]
         /\ made' = b
         /\ listed' = listed \cup stored \cup {b}
         /\ stored' = stored \cup {b}
         /\ rows' = [i \in Items |-> IF i \in I THEN "queued" ELSE rows[i]]
         /\ dict' = [i \in Items |-> IF i \in I THEN [status |-> "queued", live |-> FALSE]
                                     ELSE Loaded[i]]
         /\ queue' = IF bad = 0 THEN Append(queue, b) ELSE queue
    /\ crossed' = crossed \cup deleting.items
    /\ UNCHANGED <<own, worker, read, deleting, rerun, counts>>

\* The first half of a deletion pops the dicts; reloads and reruns that have
\* read what it deletes are noted.
Pop(b, I) ==
    /\ deleting = None
    /\ deleting' = [batch |-> b, items |-> I]
    /\ dict' = [i \in Items |-> IF i \in I THEN Absent ELSE dict[i]]
    /\ crossed' = crossed \cup IF b # 0 /\ read.of = BatchKey(b) THEN I
                               ELSE {i \in I : i = read.of \/ i = rerun}
    /\ UNCHANGED <<made, stored, rows, own, queue, worker, read, rerun,
                   counts>>

DeleteBatch(b) ==
    /\ Open /\ b \in listed
    /\ listed' = listed \ {b}
    /\ Pop(b, ItemsOf(b))

DeleteItem(i) ==
    /\ Open /\ dict[i].status # "none"
    /\ UNCHANGED listed
    /\ Pop(0, {i})

\* The second half deletes the rows.
DeleteRows ==
    /\ deleting # None
    /\ rows' = [i \in Items |-> IF i \in deleting.items THEN "none" ELSE rows[i]]
    /\ stored' = stored \ {deleting.batch}
    /\ deleting' = None
    /\ UNCHANGED <<made, listed, dict, own, queue, worker, read, rerun,
                   crossed, counts>>

\* Mutant: an item that is not found is taken for one that has ended.
RerunFindsAny(i) ==
    /\ Open /\ Awaits /\ counts.reruns < MaxReruns
    /\ i[1] <= made /\ Loaded[i].status \notin {"queued", "running"}
    /\ dict' = Loaded /\ listed' = listed \cup stored
    /\ rerun' = i
    /\ crossed' = crossed \cup deleting.items \cup {k \in {read.of} : k = i}
    /\ counts' = [counts EXCEPT !.reruns = @ + 1]
    /\ UNCHANGED <<made, stored, rows, own, queue, worker, read, deleting>>

\* A rerun reloads and looks the item up; one that has not ended is left alone.
RerunFinds(i) ==
    /\ Open /\ Awaits /\ counts.reruns < MaxReruns
    /\ Loaded[i].status \in Final
    /\ dict' = Loaded /\ listed' = listed \cup stored
    /\ rerun' = i
    /\ crossed' = crossed \cup deleting.items \cup {k \in {read.of} : k = i}
    /\ counts' = [counts EXCEPT !.reruns = @ + 1]
    /\ UNCHANGED <<made, stored, rows, own, queue, worker, read, deleting>>

\* Mutant: the item is marked, the batch is not put in the queue.
RerunWritesUnqueued ==
    /\ rerun # NoItem
    /\ dict' = [dict EXCEPT ![rerun] = [status |-> "queued", live |-> FALSE]]
    /\ rows' = [rows EXCEPT ![rerun] = "queued"]
    /\ SetBatch(rerun[1]) \/ UNCHANGED stored
    /\ rerun' = NoItem
    /\ UNCHANGED <<made, listed, own, queue, worker, read, deleting, crossed, counts>>

\* It is stored as queued again, in dict and row, and so is its batch if it is
\* shown as ended.
RerunWrites ==
    /\ rerun # NoItem
    /\ dict' = [dict EXCEPT ![rerun] = [status |-> "queued", live |-> FALSE]]
    /\ rows' = [rows EXCEPT ![rerun] = "queued"]
    /\ SetBatch(rerun[1]) \/ UNCHANGED stored
    /\ queue' = Append(queue, rerun[1])
    /\ rerun' = NoItem
    /\ UNCHANGED <<made, listed, own, worker, read, deleting, crossed, counts>>

\* The dicts, the queue and the worker are gone; the rows are read again by
\* the next request.
Restart ==
    /\ regime = "faulty" /\ counts.restarts < MaxRestarts
    /\ counts' = [counts EXCEPT !.restarts = @ + 1]
    /\ dict' = [i \in Items |-> Absent] /\ listed' = {}
    /\ own' = [i \in Items |-> "none"]
    /\ queue' = <<>> /\ worker' = Idle
    /\ read' = NoRow /\ deleting' = None /\ rerun' = NoItem
    /\ UNCHANGED <<made, stored, rows, crossed>>

----------------------------------------------------------------------------
(* The worker.                                                             *)

\* What a behaviour in which requests end before the worker starts waits for.
Quiet == regime = "busy" \/ (read = NoRow /\ deleting = None)

\* Mutant: items that have ended are taken as well.
WorkerGetAll ==
    /\ worker = Idle /\ queue # <<>> /\ Quiet
    /\ queue' = Tail(queue)
    /\ LET b == Head(queue)
           I == {i \in ItemsOf(b) : dict[i].status \in Final \cup {"queued"}}
       IN IF b \in listed /\ I # {}
          THEN /\ SetBatch(b)
               /\ worker' = [Idle EXCEPT !.batch = b, !.stage = "next",
                                         !.left = {i[2] : i \in I}]
               /\ own' = [i \in Items |-> IF i \in I THEN "queued" ELSE "none"]
               /\ dict' = [i \in Items |-> [dict[i] EXCEPT !.live = i \in I]]
          ELSE UNCHANGED <<stored, dict, own, worker>>
    /\ UNCHANGED <<made, listed, rows, calls, counts>>

\* The worker takes a batch that is still there and its queued items.
WorkerGet ==
    /\ worker = Idle /\ queue # <<>> /\ Quiet
    /\ queue' = Tail(queue)
    /\ LET b == Head(queue)
           I == {i \in ItemsOf(b) : dict[i].status = "queued"}
       IN \/ /\ b \notin listed
             /\ UNCHANGED <<stored, dict, own, worker>>
          \/ /\ b \in listed /\ I = {}
             /\ SetBatch(b)
             /\ UNCHANGED <<dict, own, worker>>
          \/ /\ b \in listed /\ I # {}
             /\ SetBatch(b)
             /\ worker' = [Idle EXCEPT !.batch = b, !.stage = "next",
                                       !.left = {i[2] : i \in I}]
             /\ own' = [i \in Items |-> IF i \in I THEN "queued" ELSE "none"]
             /\ dict' = [i \in Items |-> [dict[i] EXCEPT !.live = i \in I]]
    /\ UNCHANGED <<made, listed, rows, calls, counts>>

\* The items of the source at hand.
Group == {i \in ItemsOf(worker.batch) : own[i] # "none" /\ i[2] = worker.src}

StartSource ==
    /\ worker.stage = "next" /\ worker.left # {}
    /\ LET s == Min(worker.left) IN
       /\ worker' = [worker EXCEPT !.stage = "dub", !.src = s, !.left = @ \ {s}]
       /\ Write({i \in ItemsOf(worker.batch) : own[i] # "none" /\ i[2] = s},
                "running")
    /\ UNCHANGED <<made, queue, calls, counts>>

EndBatch ==
    /\ worker.stage = "next" /\ worker.left = {}
    /\ SetBatch(worker.batch)
    /\ worker' = Idle
    /\ own' = [i \in Items |-> "none"]
    /\ dict' = [i \in Items |-> [dict[i] EXCEPT !.live = FALSE]]
    /\ UNCHANGED <<made, listed, rows, queue, calls, counts>>

\* The source is there and its dub has an output.
Dubbed ==
    /\ worker.stage = "dub"
    /\ Write(Group, "running")
    /\ worker' = [worker EXCEPT !.stage = "item", !.todo = {i[3] : i \in Group}]
    /\ UNCHANGED <<made, queue, calls, counts>>

Current == <<worker.batch, worker.src, Min(worker.todo)>>

\* Mutant: only the item at hand is marked failed.
FailGroupFirst ==
    /\ Write({CHOOSE i \in Group : own[i] # "done"}, "failed")
    /\ worker' = [worker EXCEPT !.stage = "next", !.todo = {}]

\* What the source's try block raises fails its items that are not done.
FailGroup ==
    /\ Write({i \in Group : own[i] # "done"}, "failed")
    /\ worker' = [worker EXCEPT !.stage = "next", !.todo = {}]

\* Templates are created and deleted at any time, and reloads put them back: the
\* look-up may find the template or not.
StartItem ==
    /\ worker.stage = "item"
    /\ \/ /\ worker.todo = {}
          /\ worker' = [worker EXCEPT !.stage = "next"]
          /\ UNCHANGED <<items, own>>
       \/ /\ worker.todo # {}
          /\ Write({Current}, "running")
          /\ worker' = [worker EXCEPT !.stage = "render"]
       \/ /\ worker.todo # {}
          /\ FailGroup
    /\ UNCHANGED <<made, queue, calls, counts>>

Rendered ==
    /\ worker.stage = "render"
    /\ Write({Current}, "done")
    /\ worker' = [worker EXCEPT !.stage = "item", !.todo = @ \ {Current[3]}]
    /\ UNCHANGED <<made, queue, calls, counts>>

\* No source video, no output of the dub, ffmpeg fails, ...
Raises ==
    /\ worker.stage \in {"dub", "render"}
    /\ FailGroup
    /\ UNCHANGED <<made, queue, calls, counts>>

\* A future of the dub that the GPU pool cancels is no Exception: it passes
\* both handlers and ends the worker task, which nobody starts again.
PoolReset ==
    /\ worker.stage = "dub" /\ counts.resets < MaxResets
    /\ counts' = [counts EXCEPT !.resets = @ + 1]
    /\ worker' = [worker EXCEPT !.stage = "dead"]
    /\ UNCHANGED <<made, items, own, queue, calls>>

----------------------------------------------------------------------------
\* The loop is the worker's while no rerun holds it.
Worker == /\ rerun = NoItem
          /\ \/ WorkerGet \/ StartSource \/ EndBatch \/ Dubbed \/ StartItem
             \/ Rendered \/ Raises

\* What a request that has begun goes on to do.
Request == Fill \/ FillBatch \/ DeleteRows \/ RerunWrites

Next ==
    \/ Create \/ Restart \/ Request
    \/ \E b \in 1..made : ReadBatch(b) \/ DeleteBatch(b)
    \/ \E i \in Items : Read(i) \/ DeleteItem(i) \/ RerunFinds(i)
    \/ Worker
    \/ PoolReset

Spec == Init /\ [][Next /\ UNCHANGED regime]_<<vars, regime>>

\* Deletions and reruns go on once they have begun.  The download, the stages of
\* the dub and ffmpeg are assumed to end: of what the worker awaits only ffmpeg
\* and the guarded work on the GPU have a deadline, a download or a translation
\* that hangs holds it for ever.
FairSpec ==
    /\ Spec
    /\ WF_vars(Worker) /\ WF_vars(DeleteRows) /\ WF_vars(RerunWrites)

----------------------------------------------------------------------------
\* A row that says running is one the worker is at, or was at when a reset of
\* the GPU pool ended it: whatever fails, is deleted or reloaded, no item is
\* left spinning behind a worker that goes on.  Fails when the process dies.
NoSpinner ==
    regime = "busy" =>
      \A i \in Items : rows[i] = "running" => own[i] = "running"

\* An item that has ended is only taken up again through a rerun.  Fails when
\* an item is rerun while its batch is being worked on.
EndedStays ==
    [][\A i \in Items : regime = "faulty" /\ rows[i] \in Final =>
         rows'[i] \in {rows[i], "none", "queued"}]_vars

\* A deleted item does not come back, unless the worker held it, or a reload or
\* a rerun that had read it was under way when it was deleted.
DeletedStays ==
    [][\A i \in Items :
         i[1] <= made /\ rows[i] = "none" /\ own[i] = "none" /\ i \notin crossed =>
           rows'[i] = "none"]_vars

\* Every item of a batch that is there is done, failed or deleted in the end,
\* unless a reload crossed its rerun, or the worker died.  (Creations and
\* reruns are bounded, so there is a last one.)
ItemsEnd ==
    regime = "busy" ~>
      \/ worker.stage = "dead"
      \/ \A i \in Items : rows[i] \in {"queued", "running"} =>
           i[1] \notin listed \/ i \in crossed
============================================================================
