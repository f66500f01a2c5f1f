------------------------- MODULE TaskManagerProofs -------------------------
(***************************************************************************)
(* Theorems of TaskManager, for every set of tasks and clients and every   *)
(* value of the bounds: types (TypeCorrect), the order of events in        *)
(* job_events and at the clients (StoreInOrder, StreamInOrder), what a     *)
(* listening response is owed (NothingMissed, EofReaches), and what the    *)
(* row, the object and the events tell of a task (StoryIsOne,              *)
(* LifecycleKept).                                                         *)
(***************************************************************************)
EXTENDS TaskManager, FiniteSetTheorems, SequenceTheorems, TLAPS

\* Every queued id, and the id the worker runs, denotes an object: ids are
\* never removed from active_tasks while the process lives.
QueueOK ==
    /\ \A i \in 1..Len(queue) : active[queue[i]] # 0
    /\ worker # Idle => active[worker.task] # 0

\* Two ids never share an object, and numbers above added are unused.
ActiveOK ==
    /\ \A t \in Tasks : active[t] <= added
    /\ \A t, u \in Tasks : active[t] = active[u] /\ active[t] # 0 => t = u

\* A listener of the object an id denotes is a response on that id that waits
\* for live events.
ListenersOK ==
    up => \A t \in Tasks, c \in Clients :
            active[t] # 0 /\ c \in object[active[t]].listeners
              => client[c].pc = "live" /\ client[c].task = t

CapOK == \A t \in Tasks : Len(rows[t]) <= EventCap

TypeInv == TypeOK /\ QueueOK /\ ActiveOK /\ ListenersOK /\ CapOK

----------------------------------------------------------------------------
(***************************************************************************)
(* Lemmas about the operators of the model.                                *)
(***************************************************************************)

\* A step that may lose one or two writes keeps the count within its bound.
LEMMA FaultsType ==
    ASSUME NEW ok, ok \in [1..1 -> BOOLEAN] \/ ok \in [1..2 -> BOOLEAN],
           TypeOK, Faults(ok)
    PROVE  faults' \in 0..MaxFaults
<1> DEFINE lost == {i \in DOMAIN ok : ~ok[i]}
<1>1. DOMAIN ok \in {1..1, 1..2}
  OBVIOUS
<1>2. IsFiniteSet(lost)
  <2>1. IsFiniteSet(DOMAIN ok)
    <3>1. \A n \in Nat : IsFiniteSet(1..n)
      BY FS_Interval
    <3>2. PICK n \in Nat : DOMAIN ok = 1..n
      BY <1>1
    <3>3. QED BY <3>1, <3>2
  <2>2. QED BY <2>1, FS_Subset
<1>3. Cardinality(lost) \in Nat
  BY <1>2, FS_CardinalityType
<1>4. QED
  BY <1>3, TaskManagerAssumption DEF Faults, TypeOK

\* The fields of a stored row are numbers.
LEMMA RowFields ==
    ASSUME NEW rs \in Seq(Row), NEW i \in 1..Len(rs)
    PROVE  rs[i].seq \in Nat /\ rs[i].ev \in Nat
<1>1. rs[i] \in Row
  OBVIOUS
<1>2. QED BY <1>1 DEF Row

\* Trimming a table that has grown by one row.
LEMMA TrimValue ==
    ASSUME NEW s \in Seq(Row), s # <<>>, Len(s) <= EventCap + 1
    PROVE  /\ Len(s) # EventCap + 1 => Trim(s) = s
           /\ Len(s) = EventCap + 1 =>
                /\ Trim(s) \in Seq(Row)
                /\ Len(Trim(s)) = EventCap
                /\ \A i \in 1..EventCap : Trim(s)[i] = s[i + 1]
<1>1. EventCap \in Nat /\ EventCap >= 1 /\ Len(s) \in Nat /\ Len(s) >= 1
  BY TaskManagerAssumption
<1>2. CASE Len(s) = EventCap + 1
  <2>1. Len(s) - EventCap + 1 = 2 /\ Len(s) > EventCap
    BY <1>1, <1>2
  <2>2. Trim(s) = SubSeq(s, 2, Len(s))
    BY <2>1 DEF Trim
  <2>3. /\ SubSeq(s, 2, Len(s)) \in Seq(Row)
        /\ Len(SubSeq(s, 2, Len(s))) = Len(s) - 1
        /\ \A i \in 1..(Len(s) - 1) : SubSeq(s, 2, Len(s))[i] = s[i + 1]
    BY <1>1, <1>2, SubSeqProperties
  <2>4. QED
    BY <1>1, <1>2, <2>2, <2>3
<1>3. CASE Len(s) # EventCap + 1
  <2>1. ~(Len(s) > EventCap)
    BY <1>1, <1>3
  <2>2. QED
    BY <1>3, <2>1 DEF Trim
<1>4. QED
  BY <1>2, <1>3

\* What append_event leaves in the table: the newest rows, shifted by the one
\* that was trimmed, and the new row last.
LEMMA AppendRowValue ==
    ASSUME NEW rs \in Seq(Row), NEW n \in Nat, Len(rs) <= EventCap
    PROVE  /\ AppendRow(rs, n) \in Seq(Row)
           /\ Len(AppendRow(rs, n)) \in 1..EventCap
           /\ AppendRow(rs, n)[Len(AppendRow(rs, n))]
                = [seq |-> MaxSeq(rs) + 1, ev |-> n]
           /\ \E d \in {0, 1} :
                /\ Len(AppendRow(rs, n)) = Len(rs) + 1 - d
                /\ \A i \in 1..(Len(rs) - d) : AppendRow(rs, n)[i] = rs[i + d]
<1> DEFINE row == [seq |-> MaxSeq(rs) + 1, ev |-> n]
           as  == Append(rs, row)
<1>1. MaxSeq(rs) \in Nat
  <2>1. CASE rs = <<>>
    BY <2>1 DEF MaxSeq
  <2>2. CASE rs # <<>>
    <3>1. Len(rs) \in 1..Len(rs)
      BY <2>2
    <3>2. rs[Len(rs)] \in Row
      BY <3>1
    <3>3. QED BY <2>2, <3>2 DEF MaxSeq, Row
  <2>3. QED BY <2>1, <2>2
<1>2. row \in Row
  BY <1>1 DEF Row
<1>3. /\ as \in Seq(Row) /\ Len(as) = Len(rs) + 1 /\ as[Len(rs) + 1] = row
      /\ \A i \in 1..Len(rs) : as[i] = rs[i]
  BY <1>2
<1>4. AppendRow(rs, n) = Trim(as)
  BY DEF AppendRow
<1>5. as # <<>> /\ Len(as) <= EventCap + 1
  BY <1>3, TaskManagerAssumption
<1>6. CASE Len(rs) = EventCap
  <2>0. Len(as) = EventCap + 1
    BY <1>3, <1>6
  <2>1. /\ Trim(as) \in Seq(Row) /\ Len(Trim(as)) = EventCap
        /\ \A i \in 1..EventCap : Trim(as)[i] = as[i + 1]
    BY <1>3, <1>5, <2>0, TrimValue, ZenonT(20)
  <2>2. \A i \in 1..(Len(rs) - 1) : Trim(as)[i] = rs[i + 1]
    BY <1>3, <1>6, <2>1
  <2>3. Trim(as)[EventCap] = row
    BY <1>3, <1>6, <2>1, TaskManagerAssumption
  <2>4. QED
    BY <1>4, <1>6, <2>1, <2>2, <2>3, TaskManagerAssumption
<1>7. CASE Len(rs) # EventCap
  <2>0. Len(as) # EventCap + 1
    BY <1>3, <1>7, TaskManagerAssumption
  <2>1. Trim(as) = as
    BY <1>3, <1>5, <2>0, TrimValue, ZenonT(20)
  <2>2. AppendRow(rs, n) = as
    BY <1>4, <2>1
  <2>3. Len(as) = Len(rs) + 1 - 0
    BY <1>3
  <2>4. \A i \in 1..(Len(rs) - 0) : as[i] = rs[i + 0]
    BY <1>3
  <2>5. Len(as) \in 1..EventCap /\ as[Len(as)] = row
    BY <1>3, <1>7, TaskManagerAssumption
  <2> HIDE DEF as
  <2>6. QED
    BY <1>3, <2>2, <2>3, <2>4, <2>5
<1>8. QED
  BY <1>6, <1>7

\* The record of a response that is not idle.
LEMMA ClientFields ==
    ASSUME TypeOK, NEW c \in Clients, client[c].pc # "idle"
    PROVE  /\ client[c] \in Client \ {NoStream}
           /\ client[c].pc \in OpenPc \cup {"ended"}
           /\ client[c].task \in Tasks /\ client[c].live \in Nat
           /\ client[c].after \in Nat /\ client[c].attached \in Nat
           /\ client[c].replay \in Seq(Nat) /\ client[c].inbox \in Seq(Nat)
           /\ client[c].got \in Seq(Nat)
<1>1. client[c] \in Client
  BY DEF TypeOK
<1>2. client[c] # NoStream
  BY DEF NoStream
<1>3. QED
  BY <1>1, <1>2 DEF Client

\* Delivering keeps every response well typed.
LEMMA DeliverType ==
    ASSUME TypeInv, up, NEW t \in Tasks, active[t] # 0,
           NEW evs \in Seq(Nat), Deliver(t, evs)
    PROVE  /\ client' \in [Clients -> Client]
           /\ \A c \in Clients : /\ client'[c].pc = client[c].pc
                                 /\ client[c].pc # "idle"
                                      => client'[c].task = client[c].task
<1> SUFFICES ASSUME NEW c \in Clients
             PROVE  /\ client'[c] \in Client
                    /\ client'[c].pc = client[c].pc
                    /\ client[c].pc # "idle" => client'[c].task = client[c].task
  BY DEF Deliver
<1>1. CASE c \in object[active[t]].listeners
  <2>1. client[c].pc # "idle"
    BY <1>1 DEF TypeInv, ListenersOK
  <2>2. client'[c] = [client[c] EXCEPT !.inbox = client[c].inbox \o evs]
    BY <1>1 DEF Deliver
  <2>3. client[c].inbox \o evs \in Seq(Nat)
    BY <2>1, ClientFields DEF TypeInv
  <2>4. QED
    BY <2>1, <2>2, <2>3, ClientFields DEF TypeInv, Client, NoStream
<1>2. CASE c \notin object[active[t]].listeners
  <2>1. client'[c] = client[c]
    BY <1>2 DEF Deliver
  <2>2. QED
    BY <2>1 DEF TypeInv, TypeOK
<1>3. QED
  BY <1>1, <1>2

\* So do the writes of a step.
LEMMA RecordType ==
    ASSUME TypeInv, NEW t \in Tasks, NEW kind \in Kinds, NEW ok \in BOOLEAN,
           Record(t, kind, ok)
    PROVE  /\ rows' \in [Tasks -> Seq(Row)] /\ CapOK'
           /\ log' \in [Tasks -> Seq(Event)]
<1>1. [kind |-> kind, obj |-> active[t]] \in Event
  BY DEF TypeInv, TypeOK, Event
<1>2. log' \in [Tasks -> Seq(Event)]
  BY <1>1 DEF TypeInv, TypeOK, Record
<1>3. Len(log[t]) + 1 \in Nat
  BY DEF TypeInv, TypeOK
<1>4. /\ AppendRow(rows[t], Len(log[t]) + 1) \in Seq(Row)
      /\ Len(AppendRow(rows[t], Len(log[t]) + 1)) <= EventCap
  <2>1. rows[t] \in Seq(Row) /\ Len(rows[t]) <= EventCap
    BY DEF TypeInv, TypeOK, CapOK
  <2>2. /\ AppendRow(rows[t], Len(log[t]) + 1) \in Seq(Row)
        /\ Len(AppendRow(rows[t], Len(log[t]) + 1)) \in 1..EventCap
    BY <1>3, <2>1, AppendRowValue, ZenonT(20)
  <2>3. QED BY <2>2, TaskManagerAssumption
<1>5. QED
  BY <1>2, <1>4 DEF TypeInv, TypeOK, CapOK, Record

\* mark_running and its siblings only ever store a known status.
LEMMA SetStatusType ==
    ASSUME TypeInv, NEW t \in Tasks, NEW s \in Status, NEW ok \in BOOLEAN,
           SetStatus(t, s, ok)
    PROVE  job' \in [Tasks -> Status \cup {"absent"}] /\ missed' \subseteq Tasks
BY DEF TypeInv, TypeOK, SetStatus

----------------------------------------------------------------------------
(***************************************************************************)
(* Every action keeps TypeInv.                                             *)
(***************************************************************************)

\* add_task makes an object no id denotes yet and queues its id.
LEMMA AddTaskType == ASSUME TypeInv, NEW t \in Tasks, AddTask(t) PROVE TypeInv'
<1>1. added + 1 \in Objects /\ added + 1 \in 1..MaxAdds /\ added \in Nat
  BY TaskManagerAssumption DEF AddTask, TypeInv, TypeOK, Objects
<1>2. NewObject \in Object
  BY DEF NewObject, Object, Status, Active
<1>3. TypeOK'
  <2>1. PICK ok \in [1..1 -> BOOLEAN] :
          /\ Faults(ok)
          /\ job' = IF ok[1] THEN [job EXCEPT ![t] = "pending"] ELSE job
          /\ missed' = IF ok[1] THEN missed ELSE missed \cup {t}
    BY DEF AddTask
  <2>2. faults' \in 0..MaxFaults
    BY <2>1, FaultsType DEF TypeInv
  <2>3. job' \in [Tasks -> Status \cup {"absent"}] /\ missed' \subseteq Tasks
    BY <2>1 DEF TypeInv, TypeOK, Status, Active
  <2>4. queue' \in Seq(Tasks)
    BY DEF AddTask, TypeInv, TypeOK
  <2>5. object' \in [Objects -> Object]
    BY <1>1, <1>2 DEF AddTask, TypeInv, TypeOK
  <2>6. added' \in 0..MaxAdds /\ active' \in [Tasks -> 0..MaxAdds]
    BY <1>1 DEF AddTask, TypeInv, TypeOK
  <2>7. QED
    BY <2>2, <2>3, <2>4, <2>5, <2>6 DEF AddTask, TypeInv, TypeOK
<1>4. active' = [active EXCEPT ![t] = added + 1] /\ added' = added + 1
  BY DEF AddTask
<1>a. /\ active'[t] = added + 1
      /\ \A u \in Tasks : u # t => active'[u] = active[u]
      /\ \A u \in Tasks : active[u] \in Nat /\ active[u] <= added
  BY <1>1, <1>4 DEF TypeInv, TypeOK, ActiveOK
<1>5. ActiveOK'
  <2>1. \A u \in Tasks : active'[u] <= added'
    BY <1>1, <1>4, <1>a
  <2>2. ASSUME NEW u \in Tasks, NEW v \in Tasks, active'[u] = active'[v],
               active'[u] # 0
        PROVE  u = v
    BY <1>1, <1>a, <2>2 DEF TypeInv, ActiveOK
  <2>3. QED BY <2>1, <2>2 DEF ActiveOK
<1>6. QueueOK'
  <2>1. \A i \in 1..Len(queue') : queue'[i] = t \/ (i \in 1..Len(queue) /\ queue'[i] = queue[i])
    BY DEF AddTask, TypeInv, TypeOK
  <2>2. \A i \in 1..Len(queue') : active'[queue'[i]] # 0
    <3>1. \A i \in 1..Len(queue) : queue[i] \in Tasks /\ active[queue[i]] # 0
      BY DEF TypeInv, TypeOK, QueueOK
    <3>2. QED BY <1>1, <1>a, <2>1, <3>1
  <2>3. worker' # Idle => active'[worker'.task] # 0
    BY <1>1, <1>4 DEF AddTask, TypeInv, TypeOK, QueueOK, Idle
  <2>4. QED
    BY <2>2, <2>3 DEF QueueOK
<1>7. ListenersOK'
  <2> SUFFICES ASSUME NEW u \in Tasks, NEW c \in Clients, active'[u] # 0,
                      c \in object'[active'[u]].listeners
               PROVE  client'[c].pc = "live" /\ client'[c].task = u
    BY DEF ListenersOK
  <2>1. u # t
    BY <1>1, <1>4 DEF AddTask, TypeInv, TypeOK, NewObject
  <2>2. active'[u] = active[u] /\ active[u] # added + 1
    BY <1>1, <1>4, <2>1 DEF TypeInv, TypeOK, ActiveOK
  <2>3. c \in object[active[u]].listeners
    BY <1>1, <2>2 DEF AddTask, TypeInv, TypeOK, Objects
  <2>4. QED
    BY <2>2, <2>3 DEF AddTask, TypeInv, ListenersOK
<1>8. CapOK'
  BY DEF AddTask, TypeInv, CapOK
<1>9. QED
  BY <1>3, <1>5, <1>6, <1>7, <1>8 DEF TypeInv

\* cancel_task only sets a flag.
LEMMA CancelTaskType == ASSUME TypeInv, NEW t \in Tasks, CancelTask(t) PROVE TypeInv'
<1>1. active[t] \in Objects
  BY DEF CancelTask, TypeInv, TypeOK, Objects
<1>2. object' \in [Objects -> Object]
  BY <1>1 DEF CancelTask, TypeInv, TypeOK, Object
<1>3. \A o \in Objects : object'[o].listeners = object[o].listeners
  BY <1>1 DEF CancelTask, TypeInv, TypeOK, Object
<1>4. TypeOK'
  BY <1>2 DEF CancelTask, TypeInv, TypeOK, disk
<1>5. ListenersOK'
  BY <1>3 DEF CancelTask, TypeInv, TypeOK, ListenersOK, Objects
<1>6. QED
  BY <1>4, <1>5 DEF CancelTask, TypeInv, QueueOK, ActiveOK, CapOK, disk

\* The worker takes an id that denotes an object.
LEMMA WorkerGetType == ASSUME TypeInv, WorkerGet PROVE TypeInv'
<1> DEFINE t == Head(queue)
<1>1. /\ t \in Tasks /\ active[t] \in Objects /\ queue' = Tail(queue)
      /\ queue' \in Seq(Tasks) /\ Len(queue') = Len(queue) - 1
      /\ \A i \in 1..Len(queue') : queue'[i] = queue[i + 1]
  <2>1. queue \in Seq(Tasks) /\ queue # <<>> /\ queue' = Tail(queue)
    BY DEF WorkerGet, TypeInv, TypeOK
  <2>2. t \in Tasks /\ t = queue[1] /\ 1 \in 1..Len(queue)
    BY <2>1
  <2>3. active[t] \in Objects
    BY <2>2 DEF TypeInv, TypeOK, QueueOK, Objects
  <2>4. QED
    BY <2>1, <2>2, <2>3, HeadTailProperties
<1>2. /\ worker' = [task |-> t, obj |-> active[t]]
      /\ object' = [object EXCEPT ![active[t]].status = "running"]
      /\ UNCHANGED <<up, alive, restarts, added, active, rows, log, client>>
  BY DEF WorkerGet
<1>3. object' \in [Objects -> Object]
  BY <1>1, <1>2 DEF TypeInv, TypeOK, Object, Status, Active
<1>4. \A o \in Objects : object'[o].listeners = object[o].listeners
  BY <1>1, <1>2 DEF TypeInv, TypeOK, Object
<1>5. PICK ok \in [1..1 -> BOOLEAN] : Faults(ok) /\ SetStatus(t, "running", ok[1])
  BY DEF WorkerGet
<1>6. /\ faults' \in 0..MaxFaults /\ missed' \subseteq Tasks
      /\ job' \in [Tasks -> Status \cup {"absent"}]
  <2>1. faults' \in 0..MaxFaults
    BY <1>5, FaultsType DEF TypeInv
  <2>2. ok[1] \in BOOLEAN /\ "running" \in Status
    BY DEF Status, Active
  <2>3. QED
    BY <1>1, <1>5, <2>1, <2>2, SetStatusType
<1>7. TypeOK'
  BY <1>1, <1>2, <1>3, <1>6 DEF TypeInv, TypeOK
<1>8. QueueOK'
  <2>1. \A i \in 1..Len(queue') : i + 1 \in 1..Len(queue)
    BY <1>1 DEF TypeInv, TypeOK
  <2>2. QED
    BY <1>1, <1>2, <2>1 DEF TypeInv, TypeOK, QueueOK, Objects
<1>9. ListenersOK'
  BY <1>1, <1>2, <1>4 DEF TypeInv, TypeOK, ListenersOK, Objects
<1>10. QED
  BY <1>2, <1>7, <1>8, <1>9 DEF TypeInv, ActiveOK, CapOK

\* The worker's task and object, when it runs one.
LEMMA WorkerFields ==
    ASSUME TypeInv, worker # Idle
    PROVE  /\ worker.task \in Tasks /\ worker.obj \in Objects
           /\ active[worker.task] \in Objects
BY DEF TypeInv, TypeOK, QueueOK, Objects

\* A change of the object's status alone keeps the listeners.
LEMMA StatusChange ==
    ASSUME TypeInv, NEW o \in Objects, NEW s \in Status,
           object' = [object EXCEPT ![o].status = s]
    PROVE  /\ object' \in [Objects -> Object]
           /\ \A p \in Objects : object'[p].listeners = object[p].listeners
BY DEF TypeInv, TypeOK, Object

\* What is left to check of a step of the worker that delivers events.
LEMMA WorkerStepType ==
    ASSUME TypeInv, up, worker # Idle, NEW evs \in Seq(Nat),
           Deliver(worker.task, evs),
           worker' \in {worker, Idle}, alive' \in BOOLEAN,
           UNCHANGED <<up, restarts, added, active, queue>>,
           object' \in [Objects -> Object],
           \A p \in Objects : object'[p].listeners = object[p].listeners,
           job' \in [Tasks -> Status \cup {"absent"}],
           rows' \in [Tasks -> Seq(Row)], CapOK', log' \in [Tasks -> Seq(Event)],
           missed' \subseteq Tasks, faults' \in 0..MaxFaults
    PROVE  TypeInv'
<1>1. /\ client' \in [Clients -> Client]
      /\ \A c \in Clients : /\ client'[c].pc = client[c].pc
                            /\ client[c].pc # "idle"
                                 => client'[c].task = client[c].task
  <2>1. worker.task \in Tasks /\ active[worker.task] # 0
    BY WorkerFields DEF Objects
  <2>2. QED BY <2>1, DeliverType
<1>2. TypeOK'
  BY <1>1 DEF TypeInv, TypeOK
<1>3. ActiveOK'
  BY DEF TypeInv, ActiveOK
<1>a. QueueOK'
  <2>1. worker' # Idle => worker' = worker
    OBVIOUS
  <2>2. QED BY <2>1 DEF TypeInv, QueueOK
<1>4. ListenersOK'
  <2> SUFFICES ASSUME NEW t \in Tasks, NEW c \in Clients, active[t] # 0,
                      c \in object'[active[t]].listeners
               PROVE  client'[c].pc = "live" /\ client'[c].task = t
    BY DEF ListenersOK
  <2>1. active[t] \in Objects
    BY DEF TypeInv, TypeOK, Objects
  <2>2. client[c].pc = "live" /\ client[c].task = t
    BY <2>1 DEF TypeInv, ListenersOK
  <2>3. QED BY <1>1, <2>2
<1>5. QED
  BY <1>2, <1>3, <1>a, <1>4 DEF TypeInv

\* Publishing an update keeps the dispatcher well formed.
LEMMA WorkerUpdateType == ASSUME TypeInv, WorkerUpdate PROVE TypeInv'
<1>1. worker.task \in Tasks /\ up /\ worker # Idle
  BY WorkerFields DEF WorkerUpdate
<1>2. PICK ok \in [1..1 -> BOOLEAN] :
        Faults(ok) /\ Record(worker.task, "update", ok[1])
  BY DEF WorkerUpdate
<1>3. /\ rows' \in [Tasks -> Seq(Row)] /\ CapOK'
      /\ log' \in [Tasks -> Seq(Event)] /\ faults' \in 0..MaxFaults
  <2>1. faults' \in 0..MaxFaults
    BY <1>2, FaultsType DEF TypeInv
  <2>2. ok[1] \in BOOLEAN /\ "update" \in Kinds
    BY DEF Kinds
  <2>3. QED
    BY <1>1, <1>2, <2>1, <2>2, RecordType
<1>4. <<Len(log[worker.task]) + 1>> \in Seq(Nat)
  BY <1>1 DEF TypeInv, TypeOK
<1>5. /\ Deliver(worker.task, <<Len(log[worker.task]) + 1>>)
      /\ UNCHANGED <<up, alive, restarts, memory, job, missed>>
  BY DEF WorkerUpdate
<1>6. QED
  BY <1>1, <1>3, <1>4, <1>5, WorkerStepType DEF memory, TypeInv, TypeOK

\* So does the end of a cancelled or failed run.
LEMMA EndRunType ==
    ASSUME TypeInv, up, worker # Idle, NEW s \in Status, NEW kind \in Kinds,
           EndRun(s, kind)
    PROVE  TypeInv'
<1>1. worker.task \in Tasks /\ worker.obj \in Objects
  BY WorkerFields
<1>2. PICK ok \in [1..2 -> BOOLEAN] :
        /\ Faults(ok) /\ SetStatus(worker.task, s, ok[1])
        /\ Record(worker.task, kind, ok[2])
  BY DEF EndRun
<1>3. /\ rows' \in [Tasks -> Seq(Row)] /\ CapOK'
      /\ log' \in [Tasks -> Seq(Event)] /\ faults' \in 0..MaxFaults
      /\ job' \in [Tasks -> Status \cup {"absent"}] /\ missed' \subseteq Tasks
  <2>1. faults' \in 0..MaxFaults
    BY <1>2, FaultsType DEF TypeInv
  <2>2. ok[1] \in BOOLEAN /\ ok[2] \in BOOLEAN
    OBVIOUS
  <2>3. job' \in [Tasks -> Status \cup {"absent"}] /\ missed' \subseteq Tasks
    BY <1>1, <1>2, <2>2, SetStatusType
  <2>4. QED
    BY <1>1, <1>2, <2>1, <2>2, <2>3, RecordType
<1>4. <<Len(log[worker.task]) + 1, EOF>> \in Seq(Nat)
  BY <1>1 DEF TypeInv, TypeOK, EOF
<1>5. /\ Deliver(worker.task, <<Len(log[worker.task]) + 1, EOF>>)
      /\ object' = [object EXCEPT ![worker.obj].status = s]
      /\ worker' = Idle
      /\ UNCHANGED <<up, alive, restarts, added, active, queue>>
  BY DEF EndRun
<1>6. /\ object' \in [Objects -> Object]
      /\ \A p \in Objects : object'[p].listeners = object[p].listeners
  BY <1>1, <1>5, StatusChange
<1>a. alive' \in BOOLEAN
  BY <1>5 DEF TypeInv, TypeOK
<1>7. QED
  BY <1>3, <1>4, <1>5, <1>6, <1>a, WorkerStepType

\* So does the end of a run that succeeded.
LEMMA WorkerFinishType == ASSUME TypeInv, WorkerFinish PROVE TypeInv'
<1>1. worker.task \in Tasks /\ worker.obj \in Objects /\ up /\ worker # Idle
  BY WorkerFields DEF WorkerFinish
<1>2. PICK ok \in [1..1 -> BOOLEAN] :
        Faults(ok) /\ SetStatus(worker.task, "done", ok[1])
  BY DEF WorkerFinish
<1>3. /\ faults' \in 0..MaxFaults /\ missed' \subseteq Tasks
      /\ job' \in [Tasks -> Status \cup {"absent"}]
  <2>1. faults' \in 0..MaxFaults
    BY <1>2, FaultsType DEF TypeInv
  <2>2. ok[1] \in BOOLEAN /\ "done" \in Status
    BY DEF Status, Terminal
  <2>3. QED
    BY <1>1, <1>2, <2>1, <2>2, SetStatusType
<1>4. <<EOF>> \in Seq(Nat)
  BY DEF EOF
<1>5. /\ Deliver(worker.task, <<EOF>>)
      /\ object' = [object EXCEPT ![worker.obj].status = "done"]
      /\ worker' = Idle
      /\ UNCHANGED <<up, alive, restarts, added, active, queue, rows, log>>
  BY DEF WorkerFinish
<1>6. /\ object' \in [Objects -> Object]
      /\ \A p \in Objects : object'[p].listeners = object[p].listeners
  BY <1>1, <1>5, StatusChange DEF Status, Terminal
<1>7. /\ rows' \in [Tasks -> Seq(Row)] /\ CapOK' /\ log' \in [Tasks -> Seq(Event)]
  BY <1>5 DEF TypeInv, TypeOK, CapOK
<1>a. alive' \in BOOLEAN
  BY <1>5 DEF TypeInv, TypeOK
<1>8. QED
  BY <1>1, <1>3, <1>4, <1>5, <1>6, <1>7, <1>a, WorkerStepType

\* So does the death of the worker task, which only delivers EOF.
LEMMA WorkerDiesType == ASSUME TypeInv, WorkerDies PROVE TypeInv'
<1>1. up /\ worker # Idle /\ alive' \in BOOLEAN /\ Deliver(worker.task, <<EOF>>)
  BY DEF WorkerDies
<1>2. UNCHANGED <<up, restarts, added, active, object, queue, worker, job, rows, missed,
                  faults, log>>
  BY DEF WorkerDies, memory, disk
<1>3. <<EOF>> \in Seq(Nat)
  BY DEF EOF
<1>4. /\ object' \in [Objects -> Object] /\ job' \in [Tasks -> Status \cup {"absent"}]
      /\ rows' \in [Tasks -> Seq(Row)] /\ CapOK' /\ log' \in [Tasks -> Seq(Event)]
      /\ missed' \subseteq Tasks /\ faults' \in 0..MaxFaults
      /\ \A p \in Objects : object'[p].listeners = object[p].listeners
  BY <1>2 DEF TypeInv, TypeOK, CapOK
<1>5. QED
  BY <1>1, <1>2, <1>3, <1>4, WorkerStepType

----------------------------------------------------------------------------
\* A step of one response: only its own record and its own presence among the
\* listeners change.
LEMMA ClientStepType ==
    ASSUME TypeInv, up, NEW c \in Clients, NEW s \in Client,
           client' = [client EXCEPT ![c] = s],
           UNCHANGED <<up, alive, restarts, added, active, queue, worker, job, rows,
                       missed, log>>,
           faults' \in 0..MaxFaults,
           object' \in [Objects -> Object],
           \A o \in Objects : object'[o].listeners \ {c} = object[o].listeners \ {c},
           \A t \in Tasks : active[t] # 0 /\ c \in object'[active[t]].listeners
                              => s.pc = "live" /\ s.task = t
    PROVE  TypeInv'
<1>1. TypeOK'
  BY DEF TypeInv, TypeOK
<1>2. ListenersOK'
  <2> SUFFICES ASSUME NEW t \in Tasks, NEW d \in Clients, active[t] # 0,
                      d \in object'[active[t]].listeners
               PROVE  client'[d].pc = "live" /\ client'[d].task = t
    BY DEF ListenersOK
  <2>1. active[t] \in Objects
    BY DEF TypeInv, TypeOK, Objects
  <2>2. client'[d] = IF d = c THEN s ELSE client[d]
    BY DEF TypeInv, TypeOK
  <2>3. CASE d = c
    BY <2>2, <2>3
  <2>4. CASE d # c
    <3>1. d \in object[active[t]].listeners
      BY <2>1, <2>4
    <3>2. QED BY <2>2, <2>4, <3>1 DEF TypeInv, ListenersOK
  <2>5. QED BY <2>3, <2>4
<1>3. QED
  BY <1>1, <1>2 DEF TypeInv, QueueOK, ActiveOK, CapOK

\* A response that does not wait for live events is no listener of an object
\* in use.
LEMMA NotListening ==
    ASSUME TypeInv, up, NEW c \in Clients, client[c].pc # "live", NEW t \in Tasks
    PROVE  ~(active[t] # 0 /\ c \in object[active[t]].listeners)
BY DEF TypeInv, ListenersOK

\* add_listener puts the response on the object of its own id only.
LEMMA AttachType ==
    ASSUME TypeInv, up, NEW c \in Clients, client[c].pc \in {"opening", "replaying"},
           Attach(c), faults' \in 0..MaxFaults,
           UNCHANGED <<up, alive, restarts, added, active, queue, worker, job, rows,
                       missed, log>>
    PROVE  TypeInv'
<1> DEFINE s == client[c]
<1>1. /\ s \in Client \ {NoStream} /\ s.task \in Tasks /\ s.pc # "idle"
      /\ Len(log[s.task]) \in Nat
  BY ClientFields DEF TypeInv, TypeOK
<1>2. CASE s.live = 0 \/ object[s.live].status \in Terminal
  <2> DEFINE e == [s EXCEPT !.pc = "ended"]
  <2>1. client' = [client EXCEPT ![c] = e] /\ object' = object
    BY <1>2 DEF Attach
  <2>2. e \in Client
    BY <1>1 DEF Client
  <2>3. object' \in [Objects -> Object]
    BY <2>1 DEF TypeInv, TypeOK
  <2>4. \A t \in Tasks : ~(active[t] # 0 /\ c \in object'[active[t]].listeners)
    BY <2>1, NotListening
  <2> HIDE DEF e
  <2>5. QED BY <2>1, <2>2, <2>3, <2>4, ClientStepType
<1>3. CASE ~(s.live = 0 \/ object[s.live].status \in Terminal)
  <2> DEFINE e == [s EXCEPT !.pc = "live", !.attached = Len(log[s.task])]
             a == active[s.task]
  <2>1. /\ client' = [client EXCEPT ![c] = e]
        /\ object' = [object EXCEPT ![a].listeners = @ \cup {c}]
    BY <1>3 DEF Attach
  <2>2. e \in Client /\ e.pc = "live" /\ e.task = s.task
    BY <1>1 DEF Client, OpenPc, NoStream
  <2>3. object' \in [Objects -> Object]
    BY <2>1 DEF TypeInv, TypeOK, Object
  <2>4. \A o \in Objects :
          object'[o].listeners = IF o = a THEN object[o].listeners \cup {c}
                                          ELSE object[o].listeners
    BY <2>1 DEF TypeInv, TypeOK, Object
  <2>5. ASSUME NEW t \in Tasks, active[t] # 0, c \in object'[active[t]].listeners
        PROVE  e.pc = "live" /\ e.task = t
    <3>1. active[t] \in Objects
      BY <2>5 DEF TypeInv, TypeOK, Objects
    <3>2. active[t] = a
      BY <2>4, <2>5, <3>1, NotListening
    <3>3. t = s.task
      BY <1>1, <2>5, <3>2 DEF TypeInv, ActiveOK
    <3>4. QED BY <2>2, <3>3
  <2>6. \A o \in Objects : object'[o].listeners \ {c} = object[o].listeners \ {c}
    BY <2>4
  <2> HIDE DEF e
  <2>7. QED BY <2>1, <2>2, <2>3, <2>5, <2>6, ClientStepType
<1>4. QED
  BY <1>2, <1>3

\* A new request listens to nothing.
LEMMA OpenStreamType ==
    ASSUME TypeInv, NEW c \in Clients, NEW t \in Tasks, OpenStream(c, t)
    PROVE  TypeInv'
<1>1. PICK after \in {0} \cup {rows[t][i].seq : i \in 1..Len(rows[t])} :
        client' = [client EXCEPT ![c] =
                     [pc |-> "opening", task |-> t, live |-> active[t],
                      after |-> after, replay |-> <<>>, inbox |-> <<>>,
                      got |-> <<>>, attached |-> 0]]
  BY DEF OpenStream
<1> DEFINE s == [pc |-> "opening", task |-> t, live |-> active[t],
                 after |-> after, replay |-> <<>>, inbox |-> <<>>,
                 got |-> <<>>, attached |-> 0]
<1>2. after \in Nat
  <2>1. rows[t] \in Seq(Row)
    BY DEF TypeInv, TypeOK
  <2>2. \A i \in 1..Len(rows[t]) : rows[t][i].seq \in Nat
    BY <2>1, RowFields
  <2>3. QED BY <2>2
<1>3. s \in Client
  BY <1>2 DEF TypeInv, TypeOK, Client, OpenPc
<1>4. /\ up /\ client[c].pc # "live"
      /\ UNCHANGED <<up, alive, restarts, memory, disk, log>>
  BY DEF OpenStream, OpenPc
<1>5. \A u \in Tasks : ~(active[u] # 0 /\ c \in object'[active[u]].listeners)
  BY <1>4, NotListening DEF memory
<1>6. object' \in [Objects -> Object] /\ faults' \in 0..MaxFaults
  BY <1>4 DEF memory, disk, TypeInv, TypeOK
<1> HIDE DEF s
<1>7. QED
  BY <1>1, <1>3, <1>4, <1>5, <1>6, ClientStepType DEF memory, disk, s

\* The replayed rows are events, and a response without any attaches.
LEMMA StartReplayType ==
    ASSUME TypeInv, NEW c \in Clients, StartReplay(c) PROVE TypeInv'
<1> DEFINE s  == client[c]
           rs == rows[s.task]
<1>1. /\ up /\ s.pc = "opening"
      /\ UNCHANGED <<up, alive, restarts, added, active, queue, worker, job, rows,
                     missed, log>>
  BY DEF StartReplay
<1>2. s \in Client \ {NoStream} /\ s.task \in Tasks /\ rs \in Seq(Row)
  BY <1>1, ClientFields DEF TypeInv, TypeOK
<1>3. PICK k \in 0..Len(rs), ok \in [1..1 -> BOOLEAN] :
        /\ Faults(ok)
        /\ LET n == IF Len(rs) - k < ReplayLimit THEN Len(rs) - k
                                                 ELSE ReplayLimit IN
           IF n = 0
           THEN Attach(c)
           ELSE /\ client' = [client EXCEPT
                                ![c].pc = "replaying",
                                ![c].got = <<rs[k + 1].ev>>,
                                ![c].replay =
                                   [i \in 1..(n - 1) |-> rs[k + 1 + i].ev]]
                /\ UNCHANGED object
  BY DEF StartReplay
<1>4. faults' \in 0..MaxFaults
  BY <1>3, FaultsType DEF TypeInv
<1> DEFINE n == IF Len(rs) - k < ReplayLimit THEN Len(rs) - k ELSE ReplayLimit
<1> HIDE DEF rs
<1>5. n \in 0..(Len(rs) - k)
  <2>1. Len(rs) \in Nat /\ k \in Nat /\ k <= Len(rs) /\ ReplayLimit \in Nat
    BY <1>2, TaskManagerAssumption
  <2>2. QED BY <2>1
<1>6. CASE n = 0
  BY <1>1, <1>3, <1>4, <1>6, AttachType
<1>7. CASE n # 0
  <2> DEFINE e == [s EXCEPT !.pc = "replaying", !.got = <<rs[k + 1].ev>>,
                            !.replay = [i \in 1..(n - 1) |-> rs[k + 1 + i].ev]]
  <2>1. client' = [client EXCEPT ![c] = e] /\ object' = object
    BY <1>3, <1>7
  <2>2. \A i \in 1..n : rs[k + i].ev \in Nat
    <3>1. \A i \in 1..n : k + i \in 1..Len(rs)
      BY <1>2, <1>5
    <3>2. QED BY <1>2, <3>1, RowFields
  <2>3. <<rs[k + 1].ev>> \in Seq(Nat)
    BY <1>5, <1>7, <2>2
  <2>4. [i \in 1..(n - 1) |-> rs[k + 1 + i].ev] \in Seq(Nat)
    <3> DEFINE m == n - 1
               f == [i \in 1..m |-> rs[k + 1 + i].ev]
    <3>1. m \in Nat
      BY <1>5, <1>7
    <3>2. ASSUME NEW i \in 1..m PROVE rs[k + 1 + i].ev \in Nat
      <4>1. i + 1 \in 1..n /\ k + (i + 1) = k + 1 + i
        BY <1>5, <3>1
      <4>2. QED BY <2>2, <4>1
    <3>3. f \in [1..m -> Nat]
      BY <3>2
    <3> HIDE DEF m, f
    <3>4. f \in Seq(Nat)
      BY <3>1, <3>3, SeqDef
    <3>5. QED BY <3>4 DEF f, m
  <2>5. e \in Client
    BY <1>2, <2>3, <2>4 DEF Client, OpenPc
  <2>6. /\ object' \in [Objects -> Object]
        /\ \A t \in Tasks : ~(active[t] # 0 /\ c \in object'[active[t]].listeners)
    BY <1>1, <2>1, NotListening DEF TypeInv, TypeOK
  <2> HIDE DEF e, n
  <2>7. QED BY <1>1, <1>4, <2>1, <2>5, <2>6, ClientStepType
<1>8. QED BY <1>6, <1>7

\* A step that changes a response's record and nothing else.
LEMMA ReplayType ==
    ASSUME TypeInv, NEW c \in Clients, Replay(c) PROVE TypeInv'
<1> DEFINE s == client[c]
           e == [s EXCEPT !.got = Append(s.got, Head(s.replay)),
                          !.replay = Tail(s.replay)]
<1>1. /\ up /\ s.pc = "replaying" /\ s.replay # <<>>
      /\ UNCHANGED <<up, alive, restarts, memory, disk, log>>
      /\ client' = [client EXCEPT ![c] = e]
  BY DEF Replay
<1>2. s \in Client \ {NoStream} /\ s.replay \in Seq(Nat) /\ s.got \in Seq(Nat)
  BY <1>1, ClientFields DEF TypeInv
<1>3. Append(s.got, Head(s.replay)) \in Seq(Nat) /\ Tail(s.replay) \in Seq(Nat)
  BY <1>1, <1>2
<1>4. e \in Client
  BY <1>2, <1>3 DEF Client
<1>5. /\ object' \in [Objects -> Object] /\ faults' \in 0..MaxFaults
      /\ object' = object
      /\ \A t \in Tasks : ~(active[t] # 0 /\ c \in object'[active[t]].listeners)
  BY <1>1, NotListening DEF memory, disk, TypeInv, TypeOK
<1> HIDE DEF e
<1>6. QED BY <1>1, <1>4, <1>5, ClientStepType DEF memory, disk

\* A response attaches after its last replayed row.
LEMMA EndReplayType ==
    ASSUME TypeInv, NEW c \in Clients, EndReplay(c) PROVE TypeInv'
BY AttachType DEF EndReplay, disk, TypeInv, TypeOK

\* After remove_listener the response listens to no object in use.
LEMMA DetachType ==
    ASSUME TypeInv, up, NEW c \in Clients, client[c].pc # "idle", Detach(c)
    PROVE  /\ object' \in [Objects -> Object]
           /\ \A o \in Objects : object'[o].listeners \ {c} = object[o].listeners \ {c}
           /\ \A t \in Tasks : active[t] # 0 => c \notin object'[active[t]].listeners
<1> DEFINE a == active[client[c].task]
<1>1. client[c].task \in Tasks
  BY ClientFields DEF TypeInv
<1>2. CASE a = 0
  <2>1. object' = object
    BY <1>2 DEF Detach
  <2>2. \A t \in Tasks : active[t] # 0 => c \notin object[active[t]].listeners
    BY <1>2 DEF TypeInv, ListenersOK
  <2>3. QED BY <2>1, <2>2 DEF TypeInv, TypeOK
<1>3. CASE a # 0
  <2>1. object' = [object EXCEPT ![a].listeners = @ \ {c}]
    BY <1>3 DEF Detach
  <2>2. a \in Objects
    BY <1>1, <1>3 DEF TypeInv, TypeOK, Objects
  <2>3. object' \in [Objects -> Object]
    BY <2>1, <2>2 DEF TypeInv, TypeOK, Object
  <2>4. \A o \in Objects :
          object'[o].listeners = IF o = a THEN object[o].listeners \ {c}
                                          ELSE object[o].listeners
    BY <2>1, <2>2 DEF TypeInv, TypeOK, Object
  <2>5. ASSUME NEW t \in Tasks, active[t] # 0, c \in object'[active[t]].listeners
        PROVE  FALSE
    <3>1. active[t] \in Objects
      BY <2>5 DEF TypeInv, TypeOK, Objects
    <3>2. active[t] # a /\ c \in object[active[t]].listeners
      BY <2>4, <2>5, <3>1
    <3>3. client[c].task = t
      BY <2>5, <3>2 DEF TypeInv, ListenersOK
    <3>4. QED BY <3>2, <3>3
  <2>6. \A o \in Objects : object'[o].listeners \ {c} = object[o].listeners \ {c}
    BY <2>4
  <2>7. QED BY <2>3, <2>5, <2>6
<1>4. QED BY <1>2, <1>3

\* A response that takes EOF leaves the listeners.
LEMMA FollowType ==
    ASSUME TypeInv, NEW c \in Clients, Follow(c) PROVE TypeInv'
<1> DEFINE s == client[c]
           ev == Head(s.inbox)
<1>1. /\ up /\ s.pc = "live" /\ s.inbox # <<>>
      /\ UNCHANGED <<up, alive, restarts, added, active, queue, worker, disk, log>>
  BY DEF Follow
<1>2. /\ s \in Client \ {NoStream} /\ s.inbox \in Seq(Nat) /\ s.got \in Seq(Nat)
      /\ s.task \in Tasks
  BY <1>1, ClientFields DEF TypeInv
<1>3. Append(s.got, ev) \in Seq(Nat) /\ Tail(s.inbox) \in Seq(Nat)
  BY <1>1, <1>2
<1>4. faults' \in 0..MaxFaults
  BY <1>1 DEF disk, TypeInv, TypeOK
<1>5. CASE ev = EOF
  <2> DEFINE e == [s EXCEPT !.pc = "ended", !.inbox = Tail(s.inbox)]
  <2>1. client' = [client EXCEPT ![c] = e] /\ Detach(c)
    BY <1>5 DEF Follow
  <2>2. e \in Client
    BY <1>2, <1>3 DEF Client
  <2>3. /\ object' \in [Objects -> Object]
        /\ \A o \in Objects : object'[o].listeners \ {c} = object[o].listeners \ {c}
        /\ \A t \in Tasks : active[t] # 0 => c \notin object'[active[t]].listeners
    BY <1>1, <2>1, DetachType
  <2> HIDE DEF e
  <2>4. QED BY <1>1, <1>4, <2>1, <2>2, <2>3, ClientStepType DEF disk
<1>6. CASE ev # EOF
  <2> DEFINE e == [s EXCEPT !.got = Append(s.got, ev), !.inbox = Tail(s.inbox)]
  <2>1. client' = [client EXCEPT ![c] = e] /\ object' = object
    BY <1>6 DEF Follow
  <2>2. e \in Client /\ e.pc = "live" /\ e.task = s.task
    BY <1>1, <1>2, <1>3 DEF Client, NoStream
  <2>3. object' \in [Objects -> Object]
    BY <2>1 DEF TypeInv, TypeOK
  <2>4. \A t \in Tasks : active[t] # 0 /\ c \in object'[active[t]].listeners
                           => e.pc = "live" /\ e.task = t
    BY <1>1, <2>1, <2>2 DEF TypeInv, ListenersOK
  <2> HIDE DEF e
  <2>5. QED BY <1>1, <1>4, <2>1, <2>2, <2>3, <2>4, ClientStepType DEF disk
<1>7. QED BY <1>5, <1>6

\* A response that is closed leaves the listeners.
LEMMA DisconnectType ==
    ASSUME TypeInv, NEW c \in Clients, Disconnect(c) PROVE TypeInv'
<1>1. /\ up /\ client[c].pc # "idle"
      /\ client' = [client EXCEPT ![c] = NoStream]
      /\ UNCHANGED <<up, alive, restarts, added, active, queue, worker, disk, log>>
  BY DEF Disconnect
<1>2. NoStream \in Client /\ faults' \in 0..MaxFaults
  BY <1>1 DEF Client, disk, TypeInv, TypeOK
<1>3. /\ object' \in [Objects -> Object]
      /\ \A o \in Objects : object'[o].listeners \ {c} = object[o].listeners \ {c}
      /\ \A t \in Tasks : active[t] # 0 => c \notin object'[active[t]].listeners
  <2>1. CASE client[c].pc = "live"
    BY <1>1, <2>1, DetachType DEF Disconnect
  <2>2. CASE client[c].pc # "live"
    <3>1. object' = object
      BY <2>2 DEF Disconnect
    <3>2. QED BY <1>1, <2>2, <3>1, NotListening DEF TypeInv, TypeOK
  <2>3. QED BY <2>1, <2>2
<1>4. QED BY <1>1, <1>2, <1>3, ClientStepType DEF disk

\* The death of the process leaves memory and disk as they are.
LEMMA CrashType == ASSUME TypeInv, Crash PROVE TypeInv'
<1>1. /\ up' = FALSE /\ restarts' = restarts + 1 /\ restarts < MaxRestarts
      /\ UNCHANGED <<alive, memory, disk, log>>
  BY DEF Crash
<1>2. client' \in [Clients -> Client]
  BY DEF Crash, TypeInv, TypeOK, Client
<1>3. restarts' \in 0..MaxRestarts
  BY <1>1, TaskManagerAssumption DEF TypeInv, TypeOK
<1>4. TypeOK'
  BY <1>1, <1>2, <1>3 DEF TypeInv, TypeOK, memory, disk
<1>5. QED
  BY <1>1, <1>4 DEF TypeInv, memory, disk, QueueOK, ActiveOK, ListenersOK, CapOK

\* A restart empties the memory and sweeps the rows.
LEMMA RestartType == ASSUME TypeInv, Restart PROVE TypeInv'
<1>1. /\ up' = TRUE /\ alive' = TRUE /\ active' = [t \in Tasks |-> 0] /\ queue' = <<>>
      /\ worker' = Idle
      /\ UNCHANGED <<restarts, added, object, rows, log, client>>
  BY DEF Restart
<1>2. PICK ok \in [1..1 -> BOOLEAN] :
        /\ Faults(ok)
        /\ job' = [t \in Tasks |-> IF ok[1] /\ job[t] \in Active
                                   THEN "failed" ELSE job[t]]
        /\ missed' = IF ok[1] THEN missed
                     ELSE missed \cup {t \in Tasks : job[t] \in Active}
  BY DEF Restart
<1>3. faults' \in 0..MaxFaults
  BY <1>2, FaultsType DEF TypeInv
<1>4. job' \in [Tasks -> Status \cup {"absent"}] /\ missed' \subseteq Tasks
  BY <1>2 DEF TypeInv, TypeOK, Status, Terminal
<1>5. active' \in [Tasks -> 0..MaxAdds]
  BY <1>1, TaskManagerAssumption
<1>6. TypeOK'
  BY <1>1, <1>3, <1>4, <1>5 DEF TypeInv, TypeOK
<1>7. QueueOK' /\ ActiveOK' /\ ListenersOK' /\ CapOK'
  BY <1>1 DEF TypeInv, TypeOK, QueueOK, ActiveOK, ListenersOK, CapOK
<1>8. QED BY <1>6, <1>7 DEF TypeInv

----------------------------------------------------------------------------
\* The invariant holds at first.
LEMMA InitType == Init => TypeInv
<1> SUFFICES ASSUME Init PROVE TypeInv
  OBVIOUS
<1>1. TypeOK
  BY TaskManagerAssumption
     DEF Init, TypeOK, NewObject, Object, Status, Active, Client
<1>2. QED
  BY <1>1, TaskManagerAssumption
     DEF Init, TypeInv, QueueOK, ActiveOK, ListenersOK, CapOK

\* Every step keeps it.
LEMMA NextType == TypeInv /\ [Next]_vars => TypeInv'
<1> SUFFICES ASSUME TypeInv, [Next]_vars PROVE TypeInv'
  OBVIOUS
<1>1. ASSUME NEW t \in Tasks, AddTask(t) PROVE TypeInv'
  BY <1>1, AddTaskType
<1>2. ASSUME NEW t \in Tasks, CancelTask(t) PROVE TypeInv'
  BY <1>2, CancelTaskType
<1>3. CASE WorkerGet
  BY <1>3, WorkerGetType
<1>4. CASE WorkerUpdate
  BY <1>4, WorkerUpdateType
<1>5. CASE WorkerCancelled
  BY <1>5, EndRunType DEF WorkerCancelled, Status, Terminal, Kinds
<1>6. CASE WorkerFail
  BY <1>6, EndRunType DEF WorkerFail, Status, Terminal, Kinds
<1>7. CASE WorkerFinish
  BY <1>7, WorkerFinishType
<1>d. CASE WorkerDies
  BY <1>d, WorkerDiesType
<1>8. ASSUME NEW c \in Clients, Stream(c) PROVE TypeInv'
  BY <1>8, StartReplayType, ReplayType, EndReplayType, FollowType DEF Stream
<1>9. ASSUME NEW c \in Clients, Disconnect(c) PROVE TypeInv'
  BY <1>9, DisconnectType
<1>10. ASSUME NEW c \in Clients, NEW t \in Tasks, OpenStream(c, t) PROVE TypeInv'
  BY <1>10, OpenStreamType
<1>11. CASE Crash
  BY <1>11, CrashType
<1>12. CASE Restart
  BY <1>12, RestartType
<1>13. CASE UNCHANGED vars
  BY <1>13 DEF vars, memory, disk, TypeInv, TypeOK, QueueOK, ActiveOK,
               ListenersOK, CapOK
<1>14. QED
  BY <1>1, <1>2, <1>3, <1>4, <1>5, <1>6, <1>7, <1>d, <1>8, <1>9, <1>10, <1>11,
     <1>12, <1>13 DEF Next, Worker

\* The dispatcher is well typed in every reachable state, whatever the ids,
\* the bounds, the faults and the restarts.
THEOREM TypeCorrect == Spec => []TypeOK
<1>1. Spec => []TypeInv
  BY InitType, NextType, PTL DEF Spec
<1>2. TypeInv => TypeOK
  BY DEF TypeInv
<1>3. QED
  BY <1>1, <1>2, PTL

----------------------------------------------------------------------------
(***************************************************************************)
(* The order of events: in job_events (StoreInOrder) and at every client   *)
(* (StreamInOrder), for all ids, bounds, lost writes and restarts.         *)
(***************************************************************************)

Below(s, n) == \A i \in 1..Len(s) : s[i] <= n

\* EOF aside, the entries of a listener queue ascend.
Rising(q) == \A i, j \in 1..Len(q) :
               i < j /\ q[i] # EOF /\ q[j] # EOF => q[i] < q[j]

\* What was received is older than what waits in the queue.
Precedes(s, q) == \A i \in 1..Len(s), j \in 1..Len(q) :
                    q[j] # EOF => s[i] < q[j]

\* The strengthening of StreamOrdered for one response on an id under which n
\* events were published: nothing is queued before the response listens, and
\* what it received, what it still replays or follows, and what will be
\* published next are in this order.
ResponseInv(s, n) ==
    /\ Increasing(s.got) /\ Below(s.got, n)
    /\ s.pc \in {"opening", "replaying"} => s.inbox = <<>>
    /\ s.pc = "replaying" =>
         /\ Increasing(s.replay) /\ Below(s.replay, n)
         /\ \A i \in 1..Len(s.got), j \in 1..Len(s.replay) :
              s.got[i] < s.replay[j]
    /\ s.pc = "live" =>
         Rising(s.inbox) /\ Below(s.inbox, n) /\ Precedes(s.got, s.inbox)

ResponsesOK ==
    \A c \in Clients : client[c].pc # "idle" =>
      ResponseInv(client[c], Len(log[client[c].task]))

StreamInv == TypeInv /\ StoreOrdered /\ ResponsesOK

----------------------------------------------------------------------------
(***************************************************************************)
(* The store.                                                              *)
(***************************************************************************)

\* Event rows in publication order under ascending seq.
Ordered(rs) == \A i, j \in 1..Len(rs) : i < j => /\ rs[i].seq < rs[j].seq
                                                 /\ rs[i].ev < rs[j].ev

\* Dropping at most the oldest row and adding a newest one keeps the order.
LEMMA ShiftOrdered ==
    ASSUME NEW rs \in Seq(Row), NEW as \in Seq(Row), NEW n \in Nat, NEW q \in Nat,
           NEW d \in Nat, Len(as) = Len(rs) + 1 - d, d <= 1, 1 <= Len(as),
           \A i \in 1..(Len(rs) - d) : as[i] = rs[i + d],
           as[Len(as)] = [seq |-> q + 1, ev |-> n],
           \A i \in 1..Len(rs) : rs[i].ev < n /\ rs[i].seq <= q,
           Ordered(rs)
    PROVE  Ordered(as) /\ \A i \in 1..Len(as) : as[i].ev <= n
<1>1. Len(rs) \in Nat /\ Len(as) \in Nat
  OBVIOUS
<1>2. ASSUME NEW i \in 1..Len(as), i # Len(as)
      PROVE  i + d \in 1..Len(rs) /\ as[i] = rs[i + d]
  <2>1. i \in 1..(Len(rs) - d) /\ i + d \in 1..Len(rs)
    BY <1>1, <1>2
  <2>2. QED BY <2>1
<1>3. as[Len(as)].seq = q + 1 /\ as[Len(as)].ev = n
  OBVIOUS
<1>4. \A i \in 1..Len(rs) : rs[i].ev \in Nat /\ rs[i].seq \in Nat
  BY RowFields
<1>5. ASSUME NEW i \in 1..Len(as) PROVE as[i].ev <= n
  <2>1. CASE i = Len(as)
    <3>1. as[i].ev = n
      BY <1>3, <2>1
    <3>2. QED BY <3>1
  <2>2. CASE i # Len(as)
    <3>1. as[i] = rs[i + d] /\ rs[i + d].ev < n /\ rs[i + d].ev \in Nat
      BY <1>2, <1>4, <2>2
    <3>2. QED BY <3>1
  <2>3. QED BY <2>1, <2>2
<1>6. ASSUME NEW i \in 1..Len(as), NEW j \in 1..Len(as), i < j
      PROVE  as[i].seq < as[j].seq /\ as[i].ev < as[j].ev
  <2>1. i # Len(as)
    BY <1>1, <1>6
  <2>2. i + d \in 1..Len(rs) /\ as[i] = rs[i + d]
    BY <1>2, <2>1
  <2>3. CASE j = Len(as)
    <3>1. rs[i + d].ev < n /\ rs[i + d].seq <= q
      BY <2>2
    <3>2. rs[i + d].ev \in Nat /\ rs[i + d].seq \in Nat
      BY <1>4, <2>2
    <3>3. rs[i + d].seq < q + 1
      BY <3>1, <3>2
    <3>4. QED BY <1>3, <2>2, <2>3, <3>1, <3>3
  <2>4. CASE j # Len(as)
    <3>1. j + d \in 1..Len(rs) /\ as[j] = rs[j + d]
      BY <1>2, <2>4
    <3>2. i + d < j + d
      BY <1>6
    <3>3. QED BY <2>2, <3>1, <3>2 DEF Ordered
  <2>5. QED BY <2>3, <2>4
<1>7. QED BY <1>5, <1>6 DEF Ordered

\* append_event hands out a seq above every seq left in the table.
LEMMA RecordStore ==
    ASSUME TypeInv, StoreOrdered, NEW t \in Tasks, NEW kind \in Kinds,
           NEW ok \in BOOLEAN, Record(t, kind, ok)
    PROVE  StoreOrdered'
<1> DEFINE rs == rows[t]
           n  == Len(log[t]) + 1
           as == AppendRow(rs, n)
<1>1. /\ rs \in Seq(Row) /\ Len(rs) <= EventCap /\ n \in Nat
      /\ log[t] \in Seq(Event) /\ Len(log[t]) \in Nat
  BY DEF TypeInv, TypeOK, CapOK
<1>2. \A i \in 1..Len(rs) : rs[i].seq \in Nat /\ rs[i].ev \in Nat
  BY <1>1, RowFields
<1>3. Ordered(rs) /\ \A i \in 1..Len(rs) : rs[i].ev <= Len(log[t])
  BY DEF StoreOrdered, Ordered
<1>4. \A i \in 1..Len(rs) : rs[i].ev < n
  BY <1>1, <1>2, <1>3
<1>5. /\ MaxSeq(rs) \in Nat
      /\ \A i \in 1..Len(rs) : rs[i].seq <= MaxSeq(rs)
  BY <1>1, <1>2, <1>3 DEF MaxSeq, Ordered
<1>6. /\ as \in Seq(Row) /\ Len(as) \in 1..EventCap
      /\ as[Len(as)] = [seq |-> MaxSeq(rs) + 1, ev |-> n]
      /\ \E d \in {0, 1} : /\ Len(as) = Len(rs) + 1 - d
                           /\ \A i \in 1..(Len(rs) - d) : as[i] = rs[i + d]
  <2> HIDE DEF n, rs
  <2>1. QED BY <1>1, AppendRowValue, ZenonT(20)
<1>7. Len(as) <= EventCap /\ 1 <= Len(as)
  BY <1>6, TaskManagerAssumption
<1> HIDE DEF as, n
<1>8. Ordered(as) /\ \A i \in 1..Len(as) : as[i].ev <= n
  <2> HIDE DEF rs
  <2>1. PICK d \in {0, 1} : /\ Len(as) = Len(rs) + 1 - d
                            /\ \A i \in 1..(Len(rs) - d) : as[i] = rs[i + d]
    BY <1>6
  <2>2. d \in Nat /\ d <= 1
    OBVIOUS
  <2>3. QED
    BY <1>1, <1>3, <1>4, <1>5, <1>6, <1>7, <2>1, <2>2, ShiftOrdered, ZenonT(30)
<1>9. Len(log'[t]) = n /\ \A u \in Tasks : u # t => log'[u] = log[u]
  BY <1>1 DEF Record, TypeInv, TypeOK, n
<1>10. /\ rows'[t] \in {as, rs}
       /\ \A u \in Tasks : u # t => rows'[u] = rows[u]
  BY DEF Record, TypeInv, TypeOK, as, n
<1>11. \A i \in 1..Len(rs) : rs[i].ev <= n
  BY <1>1, <1>2, <1>4
<1> SUFFICES ASSUME NEW u \in Tasks
             PROVE  /\ Len(rows'[u]) <= EventCap /\ Ordered(rows'[u])
                    /\ \A i \in 1..Len(rows'[u]) : rows'[u][i].ev <= Len(log'[u])
  BY DEF StoreOrdered, Ordered
<1>12. CASE u # t
  <2>1. rows'[u] = rows[u] /\ log'[u] = log[u]
    BY <1>9, <1>10, <1>12
  <2>2. QED BY <2>1 DEF StoreOrdered, Ordered
<1> HIDE DEF rs
<1>13. CASE u = t /\ rows'[t] = as
  BY <1>7, <1>8, <1>9, <1>13
<1>14. CASE u = t /\ rows'[t] = rs
  BY <1>1, <1>3, <1>9, <1>11, <1>14
<1>15. QED BY <1>10, <1>12, <1>13, <1>14

\* A step that records nothing keeps the store in order.
LEMMA StoreFrame ==
    ASSUME StoreOrdered, UNCHANGED <<rows, log>> PROVE StoreOrdered'
BY DEF StoreOrdered

\* Every step keeps the store in order.
LEMMA NextStore ==
    ASSUME TypeInv, StoreOrdered, [Next]_vars PROVE StoreOrdered'
<1>1. CASE WorkerUpdate
  <2>1. PICK ok \in [1..1 -> BOOLEAN] : Record(worker.task, "update", ok[1])
    BY <1>1 DEF WorkerUpdate
  <2>2. ok[1] \in BOOLEAN /\ "update" \in Kinds /\ worker.task \in Tasks
    BY <1>1, WorkerFields DEF WorkerUpdate, Kinds
  <2>3. QED BY <2>1, <2>2, RecordStore
<1>2. ASSUME NEW s, NEW kind \in Kinds, worker # Idle, EndRun(s, kind)
      PROVE  StoreOrdered'
  <2>1. PICK ok \in [1..2 -> BOOLEAN] : Record(worker.task, kind, ok[2])
    BY <1>2 DEF EndRun
  <2>2. ok[2] \in BOOLEAN /\ worker.task \in Tasks
    BY <1>2, WorkerFields
  <2>3. QED BY <2>1, <2>2, RecordStore
<1>3. CASE WorkerCancelled
  BY <1>2, <1>3 DEF WorkerCancelled, Kinds
<1>4. CASE WorkerFail
  BY <1>2, <1>4 DEF WorkerFail, Kinds
<1>5. CASE WorkerGet \/ WorkerFinish \/ WorkerDies \/ Crash \/ Restart \/ UNCHANGED vars
  BY <1>5, StoreFrame
     DEF WorkerGet, WorkerFinish, WorkerDies, Crash, Restart, vars, memory, disk
<1>6. ASSUME NEW t \in Tasks, AddTask(t) \/ CancelTask(t) PROVE StoreOrdered'
  BY <1>6, StoreFrame DEF AddTask, CancelTask, disk
<1>7. ASSUME NEW c \in Clients, Stream(c) \/ Disconnect(c) PROVE StoreOrdered'
  BY <1>7, StoreFrame
     DEF Stream, StartReplay, Replay, EndReplay, Follow, Disconnect, disk
<1>8. ASSUME NEW c \in Clients, NEW t \in Tasks, OpenStream(c, t)
      PROVE  StoreOrdered'
  BY <1>8, StoreFrame DEF OpenStream, disk
<1>9. QED
  BY <1>1, <1>3, <1>4, <1>5, <1>6, <1>7, <1>8 DEF Next, Worker

\* job_events stays in publication order under strictly ascending seq, through
\* failed inserts, trimming and restarts: no cursor ever becomes ambiguous.
THEOREM StoreInOrder == Spec => []StoreOrdered
<1>1. Init => StoreOrdered
  BY TaskManagerAssumption DEF Init, StoreOrdered
<1>2. TypeInv /\ StoreOrdered /\ [Next]_vars => TypeInv' /\ StoreOrdered'
  BY NextType, NextStore
<1>3. Spec => [](TypeInv /\ StoreOrdered)
  BY <1>1, <1>2, InitType, PTL DEF Spec
<1>4. QED
  BY <1>3, PTL

----------------------------------------------------------------------------
(***************************************************************************)
(* The responses.                                                          *)
(***************************************************************************)

\* Appending entries above everything published so far keeps a queue rising.
LEMMA RisingAppend ==
    ASSUME NEW q \in Seq(Nat), NEW evs \in Seq(Nat), NEW n \in Nat, NEW m \in Nat,
           n <= m, Rising(q), Below(q, n), Rising(evs),
           \A i \in 1..Len(evs) : evs[i] # EOF => n < evs[i] /\ evs[i] <= m
    PROVE  Rising(q \o evs) /\ Below(q \o evs, m)
<1> DEFINE r == q \o evs
<1>1. /\ Len(r) = Len(q) + Len(evs) /\ Len(q) \in Nat /\ Len(evs) \in Nat
      /\ \A i \in 1..Len(r) : r[i] = IF i <= Len(q) THEN q[i] ELSE evs[i - Len(q)]
  OBVIOUS
<1> HIDE DEF r
<1>2. ASSUME NEW i \in 1..Len(r)
      PROVE  \/ i \in 1..Len(q) /\ r[i] = q[i] /\ r[i] <= n /\ r[i] \in Nat
             \/ /\ i - Len(q) \in 1..Len(evs) /\ Len(q) < i
                /\ r[i] = evs[i - Len(q)] /\ r[i] \in Nat
                /\ r[i] # EOF => n < r[i] /\ r[i] <= m
  <2>1. CASE i <= Len(q)
    <3>1. i \in 1..Len(q) /\ r[i] = q[i]
      BY <1>1, <2>1
    <3>2. q[i] \in Nat /\ q[i] <= n
      BY <3>1 DEF Below
    <3>3. QED BY <3>1, <3>2
  <2>2. CASE ~(i <= Len(q))
    <3>1. i - Len(q) \in 1..Len(evs) /\ Len(q) < i /\ r[i] = evs[i - Len(q)]
      BY <1>1, <2>2
    <3>2. evs[i - Len(q)] \in Nat
      BY <3>1
    <3>3. QED BY <3>1, <3>2
  <2>3. QED BY <2>1, <2>2
<1>3. \A i \in 1..Len(r) : r[i] <= m
  <2> SUFFICES ASSUME NEW i \in 1..Len(r) PROVE r[i] <= m
    OBVIOUS
  <2>1. (r[i] \in Nat /\ r[i] <= n) \/ (r[i] # EOF => r[i] <= m)
    BY <1>2
  <2>2. QED BY <2>1 DEF EOF
<1>4. ASSUME NEW i \in 1..Len(r), NEW j \in 1..Len(r), i < j,
             r[i] # EOF, r[j] # EOF
      PROVE  r[i] < r[j]
  <2>1. CASE j <= Len(q)
    <3>1. i \in 1..Len(q) /\ j \in 1..Len(q) /\ r[i] = q[i] /\ r[j] = q[j]
      BY <1>1, <1>4, <2>1
    <3>2. QED BY <1>4, <3>1 DEF Rising
  <2>2. CASE ~(j <= Len(q)) /\ i <= Len(q)
    <3>1. r[i] \in Nat /\ r[i] <= n
      BY <1>1, <1>2, <2>2
    <3>2. r[j] \in Nat /\ n < r[j]
      BY <1>1, <1>2, <1>4, <2>2
    <3>3. QED BY <3>1, <3>2
  <2>3. CASE ~(j <= Len(q)) /\ ~(i <= Len(q))
    <3>1. /\ i - Len(q) \in 1..Len(evs) /\ r[i] = evs[i - Len(q)]
          /\ j - Len(q) \in 1..Len(evs) /\ r[j] = evs[j - Len(q)]
          /\ i - Len(q) < j - Len(q)
      BY <1>1, <1>2, <1>4, <2>3
    <3>2. QED BY <1>4, <3>1 DEF Rising
  <2>4. QED BY <2>1, <2>2, <2>3
<1>5. QED BY <1>3, <1>4 DEF Rising, Below, r

\* What is published next is above what a client received.
LEMMA PrecedesAppend ==
    ASSUME NEW s \in Seq(Nat), NEW q \in Seq(Nat), NEW evs \in Seq(Nat),
           NEW n \in Nat, Below(s, n), Precedes(s, q),
           \A i \in 1..Len(evs) : evs[i] # EOF => n < evs[i]
    PROVE  Precedes(s, q \o evs)
<1> DEFINE r == q \o evs
<1>1. /\ Len(r) = Len(q) + Len(evs) /\ Len(q) \in Nat /\ Len(evs) \in Nat
      /\ \A i \in 1..Len(r) : r[i] = IF i <= Len(q) THEN q[i] ELSE evs[i - Len(q)]
  OBVIOUS
<1> HIDE DEF r
<1> SUFFICES ASSUME NEW i \in 1..Len(s), NEW j \in 1..Len(r), r[j] # EOF
             PROVE  s[i] < r[j]
  BY DEF Precedes, r
<1>2. s[i] \in Nat /\ s[i] <= n
  BY DEF Below
<1>3. CASE j <= Len(q)
  <2>1. j \in 1..Len(q) /\ r[j] = q[j]
    BY <1>1, <1>3
  <2>2. QED BY <2>1 DEF Precedes
<1>4. CASE ~(j <= Len(q))
  <2>1. j - Len(q) \in 1..Len(evs) /\ r[j] = evs[j - Len(q)]
    BY <1>1, <1>4
  <2>2. evs[j - Len(q)] \in Nat
    BY <2>1
  <2>3. n < r[j] /\ r[j] \in Nat
    BY <2>1, <2>2
  <2>4. QED BY <1>2, <2>3, SMTT(30)
<1>5. QED BY <1>3, <1>4

\* Receiving an entry that is above everything received so far.
LEMMA IncreasingAppend ==
    ASSUME NEW s \in Seq(Nat), NEW x \in Nat, NEW n \in Nat,
           Increasing(s), Below(s, n), x <= n, \A i \in 1..Len(s) : s[i] < x
    PROVE  Increasing(Append(s, x)) /\ Below(Append(s, x), n)
<1> DEFINE r == Append(s, x)
<1>1. /\ Len(r) = Len(s) + 1 /\ Len(s) \in Nat /\ r[Len(s) + 1] = x
      /\ \A i \in 1..Len(s) : r[i] = s[i]
  OBVIOUS
<1> HIDE DEF r
<1>2. ASSUME NEW i \in 1..Len(r) PROVE r[i] <= n
  <2>1. CASE i = Len(s) + 1
    BY <1>1, <2>1
  <2>2. CASE i # Len(s) + 1
    <3>1. i \in 1..Len(s)
      BY <1>1, <2>2
    <3>2. QED BY <1>1, <3>1 DEF Below
  <2>3. QED BY <2>1, <2>2
<1>3. ASSUME NEW i \in 1..Len(r), NEW j \in 1..Len(r), i < j PROVE r[i] < r[j]
  <2>1. i \in 1..Len(s)
    BY <1>1, <1>3
  <2>2. CASE j = Len(s) + 1
    BY <1>1, <2>1, <2>2
  <2>3. CASE j # Len(s) + 1
    <3>1. j \in 1..Len(s)
      BY <1>1, <2>3
    <3>2. QED BY <1>1, <1>3, <2>1, <3>1 DEF Increasing
  <2>4. QED BY <2>2, <2>3
<1>4. QED BY <1>2, <1>3 DEF Increasing, Below, r

\* Taking the head of a listener queue.
LEMMA FollowOrder ==
    ASSUME NEW s \in Seq(Nat), NEW q \in Seq(Nat), q # <<>>, NEW n \in Nat,
           Increasing(s), Below(s, n), Rising(q), Below(q, n), Precedes(s, q),
           Head(q) # EOF
    PROVE  /\ Increasing(Append(s, Head(q))) /\ Below(Append(s, Head(q)), n)
           /\ Rising(Tail(q)) /\ Below(Tail(q), n)
           /\ Precedes(Append(s, Head(q)), Tail(q))
<1> DEFINE x == Head(q)
           r == Append(s, x)
<1>1. x \in Nat /\ x = q[1] /\ 1 \in 1..Len(q)
  OBVIOUS
<1>2. /\ Tail(q) \in Seq(Nat) /\ Len(q) \in Nat /\ Len(Tail(q)) = Len(q) - 1
      /\ \A i \in 1..Len(Tail(q)) : i + 1 \in 1..Len(q) /\ Tail(q)[i] = q[i + 1]
  <2>1. Tail(q) \in Seq(Nat) /\ Len(q) \in Nat /\ Len(Tail(q)) = Len(q) - 1
    OBVIOUS
  <2>2. \A i \in 1..Len(Tail(q)) : i + 1 \in 1..Len(q)
    BY <2>1
  <2>3. QED BY <2>1, <2>2, HeadTailProperties
<1>3. x <= n /\ \A i \in 1..Len(s) : s[i] < x
  BY <1>1 DEF Below, Precedes
<1>4. Increasing(r) /\ Below(r, n)
  BY <1>1, <1>3, IncreasingAppend
<1>5. \A j \in 1..Len(Tail(q)) : Tail(q)[j] # EOF => x < Tail(q)[j]
  <2> SUFFICES ASSUME NEW j \in 1..Len(Tail(q)), Tail(q)[j] # EOF
               PROVE  x < Tail(q)[j]
    OBVIOUS
  <2>1. j + 1 \in 1..Len(q) /\ Tail(q)[j] = q[j + 1] /\ 1 < j + 1
    BY <1>2
  <2>2. QED BY <1>1, <2>1 DEF Rising
<1>6. Rising(Tail(q)) /\ Below(Tail(q), n)
  BY <1>2 DEF Rising, Below
<1>7. ASSUME NEW i \in 1..Len(r), NEW j \in 1..Len(Tail(q)), Tail(q)[j] # EOF
      PROVE  r[i] < Tail(q)[j]
  <2>1. Len(r) = Len(s) + 1 /\ r[Len(s) + 1] = x /\ \A k \in 1..Len(s) : r[k] = s[k]
    BY <1>1
  <2> HIDE DEF r, x
  <2>2. CASE i = Len(s) + 1
    BY <1>5, <1>7, <2>1, <2>2
  <2>3. CASE i # Len(s) + 1
    <3>1. i \in 1..Len(s)
      BY <2>1, <2>3
    <3>2. Tail(q)[j] = q[j + 1] /\ j + 1 \in 1..Len(q)
      BY <1>2
    <3>3. s[i] < q[j + 1]
      BY <1>7, <3>1, <3>2 DEF Precedes
    <3>4. QED BY <2>1, <3>1, <3>2, <3>3
  <2>4. QED BY <2>2, <2>3
<1>8. QED BY <1>4, <1>6, <1>7 DEF Precedes

\* Taking the head of the rows still to replay.
LEMMA ReplayOrder ==
    ASSUME NEW s \in Seq(Nat), NEW q \in Seq(Nat), q # <<>>, NEW n \in Nat,
           Increasing(s), Below(s, n), Increasing(q), Below(q, n),
           \A i \in 1..Len(s), j \in 1..Len(q) : s[i] < q[j]
    PROVE  /\ Increasing(Append(s, Head(q))) /\ Below(Append(s, Head(q)), n)
           /\ Increasing(Tail(q)) /\ Below(Tail(q), n)
           /\ \A i \in 1..Len(Append(s, Head(q))), j \in 1..Len(Tail(q)) :
                Append(s, Head(q))[i] < Tail(q)[j]
<1> DEFINE x == Head(q)
           r == Append(s, x)
<1>1. x \in Nat /\ x = q[1] /\ 1 \in 1..Len(q)
  OBVIOUS
<1>2. /\ Tail(q) \in Seq(Nat) /\ Len(q) \in Nat /\ Len(Tail(q)) = Len(q) - 1
      /\ \A i \in 1..Len(Tail(q)) : i + 1 \in 1..Len(q) /\ Tail(q)[i] = q[i + 1]
  <2>1. Tail(q) \in Seq(Nat) /\ Len(q) \in Nat /\ Len(Tail(q)) = Len(q) - 1
    OBVIOUS
  <2>2. \A i \in 1..Len(Tail(q)) : i + 1 \in 1..Len(q)
    BY <2>1
  <2>3. QED BY <2>1, <2>2, HeadTailProperties
<1>3. x <= n /\ \A i \in 1..Len(s) : s[i] < x
  BY <1>1 DEF Below
<1>4. Increasing(r) /\ Below(r, n)
  BY <1>1, <1>3, IncreasingAppend
<1>5. \A j \in 1..Len(Tail(q)) : x < Tail(q)[j]
  <2> SUFFICES ASSUME NEW j \in 1..Len(Tail(q)) PROVE x < Tail(q)[j]
    OBVIOUS
  <2>1. j + 1 \in 1..Len(q) /\ Tail(q)[j] = q[j + 1] /\ 1 < j + 1
    BY <1>2
  <2>2. QED BY <1>1, <2>1 DEF Increasing
<1>6. Increasing(Tail(q)) /\ Below(Tail(q), n)
  BY <1>2 DEF Increasing, Below
<1>7. ASSUME NEW i \in 1..Len(r), NEW j \in 1..Len(Tail(q))
      PROVE  r[i] < Tail(q)[j]
  <2>1. Len(r) = Len(s) + 1 /\ r[Len(s) + 1] = x /\ \A k \in 1..Len(s) : r[k] = s[k]
    BY <1>1
  <2> HIDE DEF r, x
  <2>2. CASE i = Len(s) + 1
    BY <1>5, <2>1, <2>2
  <2>3. CASE i # Len(s) + 1
    <3>1. i \in 1..Len(s)
      BY <2>1, <2>3
    <3>2. QED BY <1>2, <2>1, <3>1
  <2>4. QED BY <2>2, <2>3
<1>8. QED BY <1>4, <1>6, <1>7

----------------------------------------------------------------------------
(***************************************************************************)
(* Steps that publish, steps of one response, and the rest.                *)
(***************************************************************************)

\* Publishing to others does not disturb a response.
LEMMA ResponseMono ==
    ASSUME NEW s \in Client \ {NoStream}, NEW n \in Nat, NEW m \in Nat, n <= m,
           ResponseInv(s, n)
    PROVE  ResponseInv(s, m)
<1>1. s.got \in Seq(Nat) /\ s.replay \in Seq(Nat) /\ s.inbox \in Seq(Nat)
  BY DEF Client
<1>2. ASSUME NEW q \in Seq(Nat), Below(q, n) PROVE Below(q, m)
  BY <1>2 DEF Below
<1>3. QED BY <1>1, <1>2 DEF ResponseInv

\* Publishing above everything published so far, to the listeners, keeps every
\* response in order.
LEMMA DeliverOrder ==
    ASSUME StreamInv, up, NEW t \in Tasks, active[t] # 0, NEW evs \in Seq(Nat),
           NEW m \in Nat, Len(log[t]) <= m, Len(log'[t]) = m,
           \A u \in Tasks : u # t => log'[u] = log[u],
           Deliver(t, evs), Rising(evs),
           \A i \in 1..Len(evs) : evs[i] # EOF => Len(log[t]) < evs[i] /\ evs[i] <= m
    PROVE  ResponsesOK'
<1> SUFFICES ASSUME NEW c \in Clients, client'[c].pc # "idle"
             PROVE  ResponseInv(client'[c], Len(log'[client'[c].task]))
  BY DEF ResponsesOK
<1> DEFINE s == client[c]
           n == Len(log[s.task])
<1>1. /\ client'[c].pc = s.pc
      /\ s.pc # "idle" => client'[c].task = s.task
  BY DeliverType DEF StreamInv
<1>2. /\ s \in Client \ {NoStream} /\ s.got \in Seq(Nat) /\ s.inbox \in Seq(Nat)
      /\ s.task \in Tasks
  BY <1>1, ClientFields DEF StreamInv, TypeInv
<1>3. /\ n \in Nat /\ Len(log'[s.task]) \in Nat
      /\ n <= Len(log'[s.task])
  <2>1. log[s.task] \in Seq(Event)
    BY <1>2 DEF StreamInv, TypeInv, TypeOK
  <2>2. n \in Nat
    BY <2>1
  <2>3. CASE s.task = t
    BY <2>2, <2>3
  <2>4. CASE s.task # t
    BY <1>2, <2>2, <2>4
  <2>5. QED BY <2>2, <2>3, <2>4
<1>4. ResponseInv(s, n)
  BY <1>1 DEF StreamInv, ResponsesOK
<1>5. CASE c \notin object[active[t]].listeners
  <2>1. client'[c] = s
    BY <1>5 DEF Deliver
  <2> HIDE DEF s, n
  <2>2. QED BY <1>2, <1>3, <1>4, <2>1, ResponseMono
<1>6. CASE c \in object[active[t]].listeners
  <2>1. s.pc = "live" /\ s.task = t
    BY <1>6 DEF StreamInv, TypeInv, ListenersOK
  <2>2. client'[c] = [s EXCEPT !.inbox = s.inbox \o evs]
    BY <1>6 DEF Deliver
  <2>3. /\ client'[c].inbox = s.inbox \o evs /\ client'[c].got = s.got
        /\ client'[c].pc = "live" /\ client'[c].task = t
    BY <1>2, <2>1, <2>2 DEF Client, NoStream
  <2>4. /\ Increasing(s.got) /\ Below(s.got, n) /\ Rising(s.inbox)
        /\ Below(s.inbox, n) /\ Precedes(s.got, s.inbox)
    BY <1>4, <2>1 DEF ResponseInv
  <2>5. n = Len(log[t]) /\ n <= m
    BY <2>1
  <2> HIDE DEF n
  <2>6. Rising(s.inbox \o evs) /\ Below(s.inbox \o evs, m)
    BY <1>2, <1>3, <2>4, <2>5, RisingAppend
  <2>7. Precedes(s.got, s.inbox \o evs)
    BY <1>2, <1>3, <2>4, <2>5, PrecedesAppend
  <2>8. Below(s.got, m)
    BY <1>2, <1>3, <2>4, <2>5 DEF Below
  <2>9. QED BY <2>3, <2>4, <2>6, <2>7, <2>8 DEF ResponseInv
<1>7. QED BY <1>5, <1>6

\* A step that changes at most the record of response c.
LEMMA ResponseStep ==
    ASSUME TypeOK, ResponsesOK, NEW c \in Clients, NEW e,
           client' = [client EXCEPT ![c] = e], log' = log,
           e.pc # "idle" => ResponseInv(e, Len(log[e.task]))
    PROVE  ResponsesOK'
<1> SUFFICES ASSUME NEW d \in Clients, client'[d].pc # "idle"
             PROVE  ResponseInv(client'[d], Len(log'[client'[d].task]))
  BY DEF ResponsesOK
<1>1. client'[d] = IF d = c THEN e ELSE client[d]
  BY DEF TypeOK
<1>2. QED BY <1>1 DEF ResponsesOK

\* The end of the replay: the response ends, or starts with an empty queue.
LEMMA AttachOrder ==
    ASSUME TypeInv, ResponsesOK, NEW c \in Clients,
           client[c].pc \in {"opening", "replaying"}, Attach(c), log' = log
    PROVE  ResponsesOK'
<1> DEFINE s == client[c]
           e == [s EXCEPT !.pc = "ended"]
           f == [s EXCEPT !.pc = "live", !.attached = Len(log[s.task])]
<1>1. s \in Client \ {NoStream} /\ s.pc # "idle" /\ s.got \in Seq(Nat)
  BY ClientFields DEF TypeInv
<1>2. ResponseInv(s, Len(log[s.task])) /\ s.inbox = <<>>
  BY <1>1 DEF ResponsesOK, ResponseInv
<1>3. \/ client' = [client EXCEPT ![c] = e]
      \/ client' = [client EXCEPT ![c] = f]
  BY DEF Attach
<1>4. /\ e.pc = "ended" /\ e.got = s.got /\ e.task = s.task
      /\ f.pc = "live" /\ f.got = s.got /\ f.task = s.task /\ f.inbox = <<>>
  BY <1>1, <1>2 DEF Client, NoStream
<1> HIDE DEF e, f
<1>5. ResponseInv(e, Len(log[e.task]))
  BY <1>2, <1>4 DEF ResponseInv
<1>6. ResponseInv(f, Len(log[f.task]))
  BY <1>2, <1>4 DEF ResponseInv, Rising, Below, Precedes
<1>7. QED BY <1>3, <1>5, <1>6, ResponseStep DEF TypeInv

\* The first step of a response replays the rows above its cursor in order.
LEMMA StartReplayOrder ==
    ASSUME StreamInv, NEW c \in Clients, StartReplay(c) PROVE ResponsesOK'
<1> DEFINE s  == client[c]
           rs == rows[s.task]
           m  == Len(log[s.task])
<1>1. s.pc = "opening" /\ log' = log
  BY DEF StartReplay
<1>2. /\ s \in Client \ {NoStream} /\ s.task \in Tasks /\ s.pc # "idle"
      /\ rs \in Seq(Row) /\ m \in Nat /\ s.inbox = <<>>
  BY <1>1, ClientFields
     DEF StreamInv, TypeInv, TypeOK, ResponsesOK, ResponseInv
<1>3. /\ \A i \in 1..Len(rs) : rs[i].ev \in Nat /\ rs[i].ev <= m
      /\ \A i, j \in 1..Len(rs) : i < j => rs[i].ev < rs[j].ev
  BY <1>2, RowFields DEF StreamInv, StoreOrdered
<1>4. PICK k \in 0..Len(rs) :
        LET n == IF Len(rs) - k < ReplayLimit THEN Len(rs) - k
                                              ELSE ReplayLimit IN
        IF n = 0
        THEN Attach(c)
        ELSE /\ client' = [client EXCEPT
                             ![c].pc = "replaying",
                             ![c].got = <<rs[k + 1].ev>>,
                             ![c].replay =
                                [i \in 1..(n - 1) |-> rs[k + 1 + i].ev]]
             /\ UNCHANGED object
  BY DEF StartReplay
<1> DEFINE n == IF Len(rs) - k < ReplayLimit THEN Len(rs) - k ELSE ReplayLimit
<1>5. CASE n = 0
  BY <1>1, <1>4, <1>5, AttachOrder DEF StreamInv
<1>6. CASE n # 0
  <2> DEFINE r == [i \in 1..(n - 1) |-> rs[k + 1 + i].ev]
             e == [s EXCEPT !.pc = "replaying", !.got = <<rs[k + 1].ev>>,
                            !.replay = r]
  <2>1. client' = [client EXCEPT ![c] = e]
    BY <1>4, <1>6
  <2>2. /\ Len(rs) \in Nat /\ k \in Nat /\ n \in Nat /\ n - 1 \in Nat
        /\ k + n <= Len(rs)
    BY <1>2, <1>6, TaskManagerAssumption
  <2> HIDE DEF n, rs, m
  <2>3. /\ k + 1 \in 1..Len(rs)
        /\ \A i \in 1..(n - 1) : k + 1 + i \in 1..Len(rs)
    BY <2>2
  <2>4. /\ Len(r) = n - 1 /\ r \in Seq(Nat)
        /\ \A i \in 1..(n - 1) : r[i] = rs[k + 1 + i].ev
    <3>1. \A i \in 1..(n - 1) : rs[k + 1 + i].ev \in Nat
      BY <1>3, <2>3
    <3> DEFINE l == n - 1
    <3>2. l \in Nat
      BY <2>2
    <3> HIDE DEF l
    <3>3. [i \in 1..l |-> rs[k + 1 + i].ev] \in [1..l -> Nat]
      BY <3>1 DEF l
    <3> DEFINE g == [i \in 1..l |-> rs[k + 1 + i].ev]
    <3>4. g \in [1..l -> Nat] /\ DOMAIN g = 1..l
      BY <3>3
    <3> HIDE DEF g
    <3>5. g \in Seq(Nat)
      BY <3>2, <3>4, SeqDef
    <3>6. Len(g) = l
      BY <3>2, <3>4, <3>5, LenProperties
    <3>7. QED BY <3>5, <3>6 DEF l, g
  <2>5. /\ e.pc = "replaying" /\ e.got = <<rs[k + 1].ev>> /\ e.replay = r
        /\ e.inbox = <<>> /\ e.task = s.task
    BY <1>2 DEF Client, NoStream
  <2> HIDE DEF r, e
  <2>6. Increasing(e.got) /\ Below(e.got, m)
    BY <1>3, <2>3, <2>5 DEF Increasing, Below
  <2>7. Below(r, m)
    BY <1>3, <2>3, <2>4 DEF Below
  <2>8. Increasing(r)
    <3> SUFFICES ASSUME NEW i \in 1..Len(r), NEW j \in 1..Len(r), i < j
                 PROVE  r[i] < r[j]
      BY DEF Increasing
    <3>1. i \in 1..(n - 1) /\ j \in 1..(n - 1) /\ k + 1 + i < k + 1 + j
      BY <2>2, <2>4
    <3>2. QED BY <1>3, <2>3, <2>4, <3>1
  <2>9. \A i \in 1..Len(e.got), j \in 1..Len(r) : e.got[i] < r[j]
    <3> SUFFICES ASSUME NEW i \in 1..Len(e.got), NEW j \in 1..Len(r)
                 PROVE  e.got[i] < r[j]
      OBVIOUS
    <3>1. e.got[i] = rs[k + 1].ev /\ j \in 1..(n - 1)
      BY <2>4, <2>5
    <3>2. k + 1 < k + 1 + j
      BY <2>2, <3>1
    <3>3. QED BY <1>3, <2>3, <2>4, <3>1, <3>2
  <2>10. ResponseInv(e, Len(log[e.task]))
    BY <2>5, <2>6, <2>7, <2>8, <2>9 DEF ResponseInv, m
  <2>11. QED BY <1>1, <2>1, <2>10, ResponseStep DEF StreamInv, TypeInv
<1>7. QED BY <1>5, <1>6

\* A replayed row is above what was sent before it and below the rest.
LEMMA ReplayStepOrder ==
    ASSUME StreamInv, NEW c \in Clients, Replay(c) PROVE ResponsesOK'
<1> DEFINE s == client[c]
           m == Len(log[s.task])
           e == [s EXCEPT !.got = Append(s.got, Head(s.replay)),
                          !.replay = Tail(s.replay)]
<1>1. /\ s.pc = "replaying" /\ s.replay # <<>> /\ log' = log
      /\ client' = [client EXCEPT ![c] = e]
  BY DEF Replay
<1>2. /\ s \in Client \ {NoStream} /\ s.task \in Tasks /\ m \in Nat
      /\ s.replay \in Seq(Nat) /\ s.got \in Seq(Nat)
  BY <1>1, ClientFields DEF StreamInv, TypeInv, TypeOK
<1>3. /\ s.inbox = <<>>
      /\ Increasing(s.got) /\ Below(s.got, m)
      /\ Increasing(s.replay) /\ Below(s.replay, m)
      /\ \A i \in 1..Len(s.got), j \in 1..Len(s.replay) : s.got[i] < s.replay[j]
  BY <1>1 DEF StreamInv, ResponsesOK, ResponseInv
<1>4. /\ e.pc = "replaying" /\ e.inbox = <<>> /\ e.task = s.task
      /\ e.got = Append(s.got, Head(s.replay)) /\ e.replay = Tail(s.replay)
  BY <1>1, <1>2, <1>3 DEF Client, NoStream
<1> HIDE DEF e
<1>5. ResponseInv(e, m)
  <2> HIDE DEF s, m
  <2>1. /\ Increasing(Append(s.got, Head(s.replay)))
        /\ Below(Append(s.got, Head(s.replay)), m)
        /\ Increasing(Tail(s.replay)) /\ Below(Tail(s.replay), m)
        /\ \A i \in 1..Len(Append(s.got, Head(s.replay))),
              j \in 1..Len(Tail(s.replay)) :
             Append(s.got, Head(s.replay))[i] < Tail(s.replay)[j]
    BY <1>1, <1>2, <1>3, ReplayOrder
  <2>2. QED BY <1>4, <2>1 DEF ResponseInv
<1>6. QED BY <1>1, <1>4, <1>5, ResponseStep DEF StreamInv, TypeInv

\* So is an event taken from the listener queue.
LEMMA FollowStepOrder ==
    ASSUME StreamInv, NEW c \in Clients, Follow(c) PROVE ResponsesOK'
<1> DEFINE s == client[c]
           m == Len(log[s.task])
           e == [s EXCEPT !.got = Append(s.got, Head(s.inbox)),
                          !.inbox = Tail(s.inbox)]
           f == [s EXCEPT !.pc = "ended", !.inbox = Tail(s.inbox)]
<1>1. /\ s.pc = "live" /\ s.inbox # <<>> /\ log' = log
      /\ IF Head(s.inbox) = EOF THEN client' = [client EXCEPT ![c] = f]
                                ELSE client' = [client EXCEPT ![c] = e]
  BY DEF Follow
<1>2. /\ s \in Client \ {NoStream} /\ s.task \in Tasks /\ m \in Nat
      /\ s.inbox \in Seq(Nat) /\ s.got \in Seq(Nat)
  BY <1>1, ClientFields DEF StreamInv, TypeInv, TypeOK
<1>3. /\ Increasing(s.got) /\ Below(s.got, m) /\ Rising(s.inbox)
      /\ Below(s.inbox, m) /\ Precedes(s.got, s.inbox)
  BY <1>1 DEF StreamInv, ResponsesOK, ResponseInv
<1>4. /\ e.pc = "live" /\ e.task = s.task
      /\ e.got = Append(s.got, Head(s.inbox)) /\ e.inbox = Tail(s.inbox)
      /\ f.pc = "ended" /\ f.task = s.task /\ f.got = s.got
  BY <1>1, <1>2 DEF Client, NoStream
<1> HIDE DEF e, f
<1>5. CASE Head(s.inbox) = EOF
  <2>1. ResponseInv(f, Len(log[f.task]))
    BY <1>3, <1>4 DEF ResponseInv
  <2>2. QED BY <1>1, <1>5, <2>1, ResponseStep DEF StreamInv, TypeInv
<1>6. CASE Head(s.inbox) # EOF
  <2>1. ResponseInv(e, m)
    <3> HIDE DEF s, m
    <3>1. /\ Increasing(Append(s.got, Head(s.inbox)))
          /\ Below(Append(s.got, Head(s.inbox)), m)
          /\ Rising(Tail(s.inbox)) /\ Below(Tail(s.inbox), m)
          /\ Precedes(Append(s.got, Head(s.inbox)), Tail(s.inbox))
      BY <1>1, <1>2, <1>3, <1>6, FollowOrder
    <3>2. QED BY <1>4, <3>1 DEF ResponseInv
  <2>2. QED BY <1>1, <1>4, <1>6, <2>1, ResponseStep DEF StreamInv, TypeInv
<1>7. QED BY <1>5, <1>6

\* What Record does to the log.
LEMMA RecordLog ==
    ASSUME TypeInv, NEW t \in Tasks, NEW kind, NEW ok, Record(t, kind, ok)
    PROVE  /\ Len(log'[t]) = Len(log[t]) + 1
           /\ \A u \in Tasks : u # t => log'[u] = log[u]
           /\ Len(log[t]) \in Nat
BY DEF Record, TypeInv, TypeOK

\* Updates are published above everything before them.
LEMMA WorkerUpdateOrder == ASSUME StreamInv, WorkerUpdate PROVE ResponsesOK'
<1> DEFINE t == worker.task
           n == Len(log[t])
           evs == <<n + 1>>
<1>1. t \in Tasks /\ active[t] # 0 /\ up
  BY WorkerFields DEF WorkerUpdate, StreamInv, Objects
<1>2. PICK ok \in [1..1 -> BOOLEAN] : Record(t, "update", ok[1])
  BY DEF WorkerUpdate
<1>3. Len(log'[t]) = n + 1 /\ n \in Nat /\ \A u \in Tasks : u # t => log'[u] = log[u]
  BY <1>1, <1>2, RecordLog DEF StreamInv
<1>4. Deliver(t, evs)
  BY DEF WorkerUpdate
<1> HIDE DEF n, t
<1>5. evs \in Seq(Nat) /\ Rising(evs) /\ \A i \in 1..Len(evs) : evs[i] = n + 1
  BY <1>3 DEF Rising
<1>6. n <= n + 1 /\ n < n + 1 /\ n + 1 <= n + 1 /\ n + 1 \in Nat
  BY <1>3
<1>7. \A i \in 1..Len(evs) : evs[i] # EOF => n < evs[i] /\ evs[i] <= n + 1
  BY <1>5, <1>6
<1> HIDE DEF evs
<1>8. QED BY <1>1, <1>3, <1>4, <1>5, <1>6, <1>7, DeliverOrder DEF n

\* So is the event that ends a run, and EOF after it.
LEMMA EndRunOrder ==
    ASSUME StreamInv, up, worker # Idle, NEW st, NEW kind, EndRun(st, kind)
    PROVE  ResponsesOK'
<1> DEFINE t == worker.task
           n == Len(log[t])
           evs == <<n + 1, EOF>>
<1>1. t \in Tasks /\ active[t] # 0
  BY WorkerFields DEF StreamInv, Objects
<1>2. PICK ok \in [1..2 -> BOOLEAN] : Record(t, kind, ok[2])
  BY DEF EndRun
<1>3. Len(log'[t]) = n + 1 /\ n \in Nat /\ \A u \in Tasks : u # t => log'[u] = log[u]
  BY <1>1, <1>2, RecordLog DEF StreamInv
<1>4. Deliver(t, evs)
  BY DEF EndRun
<1> HIDE DEF n, t
<1>5. evs \in Seq(Nat) /\ Len(evs) = 2 /\ evs[1] = n + 1 /\ evs[2] = EOF
  BY <1>3 DEF EOF
<1>6. n <= n + 1 /\ n < n + 1 /\ n + 1 <= n + 1 /\ n + 1 \in Nat
  BY <1>3
<1> HIDE DEF evs
<1>7. \A i \in 1..Len(evs) : i = 1 \/ i = 2
  BY <1>5
<1>8. \A i \in 1..Len(evs) : evs[i] # EOF => n < evs[i] /\ evs[i] <= n + 1
  BY <1>5, <1>6, <1>7
<1>9. Rising(evs)
  BY <1>5, <1>7 DEF Rising
<1>10. QED BY <1>1, <1>3, <1>4, <1>5, <1>6, <1>8, <1>9, DeliverOrder DEF n

\* EOF alone.
LEMMA WorkerFinishOrder ==
    ASSUME StreamInv, WorkerFinish \/ WorkerDies PROVE ResponsesOK'
<1> DEFINE t == worker.task
           n == Len(log[t])
           evs == <<EOF>>
<1>1. t \in Tasks /\ active[t] # 0 /\ up /\ log' = log
  BY WorkerFields DEF WorkerFinish, WorkerDies, StreamInv, Objects
<1>2. n \in Nat /\ n <= n
  BY <1>1 DEF StreamInv, TypeInv, TypeOK
<1>3. Deliver(t, evs)
  BY DEF WorkerFinish, WorkerDies
<1>4. evs \in Seq(Nat) /\ Rising(evs) /\ \A i \in 1..Len(evs) : evs[i] = EOF
  BY DEF Rising, EOF
<1> HIDE DEF evs, t
<1>5. Len(log'[t]) = n /\ \A u \in Tasks : u # t => log'[u] = log[u]
  BY <1>1
<1>6. QED BY <1>1, <1>2, <1>3, <1>4, <1>5, DeliverOrder

\* Every step keeps every response in order.
LEMMA NextStream == ASSUME StreamInv, [Next]_vars PROVE ResponsesOK'
<1>0. TypeOK /\ ResponsesOK
  BY DEF StreamInv, TypeInv
<1>1. CASE \/ WorkerGet \/ Restart \/ UNCHANGED vars
           \/ \E t \in Tasks : AddTask(t) \/ CancelTask(t)
  <2>1. client' = client /\ log' = log
    BY <1>1 DEF WorkerGet, Restart, vars, AddTask, CancelTask
  <2>2. QED BY <1>0, <2>1 DEF ResponsesOK
<1>2. CASE WorkerUpdate
  BY <1>2, WorkerUpdateOrder
<1>3. CASE WorkerCancelled \/ WorkerFail
  BY <1>3, EndRunOrder DEF WorkerCancelled, WorkerFail
<1>4. CASE WorkerFinish \/ WorkerDies
  BY <1>4, WorkerFinishOrder
<1>5. ASSUME NEW c \in Clients, Stream(c) PROVE ResponsesOK'
  <2>1. CASE StartReplay(c)
    BY <2>1, StartReplayOrder
  <2>2. CASE Replay(c)
    BY <2>2, ReplayStepOrder
  <2>3. CASE EndReplay(c)
    BY <2>3, AttachOrder DEF EndReplay, StreamInv
  <2>4. CASE Follow(c)
    BY <2>4, FollowStepOrder
  <2>5. QED BY <1>5, <2>1, <2>2, <2>3, <2>4 DEF Stream
<1>6. ASSUME NEW c \in Clients, Disconnect(c) PROVE ResponsesOK'
  <2>1. client' = [client EXCEPT ![c] = NoStream] /\ log' = log
    BY <1>6 DEF Disconnect
  <2>2. NoStream.pc = "idle"
    BY DEF NoStream
  <2>3. QED BY <1>0, <2>1, <2>2, ResponseStep
<1>7. ASSUME NEW c \in Clients, NEW t \in Tasks, OpenStream(c, t)
      PROVE  ResponsesOK'
  <2>1. PICK after :
          client' = [client EXCEPT ![c] =
                       [pc |-> "opening", task |-> t, live |-> active[t],
                        after |-> after, replay |-> <<>>, inbox |-> <<>>,
                        got |-> <<>>, attached |-> 0]]
    BY <1>7 DEF OpenStream
  <2> DEFINE e == [pc |-> "opening", task |-> t, live |-> active[t],
                   after |-> after, replay |-> <<>>, inbox |-> <<>>,
                   got |-> <<>>, attached |-> 0]
  <2>2. ResponseInv(e, Len(log[e.task]))
    BY DEF ResponseInv, Increasing, Below
  <2>3. log' = log
    BY <1>7 DEF OpenStream
  <2> HIDE DEF e
  <2>4. QED BY <1>0, <2>1, <2>2, <2>3, ResponseStep DEF e
<1>8. CASE Crash
  <2>1. /\ log' = log
        /\ \A c \in Clients : client'[c].pc # "idle" => client'[c] = client[c]
    BY <1>8 DEF Crash, NoStream
  <2>2. QED BY <1>0, <2>1 DEF ResponsesOK
<1>9. QED
  BY <1>1, <1>2, <1>3, <1>4, <1>5, <1>6, <1>7, <1>8 DEF Next, Worker

\* No response ever repeats or reorders events, whatever its cursor, also when
\* the task object is replaced under it, and across restarts.
THEOREM StreamInOrder == Spec => []StreamOrdered
<1>1. Init => StreamInv
  <2> SUFFICES ASSUME Init PROVE StreamInv
    OBVIOUS
  <2>1. StoreOrdered
    BY TaskManagerAssumption DEF Init, StoreOrdered
  <2>2. ResponsesOK
    BY DEF Init, ResponsesOK, NoStream
  <2>3. QED BY <2>1, <2>2, InitType DEF StreamInv
<1>2. StreamInv /\ [Next]_vars => StreamInv'
  <2> SUFFICES ASSUME StreamInv, [Next]_vars PROVE StreamInv'
    OBVIOUS
  <2>1. TypeInv' /\ StoreOrdered'
    BY NextType, NextStore DEF StreamInv
  <2>2. ResponsesOK'
    BY NextStream
  <2>3. QED BY <2>1, <2>2 DEF StreamInv
<1>3. Spec => []StreamInv
  BY <1>1, <1>2, PTL DEF Spec
<1>4. StreamInv => StreamOrdered
  BY DEF StreamInv, ResponsesOK, ResponseInv, StreamOrdered
<1>5. QED
  BY <1>3, <1>4, PTL

----------------------------------------------------------------------------
(***************************************************************************)
(* What a response is owed.                                                *)
(***************************************************************************)

\* An open response belongs to this process; if it saw an object, its id still
\* denotes one, and it only waits for live events if it saw one.
OpenOK ==
    \A c \in Clients : client[c].pc \in OpenPc =>
      /\ up
      /\ client[c].live # 0 => active[client[c].task] # 0
      /\ client[c].pc = "live" => client[c].live # 0

LiveInv == TypeInv /\ OpenOK /\ NothingMissedLive

----------------------------------------------------------------------------
(***************************************************************************)
(* What a response has been sent.                                          *)
(***************************************************************************)

\* An entry of a concatenation is in one of the parts.
LEMMA InConcat ==
    ASSUME NEW s \in Seq(Nat), NEW q \in Seq(Nat), NEW x
    PROVE  InSeq(x, s \o q) <=> InSeq(x, s) \/ InSeq(x, q)
<1> DEFINE r == s \o q
<1>1. /\ Len(r) = Len(s) + Len(q) /\ Len(s) \in Nat /\ Len(q) \in Nat
      /\ \A i \in 1..Len(r) : r[i] = IF i <= Len(s) THEN s[i] ELSE q[i - Len(s)]
  OBVIOUS
<1> HIDE DEF r
<1>2. ASSUME NEW i \in 1..Len(r), r[i] = x PROVE InSeq(x, s) \/ InSeq(x, q)
  <2>1. CASE i <= Len(s)
    <3>1. i \in 1..Len(s) /\ s[i] = x
      BY <1>1, <1>2, <2>1
    <3>2. QED BY <3>1 DEF InSeq
  <2>2. CASE ~(i <= Len(s))
    <3>1. i - Len(s) \in 1..Len(q) /\ q[i - Len(s)] = x
      BY <1>1, <1>2, <2>2
    <3>2. QED BY <3>1 DEF InSeq
  <2>3. QED BY <2>1, <2>2
<1>3. ASSUME NEW i \in 1..Len(s), s[i] = x PROVE InSeq(x, r)
  <2>1. i \in 1..Len(r) /\ r[i] = x
    BY <1>1, <1>3
  <2>2. QED BY <2>1 DEF InSeq
<1>4. ASSUME NEW i \in 1..Len(q), q[i] = x PROVE InSeq(x, r)
  <2>1. i + Len(s) \in 1..Len(r) /\ ~(i + Len(s) <= Len(s)) /\ (i + Len(s)) - Len(s) = i
    BY <1>1
  <2>2. r[i + Len(s)] = x
    BY <1>1, <1>4, <2>1
  <2>3. QED BY <2>1, <2>2 DEF InSeq
<1>5. InSeq(x, r) => InSeq(x, s) \/ InSeq(x, q)
  BY <1>2 DEF InSeq
<1>6. InSeq(x, s) \/ InSeq(x, q) => InSeq(x, r)
  BY <1>3, <1>4 DEF InSeq
<1>7. QED BY <1>5, <1>6 DEF r

\* Taking the head of a queue: the entry moves, none is lost.
LEMMA InTail ==
    ASSUME NEW q \in Seq(Nat), q # <<>>, NEW x
    PROVE  InSeq(x, q) <=> x = Head(q) \/ InSeq(x, Tail(q))
<1>1. /\ Len(q) \in Nat /\ 1 \in 1..Len(q) /\ Head(q) = q[1]
      /\ Len(Tail(q)) = Len(q) - 1
  OBVIOUS
<1>2. \A i \in 1..Len(Tail(q)) : i + 1 \in 1..Len(q) /\ Tail(q)[i] = q[i + 1]
  <2>1. \A i \in 1..Len(Tail(q)) : i + 1 \in 1..Len(q)
    BY <1>1
  <2>2. QED BY <2>1, HeadTailProperties
<1>3. ASSUME NEW i \in 1..Len(q), q[i] = x, i # 1 PROVE InSeq(x, Tail(q))
  <2>1. i - 1 \in 1..Len(Tail(q)) /\ (i - 1) + 1 = i
    BY <1>1, <1>3
  <2>2. Tail(q)[i - 1] = x
    BY <1>2, <1>3, <2>1
  <2>3. QED BY <2>1, <2>2 DEF InSeq
<1>4. InSeq(x, q) => x = Head(q) \/ InSeq(x, Tail(q))
  BY <1>1, <1>3 DEF InSeq
<1>5. x = Head(q) => InSeq(x, q)
  BY <1>1 DEF InSeq
<1>6. InSeq(x, Tail(q)) => InSeq(x, q)
  BY <1>2 DEF InSeq
<1>7. QED BY <1>4, <1>5, <1>6

LEMMA InAppend ==
    ASSUME NEW s \in Seq(Nat), NEW y \in Nat, NEW x
    PROVE  InSeq(x, Append(s, y)) <=> InSeq(x, s) \/ x = y
<1> DEFINE r == Append(s, y)
<1>1. /\ Len(r) = Len(s) + 1 /\ Len(s) \in Nat /\ r[Len(s) + 1] = y
      /\ \A i \in 1..Len(s) : r[i] = s[i]
  OBVIOUS
<1> HIDE DEF r
<1>2. ASSUME NEW i \in 1..Len(r), r[i] = x PROVE InSeq(x, s) \/ x = y
  <2>1. i \in 1..Len(s) \/ i = Len(s) + 1
    BY <1>1
  <2>2. QED BY <1>1, <1>2, <2>1 DEF InSeq
<1>3. InSeq(x, s) => InSeq(x, r)
  <2>1. \A i \in 1..Len(s) : i \in 1..Len(r)
    BY <1>1
  <2>2. QED BY <1>1, <2>1 DEF InSeq
<1>4. InSeq(y, r)
  <2>1. Len(s) + 1 \in 1..Len(r)
    BY <1>1
  <2>2. QED BY <1>1, <2>1 DEF InSeq
<1>5. InSeq(x, r) => InSeq(x, s) \/ x = y
  BY <1>2 DEF InSeq
<1>6. QED BY <1>3, <1>4, <1>5 DEF r

\* Response s was sent the events m published since it attached.
Heard(s, m) == \A n \in (s.attached + 1)..m : InSeq(n, s.got \o s.inbox)

\* What a listener is sent on top of what it was sent.
LEMMA HeardMore ==
    ASSUME NEW s \in Client, s.pc # "idle", NEW evs \in Seq(Nat), NEW m \in Nat, NEW k \in Nat,
           Heard(s, m), \A n \in (m + 1)..k : InSeq(n, evs)
    PROVE  Heard([s EXCEPT !.inbox = s.inbox \o evs], k)
<1> DEFINE e == [s EXCEPT !.inbox = s.inbox \o evs]
<1>1. s.got \in Seq(Nat) /\ s.inbox \in Seq(Nat) /\ s.attached \in Nat
  BY DEF Client, NoStream
<1>2. e.got = s.got /\ e.inbox = s.inbox \o evs /\ e.attached = s.attached
  BY DEF Client, NoStream
<1>3. s.inbox \o evs \in Seq(Nat)
  BY <1>1
<1> HIDE DEF e
<1> SUFFICES ASSUME NEW n \in (e.attached + 1)..k PROVE InSeq(n, e.got \o e.inbox)
  BY DEF Heard, e
<1>4. n \in (s.attached + 1)..m \/ n \in (m + 1)..k
  BY <1>1, <1>2
<1>5. InSeq(n, s.got \o s.inbox) \/ InSeq(n, evs)
  BY <1>4 DEF Heard
<1>6. InSeq(n, s.got) \/ InSeq(n, s.inbox) \/ InSeq(n, evs)
  BY <1>1, <1>5, InConcat
<1>7. InSeq(n, s.got) \/ InSeq(n, s.inbox \o evs)
  BY <1>1, <1>6, InConcat
<1>8. QED BY <1>1, <1>2, <1>3, <1>7, InConcat

\* What a response takes from its queue it has received.
LEMMA HeardStill ==
    ASSUME NEW s \in Client, s.pc # "idle", s.inbox # <<>>, NEW m \in Nat, Heard(s, m)
    PROVE  Heard([s EXCEPT !.got = Append(s.got, Head(s.inbox)), !.inbox = Tail(s.inbox)], m)
<1> DEFINE e == [s EXCEPT !.got = Append(s.got, Head(s.inbox)), !.inbox = Tail(s.inbox)]
<1>1. /\ s.got \in Seq(Nat) /\ s.inbox \in Seq(Nat) /\ s.attached \in Nat
      /\ Head(s.inbox) \in Nat /\ Tail(s.inbox) \in Seq(Nat)
      /\ Append(s.got, Head(s.inbox)) \in Seq(Nat)
  <2>1. s.got \in Seq(Nat) /\ s.inbox \in Seq(Nat) /\ s.attached \in Nat
    BY DEF Client, NoStream
  <2>2. QED BY <2>1
<1>2. /\ e.got = Append(s.got, Head(s.inbox)) /\ e.inbox = Tail(s.inbox)
      /\ e.attached = s.attached
  BY DEF Client, NoStream
<1> HIDE DEF e
<1> SUFFICES ASSUME NEW n \in (e.attached + 1)..m PROVE InSeq(n, e.got \o e.inbox)
  BY DEF Heard, e
<1>3. InSeq(n, s.got) \/ InSeq(n, s.inbox)
  BY <1>1, <1>2, InConcat DEF Heard
<1>4. InSeq(n, s.got) \/ n = Head(s.inbox) \/ InSeq(n, Tail(s.inbox))
  BY <1>1, <1>3, InTail
<1>5. InSeq(n, Append(s.got, Head(s.inbox))) \/ InSeq(n, Tail(s.inbox))
  BY <1>1, <1>4, InAppend
<1>6. QED BY <1>1, <1>2, <1>5, InConcat

----------------------------------------------------------------------------
(***************************************************************************)
(* Nothing is missed from the moment a response listens.                   *)
(***************************************************************************)

\* A step of one response.
LEMMA ClientLive ==
    ASSUME LiveInv, up, NEW c \in Clients, NEW e \in Client,
           client' = [client EXCEPT ![c] = e], UNCHANGED <<up, active, log>>,
           \A o \in Objects : object'[o].listeners \ {c} = object[o].listeners \ {c},
           e.pc \in OpenPc => /\ e.live # 0 => active[e.task] # 0
                              /\ e.pc = "live" => e.live # 0,
           e.pc = "live" /\ c \in object'[active[e.task]].listeners
             => Heard(e, Len(log[e.task]))
    PROVE  OpenOK' /\ NothingMissedLive'
<1>1. \A d \in Clients : client'[d] = IF d = c THEN e ELSE client[d]
  BY DEF LiveInv, TypeInv, TypeOK
<1>2. OpenOK'
  BY <1>1 DEF LiveInv, OpenOK
<1>3. ASSUME NEW d \in Clients, client'[d].pc = "live",
             d \in object'[active[client'[d].task]].listeners
      PROVE  Heard(client'[d], Len(log[client'[d].task]))
  <2>1. CASE d = c
    BY <1>1, <1>3, <2>1
  <2>2. CASE d # c
    <3>1. client'[d] = client[d]
      BY <1>1, <2>2
    <3>2. client[d].task \in Tasks
      BY <1>3, <3>1, ClientFields DEF LiveInv, TypeInv
    <3>3. active[client[d].task] # 0
      BY <1>3, <3>1 DEF LiveInv, OpenOK, OpenPc
    <3>4. active[client[d].task] \in Objects
      BY <3>2, <3>3 DEF LiveInv, TypeInv, TypeOK, Objects
    <3>5. d \in object[active[client[d].task]].listeners
      BY <1>3, <2>2, <3>1, <3>4
    <3>6. QED BY <1>3, <3>1, <3>5 DEF LiveInv, NothingMissedLive, Attached, Heard
  <2>3. QED BY <2>1, <2>2
<1>4. QED BY <1>2, <1>3 DEF NothingMissedLive, Attached, Heard

\* A step that publishes every new event of the id to all listeners.
LEMMA DeliverLive ==
    ASSUME LiveInv, up, NEW t \in Tasks, active[t] # 0, NEW evs \in Seq(Nat),
           Deliver(t, evs), UNCHANGED <<up, active>>,
           \A o \in Objects : object'[o].listeners = object[o].listeners,
           \A u \in Tasks : u # t => log'[u] = log[u],
           NEW k \in Nat, Len(log'[t]) = k,
           \A n \in (Len(log[t]) + 1)..k : InSeq(n, evs)
    PROVE  OpenOK' /\ NothingMissedLive'
<1>1. \A c \in Clients : \/ client'[c] = client[c]
                         \/ /\ c \in object[active[t]].listeners
                            /\ client'[c] = [client[c] EXCEPT !.inbox = client[c].inbox \o evs]
  BY DEF Deliver
<1>2. \A c \in Clients : c \in object[active[t]].listeners =>
        client[c].pc = "live" /\ client[c].task = t
  BY DEF LiveInv, TypeInv, ListenersOK
<1>3. ASSUME NEW c \in Clients, c \in object[active[t]].listeners,
             client'[c] = [client[c] EXCEPT !.inbox = client[c].inbox \o evs]
      PROVE  /\ client'[c].pc = "live" /\ client'[c].task = t
             /\ client'[c].live = client[c].live
  <2>1. client[c].pc = "live" /\ client[c].task = t
    BY <1>2, <1>3
  <2>2. client[c] \in Client \ {NoStream}
    BY <2>1, ClientFields DEF LiveInv, TypeInv
  <2>3. QED BY <1>3, <2>1, <2>2 DEF Client
<1>4. OpenOK'
  <2> SUFFICES ASSUME NEW c \in Clients, client'[c].pc \in OpenPc
               PROVE  /\ up' /\ client'[c].live # 0 => active'[client'[c].task] # 0
                      /\ client'[c].pc = "live" => client'[c].live # 0
    BY DEF OpenOK
  <2>1. CASE client'[c] = client[c]
    BY <2>1 DEF LiveInv, OpenOK
  <2>2. CASE /\ c \in object[active[t]].listeners
             /\ client'[c] = [client[c] EXCEPT !.inbox = client[c].inbox \o evs]
    <3>1. client[c].live # 0
      BY <1>2, <2>2 DEF LiveInv, OpenOK, OpenPc
    <3>2. QED BY <1>3, <2>2, <3>1
  <2>3. QED BY <1>1, <2>1, <2>2
<1>5. ASSUME NEW c \in Clients, client'[c].pc = "live",
             c \in object'[active[client'[c].task]].listeners
      PROVE  Heard(client'[c], Len(log'[client'[c].task]))
  <2>1. CASE c \in object[active[t]].listeners
    <3>1. client[c].pc = "live" /\ client[c].task = t
      BY <1>2, <2>1
    <3>2. client'[c] = [client[c] EXCEPT !.inbox = client[c].inbox \o evs]
      BY <2>1 DEF Deliver
    <3>3. client[c] \in Client /\ client[c].pc # "idle"
      BY <3>1 DEF LiveInv, TypeInv, TypeOK
    <3>4. Heard(client[c], Len(log[t]))
      BY <2>1, <3>1 DEF LiveInv, NothingMissedLive, Attached, Heard
    <3>5. Len(log[t]) \in Nat
      BY DEF LiveInv, TypeInv, TypeOK
    <3>6. Heard(client'[c], k)
      BY <3>2, <3>3, <3>4, <3>5, HeardMore
    <3>7. client'[c].task = t
      BY <1>3, <2>1, <3>2
    <3>8. QED BY <3>6, <3>7
  <2>2. CASE c \notin object[active[t]].listeners
    <3>1. client'[c] = client[c]
      BY <1>1, <2>2
    <3>2. client[c].task \in Tasks
      BY <1>5, <3>1, ClientFields DEF LiveInv, TypeInv
    <3>3. active[client[c].task] # 0
      BY <1>5, <3>1 DEF LiveInv, OpenOK, OpenPc
    <3>4. active[client[c].task] \in Objects
      BY <3>2, <3>3 DEF LiveInv, TypeInv, TypeOK, Objects
    <3>5. c \in object[active[client[c].task]].listeners
      BY <1>5, <3>1, <3>4
    <3>6. client[c].task # t
      BY <2>2, <3>5
    <3>7. log'[client[c].task] = log[client[c].task]
      BY <3>2, <3>6
    <3>8. QED
      BY <1>5, <3>1, <3>5, <3>7 DEF LiveInv, NothingMissedLive, Attached, Heard
  <2>3. QED BY <2>1, <2>2
<1>6. QED BY <1>4, <1>5 DEF NothingMissedLive, Attached, Heard

\* The step that adds the listener notes how much was published.
LEMMA AttachLive ==
    ASSUME LiveInv, up, NEW c \in Clients, client[c].pc \in {"opening", "replaying"},
           Attach(c), UNCHANGED <<up, active, log>>
    PROVE  OpenOK' /\ NothingMissedLive'
<1> DEFINE s == client[c]
           e == [s EXCEPT !.pc = "ended"]
           f == [s EXCEPT !.pc = "live", !.attached = Len(log[s.task])]
<1>1. s \in Client \ {NoStream} /\ s.task \in Tasks /\ Len(log[s.task]) \in Nat
  BY ClientFields DEF LiveInv, TypeInv, TypeOK
<1>2. s.live # 0 => active[s.task] # 0
  BY DEF LiveInv, OpenOK, OpenPc
<1>3. /\ e \in Client /\ e.pc = "ended"
      /\ f \in Client /\ f.pc = "live" /\ f.task = s.task /\ f.live = s.live
      /\ f.attached = Len(log[s.task])
  BY <1>1 DEF Client, OpenPc
<1>4. CASE s.live = 0 \/ object[s.live].status \in Terminal
  <2>1. client' = [client EXCEPT ![c] = e] /\ object' = object
    BY <1>4 DEF Attach
  <2> HIDE DEF e
  <2>2. QED BY <1>3, <2>1, ClientLive DEF OpenPc
<1>5. CASE ~(s.live = 0 \/ object[s.live].status \in Terminal)
  <2>1. /\ client' = [client EXCEPT ![c] = f]
        /\ object' = [object EXCEPT ![active[s.task]].listeners = @ \cup {c}]
    BY <1>5 DEF Attach
  <2>2. \A o \in Objects : object'[o].listeners \ {c} = object[o].listeners \ {c}
    BY <2>1 DEF LiveInv, TypeInv, TypeOK, Object
  <2>3. Heard(f, Len(log[f.task]))
    BY <1>1, <1>3 DEF Heard
  <2> HIDE DEF f
  <2>4. QED BY <1>2, <1>3, <1>5, <2>1, <2>2, <2>3, ClientLive
<1>6. QED BY <1>4, <1>5

\* The other steps of a response.
LEMMA StreamLive ==
    ASSUME LiveInv, NEW c \in Clients, Stream(c) PROVE OpenOK' /\ NothingMissedLive'
<1> DEFINE s == client[c]
<1>1. up /\ s.pc \in OpenPc /\ UNCHANGED <<up, active, log>>
  BY DEF Stream, StartReplay, Replay, EndReplay, Follow, OpenPc, memory
<1>2. /\ s \in Client \ {NoStream} /\ s.task \in Tasks /\ s.pc # "idle"
      /\ s.inbox \in Seq(Nat) /\ s.replay \in Seq(Nat) /\ s.got \in Seq(Nat)
      /\ s.live # 0 => active[s.task] # 0
      /\ s.pc = "live" => s.live # 0
  BY <1>1, ClientFields DEF LiveInv, TypeInv, OpenOK, OpenPc
<1>4. TypeInv'
  BY StartReplayType, ReplayType, EndReplayType, FollowType DEF Stream, LiveInv
<1>5. client'[c] \in Client
  BY <1>4 DEF TypeInv, TypeOK
<1>6. ASSUME NEW e, client' = [client EXCEPT ![c] = e], object' = object,
             e.pc \in OpenPc \ {"live"} => e.live = s.live /\ e.task = s.task,
             e.pc # "live"
      PROVE  OpenOK' /\ NothingMissedLive'
  <2>1. e \in Client
    BY <1>5, <1>6 DEF LiveInv, TypeInv, TypeOK
  <2>2. e.pc \in OpenPc => /\ e.live # 0 => active[e.task] # 0
                           /\ e.pc = "live" => e.live # 0
    BY <1>2, <1>6
  <2>3. QED BY <1>1, <1>6, <2>1, <2>2, ClientLive
<1>7. CASE StartReplay(c)
  <2> DEFINE rs == rows[s.task]
  <2>1. PICK k \in 0..Len(rs) :
          LET n == IF Len(rs) - k < ReplayLimit THEN Len(rs) - k
                                                ELSE ReplayLimit IN
          IF n = 0
          THEN Attach(c)
          ELSE /\ client' = [client EXCEPT
                               ![c].pc = "replaying",
                               ![c].got = <<rs[k + 1].ev>>,
                               ![c].replay =
                                  [i \in 1..(n - 1) |-> rs[k + 1 + i].ev]]
               /\ UNCHANGED object
    BY <1>7 DEF StartReplay
  <2>2. CASE Attach(c)
    BY <1>1, <1>7, <2>2, AttachLive DEF StartReplay
  <2>3. ASSUME NEW g, NEW r, object' = object,
               client' = [client EXCEPT ![c].pc = "replaying", ![c].got = g, ![c].replay = r]
        PROVE  OpenOK' /\ NothingMissedLive'
    <3> DEFINE e == [s EXCEPT !.pc = "replaying", !.got = g, !.replay = r]
    <3>1. e.pc = "replaying" /\ e.live = s.live /\ e.task = s.task
      BY <1>2 DEF Client
    <3>2. client' = [client EXCEPT ![c] = e]
      BY <2>3
    <3> HIDE DEF e
    <3>3. QED BY <1>6, <2>3, <3>1, <3>2
  <2> HIDE DEF rs
  <2>4. QED BY <2>1, <2>2, <2>3
<1>8. CASE Replay(c)
  <2> DEFINE e == [s EXCEPT !.got = Append(s.got, Head(s.replay)), !.replay = Tail(s.replay)]
  <2>1. client' = [client EXCEPT ![c] = e] /\ object' = object /\ s.pc = "replaying"
    BY <1>8 DEF Replay, memory
  <2>2. e.pc = "replaying" /\ e.live = s.live /\ e.task = s.task
    BY <1>2, <2>1 DEF Client
  <2> HIDE DEF e
  <2>3. QED BY <1>6, <2>1, <2>2
<1>9. CASE EndReplay(c)
  BY <1>1, <1>9, AttachLive DEF EndReplay
<1>10. CASE Follow(c)
  <2>0. s.pc = "live" /\ s.inbox # <<>>
    BY <1>10 DEF Follow
  <2>1. CASE Head(s.inbox) = EOF
    <3> DEFINE e == [s EXCEPT !.pc = "ended", !.inbox = Tail(s.inbox)]
    <3>1. client' = [client EXCEPT ![c] = e] /\ Detach(c)
      BY <1>10, <2>1 DEF Follow
    <3>2. e \in Client /\ e.pc = "ended"
      <4>1. e.pc = "ended"
        BY <1>2 DEF Client
      <4>2. e \in Client
        BY <1>5, <3>1 DEF LiveInv, TypeInv, TypeOK
      <4>3. QED BY <4>1, <4>2
    <3>3. \A o \in Objects : object'[o].listeners \ {c} = object[o].listeners \ {c}
      BY <1>1, <1>2, <3>1, DetachType DEF LiveInv
    <3> HIDE DEF e
    <3>4. QED BY <1>1, <3>1, <3>2, <3>3, ClientLive DEF OpenPc
  <2>2. CASE Head(s.inbox) # EOF
    <3> DEFINE e == [s EXCEPT !.got = Append(s.got, Head(s.inbox)), !.inbox = Tail(s.inbox)]
    <3>1. client' = [client EXCEPT ![c] = e] /\ object' = object
      BY <1>10, <2>2 DEF Follow
    <3>2. e.pc = "live" /\ e.live = s.live /\ e.task = s.task
      BY <1>2, <2>0 DEF Client
    <3>3. e \in Client
      BY <1>5, <3>1 DEF LiveInv, TypeInv, TypeOK
    <3>4. Len(log[s.task]) \in Nat
      BY <1>2 DEF LiveInv, TypeInv, TypeOK
    <3>5. ASSUME c \in object[active[s.task]].listeners PROVE Heard(e, Len(log[s.task]))
      <4>1. Heard(s, Len(log[s.task]))
        BY <1>1, <2>0, <3>5 DEF LiveInv, NothingMissedLive, Attached, Heard
      <4> HIDE DEF s
      <4>2. QED BY <1>2, <2>0, <3>4, <4>1, HeardStill
    <3> HIDE DEF e
    <3>6. QED BY <1>1, <1>2, <2>0, <3>1, <3>2, <3>3, <3>5, ClientLive
  <2>3. QED BY <2>1, <2>2
<1>11. QED BY <1>7, <1>8, <1>9, <1>10 DEF Stream

\* A response that goes away, and one that comes.
LEMMA ConnectLive ==
    ASSUME LiveInv, NEW c \in Clients,
           Disconnect(c) \/ \E t \in Tasks : OpenStream(c, t)
    PROVE  OpenOK' /\ NothingMissedLive'
<1>1. CASE Disconnect(c)
  <2>1. /\ up /\ client' = [client EXCEPT ![c] = NoStream] /\ client[c].pc # "idle"
        /\ UNCHANGED <<up, active, log>>
    BY <1>1 DEF Disconnect
  <2>2. \A o \in Objects : object'[o].listeners \ {c} = object[o].listeners \ {c}
    <3>1. CASE client[c].pc = "live"
      BY <1>1, <2>1, <3>1, DetachType DEF Disconnect, LiveInv
    <3>2. CASE client[c].pc # "live"
      BY <1>1, <3>2 DEF Disconnect
    <3>3. QED BY <3>1, <3>2
  <2>3. NoStream \in Client /\ NoStream.pc = "idle"
    BY DEF Client, NoStream
  <2>4. QED BY <2>1, <2>2, <2>3, ClientLive DEF OpenPc
<1>2. ASSUME NEW t \in Tasks, OpenStream(c, t) PROVE OpenOK' /\ NothingMissedLive'
  <2>1. PICK after \in {0} \cup {rows[t][i].seq : i \in 1..Len(rows[t])} :
          client' = [client EXCEPT ![c] =
                       [pc |-> "opening", task |-> t, live |-> active[t],
                        after |-> after, replay |-> <<>>, inbox |-> <<>>,
                        got |-> <<>>, attached |-> 0]]
    BY <1>2 DEF OpenStream
  <2> DEFINE e == [pc |-> "opening", task |-> t, live |-> active[t],
                   after |-> after, replay |-> <<>>, inbox |-> <<>>,
                   got |-> <<>>, attached |-> 0]
  <2>2. e.pc = "opening" /\ e.live = active[t] /\ e.task = t
    OBVIOUS
  <2>3. up /\ UNCHANGED <<up, active, object, log>>
    BY <1>2 DEF OpenStream, memory
  <2>4. TypeInv'
    BY <1>2, OpenStreamType DEF LiveInv
  <2> HIDE DEF e
  <2>5. client' = [client EXCEPT ![c] = e]
    BY <2>1 DEF e
  <2>6. e \in Client
    BY <2>4, <2>5 DEF LiveInv, TypeInv, TypeOK
  <2>7. QED BY <2>2, <2>3, <2>5, <2>6, ClientLive
<1>3. QED BY <1>1, <1>2

\* What the worker publishes reaches every listener, the disk permitting or not.
LEMMA WorkerLive ==
    ASSUME LiveInv, \/ WorkerUpdate \/ WorkerCancelled \/ WorkerFail \/ WorkerFinish
                    \/ WorkerDies
    PROVE  OpenOK' /\ NothingMissedLive'
<1> DEFINE t == worker.task
           n == Len(log[t])
<1>1. /\ up /\ worker # Idle /\ UNCHANGED <<up, active>>
      /\ t \in Tasks /\ active[t] # 0 /\ worker.obj \in Objects /\ n \in Nat
  <2>1. up /\ worker # Idle /\ UNCHANGED <<up, active>>
    BY DEF WorkerUpdate, WorkerCancelled, WorkerFail, WorkerFinish, WorkerDies, EndRun,
           memory
  <2>2. QED BY <2>1, WorkerFields DEF LiveInv, TypeInv, TypeOK, Objects
<1>2. ASSUME NEW s, object' = [object EXCEPT ![worker.obj].status = s]
      PROVE  \A o \in Objects : object'[o].listeners = object[o].listeners
  BY <1>1, <1>2 DEF LiveInv, TypeInv, TypeOK, Object
<1>3. \A o \in Objects : object'[o].listeners = object[o].listeners
  BY <1>2 DEF WorkerUpdate, WorkerCancelled, WorkerFail, WorkerFinish, WorkerDies, EndRun,
              memory
<1>4. ASSUME NEW kind, NEW ok, Record(t, kind, ok)
      PROVE  Len(log'[t]) = n + 1 /\ \A u \in Tasks : u # t => log'[u] = log[u]
  BY <1>1, <1>4, RecordLog DEF LiveInv
<1>5. CASE WorkerUpdate
  <2> DEFINE evs == <<n + 1>>
  <2>1. Deliver(t, evs) /\ \E ok : Record(t, "update", ok)
    BY <1>5 DEF WorkerUpdate
  <2>2. Len(log'[t]) = n + 1 /\ \A u \in Tasks : u # t => log'[u] = log[u]
    BY <1>4, <2>1
  <2>3. evs \in Seq(Nat) /\ InSeq(n + 1, evs)
    BY <1>1 DEF InSeq
  <2>4. \A m \in (n + 1)..(n + 1) : m = n + 1
    BY <1>1
  <2>5. n + 1 \in Nat
    BY <1>1
  <2> HIDE DEF evs
  <2>6. QED BY <1>1, <1>3, <2>1, <2>2, <2>3, <2>4, <2>5, DeliverLive
<1>6. CASE WorkerCancelled \/ WorkerFail
  <2> DEFINE evs == <<n + 1, EOF>>
  <2>1. Deliver(t, evs) /\ \E kind, ok : Record(t, kind, ok)
    BY <1>6 DEF WorkerCancelled, WorkerFail, EndRun
  <2>2. Len(log'[t]) = n + 1 /\ \A u \in Tasks : u # t => log'[u] = log[u]
    BY <1>4, <2>1
  <2>3. evs \in Seq(Nat) /\ InSeq(n + 1, evs)
    BY <1>1 DEF InSeq, EOF
  <2>4. \A m \in (n + 1)..(n + 1) : m = n + 1
    BY <1>1
  <2>5. n + 1 \in Nat
    BY <1>1
  <2> HIDE DEF evs
  <2>6. QED BY <1>1, <1>3, <2>1, <2>2, <2>3, <2>4, <2>5, DeliverLive
<1>7. CASE WorkerFinish \/ WorkerDies
  <2>1. Deliver(t, <<EOF>>) /\ log' = log
    BY <1>7 DEF WorkerFinish, WorkerDies
  <2>2. <<EOF>> \in Seq(Nat) /\ \A m \in (n + 1)..n : FALSE
    BY <1>1 DEF EOF
  <2>3. QED BY <1>1, <1>3, <2>1, <2>2, DeliverLive
<1>8. QED BY <1>5, <1>6, <1>7

\* A new object has no listener yet: whoever listened to the old one does not
\* count as listening.
LEMMA AddLive ==
    ASSUME LiveInv, NEW t \in Tasks, AddTask(t) PROVE OpenOK' /\ NothingMissedLive'
<1>1. /\ active' = [active EXCEPT ![t] = added + 1] /\ added + 1 \in Objects
      /\ object' = [object EXCEPT ![added + 1] = NewObject]
      /\ UNCHANGED <<up, log, client>> /\ added + 1 # 0
  BY TaskManagerAssumption DEF AddTask, LiveInv, TypeInv, TypeOK, Objects
<1>2. OpenOK'
  <2>1. ASSUME NEW c \in Clients, client[c].pc \in OpenPc, client[c].live # 0
        PROVE  active'[client[c].task] # 0
    <3>1. active[client[c].task] # 0 /\ client[c].task \in Tasks
      BY <2>1, ClientFields DEF LiveInv, OpenOK, TypeInv, OpenPc
    <3>2. QED BY <1>1, <3>1 DEF LiveInv, TypeInv, TypeOK
  <2>2. QED BY <1>1, <2>1 DEF LiveInv, OpenOK
<1>3. ASSUME NEW c \in Clients, client[c].pc = "live",
             c \in object'[active'[client[c].task]].listeners
      PROVE  c \in object[active[client[c].task]].listeners
  <2>1. client[c].task \in Tasks /\ active[client[c].task] # 0
    BY <1>3, ClientFields DEF LiveInv, OpenOK, TypeInv, OpenPc
  <2>2. object'[added + 1].listeners = {}
    BY <1>1 DEF NewObject, LiveInv, TypeInv, TypeOK
  <2>3. client[c].task # t
    BY <1>1, <1>3, <2>2 DEF LiveInv, TypeInv, TypeOK
  <2>4. active'[client[c].task] = active[client[c].task]
    BY <1>1, <2>1, <2>3 DEF LiveInv, TypeInv, TypeOK
  <2>5. active[client[c].task] # added + 1
    <3>1. active[client[c].task] <= added /\ added \in Nat
      BY <2>1 DEF LiveInv, TypeInv, ActiveOK, TypeOK
    <3>2. QED BY <3>1
  <2>6. QED BY <1>1, <1>3, <2>4, <2>5 DEF LiveInv, TypeInv, TypeOK
<1>4. QED BY <1>1, <1>2, <1>3 DEF LiveInv, NothingMissedLive, Attached

\* Steps that do not concern the responses, the death of the process and its
\* next start.
LEMMA OtherLive ==
    ASSUME LiveInv, \/ \E t \in Tasks : CancelTask(t)
                    \/ WorkerGet \/ Crash \/ Restart \/ UNCHANGED vars
    PROVE  OpenOK' /\ NothingMissedLive'
<1>1. ASSUME UNCHANGED <<up, active, log, client>>,
             \A o \in Objects : object'[o].listeners = object[o].listeners
      PROVE  OpenOK' /\ NothingMissedLive'
  <2>1. OpenOK'
    BY <1>1 DEF LiveInv, OpenOK
  <2>2. ASSUME NEW c \in Clients, Attached(c)' PROVE Attached(c)
    <3>1. client[c].pc = "live"
      BY <1>1, <2>2 DEF Attached
    <3>2. client[c].task \in Tasks /\ active[client[c].task] # 0
      BY <3>1, ClientFields DEF LiveInv, OpenOK, TypeInv, OpenPc
    <3>3. active[client[c].task] \in Objects
      BY <3>2 DEF LiveInv, TypeInv, TypeOK, Objects
    <3>4. QED BY <1>1, <2>2, <3>3 DEF Attached
  <2>3. QED BY <1>1, <2>1, <2>2 DEF LiveInv, NothingMissedLive
<1>2. ASSUME NEW t \in Tasks, CancelTask(t) PROVE OpenOK' /\ NothingMissedLive'
  <2>1. /\ object' = [object EXCEPT ![active[t]].cancelled = TRUE]
        /\ UNCHANGED <<up, active, log, client>>
    BY <1>2 DEF CancelTask
  <2>2. \A o \in Objects : object'[o].listeners = object[o].listeners
    BY <2>1 DEF LiveInv, TypeInv, TypeOK, Object
  <2>3. QED BY <1>1, <2>1, <2>2
<1>3. CASE WorkerGet
  <2>1. /\ object' = [object EXCEPT ![active[Head(queue)]].status = "running"]
        /\ UNCHANGED <<up, active, log, client>>
    BY <1>3 DEF WorkerGet
  <2>2. \A o \in Objects : object'[o].listeners = object[o].listeners
    BY <2>1 DEF LiveInv, TypeInv, TypeOK, Object
  <2>3. QED BY <1>1, <2>1, <2>2
<1>4. CASE Crash
  <2>1. /\ ~up' /\ \A c \in Clients : client'[c].pc \notin OpenPc
    BY <1>4, ClientFields DEF Crash, NoStream, OpenPc
  <2>2. QED BY <2>1 DEF OpenOK, NothingMissedLive
<1>5. CASE Restart
  <2>1. \A c \in Clients : client[c].pc \notin OpenPc /\ client' = client
    BY <1>5 DEF Restart, LiveInv, OpenOK
  <2>2. QED BY <2>1 DEF OpenOK, NothingMissedLive, Attached, OpenPc
<1>6. CASE UNCHANGED vars
  BY <1>1, <1>6 DEF vars, memory
<1>7. QED BY <1>2, <1>3, <1>4, <1>5, <1>6

LEMMA InitLive == Init => LiveInv
<1> SUFFICES ASSUME Init PROVE LiveInv
  OBVIOUS
<1>1. \A c \in Clients : client[c].pc = "idle"
  BY DEF Init, NoStream
<1>2. QED BY <1>1, InitType DEF LiveInv, OpenOK, OpenPc, NothingMissedLive, Attached

LEMMA NextLive == LiveInv /\ [Next]_vars => LiveInv'
<1> SUFFICES ASSUME LiveInv, [Next]_vars PROVE LiveInv'
  OBVIOUS
<1>1. TypeInv'
  BY NextType DEF LiveInv
<1>2. OpenOK' /\ NothingMissedLive'
  BY StreamLive, ConnectLive, WorkerLive, AddLive, OtherLive DEF Next, Worker
<1>3. QED BY <1>1, <1>2 DEF LiveInv

\* From the moment a response listens it is sent every event that is published
\* under the id, the ones the disk refused included (add_listener, _push_event),
\* for any ids, lost writes and restarts.
THEOREM NothingMissed == Spec => []NothingMissedLive
<1>1. LiveInv => NothingMissedLive
  BY DEF LiveInv
<1>2. QED BY <1>1, InitLive, NextLive, PTL DEF Spec

----------------------------------------------------------------------------
(***************************************************************************)
(* Fresh ids: one object per id.                                           *)
(***************************************************************************)

\* An id is queued once, for an object that did not start, and the worker runs
\* the object its id denotes, which is not queued as well.
RunOK ==
    /\ \A i, k \in 1..Len(queue) : i < k => queue[i] # queue[k]
    /\ \A i \in 1..Len(queue) : object[active[queue[i]]].status = "pending"
    /\ worker # Idle => /\ worker.obj = active[worker.task]
                        /\ object[worker.obj].status = "running"
                        /\ \A i \in 1..Len(queue) : queue[i] # worker.task

\* The object a response saw is the one its id denotes.
SightOK ==
    \A c \in Clients : client[c].pc \in OpenPc /\ client[c].live # 0 =>
      client[c].live = active[client[c].task]

FreshInv == LiveInv /\ RunOK /\ SightOK /\ EofReachesListeners /\ OneStory

\* What the worker's fields are then.
LEMMA QueueFields ==
    ASSUME TypeInv
    PROVE  /\ queue \in Seq(Tasks) /\ Len(queue) \in Nat
           /\ \A i \in 1..Len(queue) : queue[i] \in Tasks /\ active[queue[i]] \in Objects
           /\ \A t \in Tasks : active[t] # 0 => active[t] \in Objects
           /\ \A t, u \in Tasks : active[t] # 0 /\ t # u => active[t] # active[u]
<1>1. queue \in Seq(Tasks) /\ Len(queue) \in Nat
  BY DEF TypeInv, TypeOK
<1>2. \A i \in 1..Len(queue) : queue[i] \in Tasks
  BY <1>1, ElementOfSeq
<1>3. \A t \in Tasks : active[t] # 0 => active[t] \in Objects
  BY DEF TypeInv, TypeOK, Objects
<1>4. QED BY <1>1, <1>2, <1>3 DEF TypeInv, QueueOK, ActiveOK

\* A step of one response.
LEMMA ClientFresh ==
    ASSUME FreshInv, up, NEW c \in Clients, NEW e,
           client' = [client EXCEPT ![c] = e],
           UNCHANGED <<up, active, queue, worker, log, job, missed>>,
           \A o \in Objects : /\ object'[o].listeners \ {c} = object[o].listeners \ {c}
                              /\ object'[o].status = object[o].status,
           e.pc \in OpenPc /\ e.live # 0 => e.live = active[e.task],
           e.pc = "live" => e.task \in Tasks /\ active[e.task] # 0,
           (/\ e.pc = "live" /\ c \in object'[active[e.task]].listeners
            /\ object[active[e.task]].status \in Terminal)
             => InSeq(EOF, e.inbox)
    PROVE  RunOK' /\ SightOK' /\ EofReachesListeners' /\ OneStory'
<1>0. TypeInv
  BY DEF FreshInv, LiveInv
<1>1. \A d \in Clients : client'[d] = IF d = c THEN e ELSE client[d]
  BY <1>0 DEF TypeInv, TypeOK
<1>2. SightOK'
  BY <1>1 DEF FreshInv, SightOK
<1>3. RunOK'
  <2>1. worker # Idle => worker.obj \in Objects
    BY <1>0, WorkerFields
  <2>2. QED BY <1>0, <2>1, QueueFields DEF FreshInv, RunOK
<1>4. EofReachesListeners'
  <2> SUFFICES ASSUME NEW d \in Clients, client'[d].pc = "live",
                      d \in object'[active[client'[d].task]].listeners,
                      object'[active[client'[d].task]].status \in Terminal
               PROVE  InSeq(EOF, client'[d].inbox)
    BY DEF EofReachesListeners, Attached
  <2>1. CASE d = c
    <3>1. active[e.task] \in Objects
      BY <1>0, <1>1, <2>1, QueueFields
    <3>2. QED BY <1>1, <2>1, <3>1
  <2>2. CASE d # c
    <3>1. client'[d] = client[d]
      BY <1>1, <2>2
    <3>2. client[d].task \in Tasks /\ active[client[d].task] # 0
      BY <1>0, <3>1, ClientFields DEF TypeInv, FreshInv, LiveInv, OpenOK, OpenPc
    <3>3. active[client[d].task] \in Objects
      BY <1>0, <3>2, QueueFields
    <3>4. QED BY <2>2, <3>1, <3>3 DEF FreshInv, EofReachesListeners, Attached
  <2>3. QED BY <2>1, <2>2
<1>5. OneStory'
  BY <1>0, QueueFields DEF FreshInv, OneStory, VerdictAgrees, RowAgrees, Published
<1>6. QED BY <1>2, <1>3, <1>4, <1>5

\* The check of the status and add_listener are one step, on one object.
LEMMA AttachFresh ==
    ASSUME FreshInv, up, NEW c \in Clients, client[c].pc \in {"opening", "replaying"},
           Attach(c), UNCHANGED <<up, active, queue, worker, log, job, missed>>
    PROVE  RunOK' /\ SightOK' /\ EofReachesListeners' /\ OneStory'
<1> DEFINE s == client[c]
           e == [s EXCEPT !.pc = "ended"]
           f == [s EXCEPT !.pc = "live", !.attached = Len(log[s.task])]
<1>0. TypeInv
  BY DEF FreshInv, LiveInv
<1>1. s \in Client \ {NoStream} /\ s.task \in Tasks
  BY <1>0, ClientFields DEF TypeInv
<1>2. s.live # 0 => s.live = active[s.task] /\ active[s.task] # 0
  BY DEF FreshInv, SightOK, LiveInv, OpenOK, OpenPc
<1>3. /\ e.pc = "ended" /\ f.pc = "live" /\ f.task = s.task /\ f.live = s.live
  BY <1>1 DEF Client
<1>4. CASE s.live = 0 \/ object[s.live].status \in Terminal
  <2>1. client' = [client EXCEPT ![c] = e] /\ object' = object
    BY <1>4 DEF Attach
  <2> HIDE DEF e
  <2>2. e.pc \notin OpenPc /\ e.pc # "live"
    BY <1>3 DEF OpenPc
  <2>3. QED BY <2>1, <2>2, ClientFresh
<1>5. CASE ~(s.live = 0 \/ object[s.live].status \in Terminal)
  <2>1. /\ client' = [client EXCEPT ![c] = f]
        /\ object' = [object EXCEPT ![active[s.task]].listeners = @ \cup {c}]
    BY <1>5 DEF Attach
  <2>2. \A o \in Objects : /\ object'[o].listeners \ {c} = object[o].listeners \ {c}
                           /\ object'[o].status = object[o].status
    BY <1>0, <2>1 DEF TypeInv, TypeOK, Object
  <2>3. object[active[f.task]].status \notin Terminal
    BY <1>2, <1>3, <1>5
  <2> HIDE DEF f
  <2>4. QED BY <1>1, <1>2, <1>3, <1>5, <2>1, <2>2, <2>3, ClientFresh
<1>6. QED BY <1>4, <1>5

\* The other steps of a response.
LEMMA StreamFresh ==
    ASSUME FreshInv, NEW c \in Clients, Stream(c)
    PROVE  RunOK' /\ SightOK' /\ EofReachesListeners' /\ OneStory'
<1> DEFINE s == client[c]
<1>0. TypeInv
  BY DEF FreshInv, LiveInv
<1>1. /\ up /\ s.pc \in OpenPc
      /\ UNCHANGED <<up, active, queue, worker, log, job, missed>>
  BY DEF Stream, StartReplay, Replay, EndReplay, Follow, OpenPc, memory, disk
<1>2. /\ s \in Client \ {NoStream} /\ s.task \in Tasks /\ s.pc # "idle"
      /\ s.inbox \in Seq(Nat)
      /\ s.live # 0 => s.live = active[s.task] /\ active[s.task] # 0
      /\ s.pc = "live" => s.live # 0
  BY <1>0, <1>1, ClientFields
     DEF TypeInv, FreshInv, SightOK, LiveInv, OpenOK, OpenPc
<1>3. ASSUME NEW e, client' = [client EXCEPT ![c] = e], object' = object,
             e.pc # "live", e.live = s.live, e.task = s.task
      PROVE  RunOK' /\ SightOK' /\ EofReachesListeners' /\ OneStory'
  BY <1>1, <1>2, <1>3, ClientFresh
<1>4. CASE StartReplay(c)
  <2> DEFINE rs == rows[s.task]
  <2>1. PICK k \in 0..Len(rs) :
          LET n == IF Len(rs) - k < ReplayLimit THEN Len(rs) - k
                                                ELSE ReplayLimit IN
          IF n = 0
          THEN Attach(c)
          ELSE /\ client' = [client EXCEPT
                               ![c].pc = "replaying",
                               ![c].got = <<rs[k + 1].ev>>,
                               ![c].replay =
                                  [i \in 1..(n - 1) |-> rs[k + 1 + i].ev]]
               /\ UNCHANGED object
    BY <1>4 DEF StartReplay
  <2>2. CASE Attach(c)
    BY <1>1, <1>4, <2>2, AttachFresh DEF StartReplay
  <2>3. ASSUME NEW g, NEW r, object' = object,
               client' = [client EXCEPT ![c].pc = "replaying", ![c].got = g, ![c].replay = r]
        PROVE  RunOK' /\ SightOK' /\ EofReachesListeners' /\ OneStory'
    <3> DEFINE e == [s EXCEPT !.pc = "replaying", !.got = g, !.replay = r]
    <3>1. e.pc = "replaying" /\ e.live = s.live /\ e.task = s.task
      BY <1>2 DEF Client
    <3>2. client' = [client EXCEPT ![c] = e]
      BY <2>3
    <3> HIDE DEF e
    <3>3. QED BY <1>3, <2>3, <3>1, <3>2
  <2> HIDE DEF rs
  <2>4. QED BY <2>1, <2>2, <2>3
<1>5. CASE Replay(c)
  <2> DEFINE e == [s EXCEPT !.got = Append(s.got, Head(s.replay)), !.replay = Tail(s.replay)]
  <2>1. client' = [client EXCEPT ![c] = e] /\ object' = object /\ s.pc = "replaying"
    BY <1>5 DEF Replay, memory
  <2>2. e.pc = "replaying" /\ e.live = s.live /\ e.task = s.task
    BY <1>2, <2>1 DEF Client
  <2> HIDE DEF e
  <2>3. QED BY <1>3, <2>1, <2>2
<1>6. CASE EndReplay(c)
  BY <1>1, <1>6, AttachFresh DEF EndReplay
<1>7. CASE Follow(c)
  <2>0. s.pc = "live" /\ s.inbox # <<>>
    BY <1>7 DEF Follow
  <2>1. CASE Head(s.inbox) = EOF
    <3> DEFINE e == [s EXCEPT !.pc = "ended", !.inbox = Tail(s.inbox)]
    <3>1. client' = [client EXCEPT ![c] = e] /\ Detach(c)
      BY <1>7, <2>1 DEF Follow
    <3>2. e.pc = "ended"
      BY <1>2 DEF Client
    <3>3. \A o \in Objects : object'[o].listeners \ {c} = object[o].listeners \ {c}
      BY <1>0, <1>1, <1>2, <3>1, DetachType
    <3>4. \A o \in Objects : object'[o].status = object[o].status
      BY <1>0, <3>1 DEF Detach, TypeInv, TypeOK, Object
    <3> HIDE DEF e
    <3>5. e.pc \notin OpenPc /\ e.pc # "live"
      BY <3>2 DEF OpenPc
    <3>6. QED BY <1>1, <3>1, <3>3, <3>4, <3>5, ClientFresh
  <2>2. CASE Head(s.inbox) # EOF
    <3> DEFINE e == [s EXCEPT !.got = Append(s.got, Head(s.inbox)), !.inbox = Tail(s.inbox)]
    <3>1. client' = [client EXCEPT ![c] = e] /\ object' = object
      BY <1>7, <2>2 DEF Follow
    <3>2. /\ e.pc = "live" /\ e.live = s.live /\ e.task = s.task
          /\ e.inbox = Tail(s.inbox)
      BY <1>2, <2>0 DEF Client
    <3>3. ASSUME c \in object[active[s.task]].listeners,
                 object[active[s.task]].status \in Terminal
          PROVE  InSeq(EOF, Tail(s.inbox))
      <4>1. InSeq(EOF, s.inbox)
        BY <1>1, <2>0, <3>3 DEF FreshInv, EofReachesListeners, Attached
      <4> HIDE DEF s
      <4>2. QED BY <1>2, <2>0, <2>2, <4>1, InTail
    <3> HIDE DEF e
    <3>4. QED BY <1>1, <1>2, <2>0, <3>1, <3>2, <3>3, ClientFresh
  <2>3. QED BY <2>1, <2>2
<1>8. QED BY <1>4, <1>5, <1>6, <1>7 DEF Stream

LEMMA ConnectFresh ==
    ASSUME FreshInv, NEW c \in Clients,
           Disconnect(c) \/ \E t \in Tasks : OpenStream(c, t)
    PROVE  RunOK' /\ SightOK' /\ EofReachesListeners' /\ OneStory'
<1>0. TypeInv
  BY DEF FreshInv, LiveInv
<1>1. CASE Disconnect(c)
  <2>1. /\ up /\ client' = [client EXCEPT ![c] = NoStream] /\ client[c].pc # "idle"
        /\ UNCHANGED <<up, active, queue, worker, log, job, missed>>
    BY <1>1 DEF Disconnect, disk
  <2>2. \A o \in Objects : object'[o].listeners \ {c} = object[o].listeners \ {c}
    <3>1. CASE client[c].pc = "live"
      BY <1>0, <1>1, <2>1, <3>1, DetachType DEF Disconnect
    <3>2. CASE client[c].pc # "live"
      BY <1>1, <3>2 DEF Disconnect
    <3>3. QED BY <3>1, <3>2
  <2>3. \A o \in Objects : object'[o].status = object[o].status
    <3>1. object' = object \/ \E o \in Objects : \E l : object' = [object EXCEPT ![o].listeners = l]
      <4>1. client[c].task \in Tasks
        BY <1>0, <2>1, ClientFields DEF TypeInv
      <4>2. CASE Detach(c)
        BY <1>0, <4>1, <4>2, QueueFields DEF Detach
      <4>3. QED BY <1>1, <4>2 DEF Disconnect
    <3>2. ASSUME NEW p \in Objects, NEW l, object' = [object EXCEPT ![p].listeners = l],
                 NEW o \in Objects
          PROVE  object'[o].status = object[o].status
      <4>1. object[p] \in Object /\ object \in [Objects -> Object]
        BY <1>0 DEF TypeInv, TypeOK
      <4>2. object'[o] = IF o = p THEN [object[p] EXCEPT !.listeners = l] ELSE object[o]
        BY <3>2, <4>1
      <4>3. [object[p] EXCEPT !.listeners = l].status = object[p].status
        BY <4>1 DEF Object
      <4>4. QED BY <4>2, <4>3
    <3>3. QED BY <3>1, <3>2
  <2>4. NoStream.pc = "idle"
    BY DEF NoStream
  <2>5. NoStream.pc \notin OpenPc /\ NoStream.pc # "live"
    BY <2>4 DEF OpenPc
  <2>6. QED BY <2>1, <2>2, <2>3, <2>5, ClientFresh
<1>2. ASSUME NEW t \in Tasks, OpenStream(c, t)
      PROVE  RunOK' /\ SightOK' /\ EofReachesListeners' /\ OneStory'
  <2>1. PICK after \in {0} \cup {rows[t][i].seq : i \in 1..Len(rows[t])} :
          client' = [client EXCEPT ![c] =
                       [pc |-> "opening", task |-> t, live |-> active[t],
                        after |-> after, replay |-> <<>>, inbox |-> <<>>,
                        got |-> <<>>, attached |-> 0]]
    BY <1>2 DEF OpenStream
  <2> DEFINE e == [pc |-> "opening", task |-> t, live |-> active[t],
                   after |-> after, replay |-> <<>>, inbox |-> <<>>,
                   got |-> <<>>, attached |-> 0]
  <2>2. e.pc = "opening" /\ e.live = active[t] /\ e.task = t
    OBVIOUS
  <2>3. up /\ UNCHANGED <<up, active, queue, worker, object, log, job, missed>>
    BY <1>2 DEF OpenStream, memory, disk
  <2> HIDE DEF e
  <2>4. client' = [client EXCEPT ![c] = e]
    BY <2>1 DEF e
  <2>5. QED BY <2>2, <2>3, <2>4, ClientFresh
<1>3. QED BY <1>1, <1>2

----------------------------------------------------------------------------
\* Delivering: who listens to an object that ends is told.
LEMMA DeliverFresh ==
    ASSUME FreshInv, up, NEW t \in Tasks, active[t] # 0, NEW evs \in Seq(Nat),
           Deliver(t, evs), UNCHANGED <<up, active>>,
           \A o \in Objects : /\ object'[o].listeners = object[o].listeners
                              /\ o # active[t] => object'[o].status = object[o].status,
           InSeq(EOF, evs) \/ object'[active[t]].status = object[active[t]].status
    PROVE  SightOK' /\ EofReachesListeners'
<1>0. TypeInv
  BY DEF FreshInv, LiveInv
<1>1. \A c \in Clients : \/ client'[c] = client[c]
                         \/ /\ c \in object[active[t]].listeners
                            /\ client'[c] = [client[c] EXCEPT !.inbox = client[c].inbox \o evs]
  BY DEF Deliver
<1>2. ASSUME NEW c \in Clients, c \in object[active[t]].listeners
      PROVE  /\ client[c].pc = "live" /\ client[c].task = t
             /\ client'[c].pc = "live" /\ client'[c].task = t
             /\ client'[c].live = client[c].live
             /\ client'[c].inbox = client[c].inbox \o evs
             /\ client[c].inbox \in Seq(Nat)
  <2>1. client[c].pc = "live" /\ client[c].task = t
    BY <1>0, <1>2 DEF TypeInv, ListenersOK
  <2>2. client[c] \in Client \ {NoStream} /\ client[c].inbox \in Seq(Nat)
    BY <1>0, <2>1, ClientFields DEF TypeInv
  <2>3. client'[c] = [client[c] EXCEPT !.inbox = client[c].inbox \o evs]
    BY <1>2 DEF Deliver
  <2>4. QED BY <2>1, <2>2, <2>3 DEF Client
<1>3. SightOK'
  <2> SUFFICES ASSUME NEW c \in Clients, client'[c].pc \in OpenPc, client'[c].live # 0
               PROVE  client'[c].live = active[client'[c].task]
    BY DEF SightOK
  <2>1. CASE client'[c] = client[c]
    BY <2>1 DEF FreshInv, SightOK
  <2>2. CASE c \in object[active[t]].listeners
    BY <1>2, <2>2 DEF FreshInv, SightOK, OpenPc
  <2>3. QED BY <1>1, <2>1, <2>2
<1>4. EofReachesListeners'
  <2> SUFFICES ASSUME NEW c \in Clients, client'[c].pc = "live",
                      c \in object'[active[client'[c].task]].listeners,
                      object'[active[client'[c].task]].status \in Terminal
               PROVE  InSeq(EOF, client'[c].inbox)
    BY DEF EofReachesListeners, Attached
  <2>1. CASE c \in object[active[t]].listeners
    <3>0. InSeq(EOF, client[c].inbox) \/ InSeq(EOF, evs) => InSeq(EOF, client[c].inbox \o evs)
      BY <1>2, <2>1, InConcat
    <3>1. CASE InSeq(EOF, evs)
      BY <1>2, <2>1, <3>0, <3>1
    <3>2. CASE object'[active[t]].status = object[active[t]].status
      <4>1. InSeq(EOF, client[c].inbox)
        BY <1>2, <2>1, <3>2 DEF FreshInv, EofReachesListeners, Attached
      <4>2. QED BY <1>2, <2>1, <3>0, <4>1
    <3>3. QED BY <3>1, <3>2
  <2>2. CASE c \notin object[active[t]].listeners
    <3>1. client'[c] = client[c]
      BY <1>1, <2>2
    <3>2. client[c].task \in Tasks /\ active[client[c].task] # 0
      BY <1>0, <3>1, ClientFields DEF TypeInv, FreshInv, LiveInv, OpenOK, OpenPc
    <3>3. active[client[c].task] \in Objects
      BY <1>0, <3>2, QueueFields
    <3>4. c \in object[active[client[c].task]].listeners
      BY <3>1, <3>3
    <3>5. active[client[c].task] # active[t]
      BY <2>2, <3>4
    <3>6. object[active[client[c].task]].status \in Terminal
      BY <3>1, <3>3, <3>5
    <3>7. QED BY <3>1, <3>4, <3>6 DEF FreshInv, EofReachesListeners, Attached
  <2>3. QED BY <2>1, <2>2
<1>5. QED BY <1>3, <1>4

\* What the row and the stream tell of one id decides for a step that leaves the
\* other ids alone.
LEMMA StoryStep ==
    ASSUME FreshInv, up, NEW t \in Tasks,
           \A u \in Tasks : u # t =>
             /\ log'[u] = log[u] /\ job'[u] = job[u] /\ active'[u] = active[u]
             /\ active[u] # 0 => object'[active[u]].status = object[active[u]].status,
           missed \subseteq missed',
           VerdictAgrees(t)', (t \in missed' \/ RowAgrees(t)')
    PROVE  OneStory'
<1> SUFFICES ASSUME NEW u \in Tasks, u # t
             PROVE  VerdictAgrees(u)' /\ (u \in missed' \/ RowAgrees(u)')
  BY DEF OneStory
<1>1. VerdictAgrees(u) /\ (u \in missed \/ RowAgrees(u))
  BY DEF FreshInv, OneStory
<1>2. VerdictAgrees(u)'
  BY <1>1 DEF VerdictAgrees, Published
<1>3. RowAgrees(u) => RowAgrees(u)'
  BY DEF RowAgrees
<1>4. QED BY <1>1, <1>2, <1>3

\* The kinds of events under an id after one was recorded.
LEMMA RecordKinds ==
    ASSUME TypeInv, NEW t \in Tasks, NEW kind, NEW ok, Record(t, kind, ok), NEW k
    PROVE  Published(t, k)' <=> Published(t, k) \/ k = kind
<1> DEFINE e == [kind |-> kind, obj |-> active[t]]
<1>1. log[t] \in Seq(Event) /\ Len(log[t]) \in Nat
  BY DEF TypeInv, TypeOK
<1>2. log'[t] = Append(log[t], e)
  BY DEF Record, TypeInv, TypeOK
<1>3. /\ Len(log'[t]) = Len(log[t]) + 1 /\ log'[t][Len(log[t]) + 1] = e
      /\ \A i \in 1..Len(log[t]) : log'[t][i] = log[t][i]
  BY <1>1, <1>2
<1>4. e.kind = kind
  OBVIOUS
<1> HIDE DEF e
<1>5. ASSUME NEW i \in 1..Len(log'[t]), log'[t][i].kind = k
      PROVE  Published(t, k) \/ k = kind
  <2>1. i \in 1..Len(log[t]) \/ i = Len(log[t]) + 1
    BY <1>1, <1>3
  <2>2. QED BY <1>3, <1>4, <1>5, <2>1 DEF Published
<1>6. ASSUME NEW i \in 1..Len(log[t]), log[t][i].kind = k
      PROVE  \E j \in 1..Len(log'[t]) : log'[t][j].kind = k
  <2>1. i \in 1..Len(log'[t])
    BY <1>1, <1>3
  <2>2. QED BY <1>3, <1>6, <2>1
<1>7. \E j \in 1..Len(log'[t]) : log'[t][j].kind = kind
  <2>1. Len(log[t]) + 1 \in 1..Len(log'[t])
    BY <1>1, <1>3
  <2>2. QED BY <1>3, <1>4, <2>1
<1>8. QED BY <1>5, <1>6, <1>7 DEF Published

\* The end of a run changes the status of the object of its id alone, and the
\* queue does not hold that id.
LEMMA EndRunOK ==
    ASSUME FreshInv, up, worker # Idle, worker' = Idle, UNCHANGED <<active, queue>>, NEW s,
           object' = [object EXCEPT ![worker.obj].status = s]
    PROVE  /\ RunOK'
           /\ \A o \in Objects : /\ object'[o].listeners = object[o].listeners
                                 /\ o # active[worker.task] =>
                                      object'[o].status = object[o].status
           /\ object'[active[worker.task]].status = s
<1>0. TypeInv
  BY DEF FreshInv, LiveInv
<1>1. /\ worker.task \in Tasks /\ worker.obj \in Objects /\ active[worker.task] # 0
      /\ worker.obj = active[worker.task]
  BY <1>0, WorkerFields DEF FreshInv, RunOK, Objects
<1>2. \A o \in Objects : object'[o] = IF o = worker.obj THEN [object[o] EXCEPT !.status = s]
                                                       ELSE object[o]
  BY <1>0 DEF TypeInv, TypeOK
<1>3. \A o \in Objects : object[o] \in Object
  BY <1>0 DEF TypeInv, TypeOK
<1>4. ASSUME NEW o \in Objects
      PROVE  /\ object'[o].listeners = object[o].listeners
             /\ o # worker.obj => object'[o].status = object[o].status
             /\ o = worker.obj => object'[o].status = s
  BY <1>2, <1>3 DEF Object
<1>5. RunOK'
  <2>1. ASSUME NEW i \in 1..Len(queue) PROVE object'[active[queue[i]]].status = "pending"
    <3>1. queue[i] \in Tasks /\ active[queue[i]] \in Objects /\ queue[i] # worker.task
      BY <1>0, QueueFields DEF FreshInv, RunOK
    <3>2. active[queue[i]] # worker.obj
      BY <1>0, <1>1, <3>1, QueueFields
    <3>3. QED BY <1>4, <3>1, <3>2 DEF FreshInv, RunOK
  <2>2. QED BY <2>1 DEF FreshInv, RunOK
<1>6. QED BY <1>1, <1>4, <1>5

\* A step that neither sends anything nor ends an object.
LEMMA QuietFresh ==
    ASSUME FreshInv, UNCHANGED <<up, active, client>>,
           \A o \in Objects : /\ object'[o].listeners = object[o].listeners
                              /\ object'[o].status \in Terminal => object[o].status \in Terminal
    PROVE  SightOK' /\ EofReachesListeners'
<1>0. TypeInv
  BY DEF FreshInv, LiveInv
<1>1. SightOK'
  BY DEF FreshInv, SightOK
<1>2. EofReachesListeners'
  <2> SUFFICES ASSUME NEW c \in Clients, up, client[c].pc = "live",
                      c \in object'[active[client[c].task]].listeners,
                      object'[active[client[c].task]].status \in Terminal
               PROVE  InSeq(EOF, client[c].inbox)
    BY DEF EofReachesListeners, Attached
  <2>1. client[c].task \in Tasks /\ active[client[c].task] # 0
    BY <1>0, ClientFields DEF TypeInv, FreshInv, LiveInv, OpenOK, OpenPc
  <2>2. active[client[c].task] \in Objects
    BY <1>0, <2>1, QueueFields
  <2>3. QED BY <2>2 DEF FreshInv, EofReachesListeners, Attached
<1>3. QED BY <1>1, <1>2

\* An update is published while the object runs: nothing else changes.
LEMMA WorkerUpdateFresh ==
    ASSUME FreshInv, WorkerUpdate
    PROVE  RunOK' /\ SightOK' /\ EofReachesListeners' /\ OneStory'
<1>0. TypeInv
  BY DEF FreshInv, LiveInv
<1>t. PICK t \in Tasks : t = worker.task
  BY <1>0, WorkerFields DEF WorkerUpdate
<1>1. active[t] # 0 /\ Len(log[t]) + 1 \in Nat
  BY <1>0, <1>t, WorkerFields DEF WorkerUpdate, Objects, TypeInv, TypeOK
<1>2. /\ up /\ worker # Idle /\ Deliver(t, <<Len(log[t]) + 1>>)
      /\ \E ok : Record(t, "update", ok)
      /\ UNCHANGED <<up, active, queue, worker, object, job, missed>>
  BY <1>t DEF WorkerUpdate, memory
<1>3. RunOK'
  BY <1>2 DEF FreshInv, RunOK
<1>4. SightOK' /\ EofReachesListeners'
  <2>1. <<Len(log[t]) + 1>> \in Seq(Nat)
    BY <1>1
  <2>2. QED BY <1>1, <1>2, <2>1, DeliverFresh
<1>5. OneStory'
  <2>1. /\ Published(t, "cancelled")' <=> Published(t, "cancelled")
        /\ Published(t, "failure")' <=> Published(t, "failure")
    BY <1>0, <1>1, <1>2, RecordKinds
  <2>2. \A u \in Tasks : u # t => log'[u] = log[u]
    BY <1>0, <1>2 DEF Record, TypeInv, TypeOK
  <2>3. VerdictAgrees(t) /\ (t \in missed \/ RowAgrees(t))
    BY <1>1, <1>2 DEF FreshInv, OneStory
  <2>4. VerdictAgrees(t)' /\ (t \in missed' \/ RowAgrees(t)')
    BY <1>2, <2>1, <2>3 DEF VerdictAgrees, RowAgrees
  <2>5. QED BY <1>1, <1>2, <2>2, <2>4, StoryStep
<1>6. QED BY <1>3, <1>4, <1>5

\* The row after a write of the status that was tried.
LEMMA RowAfter ==
    ASSUME TypeInv, NEW t \in Tasks, NEW s, NEW ok, SetStatus(t, s, ok),
           t \in missed \/ job[t] # "absent"
    PROVE  /\ missed \subseteq missed' /\ (t \in missed' \/ job'[t] = s)
           /\ \A u \in Tasks : u # t => job'[u] = job[u]
BY DEF SetStatus, TypeInv, TypeOK

\* The end of a run: the verdict is published with the change of the status.
LEMMA EndRunFresh ==
    ASSUME FreshInv, up, worker # Idle, NEW s \in Terminal, NEW kind,
           EndRun(s, kind),
           <<s, kind>> = <<"cancelled", "cancelled">> \/ <<s, kind>> = <<"failed", "failure">>
    PROVE  RunOK' /\ SightOK' /\ EofReachesListeners' /\ OneStory'
<1>0. TypeInv
  BY DEF FreshInv, LiveInv
<1>t. PICK t \in Tasks : t = worker.task
  BY <1>0, WorkerFields
<1>1. active[t] # 0 /\ Len(log[t]) + 1 \in Nat
  BY <1>0, <1>t, WorkerFields DEF Objects, TypeInv, TypeOK
<1>2. PICK ok1, ok2 : SetStatus(t, s, ok1) /\ Record(t, kind, ok2)
  BY <1>t DEF EndRun
<1>3. /\ object' = [object EXCEPT ![worker.obj].status = s] /\ worker' = Idle
      /\ Deliver(t, <<Len(log[t]) + 1, EOF>>) /\ UNCHANGED <<up, active, queue>>
  BY <1>t DEF EndRun
<1>4. /\ RunOK'
      /\ \A o \in Objects : /\ object'[o].listeners = object[o].listeners
                            /\ o # active[t] => object'[o].status = object[o].status
      /\ object'[active[t]].status = s
  <2> HIDE DEF FreshInv, RunOK
  <2>1. QED BY <1>3, <1>t, EndRunOK
<1>5. SightOK' /\ EofReachesListeners'
  <2> DEFINE evs == <<Len(log[t]) + 1, EOF>>
  <2>1. evs \in Seq(Nat) /\ evs[2] = EOF /\ Len(evs) = 2
    BY <1>1 DEF EOF
  <2>2. Deliver(t, evs)
    BY <1>3
  <2> HIDE DEF evs
  <2>3. InSeq(EOF, evs)
    BY <2>1 DEF InSeq
  <2>4. QED BY <1>1, <1>3, <1>4, <2>1, <2>2, <2>3, DeliverFresh
<1>6. OneStory'
  <2>1. \A k : Published(t, k)' <=> Published(t, k) \/ k = kind
    BY <1>0, <1>1, <1>2, RecordKinds
  <2>2. \A u \in Tasks : u # t => log'[u] = log[u]
    BY <1>0, <1>2 DEF Record, TypeInv, TypeOK
  <2>3. VerdictAgrees(t) /\ (t \in missed \/ RowAgrees(t)) /\ object[active[t]].status = "running"
    BY <1>1, <1>t DEF FreshInv, OneStory, RunOK
  <2>4. ~Published(t, "cancelled") /\ ~Published(t, "failure")
    BY <1>1, <2>3 DEF VerdictAgrees
  <2>5. t \in missed \/ job[t] # "absent"
    BY <1>1, <2>3 DEF RowAgrees
  <2>6. /\ missed \subseteq missed' /\ (t \in missed' \/ job'[t] = s)
        /\ \A u \in Tasks : u # t => job'[u] = job[u]
    <3>1. QED BY <1>0, <1>1, <1>2, <2>5, RowAfter
  <2>7. VerdictAgrees(t)'
    BY <1>4, <2>1, <2>4, <1>3 DEF VerdictAgrees
  <2>8. t \in missed' \/ RowAgrees(t)'
    BY <1>1, <1>3, <1>4, <2>6 DEF RowAgrees
  <2>9. \A u \in Tasks : u # t /\ active[u] # 0 => active[u] \in Objects /\ active[u] # active[t]
    BY <1>0, <1>1, QueueFields
  <2>10. QED BY <1>1, <1>3, <1>4, <2>2, <2>6, <2>7, <2>8, <2>9, StoryStep
<1>7. QED BY <1>4, <1>5, <1>6

LEMMA WorkerDiesFresh ==
    ASSUME FreshInv, WorkerDies
    PROVE  RunOK' /\ SightOK' /\ EofReachesListeners' /\ OneStory'
<1>0. TypeInv /\ up /\ worker # Idle
  BY DEF FreshInv, LiveInv, WorkerDies
<1>t. PICK t \in Tasks : t = worker.task
  BY <1>0, WorkerFields
<1>1. active[t] # 0
  BY <1>0, <1>t, WorkerFields DEF Objects
<1>2. /\ Deliver(t, <<EOF>>)
      /\ UNCHANGED <<up, active, queue, worker, object, job, missed, log>>
  BY <1>t DEF WorkerDies, memory, disk
<1>3. RunOK' /\ OneStory'
  BY <1>2 DEF FreshInv, RunOK, OneStory, VerdictAgrees, RowAgrees, Published
<1>4. SightOK' /\ EofReachesListeners'
  <2>1. <<EOF>> \in Seq(Nat)
    BY DEF EOF
  <2>2. QED BY <1>0, <1>1, <1>2, <2>1, DeliverFresh
<1>5. QED BY <1>3, <1>4

LEMMA WorkerFinishFresh ==
    ASSUME FreshInv, WorkerFinish
    PROVE  RunOK' /\ SightOK' /\ EofReachesListeners' /\ OneStory'
<1>0. TypeInv /\ up /\ worker # Idle
  BY DEF FreshInv, LiveInv, WorkerFinish
<1>t. PICK t \in Tasks : t = worker.task
  BY <1>0, WorkerFields
<1>1. active[t] # 0
  BY <1>0, <1>t, WorkerFields DEF Objects
<1>2. PICK ok : SetStatus(t, "done", ok)
  BY <1>t DEF WorkerFinish
<1>3. /\ object' = [object EXCEPT ![worker.obj].status = "done"] /\ worker' = Idle
      /\ Deliver(t, <<EOF>>) /\ UNCHANGED <<up, active, queue, log>>
  BY <1>t DEF WorkerFinish
<1>4. /\ RunOK'
      /\ \A o \in Objects : /\ object'[o].listeners = object[o].listeners
                            /\ o # active[t] => object'[o].status = object[o].status
      /\ object'[active[t]].status = "done"
  <2> HIDE DEF FreshInv, RunOK
  <2>1. QED BY <1>0, <1>3, <1>t, EndRunOK
<1>5. SightOK' /\ EofReachesListeners'
  <2> DEFINE evs == <<EOF>>
  <2>1. evs \in Seq(Nat) /\ evs[1] = EOF /\ Len(evs) = 1
    BY DEF EOF
  <2>2. Deliver(t, evs)
    BY <1>3
  <2> HIDE DEF evs
  <2>3. InSeq(EOF, evs)
    BY <2>1 DEF InSeq
  <2>4. QED BY <1>0, <1>1, <1>3, <1>4, <2>1, <2>2, <2>3, DeliverFresh
<1>6. OneStory'
  <2>3. VerdictAgrees(t) /\ (t \in missed \/ RowAgrees(t)) /\ object[active[t]].status = "running"
    BY <1>0, <1>1, <1>t DEF FreshInv, OneStory, RunOK
  <2>4. ~Published(t, "cancelled") /\ ~Published(t, "failure")
    BY <1>1, <2>3 DEF VerdictAgrees
  <2>5. t \in missed \/ job[t] # "absent"
    BY <1>1, <2>3 DEF RowAgrees
  <2>6. /\ missed \subseteq missed' /\ (t \in missed' \/ job'[t] = "done")
        /\ \A u \in Tasks : u # t => job'[u] = job[u]
    <3>1. QED BY <1>0, <1>1, <1>2, <2>5, RowAfter
  <2>7. VerdictAgrees(t)'
    BY <1>3, <1>4, <2>4 DEF VerdictAgrees, Published
  <2>8. t \in missed' \/ RowAgrees(t)'
    BY <1>1, <1>3, <1>4, <2>6 DEF RowAgrees
  <2>9. \A u \in Tasks : u # t /\ active[u] # 0 => active[u] \in Objects /\ active[u] # active[t]
    BY <1>0, <1>1, QueueFields
  <2>10. QED BY <1>0, <1>1, <1>3, <1>4, <2>6, <2>7, <2>8, <2>9, StoryStep
<1>7. QED BY <1>4, <1>5, <1>6

\* The head of the queue starts; no other entry is its object.
LEMMA WorkerGetFresh ==
    ASSUME FreshInv, WorkerGet
    PROVE  RunOK' /\ SightOK' /\ EofReachesListeners' /\ OneStory'
<1>0. TypeInv /\ up /\ worker = Idle /\ queue # <<>>
  BY DEF FreshInv, LiveInv, WorkerGet
<1>1. PICK t : t = Head(queue)
  OBVIOUS
<1>2. /\ queue' = Tail(queue) /\ worker' = [task |-> t, obj |-> active[t]]
      /\ object' = [object EXCEPT ![active[t]].status = "running"]
      /\ \E ok : SetStatus(t, "running", ok)
      /\ UNCHANGED <<up, active, log, client>>
  BY <1>1 DEF WorkerGet
<1>3. /\ t = queue[1] /\ 1 \in 1..Len(queue) /\ Len(queue) \in Nat
      /\ Len(Tail(queue)) = Len(queue) - 1
      /\ \A i \in 1..Len(Tail(queue)) : i + 1 \in 1..Len(queue) /\ Tail(queue)[i] = queue[i + 1]
  <2>1. queue \in Seq(Tasks) /\ Len(queue) \in Nat
    BY <1>0, QueueFields
  <2>2. /\ t = queue[1] /\ 1 \in 1..Len(queue) /\ Len(Tail(queue)) = Len(queue) - 1
    BY <1>0, <1>1, <2>1
  <2>3. \A i \in 1..Len(Tail(queue)) : i + 1 \in 1..Len(queue)
    BY <2>1, <2>2
  <2>4. QED BY <1>0, <2>1, <2>2, <2>3, HeadTailProperties
<1>4. /\ t \in Tasks /\ active[t] \in Objects /\ active[t] # 0
      /\ object[active[t]].status = "pending"
  BY <1>0, <1>3, QueueFields DEF FreshInv, RunOK, Objects
<1>5. \A o \in Objects : /\ object'[o].listeners = object[o].listeners
                         /\ object'[o].status = IF o = active[t] THEN "running"
                                                                ELSE object[o].status
  <2>1. \A o \in Objects : object'[o] = IF o = active[t]
                                        THEN [object[o] EXCEPT !.status = "running"]
                                        ELSE object[o]
    BY <1>0, <1>2 DEF TypeInv, TypeOK
  <2>2. \A o \in Objects : object[o] \in Object
    BY <1>0 DEF TypeInv, TypeOK
  <2>3. QED BY <2>1, <2>2 DEF Object
<1>6. RunOK'
  <2>1. \A i, k \in 1..Len(Tail(queue)) : i < k => Tail(queue)[i] # Tail(queue)[k]
    <3> SUFFICES ASSUME NEW i \in 1..Len(Tail(queue)), NEW k \in 1..Len(Tail(queue)), i < k
                 PROVE  Tail(queue)[i] # Tail(queue)[k]
      OBVIOUS
    <3>1. i + 1 < k + 1
      BY <1>3
    <3>2. QED BY <1>3, <3>1 DEF FreshInv, RunOK
  <2>2. \A i \in 1..Len(Tail(queue)) : Tail(queue)[i] # t
    <3> SUFFICES ASSUME NEW i \in 1..Len(Tail(queue)) PROVE Tail(queue)[i] # t
      OBVIOUS
    <3>1. 1 < i + 1
      BY <1>3
    <3>2. QED BY <1>3, <3>1 DEF FreshInv, RunOK
  <2>3. ASSUME NEW i \in 1..Len(Tail(queue))
        PROVE  object'[active[Tail(queue)[i]]].status = "pending"
    <3>1. i + 1 \in 1..Len(queue) /\ Tail(queue)[i] = queue[i + 1]
      BY <1>3
    <3>2. queue[i + 1] \in Tasks /\ active[queue[i + 1]] \in Objects
      BY <1>0, <3>1, QueueFields
    <3>3. active[queue[i + 1]] # active[t]
      BY <1>0, <1>4, <2>2, <3>1, <3>2, QueueFields
    <3>4. QED BY <1>5, <3>1, <3>2, <3>3 DEF FreshInv, RunOK
  <2>4. worker'.task = t /\ worker'.obj = active[t]
    BY <1>2
  <2>5. object'[active[t]].status = "running"
    BY <1>4, <1>5
  <2>6. QED BY <1>2, <2>1, <2>2, <2>3, <2>4, <2>5 DEF RunOK
<1>7. SightOK' /\ EofReachesListeners'
  <2>1. "running" \notin Terminal
    BY DEF Terminal
  <2>2. QED BY <1>2, <1>5, <2>1, QuietFresh
<1>8. OneStory'
  <2>1. VerdictAgrees(t) /\ (t \in missed \/ RowAgrees(t))
    BY <1>0, <1>4 DEF FreshInv, OneStory
  <2>2. t \in missed \/ job[t] # "absent"
    BY <1>4, <2>1 DEF RowAgrees
  <2>3. /\ missed \subseteq missed' /\ (t \in missed' \/ job'[t] = "running")
        /\ \A u \in Tasks : u # t => job'[u] = job[u]
    BY <1>0, <1>2, <1>4, <2>2, RowAfter
  <2>4. VerdictAgrees(t)'
    BY <1>2, <1>4, <1>5, <2>1 DEF VerdictAgrees, Published
  <2>5. t \in missed' \/ RowAgrees(t)'
    BY <1>2, <1>4, <1>5, <2>3 DEF RowAgrees
  <2>6. \A u \in Tasks : u # t /\ active[u] # 0 => active[u] \in Objects /\ active[u] # active[t]
    BY <1>0, <1>4, QueueFields
  <2>7. QED BY <1>0, <1>2, <1>4, <1>5, <2>3, <2>4, <2>5, <2>6, StoryStep
<1>9. QED BY <1>6, <1>7, <1>8

\* A fresh id gets an object of its own, that nobody saw and nobody queued.
LEMMA AddFresh ==
    ASSUME FreshInv, ~ReuseIds, NEW t \in Tasks, AddTask(t)
    PROVE  RunOK' /\ SightOK' /\ EofReachesListeners' /\ OneStory'
<1>0. TypeInv /\ up
  BY DEF FreshInv, LiveInv, AddTask
<1>1. /\ log[t] = <<>> /\ active[t] = 0 /\ job[t] = "absent" /\ t \notin missed
      /\ active' = [active EXCEPT ![t] = added + 1] /\ added + 1 \in Objects
      /\ object' = [object EXCEPT ![added + 1] = NewObject]
      /\ queue' = Append(queue, t)
      /\ UNCHANGED <<up, worker, log, client>> /\ added + 1 # 0
  BY <1>0, TaskManagerAssumption DEF AddTask, TypeInv, TypeOK, Objects
<1>2. PICK ok \in BOOLEAN : /\ job' = IF ok THEN [job EXCEPT ![t] = "pending"] ELSE job
                            /\ missed' = IF ok THEN missed ELSE missed \cup {t}
  BY DEF AddTask
<1>3. \A u \in Tasks : /\ u # t => active'[u] = active[u]
                       /\ active[u] # 0 => u # t /\ active[u] \in Objects /\ active[u] # added + 1
  <2>1. \A u \in Tasks : active[u] <= added /\ active[u] \in Nat /\ added \in Nat
    BY <1>0 DEF TypeInv, TypeOK, ActiveOK
  <2>2. QED BY <1>0, <1>1, <2>1, QueueFields DEF TypeInv, TypeOK
<1>4. /\ active'[t] = added + 1 /\ object'[added + 1] = NewObject
      /\ \A o \in Objects : o # added + 1 => object'[o] = object[o]
  BY <1>0, <1>1 DEF TypeInv, TypeOK
<1>5. /\ queue \in Seq(Tasks) /\ Len(queue) \in Nat /\ Len(queue') = Len(queue) + 1
      /\ queue'[Len(queue) + 1] = t
      /\ \A i \in 1..Len(queue) : queue'[i] = queue[i] /\ queue[i] \in Tasks
                                  /\ active[queue[i]] # 0 /\ queue[i] # t
  <2>1. /\ queue \in Seq(Tasks) /\ Len(queue) \in Nat
        /\ \A i \in 1..Len(queue) : queue[i] \in Tasks /\ active[queue[i]] # 0
    BY <1>0, QueueFields DEF Objects
  <2>2. QED BY <1>1, <2>1
<1>6. RunOK'
  <2>1. \A i \in 1..Len(queue') : i \in 1..Len(queue) \/ i = Len(queue) + 1
    BY <1>5
  <2>2. ASSUME NEW i \in 1..Len(queue'), NEW k \in 1..Len(queue'), i < k
        PROVE  queue'[i] # queue'[k]
    <3>1. i \in 1..Len(queue)
      BY <1>5, <2>2
    <3>2. QED BY <1>5, <2>1, <2>2, <3>1 DEF FreshInv, RunOK
  <2>3. ASSUME NEW i \in 1..Len(queue')
        PROVE  object'[active'[queue'[i]]].status = "pending"
    <3>1. CASE i \in 1..Len(queue)
      BY <1>3, <1>4, <1>5, <3>1 DEF FreshInv, RunOK
    <3>2. CASE i = Len(queue) + 1
      BY <1>4, <1>5, <3>2 DEF NewObject
    <3>3. QED BY <2>1, <3>1, <3>2
  <2>4. ASSUME worker # Idle
        PROVE  /\ worker.obj = active'[worker.task]
               /\ object'[worker.obj].status = "running"
               /\ \A i \in 1..Len(queue') : queue'[i] # worker.task
    <3>1. worker.task \in Tasks /\ active[worker.task] \in Objects /\ active[worker.task] # 0
      BY <1>0, <2>4, WorkerFields DEF Objects
    <3>2. worker.task # t
      BY <1>3, <3>1
    <3>3. worker.obj = active'[worker.task] /\ object'[worker.obj].status = "running"
      BY <1>3, <1>4, <2>4, <3>1, <3>2 DEF FreshInv, RunOK
    <3>4. QED BY <1>5, <2>1, <2>4, <3>2, <3>3 DEF FreshInv, RunOK
  <2>5. QED BY <1>1, <2>2, <2>3, <2>4 DEF RunOK
<1>7. ASSUME NEW c \in Clients, client[c].pc \in OpenPc, client[c].live # 0
      PROVE  /\ client[c].task \in Tasks /\ active'[client[c].task] = active[client[c].task]
             /\ active[client[c].task] # 0
  <2>1. client[c].task \in Tasks /\ active[client[c].task] # 0
    BY <1>0, <1>7, ClientFields DEF TypeInv, FreshInv, LiveInv, OpenOK, OpenPc
  <2>2. QED BY <1>3, <2>1
<1>8. SightOK'
  BY <1>1, <1>7 DEF FreshInv, SightOK
<1>9. EofReachesListeners'
  <2> SUFFICES ASSUME NEW c \in Clients, client[c].pc = "live",
                      c \in object'[active'[client[c].task]].listeners,
                      object'[active'[client[c].task]].status \in Terminal
               PROVE  InSeq(EOF, client[c].inbox)
    BY <1>1 DEF EofReachesListeners, Attached
  <2>1. client[c].pc \in OpenPc /\ client[c].live # 0
    BY DEF FreshInv, LiveInv, OpenOK, OpenPc
  <2>2. /\ active'[client[c].task] = active[client[c].task]
        /\ object'[active[client[c].task]] = object[active[client[c].task]]
    BY <1>3, <1>4, <1>7, <2>1
  <2>3. QED BY <1>0, <2>2 DEF FreshInv, EofReachesListeners, Attached
<1>10. OneStory'
  <2>1. VerdictAgrees(t)'
    <3>1. Len(log[t]) = 0
      BY <1>1
    <3>2. ~Published(t, "cancelled")' /\ ~Published(t, "failure")'
      BY <1>1, <3>1 DEF Published
    <3>3. object'[active'[t]].status = "pending"
      BY <1>4 DEF NewObject
    <3>4. QED BY <3>2, <3>3 DEF VerdictAgrees
  <2>2. t \in missed' \/ RowAgrees(t)'
    <3>1. t \in missed' \/ job'[t] = "pending"
      BY <1>0, <1>2 DEF TypeInv, TypeOK
    <3>2. QED BY <1>1, <1>4, <3>1 DEF RowAgrees, NewObject
  <2>3. missed \subseteq missed' /\ \A u \in Tasks : u # t => job'[u] = job[u]
    BY <1>0, <1>2 DEF TypeInv, TypeOK
  <2>4. \A u \in Tasks : u # t /\ active[u] # 0 =>
          object'[active[u]].status = object[active[u]].status
    BY <1>3, <1>4
  <2>5. QED BY <1>0, <1>1, <1>3, <2>1, <2>2, <2>3, <2>4, StoryStep
<1>11. QED BY <1>6, <1>8, <1>9, <1>10

\* cancel_task only raises the flag; the sweep of the next start settles the rows
\* of the dead process.
LEMMA OtherFresh ==
    ASSUME FreshInv, \/ \E t \in Tasks : CancelTask(t)
                     \/ Crash \/ Restart \/ UNCHANGED vars
    PROVE  RunOK' /\ SightOK' /\ EofReachesListeners' /\ OneStory'
<1>0. TypeInv
  BY DEF FreshInv, LiveInv
<1>1. ASSUME UNCHANGED <<up, active, queue, worker, log, job, missed, client>>,
             \A o \in Objects : /\ object'[o].listeners = object[o].listeners
                                /\ object'[o].status = object[o].status
      PROVE  RunOK' /\ SightOK' /\ EofReachesListeners' /\ OneStory'
  <2>1. SightOK' /\ EofReachesListeners'
    BY <1>1, QuietFresh
  <2>2. worker # Idle => worker.obj \in Objects
    BY <1>0, WorkerFields
  <2>3. RunOK'
    BY <1>0, <1>1, <2>2, QueueFields DEF FreshInv, RunOK
  <2>4. OneStory'
    BY <1>0, <1>1, QueueFields DEF FreshInv, OneStory, VerdictAgrees, RowAgrees, Published
  <2>5. QED BY <2>1, <2>3, <2>4
<1>2. ASSUME NEW t \in Tasks, CancelTask(t)
      PROVE  RunOK' /\ SightOK' /\ EofReachesListeners' /\ OneStory'
  <2>1. /\ object' = [object EXCEPT ![active[t]].cancelled = TRUE]
        /\ UNCHANGED <<up, active, queue, worker, log, job, missed, client>>
    BY <1>2 DEF CancelTask, disk
  <2>2. \A o \in Objects : /\ object'[o].listeners = object[o].listeners
                           /\ object'[o].status = object[o].status
    BY <1>0, <2>1 DEF TypeInv, TypeOK, Object
  <2>3. QED BY <1>1, <2>1, <2>2
<1>3. CASE Crash
  <2>1. /\ ~up' /\ \A c \in Clients : client'[c].pc \notin OpenPc
    BY <1>0, <1>3, ClientFields DEF Crash, NoStream, OpenPc, TypeInv
  <2>2. UNCHANGED <<active, queue, worker, object>>
    BY <1>3 DEF Crash, memory
  <2>3. QED BY <2>1, <2>2 DEF FreshInv, RunOK, SightOK, EofReachesListeners, OneStory
<1>4. CASE Restart
  <2>1. /\ \A c \in Clients : client[c].pc \notin OpenPc
        /\ client' = client /\ queue' = <<>> /\ worker' = Idle
        /\ active' = [t \in Tasks |-> 0]
    BY <1>4 DEF Restart, FreshInv, LiveInv, OpenOK
  <2>2. PICK ok \in BOOLEAN :
          /\ job' = [t \in Tasks |-> IF ok /\ job[t] \in Active THEN "failed" ELSE job[t]]
          /\ missed' = IF ok THEN missed ELSE missed \cup {t \in Tasks : job[t] \in Active}
    BY <1>4 DEF Restart
  <2>3. ASSUME NEW t \in Tasks PROVE VerdictAgrees(t)' /\ (t \in missed' \/ RowAgrees(t)')
    <3>1. active'[t] = 0
      BY <2>1
    <3>2. t \in missed' \/ job'[t] \notin Active
      BY <2>2 DEF Active
    <3>3. QED BY <3>1, <3>2 DEF VerdictAgrees, RowAgrees
  <2>4. RunOK'
    BY <2>1 DEF RunOK
  <2>5. QED BY <2>1, <2>3, <2>4 DEF SightOK, EofReachesListeners, Attached, OneStory, OpenPc
<1>5. CASE UNCHANGED vars
  BY <1>1, <1>5 DEF vars, memory, disk
<1>6. QED BY <1>2, <1>3, <1>4, <1>5

LEMMA InitFresh == Init => FreshInv
<1> SUFFICES ASSUME Init PROVE FreshInv
  OBVIOUS
<1>1. \A c \in Clients : client[c].pc = "idle"
  BY DEF Init, NoStream
<1>2. RunOK
  BY DEF Init, RunOK
<1>3. OneStory
  BY DEF Init, OneStory, VerdictAgrees, RowAgrees, Active
<1>4. QED
  BY <1>1, <1>2, <1>3, InitLive
     DEF FreshInv, SightOK, EofReachesListeners, Attached, OpenPc

LEMMA NextFresh == ASSUME ~ReuseIds PROVE FreshInv /\ [Next]_vars => FreshInv'
<1> SUFFICES ASSUME FreshInv, [Next]_vars PROVE FreshInv'
  OBVIOUS
<1>1. LiveInv'
  BY NextLive DEF FreshInv
<1>2. ASSUME WorkerCancelled \/ WorkerFail
      PROVE  RunOK' /\ SightOK' /\ EofReachesListeners' /\ OneStory'
  <2>1. up /\ worker # Idle /\ "cancelled" \in Terminal /\ "failed" \in Terminal
    BY <1>2 DEF WorkerCancelled, WorkerFail, Terminal
  <2>2. EndRun("cancelled", "cancelled") \/ EndRun("failed", "failure")
    BY <1>2 DEF WorkerCancelled, WorkerFail
  <2>3. QED BY <2>1, <2>2, EndRunFresh
<1>3. RunOK' /\ SightOK' /\ EofReachesListeners' /\ OneStory'
  BY <1>2, AddFresh, OtherFresh, WorkerGetFresh, WorkerUpdateFresh, WorkerFinishFresh,
     WorkerDiesFresh, StreamFresh, ConnectFresh DEF Next, Worker
<1>4. QED BY <1>1, <1>3 DEF FreshInv

\* A response that listens to a finished object has EOF waiting, as long as no id
\* is used twice: the status check and add_listener of stream_task leave no room
\* for the end of the run in between.
THEOREM EofReaches == ASSUME ~ReuseIds PROVE Spec => []EofReachesListeners
<1>1. FreshInv /\ [Next]_vars => FreshInv'
  BY NextFresh
<1>2. FreshInv => EofReachesListeners
  BY DEF FreshInv
<1>3. QED BY <1>1, <1>2, InitFresh, PTL DEF Spec

\* As long as no id is used twice, the row, the object and the published events
\* tell the same story of a task, across lost writes, late cancels and restarts.
THEOREM StoryIsOne == ASSUME ~ReuseIds PROVE Spec => []OneStory
<1>1. FreshInv /\ [Next]_vars => FreshInv'
  BY NextFresh
<1>2. FreshInv => OneStory
  BY DEF FreshInv
<1>3. QED BY <1>1, <1>2, InitFresh, PTL DEF Spec

----------------------------------------------------------------------------
(***************************************************************************)
(* The promise of job_store, while the ids are fresh and no write is lost. *)
(***************************************************************************)

\* Without lost writes every row is true to its object.
StoreInv == FreshInv /\ missed = {}

\* A write that fails is counted.
LEMMA NoneLost ==
    ASSUME MaxFaults = 0, TypeOK, NEW ok,
           ok \in [1..1 -> BOOLEAN] \/ ok \in [1..2 -> BOOLEAN], Faults(ok)
    PROVE  \A i \in DOMAIN ok : ok[i]
<1> DEFINE lost == {i \in DOMAIN ok : ~ok[i]}
<1>1. IsFiniteSet(lost)
  <2>1. DOMAIN ok = 1..1 \/ DOMAIN ok = 1..2
    OBVIOUS
  <2>2. \A n \in Nat : IsFiniteSet(1..n)
    BY FS_Interval
  <2>3. IsFiniteSet(DOMAIN ok)
    BY <2>1, <2>2
  <2>4. QED BY <2>3, FS_Subset
<1>2. Cardinality(lost) \in Nat
  BY <1>1, FS_CardinalityType
<1>3. Cardinality(lost) = 0
  BY <1>2 DEF Faults, TypeOK
<1>4. lost = {}
  BY <1>1, <1>3, FS_EmptySet
<1>5. QED BY <1>4

\* The kinds of the events published under each id.
Told == [t \in Tasks |-> [i \in 1..Len(log[t]) |-> log[t][i].kind]]

\* Recording an event publishes its kind.
LEMMA RecordStream ==
    ASSUME TypeInv, NEW t \in Tasks, NEW kind \in Kinds, NEW ok, Record(t, kind, ok)
    PROVE  Told' = [Told EXCEPT ![t] = Append(@, kind)]
<1> DEFINE e == [kind |-> kind, obj |-> active[t]]
           p == [i \in 1..Len(log[t]) |-> log[t][i].kind]
<1>1. /\ log[t] \in Seq(Event) /\ Len(log[t]) \in Nat
      /\ \A i \in 1..Len(log[t]) : log[t][i] \in Event
  BY DEF TypeInv, TypeOK
<1>2. log'[t] = Append(log[t], e)
  BY DEF Record, TypeInv, TypeOK
<1>3. /\ Len(log'[t]) = Len(log[t]) + 1 /\ log'[t][Len(log[t]) + 1] = e
      /\ \A i \in 1..Len(log[t]) : log'[t][i] = log[t][i]
  BY <1>1, <1>2
<1>4. e.kind = kind
  OBVIOUS
<1>5. p \in Seq(Kinds) /\ Len(p) = Len(log[t])
  BY <1>1 DEF Event
<1>6. \A u \in Tasks : u # t => log'[u] = log[u]
  BY DEF Record, TypeInv, TypeOK
<1> HIDE DEF e
<1>7. [i \in 1..(Len(log[t]) + 1) |-> log'[t][i].kind] = Append(p, kind)
  <2> DEFINE q == [i \in 1..(Len(log[t]) + 1) |-> log'[t][i].kind]
  <2>1. \A i \in 1..Len(log[t]) : p[i] = log[t][i].kind
    OBVIOUS
  <2>2. \A i \in 1..(Len(log[t]) + 1) : q[i] = log'[t][i].kind
    OBVIOUS
  <2> HIDE DEF p
  <2>3. /\ Append(p, kind) \in Seq(Kinds) /\ Len(Append(p, kind)) = Len(p) + 1
        /\ \A i \in 1..Len(p) : Append(p, kind)[i] = p[i]
        /\ Append(p, kind)[Len(p) + 1] = kind
    BY <1>5, AppendProperties
  <2>4. DOMAIN Append(p, kind) = 1..(Len(log[t]) + 1)
    BY <1>5, <2>3
  <2>5. Append(p, kind) = [i \in DOMAIN Append(p, kind) |-> Append(p, kind)[i]]
    <3>1. \A r \in Seq(Kinds) : r = [i \in DOMAIN r |-> r[i]]
      OBVIOUS
    <3>2. QED BY <2>3, <3>1
  <2>6. ASSUME NEW i \in 1..(Len(log[t]) + 1) PROVE q[i] = Append(p, kind)[i]
    <3>1. i \in 1..Len(log[t]) \/ i = Len(log[t]) + 1
      BY <1>1
    <3>2. QED BY <1>3, <1>4, <1>5, <2>1, <2>2, <2>3, <3>1
  <2>7. DOMAIN q = 1..(Len(log[t]) + 1) /\ q = [i \in DOMAIN q |-> q[i]]
    OBVIOUS
  <2> HIDE DEF q
  <2>8. q = Append(p, kind)
    BY <2>4, <2>5, <2>6, <2>7
  <2>9. QED BY <2>8 DEF q
<1>8. \A u \in Tasks : Told'[u] = IF u = t THEN Append(p, kind) ELSE Told[u]
  BY <1>3, <1>6, <1>7 DEF Told
<1>9. Told[t] = p
  BY DEF Told
<1> HIDE DEF p
<1>10. QED BY <1>8, <1>9 DEF Told

\* One step of the job of the store.
LEMMA JobSteps ==
    ASSUME StoreInv, ~ReuseIds, MaxFaults = 0, [Next]_vars
    PROVE  [Lifecycle!Next]_<<job, Told>> /\ missed' = {}
<1>0. TypeInv /\ FreshInv /\ missed = {} /\ TypeOK
  BY DEF StoreInv, FreshInv, LiveInv, TypeInv
<1>l. ASSUME NEW ok, ok \in [1..1 -> BOOLEAN] \/ ok \in [1..2 -> BOOLEAN], Faults(ok)
      PROVE  ok[1] = TRUE
  <2>1. \A i \in DOMAIN ok : ok[i]
    BY <1>0, <1>l, NoneLost
  <2>2. 1 \in DOMAIN ok /\ ok[1] \in BOOLEAN
    BY <1>l
  <2>3. QED BY <2>1, <2>2
<1>r. ASSUME UNCHANGED log PROVE UNCHANGED Told
  BY <1>r DEF Told
<1>n. ASSUME UNCHANGED <<job, log, missed>>
      PROVE  [Lifecycle!Next]_<<job, Told>> /\ missed' = {}
  BY <1>0, <1>n, <1>r
<1>a. ASSUME up, NEW t \in Tasks, active[t] # 0 PROVE job[t] = object[active[t]].status
  BY <1>0, <1>a DEF FreshInv, OneStory, RowAgrees
<1>w. ASSUME up, worker # Idle
      PROVE  /\ worker.task \in Tasks /\ job[worker.task] = "running"
  <2>1. /\ worker.task \in Tasks /\ active[worker.task] # 0 /\ worker.obj = active[worker.task]
        /\ object[worker.obj].status = "running"
    BY <1>0, <1>w, WorkerFields DEF FreshInv, RunOK, Objects
  <2>2. QED BY <1>a, <1>w, <2>1
<1>s. ASSUME NEW t \in Tasks, NEW s, SetStatus(t, s, TRUE), job[t] # "absent"
      PROVE  job' = [job EXCEPT ![t] = s] /\ missed' = {}
  BY <1>0, <1>s DEF SetStatus
<1>1. ASSUME NEW t \in Tasks, AddTask(t)
      PROVE  [Lifecycle!Next]_<<job, Told>> /\ missed' = {}
  <2>1. job[t] = "absent" /\ UNCHANGED log
    BY <1>1 DEF AddTask
  <2>2. PICK ok \in [1..1 -> BOOLEAN] :
          /\ Faults(ok)
          /\ job' = IF ok[1] THEN [job EXCEPT ![t] = "pending"] ELSE job
          /\ missed' = IF ok[1] THEN missed ELSE missed \cup {t}
    BY <1>1 DEF AddTask
  <2>3. ok[1]
    BY <1>l, <2>2
  <2>4. Lifecycle!Create(t) /\ missed' = {}
    BY <1>0, <1>r, <2>1, <2>2, <2>3 DEF Lifecycle!Create, Lifecycle!Move, Told
  <2>5. QED BY <2>4 DEF Lifecycle!Next
<1>2. CASE WorkerGet
  <2>1. up /\ worker = Idle /\ queue # <<>> /\ UNCHANGED log
    BY <1>2 DEF WorkerGet
  <2>2. PICK t \in Tasks : /\ t = Head(queue) /\ active[t] # 0
                           /\ object[active[t]].status = "pending"
    <3>1. queue \in Seq(Tasks) /\ Len(queue) \in Nat
      BY <1>0, QueueFields
    <3>2. 1 \in 1..Len(queue) /\ Head(queue) = queue[1]
      BY <2>1, <3>1
    <3>3. QED BY <1>0, <3>2, QueueFields DEF FreshInv, RunOK, Objects
  <2>3. SetStatus(t, "running", TRUE)
    <3>1. PICK ok \in [1..1 -> BOOLEAN] : Faults(ok) /\ SetStatus(t, "running", ok[1])
      BY <1>2, <2>2 DEF WorkerGet
    <3>2. ok[1] = TRUE
      BY <1>l, <3>1
    <3>3. QED BY <3>1, <3>2
  <2>4. job[t] = "pending"
    BY <1>a, <2>1, <2>2
  <2>5. Lifecycle!Start(t) /\ missed' = {}
    BY <1>r, <1>s, <2>1, <2>3, <2>4 DEF Lifecycle!Start, Lifecycle!Move, Told
  <2>6. QED BY <2>5 DEF Lifecycle!Next
<1>3. CASE WorkerUpdate
  <2>1. PICK t \in Tasks : t = worker.task /\ job[t] = "running"
    BY <1>3, <1>w DEF WorkerUpdate
  <2>2. (\E ok : Record(t, "update", ok)) /\ UNCHANGED <<job, missed>>
    BY <1>3, <2>1 DEF WorkerUpdate
  <2>3. Told' = [Told EXCEPT ![t] = Append(@, "update")]
    BY <1>0, <2>2, RecordStream DEF Kinds
  <2>4. Lifecycle!Update(t)
    BY <2>1, <2>2, <2>3 DEF Lifecycle!Update, Lifecycle!Publish, Told
  <2>5. QED BY <1>0, <2>2, <2>4 DEF Lifecycle!Next
<1>4. ASSUME NEW s, NEW kind \in Kinds, up, worker # Idle, EndRun(s, kind)
      PROVE  \E t \in Tasks : /\ Lifecycle!Move(t, "running", s)
                              /\ Lifecycle!Publish(t, kind) /\ missed' = {}
  <2>1. PICK t \in Tasks : t = worker.task /\ job[t] = "running"
    BY <1>4, <1>w
  <2>2. PICK ok \in [1..2 -> BOOLEAN] :
          Faults(ok) /\ SetStatus(t, s, ok[1]) /\ Record(t, kind, ok[2])
    BY <1>4, <2>1 DEF EndRun
  <2>3. ok[1] = TRUE
    BY <1>l, <2>2
  <2>4. job' = [job EXCEPT ![t] = s] /\ missed' = {}
    BY <1>s, <2>1, <2>2, <2>3
  <2>5. Told' = [Told EXCEPT ![t] = Append(@, kind)]
    BY <1>0, <2>2, RecordStream
  <2>6. QED BY <2>1, <2>4, <2>5 DEF Lifecycle!Move, Lifecycle!Publish, Told
<1>5. CASE WorkerCancelled
  <2>1. "cancelled" \in Kinds /\ up /\ worker # Idle /\ EndRun("cancelled", "cancelled")
    BY <1>5 DEF WorkerCancelled, Kinds
  <2>2. missed' = {} /\ \E t \in Tasks : Lifecycle!Cancel(t)
    BY <1>4, <2>1 DEF Lifecycle!Cancel
  <2>3. QED BY <2>2 DEF Lifecycle!Next
<1>6. CASE WorkerFail
  <2>1. "failure" \in Kinds /\ up /\ worker # Idle /\ EndRun("failed", "failure")
    BY <1>6 DEF WorkerFail, Kinds
  <2>2. missed' = {} /\ \E t \in Tasks : Lifecycle!Fail(t)
    BY <1>4, <2>1 DEF Lifecycle!Fail
  <2>3. QED BY <2>2 DEF Lifecycle!Next
<1>7. CASE WorkerFinish
  <2>1. PICK t \in Tasks : t = worker.task /\ job[t] = "running"
    BY <1>7, <1>w DEF WorkerFinish
  <2>2. PICK ok \in [1..1 -> BOOLEAN] : Faults(ok) /\ SetStatus(t, "done", ok[1])
    BY <1>7, <2>1 DEF WorkerFinish
  <2>3. ok[1] = TRUE
    BY <1>l, <2>2
  <2>4. job' = [job EXCEPT ![t] = "done"] /\ missed' = {} /\ UNCHANGED log
    BY <1>7, <1>s, <2>1, <2>2, <2>3 DEF WorkerFinish
  <2>5. Lifecycle!Finish(t)
    BY <1>r, <2>1, <2>4 DEF Lifecycle!Finish, Lifecycle!Move, Told
  <2>6. QED BY <2>4, <2>5 DEF Lifecycle!Next
<1>8. CASE Restart
  <2>1. PICK ok \in [1..1 -> BOOLEAN] :
          /\ Faults(ok)
          /\ job' = [t \in Tasks |-> IF ok[1] /\ job[t] \in Active
                                     THEN "failed" ELSE job[t]]
          /\ missed' = IF ok[1] THEN missed
                       ELSE missed \cup {t \in Tasks : job[t] \in Active}
    BY <1>8 DEF Restart
  <2>2. ok[1]
    BY <1>l, <2>1
  <2>3. Lifecycle!Interrupt /\ missed' = {}
    BY <1>0, <1>8, <1>r, <2>1, <2>2 DEF Restart, Lifecycle!Interrupt, Active, Told
  <2>4. QED BY <2>3 DEF Lifecycle!Next
<1>9. ASSUME \/ \E t \in Tasks : CancelTask(t)
             \/ \E c \in Clients : \/ Stream(c) \/ Disconnect(c)
                                   \/ \E t \in Tasks : OpenStream(c, t)
             \/ WorkerDies \/ Crash \/ UNCHANGED vars
      PROVE  UNCHANGED <<job, log, missed>>
  BY <1>9 DEF CancelTask, Stream, StartReplay, Replay, EndReplay, Follow, Disconnect,
              OpenStream, WorkerDies, Crash, vars, disk
<1>10. QED
  BY <1>n, <1>1, <1>2, <1>3, <1>5, <1>6, <1>7, <1>8, <1>9 DEF Next, Worker

\* While ids are fresh and no write is lost, the dispatcher and its store keep the
\* promise of JobLifecycle: each job is created once, runs once, publishes only
\* while it runs and ends once, its end and the event that announces it together.
THEOREM LifecycleKept == ASSUME ~ReuseIds, MaxFaults = 0 PROVE Spec => ImplementsLifecycle
<1>1. Init => StoreInv
  BY InitFresh DEF StoreInv, Init
<1>2. StoreInv /\ [Next]_vars => StoreInv' /\ [Lifecycle!Next]_<<job, Told>>
  BY NextFresh, JobSteps DEF StoreInv
<1>3. Init => Lifecycle!Init
  <2> SUFFICES ASSUME Init PROVE Lifecycle!Init
    OBVIOUS
  <2>1. \A t \in Tasks : [i \in 1..Len(log[t]) |-> log[t][i].kind] = <<>>
    BY DEF Init
  <2>2. QED BY <2>1 DEF Init, Lifecycle!Init
<1>4. QED BY <1>1, <1>2, <1>3, PTL DEF Spec, ImplementsLifecycle, Lifecycle!Spec, Told
============================================================================
