------------------------------ MODULE Sidecar ------------------------------
(***************************************************************************)
(* A backend whose engine runs in a child process                          *)
(* (backend/services/subprocess_backend.py, subprocess_asr.py): calls that *)
(* share one child behind a lock, the frames on its two pipes, the watchdog*)
(* of each receive, the reaper and the unload, and the child's main loop   *)
(* (backend/engines/indextts/main.py).                                     *)
(*                                                                         *)
(* Callers, timers and unloaders are threads.  A step ends where a thread  *)
(* blocks or reads self._proc again; writing a frame is one step.  Idle    *)
(* time is left out: the reaper may find any sidecar idle.  The GPU slot a *)
(* call asks for first is in GpuPool.                                      *)
(***************************************************************************)
EXTENDS Integers, Sequences, FiniteSets

CONSTANTS
    Callers,    \* threads that call the backend
    Unloaders,  \* threads that unload or reap it
    None,       \* no thread
    Settings,   \* the engines and their use, one of which a behaviour is about
    MaxCalls,   \* bound: calls
    MaxLate     \* bound: timers that outlive their receive at the same time

ASSUME SidecarAssumption ==
    /\ None \notin Callers \cup Unloaders
    /\ Callers \cap Unloaders = {}
    /\ {MaxCalls, MaxLate} \subseteq Nat
    /\ Settings \subseteq [ops : SUBSET {"ping", "synth"}, cold : Nat,
                            bare : BOOLEAN, calls : 0..MaxCalls]

\* ops: what is asked of the child; cold: the progress frames of its first
\* synthesis, while it loads; bare: whether unload() is called (engine switch,
\* end of a batch job); calls: how many calls are made.
VARIABLES
    setting, \* one of Settings
    child,  \* the processes started, by number
    proc,   \* self._proc: the number of a process, 0 for None
    lock,   \* self._lock: the thread that holds it
    call,   \* for each caller, the call it makes or made last
    late,   \* timers that expired before their call ended and have not killed yet
    down,   \* for each unloader, where it is in shutdown()
    calls   \* the number of calls made

vars == <<child, proc, lock, call, late, down, calls>>

Request == {"ping", "synth"}   \* synth is also transcribe
ReplyTo(op) == IF op = "ping" THEN "pong" ELSE "audio"

\* A frame names the call it belongs to, which the code's frames do not.
Frame == [op : Request \cup {"shutdown", "ready", "pong", "audio", "progress", "error"},
          call : 0..MaxCalls]

\* "dying": killed, and poll() does not tell yet.  shut: a shutdown ended it.
Child == [state : {"starting", "up", "dying", "dead"}, in : Seq(Frame), out : Seq(Frame),
          loaded : 0..setting.cold, shut : BOOLEAN]

\* ready and reply wait for a frame on pipe.
Call == [at : {"idle", "lock", "ready", "send", "reply"}, op : Request,
         number : 0..MaxCalls, pipe : 0..MaxCalls,
         timer : {"off", "set", "expired"}]

NoCall == [at |-> "idle", op |-> "ping", number |-> 0, pipe |-> 0, timer |-> "off"]

Down == [at : {"idle", "took", "wait"}, proc : 0..MaxCalls]

TypeOK ==
    /\ child \in Seq(Child) /\ Len(child) <= MaxCalls
    /\ proc \in 0..Len(child)
    /\ lock \in Callers \cup Unloaders \cup {None}
    /\ call \in [Callers -> Call]
    /\ late \in 0..MaxLate
    /\ down \in [Unloaders -> Down]
    /\ calls \in 0..MaxCalls

Init ==
    /\ setting \in Settings
    /\ child = <<>> /\ proc = 0 /\ lock = None /\ late = 0 /\ calls = 0
    /\ call = [c \in Callers |-> NoCall]
    /\ down = [u \in Unloaders |-> [at |-> "idle", proc |-> 0]]

Procs == 1..Len(child)
Running(p) == child[p].state \in {"starting", "up"}

\* poll() is None: the process is there, or has not been buried yet.
Polled(p) == p # 0 /\ child[p].state # "dead"

\* child after p has stopped: what it wrote can still be read.
Stopped(p, state, shut) ==
    [child EXCEPT ![p].state = state, ![p].shut = shut, ![p].in = <<>>, ![p].loaded = 0]

\* child after p was killed, if there is a p and it still runs.
Kill(p, shut) == IF p # 0 /\ Running(p) THEN Stopped(p, "dying", shut) ELSE child

----------------------------------------------------------------------------
(* A call: health_check, generate or transcribe.                           *)

Begin(c, op) ==
    /\ call[c].at = "idle" /\ calls < setting.calls
    /\ calls' = calls + 1
    /\ call' = [call EXCEPT ![c] = [at |-> "lock", op |-> op, number |-> calls + 1,
                                    pipe |-> 0, timer |-> "off"]]
    /\ UNCHANGED <<child, proc, lock, late, down>>

\* The lock is taken and _spawn looks at the process: one that polls as alive
\* is used again ...
Reuse(c) ==
    /\ call[c].at = "lock" /\ lock = None /\ Polled(proc)
    /\ lock' = c
    /\ call' = [call EXCEPT ![c].at = "send"]
    /\ UNCHANGED <<child, proc, late, down, calls>>

\* Mutant: the handshake has no watchdog.
SpawnUnwatched(c) ==
    /\ call[c].at = "lock" /\ lock = None /\ ~Polled(proc)
    /\ lock' = c
    /\ child' = Append(child, [state |-> "starting", in |-> <<>>, out |-> <<>>,
                               loaded |-> 0, shut |-> FALSE])
    /\ proc' = Len(child) + 1
    /\ call' = [call EXCEPT ![c].at = "ready", ![c].pipe = Len(child) + 1]
    /\ UNCHANGED <<late, down, calls>>

\* ... otherwise one is started and its handshake awaited.
Spawn(c) ==
    /\ call[c].at = "lock" /\ lock = None /\ ~Polled(proc)
    /\ lock' = c
    /\ child' = Append(child, [state |-> "starting", in |-> <<>>, out |-> <<>>,
                               loaded |-> 0, shut |-> FALSE])
    /\ proc' = Len(child) + 1
    /\ call' = [call EXCEPT ![c].at = "ready", ![c].pipe = Len(child) + 1,
                            ![c].timer = "set"]
    /\ UNCHANGED <<late, down, calls>>

\* The receive of c is over: its timer is cancelled, or kills later.
Disarm(c) == late' = late + (IF call[c].timer = "expired" THEN 1 ELSE 0)

\* The call of c leaves the lock and returns or raises.
Leave(c) == call' = [call EXCEPT ![c] = NoCall] /\ lock' = None

\* The first frame of every child is ready.
Handshake(c) ==
    /\ call[c].at = "ready" /\ child[call[c].pipe].out # <<>>
    /\ child' = [child EXCEPT ![call[c].pipe].out = Tail(@)]
    /\ call' = [call EXCEPT ![c].at = "send", ![c].timer = "off"]
    /\ Disarm(c)
    /\ UNCHANGED <<proc, lock, down, calls>>

\* The pipe that c reads is at its end.
AtEof(c) ==
    /\ child[call[c].pipe].state \in {"dying", "dead"}
    /\ child[call[c].pipe].out = <<>>

\* A process that does not get ready is dropped by _force_kill, which takes the
\* process that is in self._proc by then.
HandshakeFails(c) ==
    /\ call[c].at = "ready" /\ AtEof(c)
    /\ child' = Kill(proc, FALSE)
    /\ proc' = 0
    /\ Disarm(c) /\ Leave(c)
    /\ UNCHANGED <<down, calls>>

Send(c) ==
    /\ call[c].at = "send" /\ Polled(proc)
    /\ child' = [child EXCEPT ![proc].in =
                   Append(@, [op |-> call[c].op, call |-> call[c].number])]
    /\ call' = [call EXCEPT ![c].at = "reply", ![c].pipe = proc, ![c].timer = "set"]
    /\ UNCHANGED <<proc, lock, late, down, calls>>

SendFails(c) ==
    /\ call[c].at = "send" /\ ~Polled(proc)
    /\ Leave(c)
    /\ UNCHANGED <<child, proc, late, down, calls>>

\* The first frame that comes is the reply.  It is the answer if it is of the
\* kind that was asked for; any other raises, and nothing more is read.
Reply(c) ==
    /\ call[c].at = "reply" /\ child[call[c].pipe].out # <<>>
    /\ child' = [child EXCEPT ![call[c].pipe].out = Tail(@)]
    /\ Disarm(c) /\ Leave(c)
    /\ UNCHANGED <<proc, down, calls>>

\* Mutant: a call whose time is over returns and leaves the child alone.
ReplyAbandoned(c) ==
    /\ call[c].at = "reply" /\ call[c].timer = "expired"
    /\ Leave(c)
    /\ UNCHANGED <<child, proc, late, down, calls>>

ReplyFails(c) ==
    /\ call[c].at = "reply" /\ AtEof(c)
    /\ Disarm(c) /\ Leave(c)
    /\ UNCHANGED <<child, proc, down, calls>>

----------------------------------------------------------------------------
(* The watchdog: a Timer thread for each receive.                          *)

Expire(c) ==
    /\ call[c].timer = "set" /\ late < MaxLate
    /\ call' = [call EXCEPT ![c].timer = "expired"]
    /\ UNCHANGED <<child, proc, lock, late, down, calls>>

\* It kills the process that is in self._proc when it comes to it, during the
\* receive or, when a frame came just then, after.
TimeoutKill(c) ==
    /\ call[c].timer = "expired"
    /\ call' = [call EXCEPT ![c].timer = "off"]
    /\ child' = Kill(proc, FALSE)
    /\ UNCHANGED <<proc, lock, late, down, calls>>

LateKill ==
    /\ late > 0
    /\ late' = late - 1
    /\ child' = Kill(proc, FALSE)
    /\ UNCHANGED <<proc, lock, call, down, calls>>

----------------------------------------------------------------------------
(* shutdown(), and the two ways to it.                                     *)

\* Mutant: the reaper does not look at the lock.
ReapUnlocked(u) ==
    /\ down[u].at = "idle" /\ Polled(proc)
    /\ down' = [down EXCEPT ![u] = [at |-> "took", proc |-> proc]]
    /\ UNCHANGED <<child, proc, lock, call, late, calls>>

\* The reapers (idle, or on request) act under the lock, if it is free.
Reap(u) ==
    /\ down[u].at = "idle" /\ lock = None /\ Polled(proc)
    /\ lock' = u
    /\ down' = [down EXCEPT ![u] = [at |-> "took", proc |-> proc]]
    /\ UNCHANGED <<child, proc, call, late, calls>>

\* unload(), the second definition in its class, does not.
Unload(u) ==
    /\ setting.bare /\ down[u].at = "idle" /\ proc # 0
    /\ down' = [down EXCEPT ![u] = [at |-> "took", proc |-> proc]]
    /\ UNCHANGED <<child, proc, lock, call, late, calls>>

\* The frame goes to the process that is in self._proc by then.
SendShutdown(u) ==
    /\ down[u].at = "took"
    /\ down' = [down EXCEPT ![u].at = "wait"]
    /\ child' = IF Polled(proc)
                THEN [child EXCEPT ![proc].in =
                        Append(@, [op |-> "shutdown", call |-> 0])]
                ELSE child
    /\ UNCHANGED <<proc, lock, call, late, calls>>

\* A process that does not leave is terminated, and then killed.
Terminate(u) ==
    /\ down[u].at = "wait"
    /\ Running(down[u].proc)
    /\ child' = Kill(down[u].proc, TRUE)
    /\ UNCHANGED <<proc, lock, call, late, down, calls>>

\* Mutant: the process is forgotten before it has left.
EndShutdownEarly(u) ==
    /\ down[u].at = "wait"
    /\ proc' = 0
    /\ down' = [down EXCEPT ![u] = [at |-> "idle", proc |-> 0]]
    /\ lock' = IF lock = u THEN None ELSE lock
    /\ UNCHANGED <<child, call, late, calls>>

\* Whatever self._proc is by then, it is forgotten.
EndShutdown(u) ==
    /\ down[u].at = "wait" /\ ~Running(down[u].proc)
    /\ proc' = 0
    /\ down' = [down EXCEPT ![u] = [at |-> "idle", proc |-> 0]]
    /\ lock' = IF lock = u THEN None ELSE lock
    /\ UNCHANGED <<child, call, late, calls>>

----------------------------------------------------------------------------
(* The child: its main loop, its death.                                    *)

\* child after p wrote a frame; done: the frame is the reply to its request.
Wrote(p, op, done) ==
    LET number == IF child[p].in = <<>> THEN 0 ELSE Head(child[p].in).call IN
    [child EXCEPT ![p].out = Append(@, [op |-> op, call |-> number]),
                  ![p].in = IF done THEN Tail(@) ELSE @]

Serves(p, op) ==
    child[p].state = "up" /\ child[p].in # <<>> /\ Head(child[p].in).op = op

Ready(p) ==
    /\ child[p].state = "starting"
    /\ child' = [Wrote(p, "ready", FALSE) EXCEPT ![p].state = "up"]

Pong(p) == Serves(p, "ping") /\ child' = Wrote(p, "pong", TRUE)

\* The model is loaded for the first synthesis.
Progress(p) ==
    /\ Serves(p, "synth") /\ child[p].loaded < setting.cold
    /\ child' = [Wrote(p, "progress", FALSE) EXCEPT ![p].loaded = @ + 1]

Audio(p) ==
    /\ Serves(p, "synth") /\ child[p].loaded = setting.cold
    /\ child' = Wrote(p, "audio", TRUE)

\* An operation that raises leaves the child alive; a load starts again.
Error(p) ==
    /\ Serves(p, "synth")
    /\ child' = [Wrote(p, "error", TRUE) EXCEPT ![p].loaded =
                   IF @ = setting.cold THEN @ ELSE 0]

Exit(p) ==
    /\ Serves(p, "shutdown")
    /\ child' = Stopped(p, "dead", TRUE)

Crash(p) ==
    /\ Running(p)
    /\ child' = Stopped(p, "dead", FALSE)

Buried(p) ==
    /\ child[p].state = "dying"
    /\ child' = [child EXCEPT ![p].state = "dead"]

ChildStep(p) ==
    /\ Ready(p) \/ Pong(p) \/ Progress(p) \/ Audio(p) \/ Error(p) \/ Exit(p)
         \/ Crash(p) \/ Buried(p)
    /\ UNCHANGED <<proc, lock, call, late, down, calls>>

----------------------------------------------------------------------------
CallStep(c) ==
    \/ Reuse(c) \/ Spawn(c) \/ Handshake(c) \/ HandshakeFails(c)
    \/ Send(c) \/ SendFails(c) \/ Reply(c) \/ ReplyFails(c)

ShutdownStep(u) == SendShutdown(u) \/ Terminate(u) \/ EndShutdown(u)

Next ==
    \/ \E c \in Callers : \/ \E op \in setting.ops : Begin(c, op)
                          \/ CallStep(c) \/ Expire(c) \/ TimeoutKill(c)
    \/ LateKill
    \/ \E u \in Unloaders : Reap(u) \/ Unload(u) \/ ShutdownStep(u)
    \/ \E p \in Procs : ChildStep(p)

Spec == Init /\ [][Next /\ UNCHANGED setting]_<<vars, setting>>

\* Threads of the backend go on, timers expire and what is killed dies.
\* Nothing is assumed of a child: it may be silent for ever.
FairSpec ==
    /\ Spec
    /\ \A c \in Callers : WF_vars(CallStep(c)) /\ WF_vars(Expire(c))
                            /\ WF_vars(TimeoutKill(c))
    /\ WF_vars(LateKill)
    /\ \A u \in Unloaders : WF_vars(ShutdownStep(u))
    /\ \A p \in 1..MaxCalls : WF_vars(p \in Procs /\ Buried(p)
                                        /\ UNCHANGED <<proc, lock, call, late, down, calls>>)

----------------------------------------------------------------------------
\* An answer that a call returns is the answer to this call, not to an earlier
\* one.  Fails for a child that reports the progress of its load: the frames
\* that generate() leaves in the pipe are taken for later replies.
RepliesMatch ==
    \A c \in Callers : call[c].at = "reply" /\ child[call[c].pipe].out # <<>> =>
      LET frame == Head(child[call[c].pipe].out) IN
      frame.op = ReplyTo(call[c].op) => frame.call = call[c].number

\* It holds, whatever reapers and unloads do, as long as the child writes one
\* frame for a request.
AnswersOwn == setting.cold = 0 => RepliesMatch

\* Nobody shuts a process down that a call is talking to (the promise of
\* unload's first definition and of the reapers).  Fails for a bare unload.
BusyIsSpared ==
    ~setting.bare => \A c \in Callers : call[c].at \in {"ready", "reply"} =>
      ~child[call[c].pipe].shut

\* Every process that runs can still be found, by the next call, the reaper
\* and the shutdown at exit, or is being shut down; so there is never a second
\* one that holds the engine in memory.  Fails for a bare unload.
NoOrphan ==
    ~setting.bare => \A p \in Procs : Running(p) =>
      p = proc \/ \E u \in Unloaders : down[u].proc = p

\* A call ends, whatever the child does.  Fails with a bare unload.
CallsReturn ==
    \A c \in Callers : ~setting.bare /\ call[c].at # "idle" ~> call[c].at = "idle"
============================================================================
