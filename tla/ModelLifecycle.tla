-------------------------- MODULE ModelLifecycle --------------------------
(***************************************************************************)
(* The in-process speech model (backend/services/model_manager.py and       *)
(* model_lifecycle.py): get_model and preload_model with their lock, the    *)
(* load on the GPU pool with its repairs and its deadline, the idle worker, *)
(* and the unload on request.                                               *)
(*                                                                          *)
(* Coroutines of one loop: a step ends where one awaits.  A section under   *)
(* _model_lock awaits only while it loads, so the lock is held exactly when *)
(* some call is loading; who gets it next is left open.  The load itself    *)
(* runs in a thread, which a deadline or a cancelled caller abandons but    *)
(* cannot stop.                                                             *)
(***************************************************************************)
EXTENDS Naturals

CONSTANTS
    Callers,   \* coroutines that ask for the model
    MaxAsks,   \* bound: calls of get_model and preload_model
    Regimes    \* what a behaviour is about: "quick", "slow"

ASSUME ModelLifecycleAssumption ==
    /\ MaxAsks \in Nat
    /\ Regimes \subseteq {"quick", "slow"}

\* Either every load and every use of the model is over within the idle
\* timeout and nobody unloads by hand, or both may take any time.
VARIABLES
    regime, \* one of Regimes
    model,  \* the global: the number of a copy, 0 for None
    copy,   \* each copy, numbered by the call that loads it: its load
    fresh,  \* time.time() - _last_used is within the idle timeout
    call,   \* for each caller, where it is and the copy it loads or uses
    asks    \* calls made

vars == <<regime, model, copy, fresh, call, asks>>

Copies == 1..MaxAsks

NoCall == [at |-> "idle", copy |-> 0, uses |-> FALSE]

TypeOK ==
    /\ regime \in Regimes
    /\ model \in 0..MaxAsks
    /\ copy \in [Copies -> {"none", "queued", "loading", "ready", "failed"}]
    /\ fresh \in BOOLEAN
    /\ call \in [Callers -> [at : {"idle", "lock", "load", "use"},
                             copy : 0..MaxAsks, uses : BOOLEAN]]
    /\ asks \in 0..MaxAsks

Init ==
    /\ regime \in Regimes
    /\ model = 0 /\ fresh = TRUE
    /\ copy = [n \in Copies |-> "none"]
    /\ call = [c \in Callers |-> NoCall]
    /\ asks = 0

Locked == \E c \in Callers : call[c].at = "load"

----------------------------------------------------------------------------
(* get_model and preload_model.                                            *)

\* The time is noted when the model is asked for; a model that is there is
\* returned without the lock.  preload_model leaves at once in that case.
Ask(c, uses) ==
    /\ call[c].at = "idle" /\ asks < MaxAsks
    /\ ~uses => model = 0
    /\ asks' = asks + 1
    /\ fresh' = TRUE
    /\ call' = [call EXCEPT ![c] =
         IF model # 0 THEN [at |-> "use", copy |-> model, uses |-> uses]
                      ELSE [at |-> "lock", copy |-> asks + 1, uses |-> uses]]
    /\ UNCHANGED <<regime, model, copy>>

Leave(c) == call' = [call EXCEPT ![c] = NoCall]

\* A caller that is cancelled, as the generator of a response whose client leaves,
\* gives up the lock.  Its load is cancelled in the queue; one that has begun goes
\* on in its thread.
CallerLeaves(c) ==
    /\ call[c].at \in {"lock", "load"}
    /\ copy' = [n \in Copies |-> IF call[c].at = "load" /\ n = call[c].copy
                                    /\ copy[n] = "queued"
                                 THEN "failed" ELSE copy[n]]
    /\ Leave(c)
    /\ UNCHANGED <<regime, model, fresh, asks>>

\* What the caller does with the model it gets: preload_model nothing.
Got(c, n) ==
    call' = [call EXCEPT ![c] = IF @.uses THEN [@ EXCEPT !.at = "use", !.copy = n]
                                          ELSE NoCall]

\* Mutant: the lock is taken, but the model is not looked at again.
EnterBlind(c) ==
    /\ copy' = [copy EXCEPT ![call[c].copy] = "queued"]
    /\ call' = [call EXCEPT ![c].at = "load"]

\* Under the lock the model is looked at again; the load goes to the GPU pool.
Enter(c) ==
    IF model # 0
    THEN Got(c, model) /\ UNCHANGED copy
    ELSE /\ copy' = [copy EXCEPT ![call[c].copy] = "queued"]
         /\ call' = [call EXCEPT ![c].at = "load"]

TakeLock(c) ==
    /\ call[c].at = "lock" /\ ~Locked
    /\ Enter(c)
    /\ UNCHANGED <<regime, model, fresh, asks>>

LoadReturns(c) ==
    /\ call[c].at = "load" /\ copy[call[c].copy] = "ready"
    /\ model' = call[c].copy
    /\ Got(c, call[c].copy)
    /\ UNCHANGED <<regime, copy, fresh, asks>>

\* The load raised, or the pool cancelled it.
LoadFails(c) ==
    /\ call[c].at = "load" /\ copy[call[c].copy] = "failed"
    /\ Leave(c)
    /\ UNCHANGED <<regime, model, copy, fresh, asks>>

\* Jobs that wait in the pool are cancelled by its reset.
Cancelled == [n \in Copies |-> IF copy[n] = "queued" THEN "failed" ELSE copy[n]]

\* Mutant: a load has no deadline.
LoadNeverTimesOut(c) == FALSE

\* The deadline of the load: the pool is reset, a thread that loads goes on.
LoadTimesOut(c) ==
    /\ regime = "slow"
    /\ call[c].at = "load" /\ copy[call[c].copy] \in {"queued", "loading"}
    /\ copy' = Cancelled
    /\ Leave(c)
    /\ UNCHANGED <<regime, model, fresh, asks>>

\* Another job resets the pool.
PoolReset ==
    /\ copy' = Cancelled
    /\ UNCHANGED <<regime, model, fresh, call, asks>>

\* The call for which the model was asked ends, however.
UseEnds(c) ==
    /\ call[c].at = "use"
    /\ Leave(c)
    /\ UNCHANGED <<regime, model, copy, fresh, asks>>

----------------------------------------------------------------------------
(* _load_model_sync, in a thread of the pool.                              *)

\* Resuming or repeating a broken download is part of being loading.
Load(n) ==
    \/ copy[n] = "queued" /\ copy' = [copy EXCEPT ![n] = "loading"]
    \/ /\ copy[n] = "loading"
       /\ \E end \in {"ready", "failed"} : copy' = [copy EXCEPT ![n] = end]

LoadThread(n) ==
    /\ Load(n)
    /\ UNCHANGED <<regime, model, fresh, call, asks>>

----------------------------------------------------------------------------
(* The idle worker, and unload("tts").                                     *)

\* The idle timeout has passed since the last call of get_model.
Tick ==
    /\ regime = "quick" => \A c \in Callers : call[c].at = "idle"
    /\ fresh' = FALSE
    /\ UNCHANGED <<regime, model, copy, call, asks>>

\* Mutant: the worker clears a local of its own, not the global.
IdleChecksLocal ==
    /\ ~Locked
    /\ model' = model
    /\ UNCHANGED <<regime, copy, fresh, call, asks>>

IdleChecks ==
    /\ ~Locked
    /\ model' = IF fresh THEN model ELSE 0
    /\ UNCHANGED <<regime, copy, fresh, call, asks>>

Unload ==
    /\ regime = "slow" /\ ~Locked
    /\ model' = 0
    /\ UNCHANGED <<regime, copy, fresh, call, asks>>

----------------------------------------------------------------------------
CallStep(c) == TakeLock(c) \/ LoadReturns(c) \/ LoadFails(c) \/ LoadTimesOut(c)

Next ==
    \/ \E c \in Callers : \/ \E uses \in BOOLEAN : Ask(c, uses)
                          \/ CallStep(c) \/ CallerLeaves(c) \/ UseEnds(c)
    \/ \E n \in Copies : LoadThread(n)
    \/ PoolReset \/ Tick \/ IdleChecks \/ Unload

Spec == Init /\ [][Next]_vars

\* Time passes, so deadlines and the idle timeout come; the lock is handed to
\* everyone who waits for it; what uses the model ends.  A thread that loads
\* may hang for ever, unless every load is quick.
FairSpec ==
    /\ Spec
    /\ \A c \in Callers : SF_vars(TakeLock(c)) /\ WF_vars(CallStep(c))
                            /\ WF_vars(UseEnds(c))
    /\ \A n \in Copies : WF_vars(regime = "quick" /\ LoadThread(n))
    /\ WF_vars(Tick) /\ SF_vars(IdleChecks)

----------------------------------------------------------------------------
\* A copy that takes up memory: the model, what a call still uses, and what is
\* being loaded, whether anybody waits for it or not.
Resident(n) ==
    \/ n = model \/ copy[n] = "loading"
    \/ \E c \in Callers : call[c].at = "use" /\ call[c].copy = n

\* A load that goes on though its caller has left: what it loads nobody gets.
Abandoned(n) ==
    copy[n] = "loading" /\ \A c \in Callers : call[c].at = "load" => call[c].copy # n

\* But for abandoned loads the model is never in memory twice, however calls, the
\* preload, loads that fail or are cancelled and the idle worker meet.  (Beside an
\* abandoned load a second copy is loaded.)  Fails when a load or a use outlasts the
\* idle timeout, since the time of the last use is noted before them, and when the
\* user unloads a model in use.
OneCopy ==
    regime = "quick" => \A m, n \in Copies :
      Resident(m) /\ ~Abandoned(m) /\ Resident(n) /\ ~Abandoned(n) => m = n

\* Every call of get_model comes to an end, also when loads hang for ever.
AsksEnd == \A c \in Callers : call[c].at # "idle" ~> call[c].at = "idle"

\* A model nobody asks for any more leaves the memory, whatever happened to the
\* loads before.
GpuFreed == <>[](model = 0 /\ \A c \in Callers : call[c].at = "idle")
============================================================================
