--------------------------- MODULE SidecarProofs ---------------------------
(***************************************************************************)
(* Theorems of Sidecar for any callers, unloaders, engines and crashes: a   *)
(* call gets its own answer, and without bare unloads no process is lost    *)
(* and none is shut down while a call talks to it.                          *)
(***************************************************************************)
EXTENDS Sidecar, SequenceTheorems, TLAPS

\* The types without the bounds on counters.
Line == [op : Request \cup {"shutdown", "ready", "pong", "audio", "progress", "error"},
         call : Nat]
Kid == [state : {"starting", "up", "dying", "dead"}, in : Seq(Line), out : Seq(Line),
        loaded : Nat, shut : BOOLEAN]
Talk == [at : {"idle", "lock", "ready", "send", "reply"}, op : Request, number : Nat,
         pipe : Nat, timer : {"off", "set", "expired"}]

Talks(c) == call[c].at \in {"ready", "reply"}

ChildType == child \in Seq(Kid) /\ proc \in 0..Len(child) /\ setting \in Settings
CallType ==
    /\ call \in [Callers -> Talk] /\ calls \in Nat
    /\ \A c \in Callers : Talks(c) => call[c].pipe \in Procs
DownType ==
    /\ down \in [Unloaders -> [at : {"idle", "took", "wait"}, proc : Nat]]
    /\ \A u \in Unloaders : down[u].at # "idle" => down[u].proc \in Procs
Types == ChildType /\ CallType /\ DownType

\* Whoever is past the lock in a call holds it.
LockOK == \A c \in Callers : call[c].at \in {"ready", "send", "reply"} => lock = c

\* Without bare unloads there is one process at most, and it is self._proc: for
\* the call that talks to it and for whoever shuts it down under the lock.
OneOK ==
    /\ \A u \in Unloaders : down[u].at # "idle" => lock = u /\ down[u].proc = proc
    /\ \A c \in Callers : Talks(c) => call[c].pipe = proc
    /\ \A p \in Procs : Running(p) => p = proc

\* A process knows of a shutdown, or has ended by one, only while it is waited for.
Told(p) == \E i \in 1..Len(child[p].in) : child[p].in[i].op = "shutdown"
Awaited(p) == \E u \in Unloaders : down[u].at = "wait" /\ down[u].proc = p

ShutOK ==
    \A p \in Procs : (Running(p) /\ Told(p)) \/ (p = proc /\ child[p].shut) => Awaited(p)
\* The frames of a child that writes one frame for a request: at most one frame is
\* in its pipes, and nothing is left there when no call waits for it.
Asked(p) == {i \in 1..Len(child[p].in) : child[p].in[i].op # "shutdown"}

Single(p) ==
    /\ Len(child[p].out) <= 1
    /\ Running(p) => /\ \A i, j \in Asked(p) : i = j
                     /\ child[p].out # <<>> => Asked(p) = {}
Quiet(p) ==
    /\ child[p].out = <<>> /\ child[p].state # "starting"
    /\ Running(p) => Asked(p) = {}
AtReady(p) ==
    /\ child[p].state = "starting" => child[p].out = <<>>
    /\ Running(p) => Asked(p) = {}
AtReply(p, n) ==
    /\ child[p].state # "starting"
    /\ \A i \in 1..Len(child[p].out) : child[p].out[i].call = n
    /\ Running(p) => \A i \in Asked(p) : child[p].in[i].call = n

KidOK(p) ==
    /\ Single(p)
    /\ (\A c \in Callers : Talks(c) => call[c].pipe # p) => Quiet(p)
    /\ \A c \in Callers : call[c].pipe = p =>
         /\ call[c].at = "ready" => AtReady(p)
         /\ call[c].at = "reply" => AtReply(p, call[c].number)

FramesOK == setting.cold = 0 => \A p \in Procs : KidOK(p)
----------------------------------------------------------------------------
(* What a step does to the processes.                                      *)

LEMMA Line0 == \A op \in Request \cup {"shutdown", "ready", "pong", "audio", "progress", "error"},
                  n \in Nat : [op |-> op, call |-> n] \in Line
BY DEF Line

LEMMA Replaced ==
    ASSUME ChildType, NEW p \in Procs, NEW k \in Kid, child' = [child EXCEPT ![p] = k]
    PROVE  /\ child' \in Seq(Kid) /\ Len(child') = Len(child) /\ child'[p] = k
           /\ \A q \in Procs : q # p => child'[q] = child[q]
<1>1. child \in Seq(Kid) /\ p \in 1..Len(child)
  BY DEF ChildType, Procs
<1> QED
  BY <1>1, ExceptSeq

LEMMA KillFacts ==
    ASSUME ChildType, NEW p \in 0..Len(child), NEW b \in BOOLEAN, child' = Kill(p, b)
    PROVE  /\ child' \in Seq(Kid) /\ Len(child') = Len(child)
           /\ p # 0 => child'[p].state \notin {"starting", "up"}
           /\ \A q \in Procs :
                \/ child'[q] = child[q]
                \/ /\ q = p /\ Running(q) /\ child'[q].state = "dying"
                   /\ child'[q].in = <<>> /\ child'[q].out = child[q].out
                   /\ child'[q].shut = b
<1>1. CASE p # 0 /\ Running(p)
  <2>. DEFINE k == [child[p] EXCEPT !.state = "dying", !.shut = b, !.in = <<>>, !.loaded = 0]
  <2>1. p \in Procs /\ child[p] \in Kid
    BY <1>1 DEF ChildType, Procs
  <2>2. k \in Kid
    <3>1. <<>> \in Seq(Line) /\ 0 \in Nat
      OBVIOUS
    <3> QED
      BY <2>1, <3>1 DEF Kid
  <2>3. child' = [child EXCEPT ![p] = k]
    BY <1>1 DEF Kill, Stopped
  <2>4. k.state = "dying" /\ k.in = <<>> /\ k.out = child[p].out /\ k.shut = b
    BY <2>1 DEF Kid
  <2> HIDE DEF k
  <2>5. /\ child' \in Seq(Kid) /\ Len(child') = Len(child) /\ child'[p] = k
        /\ \A q \in Procs : q # p => child'[q] = child[q]
    BY <2>1, <2>2, <2>3, Replaced
  <2> QED
    BY <1>1, <2>4, <2>5
<1>2. CASE ~(p # 0 /\ Running(p))
  BY <1>2 DEF Kill, Running, ChildType
<1> QED
  BY <1>1, <1>2

LEMMA SpawnFacts ==
    ASSUME ChildType,
           child' = Append(child, [state |-> "starting", in |-> <<>>, out |-> <<>>,
                                   loaded |-> 0, shut |-> FALSE])
    PROVE  /\ child' \in Seq(Kid) /\ Len(child') = Len(child) + 1
           /\ child'[Len(child) + 1] = [state |-> "starting", in |-> <<>>, out |-> <<>>,
                                        loaded |-> 0, shut |-> FALSE]
           /\ \A q \in Procs : child'[q] = child[q]
<1>. DEFINE k == [state |-> "starting", in |-> <<>>, out |-> <<>>, loaded |-> 0, shut |-> FALSE]
<1>1. k \in Kid
  <2>1. <<>> \in Seq(Line) /\ 0 \in Nat /\ FALSE \in BOOLEAN
    OBVIOUS
  <2> QED
    BY <2>1 DEF Kid
<1>2. child \in Seq(Kid) /\ child' = Append(child, k)
  BY DEF ChildType
<1> HIDE DEF k
<1>3. /\ child' \in Seq(Kid) /\ Len(child') = Len(child) + 1 /\ child'[Len(child) + 1] = k
      /\ \A q \in Procs : child'[q] = child[q]
  BY <1>1, <1>2, AppendProperties DEF Procs
<1> QED
  BY <1>3 DEF k

\* A frame put into a pipe or taken out of it; the rest stays as it was.
SameBut(p) ==
    /\ child' \in Seq(Kid) /\ Len(child') = Len(child)
    /\ \A q \in Procs : q # p => child'[q] = child[q]

LEMMA KidFacts ==
    ASSUME ChildType, NEW p \in Procs
    PROVE  /\ child[p] \in Kid
           /\ child[p].state \in {"starting", "up", "dying", "dead"}
           /\ child[p].in \in Seq(Line) /\ child[p].out \in Seq(Line)
           /\ child[p].loaded \in Nat /\ child[p].shut \in BOOLEAN
<1>1. child[p] \in Kid
  BY ElementOfSeq DEF ChildType, Procs
<1> QED
  BY <1>1 DEF Kid

LEMMA SendFacts ==
    ASSUME ChildType, NEW p \in Procs, NEW f \in Line,
           child' = [child EXCEPT ![p].in = Append(@, f)]
    PROVE  /\ SameBut(p)
           /\ child'[p].state = child[p].state /\ child'[p].out = child[p].out
           /\ child'[p].shut = child[p].shut /\ child'[p].in = Append(child[p].in, f)
<1>. DEFINE k == [child[p] EXCEPT !.in = Append(child[p].in, f)]
<1>1. child[p] \in Kid /\ Append(child[p].in, f) \in Seq(Line)
  BY KidFacts
<1>2. k \in Kid /\ k.state = child[p].state /\ k.out = child[p].out /\ k.shut = child[p].shut
      /\ k.in = Append(child[p].in, f)
  BY <1>1 DEF Kid
<1>3. child' = [child EXCEPT ![p] = k]
  OBVIOUS
<1> HIDE DEF k
<1>4. SameBut(p) /\ child'[p] = k
  BY <1>2, <1>3, Replaced DEF SameBut
<1> QED
  BY <1>2, <1>4

LEMMA TakeFacts ==
    ASSUME ChildType, NEW p \in Procs, child[p].out # <<>>,
           child' = [child EXCEPT ![p].out = Tail(@)]
    PROVE  /\ SameBut(p)
           /\ child'[p].state = child[p].state /\ child'[p].in = child[p].in
           /\ child'[p].shut = child[p].shut /\ child'[p].out = Tail(child[p].out)
<1>. DEFINE k == [child[p] EXCEPT !.out = Tail(child[p].out)]
<1>1. child[p] \in Kid /\ Tail(child[p].out) \in Seq(Line)
  BY KidFacts
<1>2. k \in Kid /\ k.state = child[p].state /\ k.in = child[p].in /\ k.shut = child[p].shut
      /\ k.out = Tail(child[p].out)
  BY <1>1 DEF Kid
<1>3. child' = [child EXCEPT ![p] = k]
  OBVIOUS
<1> HIDE DEF k
<1>4. SameBut(p) /\ child'[p] = k
  BY <1>2, <1>3, Replaced DEF SameBut
<1> QED
  BY <1>2, <1>4

\* What a child does by itself: it gets ready, reports its progress, answers the
\* request it is at, or stops.
GetsReady(p) ==
    /\ child[p].state = "starting" /\ child'[p].state = "up"
    /\ child'[p].in = child[p].in /\ child'[p].shut = child[p].shut
    /\ \E f \in Line : child'[p].out = Append(child[p].out, f)

Reports(p) ==
    /\ child[p].loaded < setting.cold
    /\ child[p].state = "up" /\ child'[p].state = "up"
    /\ child'[p].in = child[p].in /\ child'[p].shut = child[p].shut

Answers(p) ==
    /\ child[p].state = "up" /\ child'[p].state = "up"
    /\ child[p].in # <<>> /\ Head(child[p].in).op # "shutdown"
    /\ child'[p].in = Tail(child[p].in) /\ child'[p].shut = child[p].shut
    /\ \E f \in Line : /\ f.call = Head(child[p].in).call
                       /\ child'[p].out = Append(child[p].out, f)

Stops(p) ==
    /\ child'[p].state = "dead" /\ child'[p].out = child[p].out
    /\ child'[p].shut = child[p].shut \/ child'[p].shut = FALSE \/ Serves(p, "shutdown")

\* w is child p after it wrote a frame.
WroteAs(p, op, done, w) ==
    /\ Wrote(p, op, done) = [child EXCEPT ![p] = w]
    /\ w.state = child[p].state /\ w.shut = child[p].shut /\ w.loaded = child[p].loaded
    /\ done => w.in = Tail(child[p].in)
    /\ ~done => w.in = child[p].in
    /\ \E f \in Line : /\ child[p].in # <<>> => f.call = Head(child[p].in).call
                       /\ w.out = Append(child[p].out, f)

LEMMA ChildFacts ==
    ASSUME ChildType, NEW p \in Procs, ChildStep(p)
    PROVE  SameBut(p) /\ (GetsReady(p) \/ Reports(p) \/ Answers(p) \/ Stops(p))
<1>a. child[p] \in Kid /\ child[p].in \in Seq(Line) /\ child[p].out \in Seq(Line)
      /\ child[p].loaded \in Nat /\ child[p].shut \in BOOLEAN
  BY KidFacts
<1>b. child \in Seq(Kid) /\ p \in DOMAIN child
  BY DEF ChildType, Procs
<1>1. ASSUME NEW op \in {"ready", "pong", "audio", "progress", "error"}, NEW done \in BOOLEAN,
             done => child[p].in # <<>>
      PROVE  \E w \in Kid : WroteAs(p, op, done, w)
  <2>. DEFINE n == IF child[p].in = <<>> THEN 0 ELSE Head(child[p].in).call
              f == [op |-> op, call |-> n]
              in1 == IF done THEN Tail(child[p].in) ELSE child[p].in
              out1 == Append(child[p].out, f)
              w == [child[p] EXCEPT !.out = out1, !.in = in1]
  <2>1. n \in Nat
    <3>1. child[p].in # <<>> => Head(child[p].in) \in Line
      BY <1>a
    <3> QED
      BY <3>1 DEF Line
  <2>2. f \in Line /\ f.call = n
    BY <2>1 DEF Line
  <2>3. Wrote(p, op, done) = [child EXCEPT ![p] = w]
    BY <1>b DEF Wrote
  <2>4. in1 \in Seq(Line) /\ out1 \in Seq(Line)
    <3> HIDE DEF f
    <3> QED
      BY <1>1, <1>a, <2>2
  <2>5. /\ w \in Kid /\ w.state = child[p].state /\ w.shut = child[p].shut
        /\ w.loaded = child[p].loaded /\ w.in = in1 /\ w.out = out1
    <3> HIDE DEF in1, out1
    <3> QED
      BY <2>4, <1>a DEF Kid
  <2>6. \E g \in Line : /\ child[p].in # <<>> => g.call = Head(child[p].in).call
                        /\ out1 = Append(child[p].out, g)
    BY Zenon, <2>2
  <2>7. WroteAs(p, op, done, w)
    <3> HIDE DEF w, out1
    <3> QED
      BY <2>3, <2>5, <2>6 DEF WroteAs
  <2> HIDE DEF w
  <2> QED
    BY <2>5, <2>7
<1>2. ASSUME NEW w \in Kid, NEW s \in {"starting", "up", "dying", "dead"},
             child' = [child EXCEPT ![p] = [w EXCEPT !.state = s]]
      PROVE  /\ SameBut(p) /\ child'[p].state = s /\ child'[p].in = w.in
             /\ child'[p].out = w.out /\ child'[p].shut = w.shut
  <2>. DEFINE k == [w EXCEPT !.state = s]
  <2>1. k \in Kid /\ k.state = s /\ k.in = w.in /\ k.out = w.out /\ k.shut = w.shut
    BY DEF Kid
  <2>2. child' = [child EXCEPT ![p] = k]
    BY <1>2
  <2> HIDE DEF k
  <2> QED
    BY <2>1, <2>2, Replaced DEF SameBut
<1>3. ASSUME NEW w \in Kid, NEW l \in Nat,
              child' = [child EXCEPT ![p] = [w EXCEPT !.loaded = l]]
      PROVE  /\ SameBut(p) /\ child'[p].state = w.state /\ child'[p].in = w.in
             /\ child'[p].out = w.out /\ child'[p].shut = w.shut
  <2>. DEFINE k == [w EXCEPT !.loaded = l]
  <2>1. k \in Kid /\ k.state = w.state /\ k.in = w.in /\ k.out = w.out /\ k.shut = w.shut
    BY DEF Kid
  <2>2. child' = [child EXCEPT ![p] = k]
    BY <1>3
  <2> HIDE DEF k
  <2> QED
    BY <2>1, <2>2, Replaced DEF SameBut
<1>4. ASSUME NEW k \in Kid, child' = [child EXCEPT ![p] = k]
      PROVE  SameBut(p) /\ child'[p] = k
  BY <1>4, Replaced DEF SameBut
<1>5. ASSUME Ready(p) PROVE SameBut(p) /\ GetsReady(p)
  <2>1. PICK w \in Kid : WroteAs(p, "ready", FALSE, w)
    BY <1>1
  <2>2. child' = [child EXCEPT ![p] = [w EXCEPT !.state = "up"]]
    BY <1>5, <1>b, <2>1 DEF Ready, WroteAs
  <2>3. /\ SameBut(p) /\ child'[p].state = "up" /\ child'[p].in = w.in
        /\ child'[p].out = w.out /\ child'[p].shut = w.shut
    BY <1>2, <2>2
  <2> QED
    BY <1>5, <2>1, <2>3 DEF Ready, GetsReady, WroteAs
<1>6. ASSUME NEW op \in {"pong", "audio"}, child[p].state = "up", child[p].in # <<>>,
             Head(child[p].in).op # "shutdown", child' = Wrote(p, op, TRUE)
      PROVE  SameBut(p) /\ Answers(p)
  <2>1. PICK w \in Kid : WroteAs(p, op, TRUE, w)
    BY <1>1, <1>6
  <2>2. SameBut(p) /\ child'[p] = w
    BY <1>4, <1>6, <2>1 DEF WroteAs
  <2> QED
    BY <1>6, <2>1, <2>2 DEF Answers, WroteAs
<1>7. ASSUME Progress(p) PROVE SameBut(p) /\ Reports(p)
  <2>1. PICK w \in Kid : WroteAs(p, "progress", FALSE, w)
    BY <1>1
  <2>2. child' = [child EXCEPT ![p] = [w EXCEPT !.loaded = @ + 1]]
    BY <1>7, <1>b, <2>1 DEF Progress, WroteAs
  <2>3. w.loaded + 1 \in Nat
    BY <2>1, <1>a DEF WroteAs
  <2>4. SameBut(p) /\ child'[p].state = w.state /\ child'[p].in = w.in /\ child'[p].shut = w.shut
    BY <1>3, <2>2, <2>3
  <2> QED
    BY <1>7, <2>1, <2>4 DEF Progress, Serves, Reports, WroteAs
<1>8. ASSUME Error(p) PROVE SameBut(p) /\ Answers(p)
  <2>a. child[p].state = "up" /\ child[p].in # <<>> /\ Head(child[p].in).op # "shutdown"
    BY <1>8 DEF Error, Serves
  <2>1. PICK w \in Kid : WroteAs(p, "error", TRUE, w)
    BY <1>1, <2>a
  <2>. DEFINE l == IF w.loaded = setting.cold THEN w.loaded ELSE 0
  <2>2. child' = [child EXCEPT ![p] = [w EXCEPT !.loaded = l]]
    BY <1>8, <1>b, <2>1 DEF Error, WroteAs
  <2>3. l \in Nat
    BY <2>1, <1>a DEF WroteAs
  <2>4. /\ SameBut(p) /\ child'[p].state = w.state /\ child'[p].in = w.in
        /\ child'[p].out = w.out /\ child'[p].shut = w.shut
    <3> HIDE DEF l
    <3> QED
      BY <1>3, <2>2, <2>3
  <2> QED
    BY <2>a, <2>1, <2>4 DEF Answers, WroteAs
<1>9. ASSUME NEW s \in {"dead"}, NEW b \in BOOLEAN, child' = Stopped(p, s, b),
             b = FALSE \/ Serves(p, "shutdown")
      PROVE  SameBut(p) /\ Stops(p)
  <2>. DEFINE k == [child[p] EXCEPT !.state = s, !.shut = b, !.in = <<>>, !.loaded = 0]
  <2>1. child' = [child EXCEPT ![p] = k]
    BY <1>9 DEF Stopped
  <2>2. k \in Kid /\ k.state = "dead" /\ k.out = child[p].out /\ k.shut = b
    <3>1. <<>> \in Seq(Line) /\ 0 \in Nat
      OBVIOUS
    <3> QED
      BY <3>1, <1>a DEF Kid
  <2> HIDE DEF k
  <2>3. SameBut(p) /\ child'[p] = k
    BY <1>4, <2>1, <2>2
  <2> QED
    BY <1>9, <2>2, <2>3 DEF Stops
<1>10. ASSUME Buried(p) PROVE SameBut(p) /\ Stops(p)
  <2>1. child' = [child EXCEPT ![p] = [child[p] EXCEPT !.state = "dead"]]
    BY <1>10 DEF Buried
  <2> QED
    BY <1>2, <1>a, <2>1 DEF Stops
<1> QED
  BY <1>5, <1>6, <1>7, <1>8, <1>9, <1>10
  DEF ChildStep, Pong, Audio, Serves, Exit, Crash

----------------------------------------------------------------------------
(* Types.                                                                  *)

LEMMA CallFacts ==
    ASSUME Types, NEW c \in Callers
    PROVE  /\ call[c] \in Talk /\ call[c].op \in Request /\ call[c].number \in Nat
           /\ call[c].pipe \in Nat /\ NoCall \in Talk
           /\ Talks(c) => call[c].pipe \in Procs
<1>1. call[c] \in Talk
  BY DEF Types, CallType
<1>2. NoCall \in Talk
  BY DEF NoCall, Talk, Request
<1> QED
  BY <1>1, <1>2 DEF Talk, Types, CallType

LEMMA TimerFacts ==
    ASSUME Types, NEW c \in Callers, Expire(c) \/ TimeoutKill(c)
    PROVE  /\ call' \in [Callers -> Talk] /\ \A d \in Callers : d # c => call'[d] = call[d]
           /\ call'[c].at = call[c].at /\ call'[c].pipe = call[c].pipe
           /\ call'[c].number = call[c].number
<1>1. PICK m \in {"off", "expired"} : call' = [call EXCEPT ![c].timer = m]
  BY DEF Expire, TimeoutKill
<1>2. call \in [Callers -> Talk]
  BY DEF Types, CallType
<1>. DEFINE t == [call[c] EXCEPT !.timer = m]
<1>3. /\ t \in Talk /\ t.at = call[c].at /\ t.pipe = call[c].pipe
      /\ t.number = call[c].number
  BY <1>2 DEF Talk
<1>4. call' = [call EXCEPT ![c] = t]
  BY <1>1
<1> HIDE DEF t
<1> QED
  BY <1>2, <1>3, <1>4

\* Processes are only ever added, and what a step changes of them.
LEMMA ChildStays ==
    ASSUME Types, Next /\ UNCHANGED setting
    PROVE  child' \in Seq(Kid) /\ Len(child') \in Nat /\ Len(child') >= Len(child)
<1>a. child \in Seq(Kid) /\ proc \in 0..Len(child) /\ Len(child) \in Nat /\ ChildType
  BY DEF Types, ChildType
<1>1. ASSUME child' = child PROVE child' \in Seq(Kid) /\ Len(child') = Len(child)
  BY <1>1, <1>a
<1>2. ASSUME NEW q \in 0..Len(child), NEW b \in BOOLEAN, child' = Kill(q, b)
      PROVE  child' \in Seq(Kid) /\ Len(child') = Len(child)
  BY <1>2, <1>a, KillFacts
<1>3. ASSUME NEW p \in Procs, SameBut(p) PROVE child' \in Seq(Kid) /\ Len(child') = Len(child)
  BY <1>3 DEF SameBut
<1>4. ASSUME NEW c \in Callers, Spawn(c)
      PROVE  child' \in Seq(Kid) /\ Len(child') = Len(child) + 1
  BY <1>4, <1>a, SpawnFacts DEF Spawn
<1>5. ASSUME NEW c \in Callers, Handshake(c) \/ Reply(c)
      PROVE  child' \in Seq(Kid) /\ Len(child') = Len(child)
  <2>1. call[c].pipe \in Procs
    BY <1>5, CallFacts DEF Handshake, Reply, Talks
  <2> QED
    BY <1>5, <2>1, <1>3, <1>a, TakeFacts DEF Handshake, Reply
<1>6. ASSUME NEW c \in Callers, Send(c)
      PROVE  child' \in Seq(Kid) /\ Len(child') = Len(child)
  <2>1. proc \in Procs /\ [op |-> call[c].op, call |-> call[c].number] \in Line
    BY <1>6, <1>a, CallFacts, Line0 DEF Send, Polled, Procs
  <2> QED
    BY <1>6, <2>1, <1>3, <1>a, SendFacts DEF Send
<1>7. ASSUME NEW u \in Unloaders, SendShutdown(u)
      PROVE  child' \in Seq(Kid) /\ Len(child') = Len(child)
  <2>1. CASE ~Polled(proc)
    BY <1>7, <1>1, <2>1 DEF SendShutdown
  <2>2. CASE Polled(proc)
    <3>1. proc \in Procs /\ [op |-> "shutdown", call |-> 0] \in Line
      BY <2>2, <1>a, Line0 DEF Polled, Procs
    <3> QED
      BY <1>7, <2>2, <3>1, <1>3, <1>a, SendFacts DEF SendShutdown
  <2> QED
    BY <2>1, <2>2
<1>8. ASSUME NEW u \in Unloaders, Terminate(u)
      PROVE  child' \in Seq(Kid) /\ Len(child') = Len(child)
  <2>1. down[u].proc \in 0..Len(child)
    BY <1>8 DEF Types, DownType, Terminate, Procs
  <2> QED
    BY <1>8, <2>1, <1>2 DEF Terminate
<1>9. ASSUME NEW p \in Procs, ChildStep(p)
      PROVE  child' \in Seq(Kid) /\ Len(child') = Len(child)
  BY <1>9, <1>3, <1>a, ChildFacts
<1>10. child' \in Seq(Kid) /\ (Len(child') = Len(child) \/ Len(child') = Len(child) + 1)
  BY <1>a, <1>1, <1>2, <1>4, <1>5, <1>6, <1>7, <1>8, <1>9
  DEF Next, CallStep, ShutdownStep, Begin, Reuse, HandshakeFails, SendFails, ReplyFails, Expire,
      TimeoutKill, LateKill, Reap, Unload, EndShutdown
<1> QED
  BY <1>10, <1>a

LEMMA TypesStep ==
    ASSUME Types, [Next /\ UNCHANGED setting]_<<vars, setting>>
    PROVE  Types'
<1>a. child \in Seq(Kid) /\ proc \in 0..Len(child) /\ Len(child) \in Nat
  BY DEF Types, ChildType
<1>b. call \in [Callers -> Talk] /\ calls \in Nat
  BY DEF Types, CallType
<1>c. down \in [Unloaders -> [at : {"idle", "took", "wait"}, proc : Nat]]
  BY DEF Types, DownType
<1>1. CASE UNCHANGED <<vars, setting>>
  BY <1>1 DEF Types, ChildType, CallType, DownType, Talks, Procs, vars
<1>2. CASE Next /\ UNCHANGED setting
  <2>a. child' \in Seq(Kid) /\ Len(child') \in Nat /\ Len(child') >= Len(child)
    BY <1>2, ChildStays
  <2>b. Procs \subseteq Procs'
    BY <2>a, <1>a DEF Procs
  <2>1. ChildType'
    <3>1. proc' \in {0, proc} \/ \E c \in Callers : Spawn(c)
      BY <1>2 DEF Next, CallStep, ShutdownStep, Begin, Reuse, Handshake, HandshakeFails, Send,
         SendFails, Reply, ReplyFails, Expire, TimeoutKill, LateKill, Reap, Unload, SendShutdown,
         Terminate, EndShutdown, ChildStep
    <3>2. ASSUME NEW c \in Callers, Spawn(c) PROVE proc' = Len(child) + 1 /\ Len(child') = Len(child) + 1
      BY <3>2, SpawnFacts DEF Spawn, Types
    <3> QED
      BY <1>2, <1>a, <2>a, <3>1, <3>2 DEF Types, ChildType
  <2>2. CallType'
    <3>1. ASSUME UNCHANGED <<call, calls>> PROVE CallType'
      BY <3>1, <2>b DEF Types, CallType, Talks
    <3>2. ASSUME NEW c \in Callers, NEW t \in Talk, call' = [call EXCEPT ![c] = t],
                 t.at \in {"ready", "reply"} => t.pipe \in Procs', calls' \in Nat
          PROVE  CallType'
      BY <3>2, <2>b, <1>b DEF Types, CallType, Talks
    <3>3. ASSUME NEW c \in Callers, NEW op \in setting.ops, Begin(c, op) PROVE CallType'
      <4>. DEFINE t == [at |-> "lock", op |-> op, number |-> calls + 1, pipe |-> 0, timer |-> "off"]
      <4>1. op \in Request
        BY SidecarAssumption DEF Types, ChildType, Request
      <4>2. t \in Talk
        BY <4>1, <1>b DEF Talk
      <4>3. t.at = "lock" /\ call' = [call EXCEPT ![c] = t] /\ calls' \in Nat
        BY <3>3, <1>b DEF Begin
      <4> HIDE DEF t
      <4> QED
        BY <3>2, <4>2, <4>3
    <3>4. ASSUME NEW c \in Callers,
                 NEW at \in {"idle", "lock", "ready", "send", "reply"}, NEW q \in Nat,
                 NEW m \in {"off", "set", "expired"},
                 call' = [call EXCEPT ![c].at = at, ![c].pipe = q, ![c].timer = m],
                 at \in {"ready", "reply"} => q \in Procs', calls' = calls
          PROVE  CallType'
      <4>. DEFINE t == [call[c] EXCEPT !.at = at, !.pipe = q, !.timer = m]
      <4>1. t \in Talk /\ t.pipe = q /\ t.at = at
        BY <1>b DEF Talk
      <4>2. call' = [call EXCEPT ![c] = t]
        BY <3>4
      <4> HIDE DEF t
      <4> QED
        BY <3>2, <3>4, <4>1, <4>2, <1>b
    <3>5. ASSUME NEW c \in Callers, Reuse(c) PROVE CallType'
      <4>1. [call[c] EXCEPT !.at = "send"] \in Talk /\ [call[c] EXCEPT !.at = "send"].at = "send"
        BY <1>b DEF Talk
      <4> QED
        BY <3>5, <3>2, <4>1, <1>b DEF Reuse
    <3>6. ASSUME NEW c \in Callers, Spawn(c) PROVE CallType'
      <4>1. Len(child) + 1 \in Procs' /\ Len(child) + 1 \in Nat
        BY <3>6, <1>a, SpawnFacts DEF Spawn, Types, Procs
      <4> QED
        BY <3>6, <3>4, <4>1 DEF Spawn
    <3>7. ASSUME NEW c \in Callers, Handshake(c) PROVE CallType'
      <4>. DEFINE t == [call[c] EXCEPT !.at = "send", !.timer = "off"]
      <4>1. t \in Talk /\ t.at = "send" /\ call' = [call EXCEPT ![c] = t]
        BY <3>7, <1>b DEF Talk, Handshake
      <4> HIDE DEF t
      <4> QED
        BY <3>7, <3>2, <4>1, <1>b DEF Handshake
    <3>8. ASSUME NEW c \in Callers, Leave(c), calls' = calls PROVE CallType'
      <4>1. NoCall \in Talk /\ NoCall.at = "idle"
        BY CallFacts DEF NoCall
      <4> QED
        BY <3>8, <3>2, <4>1, <1>b DEF Leave
    <3>9. ASSUME NEW c \in Callers, Send(c) PROVE CallType'
      <4>1. proc \in Procs' /\ proc \in Nat
        BY <3>9, <1>a, <2>b DEF Send, Polled, Procs
      <4> QED
        BY <3>9, <3>4, <4>1 DEF Send
    <3>10. ASSUME NEW c \in Callers, Expire(c) \/ TimeoutKill(c) PROVE CallType'
      <4>1. PICK m \in {"off", "expired"} : call' = [call EXCEPT ![c].timer = m] /\ calls' = calls
        BY <3>10 DEF Expire, TimeoutKill
      <4>. DEFINE t == [call[c] EXCEPT !.timer = m]
      <4>2. t \in Talk /\ t.at = call[c].at /\ t.pipe = call[c].pipe
        BY <1>b DEF Talk
      <4>3. call' = [call EXCEPT ![c] = t]
        BY <4>1
      <4>4. t.at \in {"ready", "reply"} => t.pipe \in Procs'
        BY <4>2, <2>b DEF Types, CallType, Talks
      <4> HIDE DEF t
      <4> QED
        BY <3>2, <4>1, <4>2, <4>3, <4>4, <1>b
    <3> QED
      BY <1>2, <3>1, <3>3, <3>5, <3>6, <3>7, <3>8, <3>9, <3>10
      DEF Next, CallStep, ShutdownStep, HandshakeFails, SendFails, Reply, ReplyFails, LateKill,
         Reap, Unload, SendShutdown, Terminate, EndShutdown, ChildStep
  <2>3. DownType'
    <3>1. ASSUME UNCHANGED down PROVE DownType'
      BY <3>1, <2>b DEF Types, DownType
    <3>2. ASSUME NEW u \in Unloaders, NEW at \in {"took", "wait", "idle"}, NEW q \in Nat,
                 down' = [down EXCEPT ![u] = [at |-> at, proc |-> q]],
                 at # "idle" => q \in Procs
          PROVE  DownType'
      BY <3>2, <2>b, <1>c DEF Types, DownType
    <3>3. ASSUME NEW u \in Unloaders, Reap(u) \/ Unload(u) PROVE DownType'
      <4>1. proc \in Procs /\ proc \in Nat /\ down' = [down EXCEPT ![u] = [at |-> "took", proc |-> proc]]
        BY <3>3, <1>a DEF Reap, Unload, Polled, Procs
      <4> QED
        BY <3>2, <4>1
    <3>4. ASSUME NEW u \in Unloaders, SendShutdown(u) PROVE DownType'
      BY <3>4, <2>b, <1>c DEF SendShutdown, Types, DownType
    <3>5. ASSUME NEW u \in Unloaders, EndShutdown(u) PROVE DownType'
      BY <3>5, <3>2 DEF EndShutdown
    <3> QED
      BY <1>2, <3>1, <3>3, <3>4, <3>5
      DEF Next, CallStep, ShutdownStep, Begin, Reuse, Spawn, Handshake, HandshakeFails, Send,
         SendFails, Reply, ReplyFails, Expire, TimeoutKill, LateKill, Terminate, ChildStep
  <2> QED
    BY <2>1, <2>2, <2>3 DEF Types
<1> QED
  BY <1>1, <1>2

----------------------------------------------------------------------------
(* The lock, and the process of those who hold it.                          *)

LEMMA LockStep ==
    ASSUME Types, LockOK, [Next /\ UNCHANGED setting]_<<vars, setting>>
    PROVE  LockOK'
<1>a. call \in [Callers -> Talk] /\ None \notin Callers /\ Callers \cap Unloaders = {}
  BY SidecarAssumption DEF Types, CallType
<1>1. ASSUME UNCHANGED lock, \A c \in Callers : call'[c].at \in {"ready", "send", "reply"} =>
                               call[c].at \in {"ready", "send", "reply"}
      PROVE  LockOK'
  BY <1>1 DEF LockOK
<1>2. ASSUME NEW c \in Callers, NEW op \in setting.ops, Begin(c, op) PROVE LockOK'
  BY <1>1, <1>2, <1>a DEF Begin
<1>3. ASSUME NEW c \in Callers, lock = None, lock' = c,
             \A d \in Callers : d # c => call'[d] = call[d]
      PROVE  LockOK'
  BY <1>3, <1>a DEF LockOK
<1>4. ASSUME NEW c \in Callers, Reuse(c) \/ Spawn(c) PROVE LockOK'
  BY <1>3, <1>4, <1>a DEF Reuse, Spawn
<1>5. ASSUME NEW c \in Callers, call[c].at \in {"ready", "send", "reply"}, Leave(c)
      PROVE  LockOK'
  BY <1>5, <1>a DEF Leave, LockOK, NoCall
<1>6. ASSUME NEW c \in Callers, HandshakeFails(c) \/ SendFails(c) \/ Reply(c) \/ ReplyFails(c)
      PROVE  LockOK'
  BY <1>5, <1>6 DEF HandshakeFails, SendFails, Reply, ReplyFails
<1>7. ASSUME NEW c \in Callers, Handshake(c) \/ Send(c) \/ Expire(c) \/ TimeoutKill(c)
      PROVE  LockOK'
  BY <1>1, <1>7, <1>a DEF Handshake, Send, Expire, TimeoutKill, Talk
<1>8. ASSUME NEW u \in Unloaders, Reap(u) \/ EndShutdown(u) PROVE LockOK'
  BY <1>8, <1>a DEF Reap, EndShutdown, LockOK
<1>9. ASSUME UNCHANGED <<lock, call>> PROVE LockOK'
  BY <1>9 DEF LockOK
<1> QED
  BY <1>2, <1>4, <1>6, <1>7, <1>8, <1>9
  DEF Next, CallStep, ShutdownStep, LateKill, Unload, SendShutdown, Terminate, ChildStep, vars

\* How the processes change in a step: one is started, one is killed, a frame is
\* put into a pipe or taken out of one, or a child takes a step of its own.
Same == child' = child
Kills == \E q \in 0..Len(child), b \in BOOLEAN :
           /\ child' = Kill(q, b)
           /\ b => \E u \in Unloaders : Terminate(u) /\ q = down[u].proc
Puts == \E q \in Procs, f \in Line :
          /\ q = proc /\ child' = [child EXCEPT ![q].in = Append(@, f)]
          /\ \/ \E c \in Callers : Send(c) /\ f.op = call[c].op /\ f.call = call[c].number
             \/ \E u \in Unloaders : SendShutdown(u) /\ f.op = "shutdown"
Takes == \E c \in Callers, q \in Procs :
           /\ Handshake(c) \/ Reply(c)
           /\ q = call[c].pipe /\ child[q].out # <<>>
           /\ child' = [child EXCEPT ![q].out = Tail(@)]

LEMMA ChildCases ==
    ASSUME Types, Next /\ UNCHANGED setting
    PROVE  \/ (\E c \in Callers : Spawn(c)) \/ Same \/ Kills \/ Puts \/ Takes
           \/ (\E p \in Procs : ChildStep(p))
<1>a. proc \in 0..Len(child) /\ Len(child) \in Nat
  BY DEF Types, ChildType
<1>1. ASSUME child' = Kill(proc, FALSE) PROVE Kills
  BY <1>1, <1>a DEF Kills
<1>2. ASSUME NEW u \in Unloaders, Terminate(u) PROVE Kills
  <2>1. down[u].proc \in 0..Len(child)
    BY <1>2 DEF Types, DownType, Terminate, Procs
  <2> QED
    BY <1>2, <2>1 DEF Kills, Terminate
<1>3. ASSUME NEW c \in Callers, Send(c) PROVE Puts
  <2>. DEFINE f == [op |-> call[c].op, call |-> call[c].number]
  <2>1. proc \in Procs /\ f \in Line
    BY <1>3, <1>a, CallFacts, Line0 DEF Send, Polled, Procs
  <2>2. f.op = call[c].op /\ f.call = call[c].number
    OBVIOUS
  <2>3. child' = [child EXCEPT ![proc].in = Append(@, f)]
    BY <1>3 DEF Send
  <2> HIDE DEF f
  <2> QED
    BY <1>3, <2>1, <2>2, <2>3 DEF Puts
<1>4. ASSUME NEW u \in Unloaders, SendShutdown(u) PROVE Same \/ Puts
  <2>. DEFINE f == [op |-> "shutdown", call |-> 0]
  <2>1. CASE ~Polled(proc)
    BY <1>4, <2>1 DEF SendShutdown, Same
  <2>2. CASE Polled(proc)
    <3>1. proc \in Procs /\ f \in Line /\ f.op = "shutdown"
      BY <2>2, <1>a, Line0 DEF Polled, Procs
    <3>2. child' = [child EXCEPT ![proc].in = Append(@, f)]
      BY <1>4, <2>2 DEF SendShutdown
    <3> HIDE DEF f
    <3> QED
      BY <1>4, <3>1, <3>2 DEF Puts
  <2> QED
    BY <2>1, <2>2
<1>5. ASSUME NEW c \in Callers, Handshake(c) \/ Reply(c) PROVE Takes
  <2>1. call[c].pipe \in Procs
    BY <1>5, CallFacts DEF Handshake, Reply, Talks
  <2> QED
    BY <1>5, <2>1 DEF Takes, Handshake, Reply
<1> QED
  BY <1>1, <1>2, <1>3, <1>4, <1>5
  DEF Next, CallStep, ShutdownStep, Begin, Reuse, HandshakeFails, SendFails, ReplyFails, Expire,
      TimeoutKill, LateKill, Reap, Unload, EndShutdown, Same

\* A process that runs after a step ran before it, or was started by it.
LEMMA RunsOn ==
    ASSUME Types, Next /\ UNCHANGED setting, NEW p \in Procs', Running(p)'
    PROVE  \/ p \in Procs /\ Running(p)
           \/ p = Len(child) + 1 /\ \E c \in Callers : Spawn(c)
<1>a. ChildType /\ Len(child) \in Nat
  BY DEF Types, ChildType
<1>1. CASE \E c \in Callers : Spawn(c)
  <2>1. Len(child') = Len(child) + 1 /\ \A q \in Procs : child'[q] = child[q]
    BY <1>1, <1>a, SpawnFacts DEF Spawn
  <2>2. p \in Procs \/ p = Len(child) + 1
    BY <2>1, <1>a DEF Procs
  <2> QED
    BY <1>1, <2>1, <2>2 DEF Running
<1>2. CASE Same
  BY <1>2 DEF Same, Procs, Running
<1>3. CASE Kills
  <2>1. PICK q \in 0..Len(child), b \in BOOLEAN : child' = Kill(q, b)
    BY <1>3 DEF Kills
  <2> QED
    BY <2>1, <1>a, KillFacts DEF Procs, Running
<1>4. ASSUME NEW q \in Procs, SameBut(q),
             child'[q].state \in {"starting", "up"} => child[q].state \in {"starting", "up"}
      PROVE  p \in Procs /\ Running(p)
  BY <1>4 DEF SameBut, Procs, Running
<1>5. CASE Puts
  BY <1>4, <1>5, <1>a, SendFacts DEF Puts
<1>6. CASE Takes
  BY <1>4, <1>6, <1>a, TakeFacts DEF Takes
<1>7. ASSUME NEW q \in Procs, ChildStep(q) PROVE p \in Procs /\ Running(p)
  BY <1>4, <1>7, <1>a, ChildFacts DEF GetsReady, Reports, Answers, Stops
<1> QED
  BY <1>1, <1>2, <1>3, <1>5, <1>6, <1>7, ChildCases

LEMMA OneStep ==
    ASSUME Types, LockOK, OneOK, ~setting.bare, Next /\ UNCHANGED setting
    PROVE  OneOK'
<1>a. /\ call \in [Callers -> Talk] /\ None \notin Callers \cup Unloaders
      /\ Callers \cap Unloaders = {} /\ proc \in 0..Len(child) /\ Len(child) \in Nat
      /\ down \in [Unloaders -> [at : {"idle", "took", "wait"}, proc : Nat]]
  BY SidecarAssumption DEF Types, CallType, ChildType, DownType
<1>b. \A p \in Procs' : Running(p)' => (p \in Procs /\ Running(p)) \/ \E c \in Callers : Spawn(c)
  BY RunsOn
<1>1. ASSUME UNCHANGED <<proc, lock, down>>, ~\E c \in Callers : Spawn(c),
             \A c \in Callers : call'[c].at \in {"ready", "reply"} =>
               call'[c].pipe = proc \/ (Talks(c) /\ call'[c].pipe = call[c].pipe)
      PROVE  OneOK'
  BY <1>1, <1>b DEF OneOK, Talks
<1>2. ASSUME NEW c \in Callers, NEW op \in setting.ops, Begin(c, op) PROVE OneOK'
  BY <1>1, <1>2, <1>a DEF Begin, Talks, Spawn
<1>3. ASSUME NEW c \in Callers, Reuse(c) PROVE OneOK'
  <2>1. lock = None /\ lock' = c /\ UNCHANGED <<proc, down, child>>
    BY <1>3 DEF Reuse
  <2>2. \A d \in Callers : ~Talks(d) /\ ~Talks(d)'
    BY <1>3, <2>1, <1>a DEF LockOK, Reuse, Talks
  <2>3. \A u \in Unloaders : down[u].at = "idle"
    BY <2>1, <1>a DEF OneOK
  <2> QED
    BY <2>1, <2>2, <2>3, <1>a DEF OneOK, Procs, Running
<1>4. ASSUME NEW c \in Callers, Spawn(c) PROVE OneOK'
  <2>1. lock = None /\ lock' = c /\ proc' = Len(child) + 1 /\ down' = down
    BY <1>4 DEF Spawn
  <2>2. \A d \in Callers : Talks(d)' => call'[d].pipe = proc'
    BY <1>4, <2>1, <1>a DEF LockOK, Spawn, Talks
  <2>3. \A u \in Unloaders : down[u].at = "idle"
    BY <2>1, <1>a DEF OneOK
  <2>4. \A p \in Procs : ~Running(p)
    BY <1>4 DEF Spawn, Polled, OneOK, Running, Procs
  <2>5. \A p \in Procs' : Running(p)' => p = proc'
    BY <1>4, <2>1, <2>4, RunsOn
  <2> QED
    BY <2>1, <2>2, <2>3, <2>5 DEF OneOK
<1>5. ASSUME NEW c \in Callers, Handshake(c) \/ Send(c) \/ Expire(c) \/ TimeoutKill(c)
      PROVE  OneOK'
  <2>1. UNCHANGED <<proc, lock, down>>
    BY <1>5 DEF Handshake, Send, Expire, TimeoutKill
  <2>2. ~\E d \in Callers : Spawn(d)
    BY <2>1, <1>a DEF Spawn
  <2>3. \A d \in Callers : d # c => call'[d] = call[d]
    BY <1>5, <1>a DEF Handshake, Send, Expire, TimeoutKill
  <2>4. call[c] \in Talk
    BY <1>a
  <2>5. CASE Handshake(c)
    BY <1>1, <2>1, <2>2, <2>3, <2>4, <2>5, <1>a DEF Handshake, Talks, Talk
  <2>6. CASE Send(c)
    BY <1>1, <2>1, <2>2, <2>3, <2>4, <2>6, <1>a DEF Send, Talks, Talk
  <2>7. CASE Expire(c) \/ TimeoutKill(c)
    <3>1. call'[c].at = call[c].at /\ call'[c].pipe = call[c].pipe
      BY <2>7, TimerFacts
    <3> QED
      BY <1>1, <2>1, <2>2, <2>3, <3>1 DEF Talks
  <2> QED
    BY <1>5, <2>5, <2>6, <2>7
<1>6. ASSUME NEW c \in Callers, HandshakeFails(c) \/ SendFails(c) \/ Reply(c) \/ ReplyFails(c)
      PROVE  OneOK'
  <2>1. lock = c /\ call' = [call EXCEPT ![c] = NoCall] /\ lock' = None /\ down' = down
    BY <1>6 DEF HandshakeFails, SendFails, Reply, ReplyFails, Leave, LockOK
  <2>2. \A u \in Unloaders : down[u].at = "idle"
    BY <2>1, <1>a DEF OneOK
  <2>3. \A d \in Callers : ~Talks(d)'
    BY <2>1, <1>a DEF LockOK, Talks, NoCall
  <2>4. \A p \in Procs' : Running(p)' => p = proc'
    <3>1. ~\E d \in Callers : Spawn(d)
      BY <2>1, <1>a DEF Spawn
    <3>2. CASE proc' = proc
      BY <3>1, <3>2, <1>b DEF OneOK
    <3>3. CASE HandshakeFails(c)
      <4>1. child' = Kill(proc, FALSE)
        BY <3>3 DEF HandshakeFails
      <4>2. proc # 0 => child'[proc].state \notin {"starting", "up"}
        BY <4>1, KillFacts DEF Types, ChildType
      <4>3. \A p \in Procs' : Running(p)' => p \in Procs /\ p = proc /\ p # 0
        BY <3>1, <1>b DEF OneOK, Procs
      <4> QED
        BY <4>2, <4>3 DEF Running
    <3> QED
      BY <1>6, <3>2, <3>3 DEF SendFails, Reply, ReplyFails
  <2> QED
    BY <2>1, <2>2, <2>3, <2>4 DEF OneOK
<1>7. ASSUME NEW u \in Unloaders, Reap(u) PROVE OneOK'
  <2>1. lock = None /\ UNCHANGED <<child, proc, call>>
    BY <1>7 DEF Reap
  <2>2. \A v \in Unloaders : down[v].at = "idle"
    BY <2>1, <1>a DEF OneOK
  <2>3. \A v \in Unloaders : down'[v].at # "idle" => lock' = v /\ down'[v].proc = proc
    BY <1>7, <2>2, <1>a DEF Reap
  <2> QED
    BY <2>1, <2>3 DEF OneOK, Talks, Procs, Running
<1>8. ASSUME NEW u \in Unloaders, EndShutdown(u) PROVE OneOK'
  <2>1. lock = u /\ down[u].proc = proc /\ ~Running(proc) /\ UNCHANGED <<child, call>>
    BY <1>8 DEF EndShutdown, OneOK
  <2>2. \A v \in Unloaders : down'[v].at = "idle"
    BY <1>8, <2>1, <1>a DEF EndShutdown, OneOK
  <2>3. \A c \in Callers : ~Talks(c)
    BY <2>1, <1>a DEF LockOK, Talks
  <2> QED
    BY <2>1, <2>2, <2>3 DEF OneOK, Talks, Procs, Running
<1>9. ASSUME NEW u \in Unloaders, SendShutdown(u) PROVE OneOK'
  <2>1. UNCHANGED <<proc, lock, call>> /\ \A v \in Unloaders :
          down'[v].proc = down[v].proc /\ (down'[v].at # "idle" => down[v].at # "idle")
    BY <1>9, <1>a DEF SendShutdown
  <2>2. ~\E c \in Callers : Spawn(c)
    BY <2>1, <1>a DEF Spawn
  <2> QED
    BY <2>1, <2>2, <1>b DEF OneOK, Talks
<1>10. ASSUME UNCHANGED <<proc, lock, down, call>> PROVE OneOK'
  <2>1. ~\E c \in Callers : Spawn(c)
    BY <1>10, <1>a DEF Spawn
  <2> QED
    BY <1>1, <1>10, <2>1 DEF Talks
<1> QED
  BY <1>2, <1>3, <1>4, <1>5, <1>6, <1>7, <1>8, <1>9, <1>10
  DEF Next, CallStep, ShutdownStep, LateKill, Unload, Terminate, ChildStep

----------------------------------------------------------------------------
(* Shutdown.                                                               *)

\* The unloader that waits for a process goes on waiting while the process runs.
LEMMA ShutStep ==
    ASSUME Types, LockOK, OneOK, ShutOK, ~setting.bare, Next /\ UNCHANGED setting
    PROVE  ShutOK'
<1>a. /\ call \in [Callers -> Talk] /\ None \notin Callers \cup Unloaders
      /\ Callers \cap Unloaders = {} /\ proc \in 0..Len(child) /\ Len(child) \in Nat
      /\ down \in [Unloaders -> [at : {"idle", "took", "wait"}, proc : Nat]] /\ ChildType
      /\ \A c \in Callers : call[c].op \in Request
  BY SidecarAssumption, CallFacts DEF Types, CallType, ChildType, DownType
<1>b. OneOK'
  BY OneStep
<1>1. CASE \E u \in Unloaders : EndShutdown(u)
  <2>1. proc' = 0 /\ child' = child
    BY <1>1 DEF EndShutdown
  <2>2. \A p \in Procs' : ~Running(p)'
    BY <1>b, <2>1 DEF OneOK, Procs
  <2> QED
    BY <2>1, <2>2 DEF ShutOK, Procs
<1>2. CASE \E c \in Callers : Spawn(c)
  <2>1. /\ proc' = Len(child) + 1 /\ child'[proc'].in = <<>> /\ child'[proc'].shut = FALSE
        /\ Len(child') = Len(child) + 1
    BY <1>2, <1>a, SpawnFacts DEF Spawn
  <2>2. \A p \in Procs' : Running(p)' => p = proc'
    BY <1>b DEF OneOK
  <2> QED
    BY <2>1, <2>2 DEF ShutOK, Told
<1>3. CASE ~(\E u \in Unloaders : EndShutdown(u)) /\ ~(\E c \in Callers : Spawn(c))
  <2>a. \A p : Awaited(p) => Awaited(p)'
    <3>1. \A u \in Unloaders : down[u].at = "wait" => down'[u] = down[u]
      BY <1>3, <1>a DEF Next, CallStep, ShutdownStep, Begin, Reuse, Spawn, Handshake,
         HandshakeFails, Send, SendFails, Reply, ReplyFails, Expire, TimeoutKill, LateKill,
         Reap, Unload, SendShutdown, Terminate, ChildStep
    <3> QED
      BY <3>1 DEF Awaited
  <2>b. proc' \in {0, proc}
    BY <1>3 DEF Next, CallStep, ShutdownStep, Begin, Reuse, Spawn, Handshake,
         HandshakeFails, Send, SendFails, Reply, ReplyFails, Expire, TimeoutKill, LateKill,
         Reap, Unload, SendShutdown, Terminate, ChildStep
  <2>c. ASSUME Len(child') = Len(child),
               \A p \in Procs :
                 /\ child'[p].state \in {"starting", "up"} => Running(p)
                 /\ \/ child'[p].in = child[p].in
                    \/ Told(p)' => Told(p) \/ Awaited(p)'
                    \/ child'[p].state \notin {"starting", "up"}
                 /\ child'[p].shut => child[p].shut \/ Awaited(p)'
        PROVE  ShutOK'
    <3>1. Procs' = Procs /\ 0 \notin Procs
      BY <2>c DEF Procs
    <3> QED
      BY <2>a, <2>b, <2>c, <3>1 DEF ShutOK, Told, Running
  <2>1. CASE Same
    BY <2>1, <2>c DEF Same, Running
  <2>2. CASE Kills
    <3>1. PICK q \in 0..Len(child), b \in BOOLEAN :
             /\ child' = Kill(q, b)
             /\ b => \E u \in Unloaders : Terminate(u) /\ q = down[u].proc
      BY <2>2 DEF Kills
    <3>2. b => Awaited(q)'
      BY <3>1, <2>a DEF Terminate, Awaited
    <3>3. /\ Len(child') = Len(child)
          /\ \A p \in Procs :
               \/ child'[p] = child[p]
               \/ /\ p = q /\ Running(p) /\ child'[p].state = "dying" /\ child'[p].shut = b
      BY <3>1, <1>a, KillFacts
    <3> QED
      BY <2>c, <3>2, <3>3 DEF Running
  <2>3. CASE Puts
    <3>1. PICK q \in Procs, f \in Line :
            /\ q = proc /\ child' = [child EXCEPT ![q].in = Append(@, f)]
            /\ \/ \E c \in Callers : Send(c) /\ f.op = call[c].op
               \/ \E u \in Unloaders : SendShutdown(u) /\ f.op = "shutdown"
      BY <2>3 DEF Puts
    <3>2. /\ SameBut(q) /\ child'[q].state = child[q].state /\ child'[q].shut = child[q].shut
          /\ child'[q].in = Append(child[q].in, f) /\ child[q].in \in Seq(Line)
      BY <3>1, <1>a, SendFacts, KidFacts
    <3>3. CASE \E u \in Unloaders : SendShutdown(u)
      <4>1. Awaited(q)'
        BY <3>1, <3>3, <1>a DEF SendShutdown, OneOK, Awaited
      <4> QED
        BY <2>c, <3>2, <4>1 DEF SameBut, Running
    <3>4. CASE \E c \in Callers : Send(c) /\ f.op = call[c].op
      <4>1. f.op # "shutdown"
        BY <3>4, <1>a DEF Request
      <4>2. Told(q)' => Told(q)
        BY <3>2, <4>1, AppendProperties DEF Told
      <4> QED
        BY <2>c, <3>2, <4>2 DEF SameBut, Running
    <3> QED
      BY <3>1, <3>3, <3>4
  <2>4. CASE Takes
    <3>1. PICK q \in Procs : /\ child[q].out # <<>>
                             /\ child' = [child EXCEPT ![q].out = Tail(@)]
      BY <2>4 DEF Takes
    <3>2. /\ SameBut(q) /\ child'[q].state = child[q].state /\ child'[q].shut = child[q].shut
          /\ child'[q].in = child[q].in
      BY <3>1, <1>a, TakeFacts
    <3> QED
      BY <2>c, <3>2 DEF SameBut, Running
  <2>5. ASSUME NEW q \in Procs, ChildStep(q) PROVE ShutOK'
    <3>1. SameBut(q) /\ (GetsReady(q) \/ Reports(q) \/ Answers(q) \/ Stops(q))
      BY <2>5, <1>a, ChildFacts
    <3>2. CASE GetsReady(q) \/ Reports(q)
      BY <2>c, <3>1, <3>2 DEF SameBut, GetsReady, Reports, Running
    <3>3. CASE Answers(q)
      <4>1. child[q].in \in Seq(Line) /\ child[q].in # <<>>
        BY <3>3, <1>a, KidFacts DEF Answers
      <4>2. Told(q)' => Told(q)
        BY <3>3, <4>1 DEF Answers, Told
      <4> QED
        BY <2>c, <3>1, <3>3, <4>2 DEF SameBut, Answers, Running
    <3>4. CASE Stops(q)
      <4>1. Serves(q, "shutdown") => Awaited(q)'
        <5>1. Serves(q, "shutdown") => Running(q) /\ Told(q)
          <6>1. child[q].in \in Seq(Line)
            BY <1>a, KidFacts
          <6> QED
            BY <6>1 DEF Serves, Running, Told
        <5> QED
          BY <5>1, <2>a DEF ShutOK
      <4> QED
        BY <2>c, <3>1, <3>4, <4>1 DEF SameBut, Stops, Running
    <3> QED
      BY <3>1, <3>2, <3>3, <3>4
  <2> QED
    BY <1>3, <2>1, <2>2, <2>3, <2>4, <2>5, ChildCases
<1> QED
  BY <1>1, <1>2, <1>3

----------------------------------------------------------------------------
(* The frames.                                                             *)

\* What holds of a process is kept when the process or its answers are gone.
Keeps(p) ==
    /\ Single(p) => Single(p)'
    /\ Quiet(p) => Quiet(p)'
    /\ AtReady(p) => AtReady(p)'
    /\ \A n \in Nat : AtReply(p, n) => AtReply(p, n)'

LEMMA KeptWhen ==
    ASSUME NEW p,
           \/ child'[p] = child[p]
           \/ /\ child'[p].state \in {"dying", "dead"} /\ child'[p].out = child[p].out
    PROVE  Keeps(p)
BY DEF Keeps, Single, Quiet, AtReady, AtReply, Asked, Running

TalksOn ==
    \A c \in Callers : /\ Talks(c)' => Talks(c)
                       /\ Talks(c) => /\ call'[c].at = call[c].at
                                      /\ call'[c].pipe = call[c].pipe
                                      /\ call'[c].number = call[c].number

LEMMA KidStays ==
    ASSUME Types, NEW p \in Procs, KidOK(p), Keeps(p), TalksOn
    PROVE  KidOK(p)'
<1>1. \A c \in Callers : call[c].number \in Nat
  BY CallFacts
<1>2. \A c \in Callers : Talks(c) => call'[c].at = call[c].at
  BY DEF TalksOn
<1>3. Single(p)'
  BY DEF KidOK, Keeps
<1>4. ASSUME \A c \in Callers : Talks(c)' => call'[c].pipe # p PROVE Quiet(p)'
  BY <1>4 DEF KidOK, Keeps, TalksOn, Talks
<1>5. ASSUME NEW c \in Callers, call'[c].pipe = p, call'[c].at = "ready" PROVE AtReady(p)'
  BY <1>5 DEF KidOK, Keeps, TalksOn, Talks
<1>6. ASSUME NEW c \in Callers, call'[c].pipe = p, call'[c].at = "reply"
      PROVE  AtReply(p, call[c].number)' /\ call'[c].number = call[c].number
  BY <1>1, <1>6 DEF KidOK, Keeps, TalksOn, Talks
<1> QED
  BY <1>3, <1>4, <1>5, <1>6 DEF KidOK

LEMMA KillsKeeps ==
    ASSUME Types, Same \/ Kills
    PROVE  Procs' = Procs /\ \A p \in Procs : Keeps(p)
<1>1. CASE Same
  BY <1>1, KeptWhen DEF Same, Procs
<1>2. CASE Kills
  <2>1. PICK q \in 0..Len(child), b \in BOOLEAN : child' = Kill(q, b)
    BY <1>2 DEF Kills
  <2>2. /\ Len(child') = Len(child)
        /\ \A p \in Procs :
             child'[p] = child[p] \/ (child'[p].state = "dying" /\ child'[p].out = child[p].out)
    BY <2>1, KillFacts DEF Types
  <2> QED
    BY <2>2, KeptWhen DEF Procs
<1> QED
  BY <1>1, <1>2

LEMMA ToldKeeps ==
    ASSUME Types, NEW u \in Unloaders, SendShutdown(u)
    PROVE  Procs' = Procs /\ \A p \in Procs : Keeps(p)
<1>a. proc \in 0..Len(child)
  BY DEF Types, ChildType
<1>1. CASE ~Polled(proc)
  BY <1>1, KillsKeeps DEF SendShutdown, Same
<1>2. CASE Polled(proc)
  <2>. DEFINE f == [op |-> "shutdown", call |-> 0]
  <2>1. proc \in Procs /\ f \in Line /\ f.op = "shutdown"
    BY <1>2, <1>a, Line0 DEF Polled, Procs
  <2>2. child' = [child EXCEPT ![proc].in = Append(@, f)]
    BY <1>2 DEF SendShutdown
  <2> HIDE DEF f
  <2>3. /\ SameBut(proc) /\ child'[proc].state = child[proc].state
        /\ child'[proc].out = child[proc].out
        /\ child'[proc].in = Append(child[proc].in, f) /\ child[proc].in \in Seq(Line)
    BY <2>1, <2>2, SendFacts, KidFacts DEF Types
  <2>4. ASSUME NEW p \in {proc} PROVE Keeps(p)
    <3>1. /\ Len(child'[p].in) = Len(child[p].in) + 1 /\ Len(child[p].in) \in Nat
          /\ child'[p].in[Len(child[p].in) + 1] = f
          /\ \A i \in 1..Len(child[p].in) : child'[p].in[i] = child[p].in[i]
      BY <2>1, <2>3, AppendProperties
    <3>2. Asked(p)' = Asked(p) /\ \A i \in Asked(p) : child'[p].in[i] = child[p].in[i]
      <4>1. 1..Len(child'[p].in) = (1..Len(child[p].in)) \cup {Len(child[p].in) + 1}
        BY <3>1
      <4>2. \A i : i \in Asked(p)' <=> i \in Asked(p)
        BY <3>1, <2>1, <4>1 DEF Asked
      <4> QED
        BY <3>1, <4>2 DEF Asked
    <3>3. Running(p)' = Running(p) /\ child'[p].out = child[p].out /\ child'[p].state = child[p].state
      BY <2>3 DEF Running
    <3> QED
      BY <3>2, <3>3 DEF Keeps, Single, Quiet, AtReady, AtReply
  <2> QED
    BY <2>3, <2>4, KeptWhen DEF SameBut, Procs
<1> QED
  BY <1>1, <1>2

\* Who holds the lock talks alone.
LEMMA TalksAlone ==
    ASSUME Types, LockOK
    PROVE  /\ \A c, d \in Callers : Talks(d) /\ call[c].at \in {"ready", "send", "reply"} => d = c
           /\ lock = None => \A c \in Callers : ~Talks(c)
BY SidecarAssumption DEF LockOK, Talks

\* A step of a child: it answers the one request there is, for the call that waits.
LEMMA ServesOK ==
    ASSUME Types, LockOK, setting.cold = 0, NEW p \in Procs, KidOK(p), ChildStep(p),
           UNCHANGED call
    PROVE  KidOK(p)'
<1>a. /\ child[p].in \in Seq(Line) /\ child[p].out \in Seq(Line) /\ child[p].loaded \in Nat
      /\ GetsReady(p) \/ Reports(p) \/ Answers(p) \/ Stops(p)
  BY KidFacts, ChildFacts DEF Types
<1>b. TalksOn
  BY DEF TalksOn, Talks
<1>1. CASE Stops(p)
  BY <1>1, <1>b, KidStays, KeptWhen DEF Stops
<1>2. CASE Reports(p)
  BY <1>2, <1>a DEF Reports
<1>3. CASE GetsReady(p)
  <2>1. PICK c \in Callers : call[c].pipe = p /\ call[c].at = "ready"
    BY <1>3 DEF GetsReady, KidOK, Quiet, AtReply, Talks
  <2>2. child[p].out = <<>> /\ Asked(p) = {}
    BY <1>3, <2>1 DEF GetsReady, KidOK, AtReady, Running
  <2>3. Asked(p)' = {} /\ Len(child'[p].out) = 1 /\ child'[p].state = "up"
    BY <1>3, <2>2 DEF GetsReady, Asked
  <2>4. \A d \in Callers : Talks(d) => d = c
    BY <2>1, TalksAlone
  <2> QED
    BY <2>1, <2>3, <2>4 DEF KidOK, Single, AtReady, Talks
<1>4. CASE Answers(p)
  <2>1. 1 \in Asked(p) /\ Running(p) /\ Len(child[p].in) \in Nat
    BY <1>4, <1>a DEF Answers, Asked, Running
  <2>2. PICK c \in Callers : call[c].pipe = p /\ call[c].at = "reply"
    BY <2>1 DEF KidOK, Quiet, AtReady, Talks
  <2>3. child[p].out = <<>> /\ \A i \in Asked(p) : i = 1
    BY <2>1 DEF KidOK, Single
  <2>4. /\ child[p].in[1].call = call[c].number /\ child'[p].state = "up"
        /\ \E f \in Line : child'[p].out = <<f>> /\ f.call = child[p].in[1].call
    BY <1>4, <1>a, <2>1, <2>2, <2>3 DEF Answers, KidOK, AtReply
  <2>5. Asked(p)' = {}
    BY <1>4, <1>a, <2>3 DEF Answers, Asked
  <2>6. \A d \in Callers : Talks(d) => d = c
    BY <2>2, TalksAlone
  <2>7. Len(child'[p].out) = 1 /\ child'[p].out[1].call = call[c].number
    BY <2>4
  <2>8. Single(p)' /\ AtReply(p, call[c].number)'
    BY <2>4, <2>5, <2>7 DEF Single, AtReply
  <2> QED
    BY <2>2, <2>6, <2>8 DEF KidOK, Talks
<1> QED
  BY <1>a, <1>1, <1>2, <1>3, <1>4

\* A call that ends: its pipe is empty and nothing it asked for is left.
LEMMA LeavesOK ==
    ASSUME Types, LockOK, \A p \in Procs : KidOK(p), NEW c \in Callers, Talks(c),
           \A d \in Callers : Talks(d)' => d # c /\ Talks(d),
           Procs' = Procs, NEW q \in Procs, q = call[c].pipe,
           \A p \in Procs : p # q => Keeps(p), Single(q)', Quiet(q)'
    PROVE  \A p \in Procs : KidOK(p)'
<1>1. \A d \in Callers : ~Talks(d)'
  BY TalksAlone DEF Talks
<1>2. ASSUME NEW p \in Procs, p # q PROVE Single(p)' /\ Quiet(p)'
  <2>1. \A d \in Callers : Talks(d) => call[d].pipe # p
    BY <1>2, TalksAlone DEF Talks
  <2> QED
    BY <1>2, <2>1 DEF KidOK, Keeps
<1>3. \A p \in Procs : Single(p)' /\ Quiet(p)'
  BY <1>2
<1> QED
  BY <1>1, <1>3 DEF KidOK, Talks

LEMMA LeaveFacts ==
    ASSUME Types, NEW c \in Callers, Leave(c)
    PROVE  /\ \A d \in Callers : d # c => call'[d] = call[d]
           /\ ~Talks(c)' /\ \A d \in Callers : Talks(d)' => d # c /\ Talks(d)
<1>1. call \in [Callers -> Talk]
  BY DEF Types, CallType
<1>2. NoCall.at = "idle"
  BY DEF NoCall
<1>3. (\A d \in Callers : d # c => call'[d] = call[d]) /\ call'[c] = NoCall
  BY <1>1 DEF Leave
<1> QED
  BY <1>2, <1>3 DEF Talks

LEMMA FramesStep ==
    ASSUME Types, LockOK, FramesOK, [Next /\ UNCHANGED setting]_<<vars, setting>>
    PROVE  FramesOK'
<1> SUFFICES ASSUME setting.cold = 0, Next /\ UNCHANGED setting PROVE \A p \in Procs' : KidOK(p)'
  <2>1. CASE UNCHANGED <<vars, setting>>
    BY <2>1 DEF FramesOK, KidOK, Single, Quiet, AtReady, AtReply, Asked, Running, Talks, Procs,
                vars
  <2> QED
    BY <2>1 DEF FramesOK
<1>a. /\ call \in [Callers -> Talk] /\ None \notin Callers \cup Unloaders
      /\ proc \in 0..Len(child) /\ Len(child) \in Nat /\ ChildType
      /\ \A p \in Procs : KidOK(p)
  BY SidecarAssumption DEF Types, CallType, ChildType, FramesOK
<1>1. ASSUME TalksOn, Procs' = Procs, \A p \in Procs : Keeps(p) PROVE \A p \in Procs' : KidOK(p)'
  BY <1>1, <1>a, KidStays
<1>2. ASSUME TalksOn, Same \/ Kills PROVE \A p \in Procs' : KidOK(p)'
  BY <1>1, <1>2, KillsKeeps
<1>3. ASSUME NEW q \in 0..Len(child), NEW b \in {FALSE}, child' = Kill(q, b) PROVE Kills
  BY <1>3 DEF Kills
<1>4. ASSUME NEW c \in Callers, NEW op \in setting.ops, Begin(c, op) PROVE TalksOn /\ Same
  BY <1>4, <1>a DEF Begin, TalksOn, Talks, Same
<1>5. ASSUME NEW c \in Callers, Reuse(c) \/ SendFails(c) PROVE TalksOn /\ Same
  <2>1. /\ child' = child /\ \A d \in Callers : d # c => call'[d] = call[d]
        /\ ~Talks(c) /\ ~Talks(c)'
    <3>1. CASE Reuse(c)
      BY <3>1, <1>a DEF Reuse, Talks
    <3>2. CASE SendFails(c)
      BY <3>2, LeaveFacts DEF SendFails, Talks
    <3> QED
      BY <1>5, <3>1, <3>2
  <2> QED
    BY <2>1 DEF TalksOn, Talks, Same
<1>6. ASSUME NEW c \in Callers, Expire(c) \/ TimeoutKill(c) PROVE TalksOn /\ (Same \/ Kills)
  <2>1. TalksOn
    BY <1>6, TimerFacts DEF TalksOn, Talks
  <2> QED
    BY <1>3, <1>6, <1>a, <2>1 DEF Expire, TimeoutKill, Same
<1>7. ASSUME call' = call PROVE TalksOn
  BY <1>7 DEF TalksOn, Talks
<1>8. ASSUME LateKill \/ (\E u \in Unloaders : Reap(u) \/ Unload(u) \/ Terminate(u) \/ EndShutdown(u))
      PROVE  TalksOn /\ (Same \/ Kills)
  <2>1. ASSUME NEW u \in Unloaders, Terminate(u) PROVE Kills
    <3>1. down[u].proc \in 0..Len(child)
      BY <2>1 DEF Types, DownType, Terminate, Procs
    <3> QED
      BY <2>1, <3>1 DEF Kills, Terminate
  <2> QED
    BY <1>3, <1>7, <1>8, <1>a, <2>1 DEF LateKill, Reap, Unload, Terminate, EndShutdown, Same
<1>9. ASSUME NEW u \in Unloaders, SendShutdown(u) PROVE \A p \in Procs' : KidOK(p)'
  BY <1>1, <1>7, <1>9, ToldKeeps DEF SendShutdown
<1>10. ASSUME NEW q \in Procs, ChildStep(q) PROVE \A p \in Procs' : KidOK(p)'
  <2>1. call' = call /\ SameBut(q) /\ Procs' = Procs
    BY <1>10, <1>a, ChildFacts DEF ChildStep, SameBut, Procs
  <2>2. \A p \in Procs : p # q => KidOK(p)'
    BY <1>7, <1>a, <2>1, KidStays, KeptWhen DEF SameBut
  <2> QED
    BY <1>10, <1>a, <2>1, <2>2, ServesOK
<1>11. ASSUME NEW c \in Callers, Spawn(c), NEW n \in Nat, n = Len(child) + 1
       PROVE  \A p \in Procs' : KidOK(p)'
  <2>1. /\ Len(child') = n /\ \A p \in Procs : child'[p] = child[p]
        /\ child'[n].state = "starting" /\ child'[n].in = <<>> /\ child'[n].out = <<>>
    <3>1. /\ Len(child') = n /\ \A p \in Procs : child'[p] = child[p]
          /\ child'[n] = [state |-> "starting", in |-> <<>>, out |-> <<>>, loaded |-> 0,
                          shut |-> FALSE]
      BY <1>11, <1>a, SpawnFacts DEF Spawn
    <3> QED
      BY <3>1
  <2>2. /\ lock = None /\ \A d \in Callers : d # c => call'[d] = call[d]
        /\ call'[c].at = "ready" /\ call'[c].pipe = n
    BY <1>11, <1>a DEF Spawn
  <2>3. \A d \in Callers : d # c => ~Talks(d)'
    BY <2>2, TalksAlone DEF Talks
  <2>4. Single(n)' /\ AtReady(n)'
    BY <2>1 DEF Single, AtReady, Asked
  <2>5. KidOK(n)'
    BY <2>2, <2>3, <2>4 DEF KidOK, Talks
  <2>6. ASSUME NEW p \in Procs PROVE KidOK(p)'
    <3>1. Single(p)' /\ Quiet(p)'
      BY <1>a, <2>1, <2>2, TalksAlone, KeptWhen DEF KidOK, Keeps
    <3>2. p # n
      BY <1>11, <1>a DEF Procs
    <3> QED
      BY <2>2, <2>3, <3>1, <3>2 DEF KidOK, Talks
  <2>7. \A p \in Procs' : p \in Procs \/ p = n
    BY <1>11, <1>a, <2>1 DEF Procs
  <2> QED
    BY <2>5, <2>6, <2>7
<1>12. ASSUME NEW c \in Callers, Handshake(c) \/ Reply(c), NEW q \in Procs, q = call[c].pipe
       PROVE  \A p \in Procs' : KidOK(p)'
  <2>1. Talks(c) /\ child[q].out # <<>> /\ child' = [child EXCEPT ![q].out = Tail(@)]
    BY <1>12 DEF Handshake, Reply, Talks
  <2>2. /\ SameBut(q) /\ child'[q].state = child[q].state /\ child'[q].in = child[q].in
        /\ child'[q].out = Tail(child[q].out) /\ child[q].out \in Seq(Line) /\ KidOK(q)
    BY <1>a, <2>1, TakeFacts, KidFacts
  <2>3. child'[q].out = <<>>
    <3>1. Len(child[q].out) \in Nat \ {0}
      <4>1. child[q].out \in Seq(Line) /\ child[q].out # <<>>
        BY <2>1, <2>2
      <4> QED
        BY Zenon, <4>1, EmptySeq
    <3>2. Len(child[q].out) = 1
      <4>1. Len(child[q].out) <= 1
        BY <2>2 DEF KidOK, Single
      <4>2. \A k \in Nat \ {0} : k <= 1 => k = 1
        OBVIOUS
      <4> QED
        BY Zenon, <3>1, <4>1, <4>2
    <3>3. Tail(child[q].out) \in Seq(Line) /\ Len(Tail(child[q].out)) = 0
      BY <2>1, <2>2, <3>2, HeadTailProperties
    <3> QED
      BY <2>2, <3>3, EmptySeq
  <2>4. child[q].state # "starting" /\ (Running(q) => Asked(q) = {})
    BY <1>12, <2>1, <2>2 DEF KidOK, Single, AtReady, AtReply, Talks
  <2>5. Single(q)' /\ Quiet(q)'
    <3>1. Asked(q)' = Asked(q) /\ Running(q)' = Running(q) /\ Len(child'[q].out) = 0
      BY <2>2, <2>3 DEF Asked, Running
    <3>2. Asked(q) = {} \/ ~Running(q)
      BY <2>4
    <3>3. Running(q)' => Asked(q)' = {}
      BY <3>1, <3>2
    <3>4. Quiet(q)'
      BY <2>2, <2>3, <2>4, <3>3 DEF Quiet
    <3>5. Single(q)'
      BY <2>3, <3>1, <3>3 DEF Single
    <3> QED
      BY <3>4, <3>5
  <2>6. \A d \in Callers : Talks(d)' => d # c /\ Talks(d)
    <3>1. CASE Handshake(c)
      <4>1. call' = [call EXCEPT ![c] = [call[c] EXCEPT !.at = "send", !.timer = "off"]]
        BY <3>1 DEF Handshake
      <4>2. call[c] \in Talk
        BY <1>a
      <4> QED
        BY <1>a, <4>1, <4>2 DEF Talk, Talks
    <3>2. CASE Reply(c)
      BY <3>2, LeaveFacts DEF Reply
    <3> QED
      BY <1>12, <3>1, <3>2
  <2>7. Procs' = Procs /\ \A p \in Procs : p # q => Keeps(p)
    BY <2>2, KeptWhen DEF SameBut, Procs
  <2> QED
    BY <1>12, <1>a, <2>1, <2>5, <2>6, <2>7, LeavesOK
<1>13. ASSUME NEW c \in Callers, HandshakeFails(c) \/ ReplyFails(c),
              NEW q \in Procs, q = call[c].pipe
       PROVE  \A p \in Procs' : KidOK(p)'
  <2>1. Talks(c) /\ KidOK(q) /\ child[q].out = <<>> /\ ~Running(q) /\ child[q].state # "starting"
    BY <1>13, <1>a DEF HandshakeFails, ReplyFails, Talks, AtEof, Running
  <2>2. Same \/ Kills
    BY <1>3, <1>13, <1>a DEF HandshakeFails, ReplyFails, Same
  <2>3. Procs' = Procs /\ \A p \in Procs : Keeps(p)
    BY <2>2, KillsKeeps
  <2>4. Single(q) /\ Quiet(q)
    BY <2>1 DEF Single, Quiet, KidOK
  <2>5. \A d \in Callers : Talks(d)' => d # c /\ Talks(d)
    BY <1>13, LeaveFacts DEF HandshakeFails, ReplyFails
  <2>6. Single(q)' /\ Quiet(q)'
    BY <2>3, <2>4 DEF Keeps
  <2> QED
    BY <1>13, <1>a, <2>1, <2>3, <2>5, <2>6, LeavesOK
<1>14. ASSUME NEW c \in Callers, Send(c), NEW q \in Procs, q = proc,
              NEW n \in Nat, n = call[c].number
       PROVE  \A p \in Procs' : KidOK(p)'
  <2>. DEFINE f == [op |-> call[c].op, call |-> n]
  <2>1. f \in Line /\ f.op # "shutdown" /\ f.call = n
    <3>1. call[c].op \in Request
      BY CallFacts
    <3> QED
      BY <3>1, Line0 DEF Request
  <2>2. child' = [child EXCEPT ![q].in = Append(@, f)]
    BY <1>14 DEF Send
  <2> HIDE DEF f
  <2>3. /\ SameBut(q) /\ child'[q].state = child[q].state /\ child'[q].out = child[q].out
        /\ child'[q].in = Append(child[q].in, f) /\ child[q].in \in Seq(Line)
    BY <1>a, <2>1, <2>2, SendFacts, KidFacts
  <2>4. /\ \A d \in Callers : d # c => call'[d] = call[d]
        /\ call'[c].at = "reply" /\ call'[c].pipe = q /\ call'[c].number = n
    <3>1. call' = [call EXCEPT ![c] = [call[c] EXCEPT !.at = "reply", !.pipe = q, !.timer = "set"]]
      BY <1>14 DEF Send
    <3>2. call[c] \in Talk
      BY <1>a
    <3> QED
      BY <1>14, <1>a, <3>1, <3>2 DEF Talk
  <2>5. call[c].at = "send" /\ \A d \in Callers : ~Talks(d)
    BY <1>14, TalksAlone DEF Send, Talks
  <2>6. \A d \in Callers : d # c => ~Talks(d)'
    BY <2>4, <2>5 DEF Talks
  <2>7. ASSUME NEW p \in Procs, p # q PROVE KidOK(p)'
    <3>1. Single(p)' /\ Quiet(p)'
      BY <1>a, <2>3, <2>5, <2>7, KeptWhen DEF KidOK, Keeps, SameBut
    <3> QED
      BY <2>4, <2>6, <2>7, <3>1 DEF KidOK, Talks
  <2>8. KidOK(q)'
    <3>1. Quiet(q)
      BY <1>a, <2>5 DEF KidOK
    <3>2. /\ Len(child'[q].in) = Len(child[q].in) + 1 /\ Len(child[q].in) \in Nat
          /\ child'[q].in[Len(child[q].in) + 1] = f
          /\ \A i \in 1..Len(child[q].in) : child'[q].in[i] = child[q].in[i]
      BY <2>1, <2>3, AppendProperties
    <3>3. \A i \in Asked(q)' : i \in Asked(q) \/ i = Len(child[q].in) + 1
      <4>1. 1..Len(child'[q].in) = (1..Len(child[q].in)) \cup {Len(child[q].in) + 1}
        BY <3>2
      <4> QED
        BY <3>2, <4>1 DEF Asked
    <3>4. child'[q].out = <<>> /\ child'[q].state = child[q].state
      BY <2>3, <3>1 DEF Quiet
    <3>5. Running(q)' => \A i \in Asked(q)' : i = Len(child[q].in) + 1
      BY <3>1, <3>3, <3>4 DEF Quiet, Running
    <3>6. Single(q)' /\ AtReply(q, n)'
      BY <2>1, <3>1, <3>2, <3>4, <3>5 DEF Single, AtReply, Quiet
    <3> QED
      BY <2>4, <2>6, <3>6 DEF KidOK, Talks
  <2> QED
    BY <2>3, <2>7, <2>8 DEF SameBut, Procs
<1>15. ASSUME NEW c \in Callers
       PROVE  /\ Len(child) + 1 \in Nat /\ call[c].number \in Nat
              /\ Handshake(c) \/ Reply(c) \/ HandshakeFails(c) \/ ReplyFails(c) =>
                   call[c].pipe \in Procs
              /\ Send(c) => proc \in Procs
  <2>1. Len(child) + 1 \in Nat /\ call[c].number \in Nat
    BY <1>a, CallFacts
  <2>2. Talks(c) => call[c].pipe \in Procs
    BY CallFacts
  <2>3. Send(c) => proc \in Procs
    BY <1>a DEF Send, Polled, Procs
  <2> QED
    BY <2>1, <2>2, <2>3 DEF Handshake, Reply, HandshakeFails, ReplyFails, Talks
<1> QED
  BY <1>2, <1>4, <1>5, <1>6, <1>8, <1>9, <1>10, <1>11, <1>12, <1>13, <1>14, <1>15
  DEF Next, CallStep, ShutdownStep

----------------------------------------------------------------------------
(* The invariant and the theorems.                                         *)

IInv == Types /\ LockOK /\ (~setting.bare => OneOK /\ ShutOK) /\ FramesOK

LEMMA Initially == Init => IInv
<1> SUFFICES ASSUME Init PROVE IInv
  OBVIOUS
<1>1. /\ child = <<>> /\ Len(child) = 0 /\ Procs = {}
      /\ \A c \in Callers : call[c] = NoCall
      /\ \A u \in Unloaders : down[u].at = "idle"
  BY DEF Init, Procs
<1>2. Types
  <2>1. ChildType
    BY <1>1 DEF Init, ChildType
  <2>2. NoCall \in Talk /\ NoCall.at = "idle"
    BY DEF NoCall, Talk, Request
  <2>3. CallType
    BY <1>1, <2>2 DEF Init, CallType, Talks
  <2>4. DownType
    BY <1>1 DEF Init, DownType
  <2> QED
    BY <2>1, <2>3, <2>4 DEF Types
<1>3. \A c \in Callers : call[c].at = "idle"
  BY <1>1 DEF NoCall
<1> QED
  BY <1>1, <1>2, <1>3 DEF IInv, LockOK, OneOK, ShutOK, FramesOK, Talks

LEMMA Inductive == IInv /\ [Next /\ UNCHANGED setting]_<<vars, setting>> => IInv'
<1> SUFFICES ASSUME IInv, [Next /\ UNCHANGED setting]_<<vars, setting>> PROVE IInv'
  OBVIOUS
<1>1. Types' /\ LockOK' /\ FramesOK'
  BY TypesStep, LockStep, FramesStep DEF IInv
<1>2. ASSUME ~setting'.bare PROVE OneOK' /\ ShutOK'
  <2>1. setting' = setting
    BY DEF vars
  <2>2. CASE UNCHANGED <<vars, setting>>
    BY <1>2, <2>1, <2>2
    DEF IInv, OneOK, ShutOK, Talks, Told, Awaited, Running, Procs, vars
  <2> QED
    BY <1>2, <2>1, <2>2, OneStep, ShutStep DEF IInv
<1> QED
  BY <1>1, <1>2 DEF IInv

LEMMA Invariant == Spec => []IInv
BY Initially, Inductive, PTL DEF Spec

\* Without bare unloads no reaper and no timer shuts a process down while a call
\* talks to it (the reapers of SubprocessBackend, its watchdog).
THEOREM NobodyShutsABusyChild == Spec => []BusyIsSpared
<1>1. ASSUME IInv PROVE BusyIsSpared
  <2> SUFFICES ASSUME ~setting.bare, NEW c \in Callers, Talks(c), child[call[c].pipe].shut
               PROVE  FALSE
    BY DEF BusyIsSpared, Talks
  <2>1. call[c].pipe = proc /\ lock = c /\ proc \in Procs
    BY <1>1 DEF IInv, OneOK, LockOK, Talks, Types, CallType
  <2>2. PICK u \in Unloaders : down[u].at = "wait"
    BY <1>1, <2>1 DEF IInv, ShutOK, Awaited
  <2>3. lock = u
    BY <1>1, <2>2 DEF IInv, OneOK
  <2> QED
    BY <2>1, <2>3, SidecarAssumption
<1> QED
  BY <1>1, Invariant, PTL

\* Without bare unloads (batch.py:568 and tts_backend.py:1563 make them) a process that
\* runs is the one the backend knows, or is being shut down: there is never a second
\* that holds the engine (_spawn, shutdown, _force_kill).
THEOREM NoProcessIsLost == Spec => []NoOrphan
<1>1. IInv => NoOrphan
  BY DEF IInv, OneOK, NoOrphan
<1> QED
  BY <1>1, Invariant, PTL

\* The answer a call returns is its own, as long as the child writes one frame
\* for a request, as four of the shipped engines do not while they load: with any
\* crashes, timeouts, reapers and bare unloads (_call).
THEOREM AnswersBelong == Spec => []AnswersOwn
<1>1. ASSUME IInv PROVE AnswersOwn
  <2> SUFFICES ASSUME setting.cold = 0, NEW c \in Callers, call[c].at = "reply",
                      child[call[c].pipe].out # <<>>
               PROVE  Head(child[call[c].pipe].out).call = call[c].number
    BY DEF AnswersOwn, RepliesMatch
  <2>1. call[c].pipe \in Procs /\ ChildType
    BY <1>1 DEF IInv, Types, CallType, Talks
  <2>2. AtReply(call[c].pipe, call[c].number)
    BY <1>1, <2>1 DEF IInv, FramesOK, KidOK
  <2>3. child[call[c].pipe].out \in Seq(Line)
    BY <2>1, KidFacts
  <2> QED
    BY <2>2, <2>3 DEF AtReply
<1> QED
  BY <1>1, Invariant, PTL
=============================================================================
