---------------------------- MODULE DubJobProofs ----------------------------
(***************************************************************************)
(* Theorems of DubJob for any streams, chunks and aborts: no process of a   *)
(* stage outlives the pipeline, an abort kills what it found in the         *)
(* registry, a job deleted undisturbed stays deleted, and the speech model  *)
(* is left in main memory only by a stream that ends early or cannot move   *)
(* it.                                                                      *)
(***************************************************************************)
EXTENDS DubJob, FiniteSetTheorems, TLAPS

\* A chunk is being recognized only while there is one left.
ChunkOK == \A u \in Users : user[u].at = "asr" => user[u].chunk < Chunks

\* Whoever is busy holds a dict.
HeldOK == \A u \in Users : Busy(u) => user[u].dict # 0

\* A process belongs to the stage the pipeline is at, or to the generator of
\* demucs that is being closed.
ProcOK ==
    \A g \in Stages : proc[g] # "none" =>
      prep = g \/ (prep = "closing" /\ g = "demucs")

\* Where the pipeline may be after a stage; it never comes back to one.
Later(g) ==
    {"update", "save", "tell", "closing", "over"} \cup
      CASE g = "extract" -> {"hash", "demucs", "scene", "thumb"}
        [] g = "demucs"  -> {"scene", "thumb"}
        [] g = "scene"   -> {"thumb"}
        [] g = "thumb"   -> {}

Passed(g) == (prep = g /\ proc[g] \notin {"none", "spawned"}) \/ prep \in Later(g)

\* What an abort is to end cannot start again; until the kill it is in the
\* snapshot, because nothing has touched the registry before the first abort.
AbortOK ==
    /\ phase # "prep" => prep = "over"
    /\ abort.at # "idle" => abort.count # 0
    /\ abort.count = 0 => Running \subseteq registry \/ prep = "closing"
    /\ \A g \in abort.ran : Passed(g)
    /\ abort.at = "kill" /\ abort.count = 1 => abort.ran \cap Running \subseteq abort.procs
    /\ abort.at \in {"forget", "mark"} =>
         /\ abort.ran \cap abort.procs \cap Running = {}
         /\ abort.count = 1 => abort.ran \cap Running = {}

\* A deletion that nothing overlaps finds nobody who could bring the job back; nor
\* does memory, when the whole history is cleared.
GoneOK ==
    /\ gone \/ (deletion.alone /\ deletion.at \in {"files", "pop"}) => Alone /\ ~row.saved
    /\ deletion.alone /\ deletion.at = "files" /\ deletion.all => mem = 0

IInv == TypeOK /\ ChunkOK /\ HeldOK /\ ProcOK /\ AbortOK /\ GoneOK /\ DeletedStays /\ ModelBack
----------------------------------------------------------------------------
(* The actions by who takes them, and what each leaves alone.               *)

PrepSide ==
    \/ PrepBegins \/ PrepStep \/ Dropped \/ PrepCancelled \/ GoesMute
    \/ \E g \in Stages : StageStarts(g) \/ ProcEnds(g)
AbortSide == Snapshot \/ AbortStep
OtherSide ==
    \/ ThreadStep \/ ExportClears \/ DeleteFiles \/ Pop \/ Unload
    \/ \E all \in BOOLEAN : DeleteRow(all)
UserSide(u) ==
    \/ Hydrate(u)
    \/ /\ u \in Streams
       /\ \/ Open(u) \/ Preflight(u) \/ Diarize(u) \/ StreamStep(u)
          \/ Crashes(u) \/ PoolCancels(u) \/ Disconnects(u)
    \/ u = Import /\ (ImportBegins \/ ImportEnds)

LEMMA Sides ==
    ASSUME Next
    PROVE  PrepSide \/ AbortSide \/ OtherSide \/ \E u \in Users : UserSide(u)
BY Zenon DEF Next, PrepSide, AbortSide, OtherSide, UserSide, Users

LEMMA PrepFrame ==
    ASSUME PrepSide
    PROVE  UNCHANGED <<phase, abort, deletion, user, gone, tts, left>>
BY DEF PrepSide, PrepStep, PrepBegins, Download, StageStarts, Registers, StageEnds,
       StageTimesOut, GoesMute, ProcEnds, Hash, Update, Save, Tell, Dropped, Closed,
       PrepCancelled, PrepUnchanged, jobVars, ttsVars

LEMMA AbortFrame ==
    ASSUME AbortSide
    PROVE  UNCHANGED <<phase, prep, mem, row, files, gone, deletion, user, tts, left>>
BY DEF AbortSide, Snapshot, AbortStep, Kill, Forget, Mark, prepVars, jobVars, ttsVars

LEMMA OtherFrame ==
    ASSUME OtherSide
    PROVE  UNCHANGED <<phase, prep, proc, registry, abort, user>>
BY DEF OtherSide, ThreadStep, ExportClears, DeleteRow, DeleteFiles, Pop, Unload, prepVars,
       jobVars

\* A user changes its own record only, and never makes the job known by itself.
LEMMA UserFrame ==
    ASSUME NEW u \in Users, UserSide(u)
    PROVE  /\ UNCHANGED <<phase, prep, thread, proc, registry, abort, files, gone>>
           /\ \E r : user' = [user EXCEPT ![u] = r]
<1>1. UNCHANGED <<phase, prep, thread, proc, registry, abort, files, gone>>
  BY DEF UserSide, Hydrate, Open, StreamStep, Crashes, PoolCancels, Disconnects, ImportBegins,
         ImportEnds, Preflight, Offload, Loop, Attempt, Diarize, Clones, Restore,
         StreamUnchanged, prepVars
<1>2. \E r : user' = [user EXCEPT ![u] = r]
  BY DEF UserSide, Hydrate, Open, StreamStep, Crashes, PoolCancels, Disconnects, ImportBegins,
         ImportEnds, Preflight, Offload, Loop, Attempt, Diarize, Clones, Restore, GetJob, At,
         Ends
<1> QED
  BY <1>1, <1>2

----------------------------------------------------------------------------
(* Types.                                                                  *)

LEMMA DictsType == Cardinality(Users) \in Nat /\ 1 \in Dicts
<1>1. IsFiniteSet(Users)
  <2>1. IsFiniteSet({Import})
    BY FS_Singleton
  <2> QED
    BY <2>1, FS_Union, DubJobAssumption DEF Users
<1>2. Cardinality(Users) \in Nat
  BY <1>1, FS_CardinalityType
<1> QED
  BY <1>2 DEF Dicts

User == [at : {"idle", "found", "have", "open", "loop", "asr", "diarize", "clones",
               "restore", "over"},
         dict : {0} \cup Dicts, chunk : 0..Chunks, tries : 0..2, got : BOOLEAN]

Row == [saved : BOOLEAN, job : Dict]

\* What the dicts and the row are made of.
LEMMA DictFacts ==
    /\ NoDict \in Dict /\ NoRow \in Row
    /\ \A j \in Dict : [saved |-> TRUE, job |-> j] \in Row
    /\ \A d \in [Dicts -> Dict], n \in Dicts, b \in BOOLEAN :
         /\ d[n] \in Dict
         /\ [d EXCEPT ![n].aborted = b] \in [Dicts -> Dict]
         /\ [d EXCEPT ![n].segments = b] \in [Dicts -> Dict]
<1>1. NoDict \in Dict
  BY DEF NoDict, Dict
<1>2. \A j \in Dict : [saved |-> TRUE, job |-> j] \in Row
  BY DEF Row
<1>3. NoRow \in Row
  <2>1. \A j \in Dict : [saved |-> FALSE, job |-> j] \in Row
    BY DEF Row
  <2> QED
    BY <1>1, <2>1 DEF NoRow
<1>4. ASSUME NEW d \in [Dicts -> Dict], NEW n \in Dicts, NEW b \in BOOLEAN
      PROVE  /\ d[n] \in Dict
             /\ [d EXCEPT ![n].aborted = b] \in [Dicts -> Dict]
             /\ [d EXCEPT ![n].segments = b] \in [Dicts -> Dict]
  <2>1. [d[n] EXCEPT !.aborted = b] \in Dict /\ [d[n] EXCEPT !.segments = b] \in Dict
    BY DEF Dict
  <2> QED
    BY <2>1
<1> QED
  BY <1>1, <1>2, <1>3, <1>4

LEMMA InitType == Init => TypeOK
<1> SUFFICES ASSUME Init PROVE TypeOK
  OBVIOUS
<1>1. /\ phase \in Phases /\ proc \in [Stages -> {"none", "spawned", "running", "mute", "ok", "failed"}]
      /\ registry \subseteq Stages /\ {files, gone, left} \subseteq BOOLEAN
      /\ tts \in {"none", "gpu", "cpu"}
  BY DEF Init
<1>2. prep \in {"task", "over"} /\ mem \in {0, 1} /\ thread = "none"
  BY DEF Init
<1>3. row \in Row
  <2>1. row = NoRow \/ row = [saved |-> TRUE, job |-> NoDict]
    BY DEF Init
  <2> QED
    BY <2>1, DictFacts
<1>4. dict \in [Dicts -> Dict]
  BY DEF Init, NoDict, Dict
<1>5. /\ abort \in [at : {"idle", "kill", "forget", "mark"}, procs : SUBSET Stages,
                    ran : SUBSET Stages, count : 0..MaxAborts]
      /\ deletion \in [at : {"idle", "files", "pop", "over"}, all : BOOLEAN, alone : BOOLEAN]
  BY DubJobAssumption DEF Init
<1>6. user \in [Users -> User]
  BY DubJobAssumption DEF Init, NoUser, User
<1> QED
  BY <1>1, <1>2, <1>3, <1>4, <1>5, <1>6, DictsType DEF TypeOK, User, Row

LEMMA SaveType ==
    ASSUME TypeOK, NEW j \in Dict, SaveJob(j)
    PROVE  row' \in Row
<1>1. row' = [saved |-> TRUE, job |-> j] \/ row' = row
  BY DEF SaveJob
<1>2. row \in Row
  BY DEF TypeOK, Row
<1> QED
  BY <1>1, <1>2, DictFacts

PrepAt == Stages \cup {"task", "download", "hash", "update", "save", "tell", "closing", "over"}

\* What a step of the pipeline may change.
LEMMA PrepKeeps ==
    ASSUME TypeOK, PrepUnchanged, prep' \in PrepAt,
           proc' \in [Stages -> {"none", "spawned", "running", "mute", "ok", "failed"}],
           registry' \subseteq Stages, mem' \in {0} \cup Dicts, dict' \in [Dicts -> Dict],
           row' \in Row, files' \in BOOLEAN
    PROVE  TypeOK'
BY DEF TypeOK, PrepUnchanged, PrepAt, Row, ttsVars

LEMMA PrepType ==
    ASSUME TypeOK, PrepSide
    PROVE  TypeOK'
<1> USE DEF PrepEnds
<1>a. /\ prep \in PrepAt /\ proc \in [Stages -> {"none", "spawned", "running", "mute", "ok", "failed"}]
      /\ registry \subseteq Stages /\ mem \in {0} \cup Dicts /\ dict \in [Dicts -> Dict]
      /\ row \in Row /\ files \in BOOLEAN
  BY DEF TypeOK, PrepAt, Row
<1>b. Stages \subseteq PrepAt
  BY DEF PrepAt
<1>1. ASSUME PrepBegins PROVE TypeOK'
  <2>1. prep' \in {"download", "extract"} /\ thread' \in {thread, "download"}
    BY <1>1 DEF PrepBegins
  <2>2. prep' \in PrepAt
    BY <2>1 DEF PrepAt, Stages
  <2> QED
    BY <1>1, <2>1, <2>2 DEF PrepBegins, TypeOK, PrepAt, jobVars, ttsVars
<1>2. ASSUME Download PROVE TypeOK'
  <2>1. prep' \in {"extract", "over"} /\ registry' \subseteq Stages /\ files' \in BOOLEAN
    BY <1>2, <1>a DEF Download
  <2>2. prep' \in PrepAt
    BY <2>1 DEF PrepAt, Stages
  <2> QED
    BY <1>2, <1>a, <2>1, <2>2, PrepKeeps DEF Download
<1>3. ASSUME Hash PROVE TypeOK'
  <2>1. prep' \in {"tell", "demucs"} /\ mem' \in Dicts /\ dict' = [dict EXCEPT ![1] = NoDict]
    BY <1>3, DictsType DEF Hash
  <2>2. prep' \in PrepAt
    BY <2>1 DEF PrepAt, Stages
  <2>3. dict' \in [Dicts -> Dict] /\ row' \in Row
    BY <1>3, <1>a, <2>1, DictFacts, SaveType DEF Hash
  <2> QED
    BY <1>3, <1>a, <2>1, <2>2, <2>3, PrepKeeps DEF Hash
<1>4. ASSUME Update PROVE TypeOK'
  <2>1. prep' \in {"save", "over"} /\ registry' \subseteq Stages
    BY <1>4, <1>a DEF Update
  <2>2. prep' \in PrepAt
    BY <2>1 DEF PrepAt
  <2> QED
    BY <1>4, <1>a, <2>1, <2>2, PrepKeeps DEF Update
<1>5. ASSUME Save PROVE TypeOK'
  <2>1. prep' \in {"tell", "over"} /\ registry' \subseteq Stages
    BY <1>5, <1>a DEF Save
  <2>2. prep' \in PrepAt
    BY <2>1 DEF PrepAt
  <2>3. row' \in Row
    BY <1>5, <1>a, DictFacts, SaveType DEF Save
  <2> QED
    BY <1>5, <1>a, <2>1, <2>2, <2>3, PrepKeeps DEF Save
<1>6. ASSUME Tell PROVE TypeOK'
  <2>1. prep' \in PrepAt
    BY <1>6 DEF Tell, PrepAt
  <2> QED
    BY <1>6, <1>a, <2>1, PrepKeeps DEF Tell
<1>7. ASSUME Closed PROVE TypeOK'
  <2>1. prep' \in PrepAt
    BY <1>7 DEF Closed, PrepAt
  <2> QED
    BY <1>7, <1>a, <2>1, PrepKeeps DEF Closed
<1>8. ASSUME Dropped PROVE TypeOK'
  <2>1. prep' \in {"over", "closing"} /\ registry' = {}
    BY <1>8 DEF Dropped
  <2>2. prep' \in PrepAt
    BY <2>1 DEF PrepAt
  <2> QED
    BY <1>8, <1>a, <2>1, <2>2, PrepKeeps DEF Dropped
<1>9. ASSUME PrepCancelled PROVE TypeOK'
  <2>1. prep' \in PrepAt
    BY <1>9 DEF PrepCancelled, PrepAt
  <2>2. proc' \in [Stages -> {"none", "spawned", "running", "mute", "ok", "failed"}]
    BY <1>9, <1>a DEF PrepCancelled
  <2> QED
    BY <1>9, <1>a, <2>1, <2>2, PrepKeeps DEF PrepCancelled
<1>10. ASSUME NEW g \in Stages, StageStarts(g) \/ Registers(g) PROVE TypeOK'
  BY <1>10, <1>a, <1>b, PrepKeeps DEF StageStarts, Registers
<1>11. ASSUME NEW g \in Stages, NEW ok \in BOOLEAN, Follows(g, ok),
              UNCHANGED <<mem, dict, row, files>>, PrepUnchanged
       PROVE  TypeOK'
  <2>1. prep' \in {"hash", "over", "scene", "update", "thumb"}
    BY <1>11 DEF Follows, Stages
  <2>2. prep' \in PrepAt
    BY <2>1 DEF PrepAt, Stages
  <2>3. /\ proc' \in [Stages -> {"none", "spawned", "running", "mute", "ok", "failed"}]
        /\ registry' \subseteq Stages
    BY <1>11, <1>a DEF Follows
  <2> QED
    BY <1>11, <1>a, <2>2, <2>3, PrepKeeps
<1>12. ASSUME NEW g \in Stages, StageEnds(g) \/ StageTimesOut(g) PROVE TypeOK'
  <2>1. (proc[g] = "ok") \in BOOLEAN /\ FALSE \in BOOLEAN
    OBVIOUS
  <2> QED
    BY <1>11, <1>12, <2>1 DEF StageEnds, StageTimesOut
<1>13. ASSUME NEW g \in Stages, ProcEnds(g) PROVE TypeOK'
  BY <1>13, <1>a, PrepKeeps DEF ProcEnds
<1>14. ASSUME GoesMute PROVE TypeOK'
  BY <1>14, <1>a, PrepKeeps DEF GoesMute
<1> QED
  BY <1>1, <1>2, <1>3, <1>4, <1>5, <1>6, <1>7, <1>8, <1>9, <1>10, <1>12, <1>13,
     <1>14
  DEF PrepSide, PrepStep

LEMMA AbortType ==
    ASSUME TypeOK, AbortSide
    PROVE  TypeOK'
<1> USE DEF prepVars, jobVars, ttsVars
<1>1. ASSUME Snapshot PROVE TypeOK'
  BY <1>1, DubJobAssumption DEF TypeOK, Snapshot, Running
<1>2. ASSUME Kill PROVE TypeOK'
  BY <1>2 DEF TypeOK, Kill, Killed
<1>3. ASSUME Forget PROVE TypeOK'
  BY <1>3 DEF TypeOK, Forget
<1>4. ASSUME Mark PROVE TypeOK'
  <2>1. dict' = dict \/ (mem # 0 /\ dict' = [dict EXCEPT ![mem].aborted = TRUE])
    BY <1>4 DEF Mark
  <2>2. dict' \in [Dicts -> Dict]
    <3>1. dict \in [Dicts -> Dict] /\ (mem # 0 => mem \in Dicts) /\ TRUE \in BOOLEAN
      BY DEF TypeOK
    <3> QED
      BY <2>1, <3>1, DictFacts
  <2>3. abort' \in [at : {"idle", "kill", "forget", "mark"}, procs : SUBSET Stages,
                    ran : SUBSET Stages, count : 0..MaxAborts]
    BY <1>4 DEF Mark, TypeOK
  <2> QED
    BY <1>4, <2>2, <2>3 DEF TypeOK, Mark
<1> QED
  BY <1>1, <1>2, <1>3, <1>4 DEF AbortSide, AbortStep

LEMMA OtherType ==
    ASSUME TypeOK, OtherSide
    PROVE  TypeOK'
<1> USE DEF prepVars, jobVars, ttsVars
<1>1. ASSUME ExportClears PROVE TypeOK'
  <2>1. dict \in [Dicts -> Dict] /\ mem \in Dicts /\ FALSE \in BOOLEAN
    BY <1>1 DEF TypeOK, ExportClears
  <2>2. dict' \in [Dicts -> Dict]
    BY <1>1, <2>1, DictFacts DEF ExportClears
  <2> QED
    BY <1>1, <2>2 DEF TypeOK, ExportClears
<1>2. ASSUME NEW all \in BOOLEAN, DeleteRow(all) PROVE TypeOK'
  <2> DEFINE a == Alone /\ (all => mem = 0)
  <2>1. deletion' = [at |-> "files", all |-> all, alone |-> a] /\ a \in BOOLEAN
    BY <1>2 DEF DeleteRow
  <2> HIDE DEF a
  <2>2. row' \in Row
    BY <1>2, DictFacts DEF DeleteRow
  <2> QED
    BY <1>2, <2>1, <2>2 DEF TypeOK, DeleteRow, Row
<1>3. ASSUME DeleteFiles PROVE TypeOK'
  <2>1. deletion' \in [at : {"idle", "files", "pop", "over"}, all : BOOLEAN, alone : BOOLEAN]
    BY <1>3 DEF TypeOK, DeleteFiles
  <2>2. files' \in BOOLEAN /\ gone' \in BOOLEAN
    BY <1>3 DEF TypeOK, DeleteFiles
  <2> QED
    BY <1>3, <2>1, <2>2 DEF TypeOK, DeleteFiles
<1>4. ASSUME Pop PROVE TypeOK'
  BY <1>4 DEF TypeOK, Pop
<1>5. ASSUME Unload PROVE TypeOK'
  BY <1>5 DEF TypeOK, Unload
<1>6. ASSUME ThreadStep PROVE TypeOK'
  <2>1. files' \in BOOLEAN /\ thread' \in {"none", "download", "convert", "ok", "failed"}
    BY <1>6 DEF TypeOK, ThreadStep
  <2> QED
    BY <1>6, <2>1 DEF TypeOK, ThreadStep
<1> QED
  BY <1>1, <1>2, <1>3, <1>4, <1>5, <1>6 DEF OtherSide

\* What a step of a stream or of the import may change.
LEMMA UserKeeps ==
    ASSUME TypeOK, UNCHANGED <<phase, prep, thread, proc, registry, abort, files, gone>>,
           mem' \in {0} \cup Dicts, dict' \in [Dicts -> Dict],
           row' \in Row, user' \in [Users -> User],
           deletion' = deletion \/ deletion' \in
             [at : {"idle", "files", "pop", "over"}, all : BOOLEAN, alone : BOOLEAN],
           tts' \in {"none", "gpu", "cpu"}, left' \in BOOLEAN
    PROVE  TypeOK'
BY DEF TypeOK, User, Row

\* How a user's record changes.
LEMMA UserFacts ==
    ASSUME TypeOK, NEW u \in Users
    PROVE  /\ user \in [Users -> User] /\ NoUser \in User /\ Over \in User
           /\ [user EXCEPT ![u] = Over] \in [Users -> User]
           /\ \A a \in {"have", "open", "loop", "diarize", "clones", "restore"} :
                [user EXCEPT ![u].at = a] \in [Users -> User]
           /\ \A a \in {"found", "have"}, n \in {0} \cup Dicts :
                [user EXCEPT ![u].at = a, ![u].dict = n] \in [Users -> User]
<1>1. user \in [Users -> User] /\ user[u] \in User
  BY DEF TypeOK, User
<1>2. NoUser \in User /\ Over \in User
  <2>1. 0 \in {0} \cup Dicts /\ 0 \in 0..Chunks /\ 0 \in 0..2
    BY DubJobAssumption
  <2>2. NoUser \in User
    BY <2>1 DEF NoUser, User
  <2> QED
    BY <2>2 DEF Over, User
<1>3. \A a \in {"have", "open", "loop", "diarize", "clones", "restore"} :
        [user[u] EXCEPT !.at = a] \in User
  BY <1>1 DEF User
<1>4. \A a \in {"found", "have"}, n \in {0} \cup Dicts :
        [user[u] EXCEPT !.at = a, !.dict = n] \in User
  BY <1>1 DEF User
<1> QED
  BY <1>1, <1>2, <1>3, <1>4

LEMMA GetJobType ==
    ASSUME TypeOK, NEW u \in Users, GetJob(u), Overlaps(u),
           UNCHANGED <<phase, prepVars, abort, mem, row, files, gone, ttsVars>>
    PROVE  TypeOK'
<1>a. mem \in {0} \cup Dicts /\ dict \in [Dicts -> Dict] /\ row.job \in Dict
  BY DEF TypeOK
<1>1. user' \in [Users -> User] /\ dict' \in [Dicts -> Dict]
  <2>1. CASE user' = [user EXCEPT ![u].at = "have", ![u].dict = mem] /\ dict' = dict
    BY <1>a, <2>1, UserFacts
  <2>2. ASSUME NEW n \in Dicts, dict' = [dict EXCEPT ![n] = row.job],
               user' = [user EXCEPT ![u].at = "found", ![u].dict = n]
        PROVE  user' \in [Users -> User] /\ dict' \in [Dicts -> Dict]
    BY <1>a, <2>2, UserFacts
  <2>3. CASE user' = [user EXCEPT ![u] = Over] /\ dict' = dict
    BY <1>a, <2>3, UserFacts
  <2> QED
    BY <2>1, <2>2, <2>3 DEF GetJob
<1>2. deletion' \in [at : {"idle", "files", "pop", "over"}, all : BOOLEAN, alone : BOOLEAN]
  BY DEF Overlaps, TypeOK
<1> QED
  BY <1>1, <1>2, UserKeeps DEF TypeOK, Row, prepVars, ttsVars

LEMMA StreamKeeps ==
    ASSUME TypeOK, StreamUnchanged, user' \in [Users -> User], dict' \in [Dicts -> Dict],
           row' \in Row, tts' \in {"none", "gpu", "cpu"}, left' \in BOOLEAN
    PROVE  TypeOK'
<1>1. mem' \in {0} \cup Dicts
  BY DEF TypeOK, StreamUnchanged
<1> QED
  BY <1>1, UserKeeps DEF StreamUnchanged, prepVars

LEMMA EndsType ==
    ASSUME TypeOK, NEW u \in Users, Ends(u)
    PROVE  user' \in [Users -> User] /\ left' \in BOOLEAN
<1>1. user' \in [Users -> User]
  BY UserFacts DEF Ends
<1>2. left' \in BOOLEAN
  BY DEF Ends, TypeOK, Offloaded
<1> QED
  BY <1>1, <1>2

LEMMA UserType ==
    ASSUME TypeOK, ChunkOK, HeldOK, NEW u \in Users, UserSide(u)
    PROVE  TypeOK'
<1>a. /\ dict \in [Dicts -> Dict] /\ row \in Row /\ mem \in {0} \cup Dicts
      /\ tts \in {"none", "gpu", "cpu"} /\ left \in BOOLEAN
      /\ user[u].dict \in {0} \cup Dicts /\ user[u] \in User
  BY DEF TypeOK, Row, User
<1>b. /\ user \in [Users -> User] /\ [user EXCEPT ![u] = Over] \in [Users -> User]
      /\ \A a \in {"have", "open", "loop", "diarize", "clones", "restore"} :
           [user EXCEPT ![u].at = a] \in [Users -> User]
  BY UserFacts
<1>1. ASSUME Hydrate(u) PROVE TypeOK'
  <2>1. user' \in [Users -> User]
    BY <1>1, <1>b DEF Hydrate
  <2> QED
    BY <1>1, <1>a, <2>1, UserKeeps DEF Hydrate, prepVars, ttsVars
<1>2. ASSUME Open(u) \/ (u = Import /\ ImportBegins) PROVE TypeOK'
  BY <1>2, GetJobType DEF Open, ImportBegins
<1>3. ASSUME Ends(u), UNCHANGED <<dict, row>>, StreamUnchanged,
             tts' \in {"none", "gpu", "cpu"}
      PROVE  TypeOK'
  BY <1>3, <1>a, EndsType, StreamKeeps
<1>4. ASSUME Crashes(u) \/ PoolCancels(u) \/ Disconnects(u) PROVE TypeOK'
  BY <1>4, <1>3, <1>a DEF Crashes, PoolCancels, Disconnects
<1>5. ASSUME Preflight(u) PROVE TypeOK'
  <2>1. CASE Ends(u)
    BY <1>5, <1>3, <1>a, <2>1 DEF Preflight
  <2>2. CASE At(u, "open") /\ left' = left
    BY <1>5, <1>a, <1>b, <2>2, StreamKeeps DEF Preflight, At
  <2> QED
    BY <1>5, <2>1, <2>2 DEF Preflight
<1>6. ASSUME Offload(u) PROVE TypeOK'
  <2>1. CASE Ends(u)
    BY <1>6, <1>3, <1>a, <2>1 DEF Offload
  <2>2. CASE At(u, "loop") /\ left' = left
    BY <1>6, <1>a, <1>b, <2>2, StreamKeeps DEF Offload, At
  <2> QED
    BY <1>6, <2>1, <2>2 DEF Offload
<1>7. ASSUME Loop(u) PROVE TypeOK'
  <2>1. CASE Ends(u)
    BY <1>7, <1>3, <1>a, <2>1 DEF Loop
  <2>2. CASE At(u, "diarize") /\ left' = left
    BY <1>7, <1>a, <1>b, <2>2, StreamKeeps DEF Loop, At
  <2>3. CASE user' = [user EXCEPT ![u].at = "asr", ![u].tries = 1] /\ left' = left
    <3>1. [user[u] EXCEPT !.at = "asr", !.tries = 1] \in User
      <4>1. 1 \in 0..2
        OBVIOUS
      <4> QED
        BY <1>a, <4>1 DEF User
    <3>2. user' \in [Users -> User]
      BY <1>b, <2>3, <3>1
    <3> QED
      BY <1>7, <1>a, <2>3, <3>2, StreamKeeps DEF Loop
  <2> QED
    BY <1>7, <2>1, <2>2, <2>3 DEF Loop
<1>8. ASSUME Attempt(u) PROVE TypeOK'
  <2>1. user[u].chunk < Chunks /\ user[u].tries \in 0..2 /\ user[u].chunk \in 0..Chunks
    BY <1>8, <1>a DEF Attempt, ChunkOK, User
  <2>2. ASSUME user[u].tries < 2, user' = [user EXCEPT ![u].tries = @ + 1]
        PROVE  user' \in [Users -> User]
    <3>1. user[u].tries + 1 \in 0..2
      BY <2>1, <2>2
    <3>2. [user[u] EXCEPT !.tries = @ + 1] \in User
      BY <1>a, <3>1 DEF User
    <3> QED
      BY <1>b, <2>2, <3>2
  <2>3. ASSUME NEW got \in BOOLEAN,
               user' = [user EXCEPT ![u].at = "loop", ![u].chunk = @ + 1,
                                    ![u].tries = 0, ![u].got = @ \/ got]
        PROVE  user' \in [Users -> User]
    <3>1. user[u].chunk + 1 \in 0..Chunks /\ 0 \in 0..2
      BY <2>1, DubJobAssumption
    <3>2. ASSUME NEW c \in 0..Chunks, NEW t \in 0..2, NEW g \in BOOLEAN
          PROVE  [user[u] EXCEPT !.at = "loop", !.chunk = c, !.tries = t, !.got = g] \in User
      BY <1>a DEF User
    <3>3. (user[u].got \/ got) \in BOOLEAN
      OBVIOUS
    <3>4. [user[u] EXCEPT !.at = "loop", !.chunk = @ + 1, !.tries = 0, !.got = @ \/ got]
            \in User
      BY <3>1, <3>2, <3>3
    <3> QED
      BY <1>b, <2>3, <3>4
  <2>4. user' \in [Users -> User]
    BY <1>8, <2>2, <2>3 DEF Attempt
  <2> QED
    BY <1>8, <1>a, <2>4, StreamKeeps DEF Attempt, ttsVars
<1>9. Busy(u) => user[u].dict \in Dicts /\ dict[user[u].dict] \in Dict
  BY <1>a, DictFacts DEF HeldOK
<1>10. ASSUME Diarize(u) PROVE TypeOK'
  <2>1. dict' \in [Dicts -> Dict]
    BY <1>9, <1>10, <1>a, DictFacts DEF Diarize, Busy
  <2> QED
    BY <1>10, <1>a, <1>b, <2>1, StreamKeeps DEF Diarize, At, ttsVars
<1>11. ASSUME Clones(u) PROVE TypeOK'
  <2>1. row' \in Row
    BY <1>9, <1>11, SaveType DEF Clones, Busy
  <2> QED
    BY <1>11, <1>a, <1>b, <2>1, StreamKeeps DEF Clones, At, ttsVars
<1>12. ASSUME Restore(u) PROVE TypeOK'
  BY <1>12, <1>a, <1>b, StreamKeeps DEF Restore
<1>13. ASSUME u = Import, ImportEnds PROVE TypeOK'
  <2>. DEFINE job == [dict[user[u].dict] EXCEPT !.segments = TRUE]
  <2>1. user[u].dict \in Dicts /\ dict[user[u].dict] \in Dict
    BY <1>9, <1>13 DEF ImportEnds, Busy
  <2>2. job \in Dict
    BY <2>1 DEF Dict
  <2>3. \/ dict' = [dict EXCEPT ![user[u].dict] = job] /\ SaveJob(job)
        \/ dict' = dict /\ row' = row
    BY <1>13 DEF ImportEnds
  <2>4. dict' \in [Dicts -> Dict] /\ row' \in Row
    <3> HIDE DEF job
    <3> QED
      BY <1>a, <2>1, <2>2, <2>3, SaveType
  <2> QED
    BY <1>13, <1>a, <1>b, <2>4, StreamKeeps DEF ImportEnds, ttsVars
<1> QED
  BY <1>1, <1>2, <1>4, <1>5, <1>6, <1>7, <1>8, <1>10, <1>11, <1>12, <1>13
  DEF UserSide, StreamStep

LEMMA TypeStep == ASSUME TypeOK, ChunkOK, HeldOK, [Next]_vars PROVE TypeOK'
<1>1. CASE UNCHANGED vars
  BY <1>1 DEF TypeOK, vars, prepVars, jobVars, ttsVars
<1> QED
  BY <1>1, Sides, PrepType, AbortType, OtherType, UserType

----------------------------------------------------------------------------
(* The users: the chunk and the dict of each.                               *)

LEMMA UserStep ==
    ASSUME TypeOK, ChunkOK, HeldOK, [Next]_vars
    PROVE  ChunkOK' /\ HeldOK'
<1>a. user \in [Users -> User] /\ \A u \in Users : user[u].chunk \in 0..Chunks
  BY DEF TypeOK, User
<1>1. ASSUME UNCHANGED user PROVE ChunkOK' /\ HeldOK'
  BY <1>1 DEF ChunkOK, HeldOK, Busy
<1>2. ASSUME NEW u \in Users, UserSide(u) PROVE ChunkOK' /\ HeldOK'
  <2>1. user' \in [Users -> User] /\ \A v \in Users : v # u => user'[v] = user[v]
    BY <1>2, <1>a, UserFrame, UserType DEF TypeOK, User
  <2>2. SUFFICES /\ user'[u].at = "asr" => user'[u].chunk < Chunks
                 /\ user'[u].at \notin {"idle", "over"} => user'[u].dict # 0
    BY <2>1, <2>2 DEF ChunkOK, HeldOK, Busy
  <2>3. /\ user[u].at = "asr" => user[u].chunk < Chunks
        /\ user[u].at \notin {"idle", "over"} => user[u].dict # 0
    BY DEF ChunkOK, HeldOK, Busy
  <2>4. CASE user'[u].at = "over"
    BY <2>4
  <2>5. CASE GetJob(u)
    BY <2>4, <2>5, <1>a DEF GetJob, Dicts, Over, NoUser, User
  <2>6. CASE Ends(u)
    BY <2>4, <2>6, <1>a DEF Ends, Over, NoUser, User
  <2>7. CASE Hydrate(u)
    BY <2>7, <2>3, <1>a DEF Hydrate, User
  <2>8. ASSUME NEW a \in {"open", "loop", "diarize", "clones", "restore"}, At(u, a),
               user[u].at \notin {"idle", "over"}
        PROVE  user'[u].at # "asr" /\ user'[u].dict # 0
    BY <2>8, <2>3, <1>a DEF At, User
  <2>9. CASE Loop(u)
    BY <2>9, <2>8, <2>6, <2>3, <1>a DEF Loop, User
  <2>10. CASE Attempt(u)
    BY <2>10, <2>3, <1>a DEF Attempt, User
  <2>11. CASE Restore(u) \/ (u = Import /\ ImportEnds)
    BY <2>4, <2>11, <1>a DEF Restore, ImportEnds, Over, NoUser, User
  <2> QED
    BY <1>2, <2>3, <2>5, <2>6, <2>7, <2>8, <2>9, <2>10, <2>11
    DEF UserSide, Open, StreamStep, Crashes, PoolCancels, Disconnects, ImportBegins,
        Preflight, Offload, Diarize, Clones
<1> QED
  BY <1>1, <1>2, Sides, PrepFrame, AbortFrame, OtherFrame DEF vars

----------------------------------------------------------------------------
(* The processes.                                                          *)

LEMMA ProcStep == ASSUME TypeOK, ProcOK, [Next]_vars PROVE ProcOK'
<1>a. proc \in [Stages -> {"none", "spawned", "running", "mute", "ok", "failed"}]
  BY DEF TypeOK
<1>1. ASSUME UNCHANGED <<prep, proc>> PROVE ProcOK'
  BY <1>1 DEF ProcOK
<1>2. ASSUME prep \notin Stages \cup {"closing"}, proc' = proc PROVE ProcOK'
  BY <1>2 DEF ProcOK, Stages
<1>3. ASSUME PrepBegins \/ Download \/ Hash \/ Update \/ Save \/ Tell PROVE ProcOK'
  BY <1>2, <1>3 DEF PrepBegins, Download, Hash, Update, Save, Tell, Stages
<1>4. ASSUME NEW g \in Stages, StageStarts(g) \/ Registers(g) PROVE ProcOK'
  BY <1>4, <1>a DEF StageStarts, Registers, ProcOK
<1>5. ASSUME NEW g \in Stages, prep = g, proc' = [proc EXCEPT ![g] = "none"] PROVE ProcOK'
  BY <1>5, <1>a DEF ProcOK, Stages
<1>6. ASSUME NEW g \in Stages, StageEnds(g) \/ StageTimesOut(g) PROVE ProcOK'
  BY <1>5, <1>6 DEF StageEnds, StageTimesOut, Follows
<1>7. ASSUME GoesMute \/ \E g \in Stages : ProcEnds(g) PROVE ProcOK'
  BY <1>7, <1>a DEF GoesMute, ProcEnds, ProcOK, Stages
<1>8. ASSUME Dropped PROVE ProcOK'
  BY <1>8 DEF Dropped, ProcOK, Stages
<1>9. ASSUME Closed PROVE ProcOK'
  BY <1>9, <1>a DEF Closed, ProcOK, Stages
<1>10. ASSUME PrepCancelled PROVE ProcOK'
  BY <1>10, <1>a DEF PrepCancelled, ProcOK, Stages
<1>11. ASSUME AbortSide PROVE ProcOK'
  <2>1. CASE Kill
    BY <2>1, <1>a DEF Kill, Killed, ProcOK
  <2> QED
    BY <1>1, <1>11, <2>1 DEF AbortSide, AbortStep, Snapshot, Forget, Mark, prepVars
<1> QED
  BY <1>1, <1>3, <1>4, <1>6, <1>7, <1>8, <1>9, <1>10, <1>11, Sides, OtherFrame, UserFrame
  DEF PrepSide, PrepStep, vars, prepVars

----------------------------------------------------------------------------
(* Deletion.                                                               *)

LEMMA GoneStep ==
    ASSUME TypeOK, GoneOK, DeletedStays, [Next]_vars
    PROVE  GoneOK' /\ DeletedStays'
<1>a. /\ user \in [Users -> User] /\ deletion.alone \in BOOLEAN /\ gone \in BOOLEAN
      /\ deletion \in [at : {"idle", "files", "pop", "over"}, all : BOOLEAN, alone : BOOLEAN]
  BY DEF TypeOK, User
<1>1. ASSUME UNCHANGED <<gone, deletion, prep, user, row, mem>> PROVE GoneOK' /\ DeletedStays'
  BY <1>1 DEF GoneOK, DeletedStays, Alone, Busy
<1>2. ASSUME PrepSide PROVE GoneOK' /\ DeletedStays'
  <2>1. CASE GoesMute \/ \E g \in Stages : ProcEnds(g) \/ Registers(g)
    BY <2>1, <1>1 DEF GoesMute, ProcEnds, Registers, PrepUnchanged
  <2>2. CASE /\ PrepBegins \/ PrepStep \/ Dropped \/ PrepCancelled
                 \/ \E g \in Stages : StageStarts(g)
             /\ \A g \in Stages : ~Registers(g)
    <3>1. prep # "over"
      BY <2>2 DEF PrepStep, PrepBegins, Download, StageStarts, StageEnds, StageTimesOut, Hash,
                  Update, Save, Tell, Closed, Dropped, PrepCancelled, Stages
    <3> QED
      BY <1>2, <3>1, PrepFrame DEF GoneOK, DeletedStays, Alone
  <2> QED
    BY <1>2, <2>1, <2>2 DEF PrepSide
<1>3. ASSUME AbortSide PROVE GoneOK' /\ DeletedStays'
  BY <1>1, <1>3, AbortFrame
<1>4. ASSUME OtherSide PROVE GoneOK' /\ DeletedStays'
  <2>a. UNCHANGED <<prep, user>>
    BY <1>4, OtherFrame
  <2>b. Alone' = Alone
    BY <2>a DEF Alone, Busy
  <2>1. CASE ExportClears \/ Unload \/ ThreadStep
    BY <2>1, <1>1, <2>a DEF ExportClears, Unload, ThreadStep, jobVars
  <2>2. ASSUME NEW all \in BOOLEAN, DeleteRow(all) PROVE GoneOK' /\ DeletedStays'
    BY <2>2, <2>b, <1>a DEF DeleteRow, GoneOK, DeletedStays, NoRow
  <2>3. CASE DeleteFiles
    BY <2>3, <2>b, <1>a DEF DeleteFiles, GoneOK, DeletedStays
  <2>4. CASE Pop
    BY <2>4, <2>b, <1>a DEF Pop, GoneOK, DeletedStays
  <2> QED
    BY <1>4, <2>1, <2>2, <2>3, <2>4 DEF OtherSide
<1>5. ASSUME NEW u \in Users, UserSide(u) PROVE GoneOK' /\ DeletedStays'
  <2>a. UNCHANGED <<prep, gone>> /\ \A v \in Users : v # u => user'[v] = user[v]
    BY <1>5, <1>a, UserFrame
  <2>1. CASE Busy(u)
    <3>1. ~Alone
      BY <2>1 DEF Alone
    <3>2. UNCHANGED deletion
      BY <1>5, <2>1 DEF UserSide, Hydrate, Open, StreamStep, Crashes, PoolCancels, Disconnects,
         ImportBegins, ImportEnds, Preflight, Offload, Loop, Attempt, Diarize, Clones, Restore,
         StreamUnchanged, Busy
    <3> QED
      BY <2>a, <3>1, <3>2 DEF GoneOK, DeletedStays
  <2>2. CASE ~Busy(u)
    <3>1. GetJob(u) /\ Overlaps(u) /\ UNCHANGED <<mem, row>>
      BY <1>5, <2>2 DEF UserSide, Hydrate, Open, StreamStep, Crashes, PoolCancels, Disconnects,
         ImportBegins, ImportEnds, Preflight, Offload, Loop, Attempt, Diarize, Clones, Restore,
         Busy
    <3>2. deletion'.at = deletion.at /\ deletion'.alone = (deletion.alone /\ user'[u].at = "over")
      BY <3>1, <1>a DEF Overlaps
    <3>3. mem = 0 /\ ~row.saved => user'[u].at = "over"
      BY <3>1, <1>a DEF GetJob, Over, NoUser
    <3>4. user'[u].at = "over" /\ Alone => Alone'
      BY <2>a DEF Alone, Busy
    <3>5. deletion'.all = deletion.all
      BY <3>1, <1>a DEF Overlaps
    <3> QED
      BY <2>a, <3>1, <3>2, <3>3, <3>4, <3>5 DEF GoneOK, DeletedStays
  <2> QED
    BY <2>1, <2>2
<1> QED
  BY <1>1, <1>2, <1>3, <1>4, <1>5, Sides DEF vars, prepVars, jobVars

----------------------------------------------------------------------------
(* The speech model.                                                       *)

LEMMA ModelStep == ASSUME TypeOK, ModelBack, [Next]_vars PROVE ModelBack'
<1>a. /\ user \in [Users -> User] /\ tts \in {"none", "gpu", "cpu"} /\ left \in BOOLEAN
      /\ Streams \subseteq Users
  BY DEF TypeOK, User, Users
<1>1. ASSUME UNCHANGED <<user, tts, left>> PROVE ModelBack'
  BY <1>1 DEF ModelBack, Offloaded
<1>2. ASSUME OtherSide PROVE ModelBack'
  BY <1>1, <1>2, OtherFrame
  DEF OtherSide, ThreadStep, ExportClears, DeleteRow, DeleteFiles, Pop, Unload, ModelBack,
      ttsVars
<1>3. ASSUME NEW u \in Users, UserSide(u) PROVE ModelBack'
  <2>a. \A v \in Users : v # u => user'[v] = user[v]
    BY <1>3, <1>a, UserFrame
  <2>b. \A v \in Streams : v # u => (Offloaded(v))' = Offloaded(v)
    BY <2>a, <1>a DEF Offloaded
  <2>1. CASE Ends(u) /\ (tts' = "cpu" => tts = "cpu")
    BY <2>1, <2>b, <1>a DEF Ends, ModelBack
  <2>2. CASE u \in Streams /\ user'[u].at \in {"loop", "asr", "diarize", "clones", "restore"}
    BY <2>2 DEF ModelBack, Offloaded
  <2>3. CASE ~Offloaded(u) /\ left' = left /\ (tts' = "cpu" => tts = "cpu")
    BY <2>3, <2>b DEF ModelBack
  <2>4. CASE Restore(u)
    BY <2>4, <1>a DEF Restore, ModelBack
  <2>5. ASSUME Hydrate(u) \/ Open(u) \/ (u = Import /\ (ImportBegins \/ ImportEnds))
        PROVE  ModelBack'
    BY <2>3, <2>5
    DEF Hydrate, Open, ImportBegins, ImportEnds, ttsVars, Offloaded
  <2>6. ASSUME Preflight(u) PROVE ModelBack'
    BY <2>1, <2>3, <2>6 DEF Preflight, Offloaded
  <2>7. ASSUME u \in Streams, Offload(u) PROVE ModelBack'
    BY <2>1, <2>2, <2>7, <1>a DEF Offload, At, User
  <2>8. ASSUME u \in Streams, Loop(u) PROVE ModelBack'
    BY <2>1, <2>2, <2>8, <1>a DEF Loop, At, User
  <2>9. ASSUME u \in Streams, Attempt(u) PROVE ModelBack'
    BY <2>2, <2>9, <1>a DEF Attempt, User
  <2>10. ASSUME u \in Streams, Diarize(u) \/ Clones(u) PROVE ModelBack'
    BY <2>2, <2>10, <1>a DEF Diarize, Clones, At, User
  <2>11. ASSUME Crashes(u) \/ PoolCancels(u) \/ Disconnects(u) PROVE ModelBack'
    BY <2>1, <2>11 DEF Crashes, PoolCancels, Disconnects
  <2> QED
    BY <1>3, <2>4, <2>5, <2>6, <2>7, <2>8, <2>9, <2>10, <2>11 DEF UserSide, StreamStep
<1> QED
  BY <1>1, <1>2, <1>3, Sides, PrepFrame, AbortFrame DEF vars, ttsVars

----------------------------------------------------------------------------
(* Abort.                                                                  *)

\* What has been passed stays passed, and what runs anew was not passed.
LEMMA PassedStays ==
    ASSUME TypeOK, [Next]_vars, NEW g \in Stages
    PROVE  Passed(g) => Passed(g)' /\ (g \in Running' => g \in Running)
<1>a. proc \in [Stages -> {"none", "spawned", "running", "mute", "ok", "failed"}] /\ prep \in PrepAt
  BY DEF TypeOK, PrepAt
<1>b. /\ g \notin Later(g)
      /\ \A p \in {"update", "save", "tell", "closing", "over"} : p \in Later(g)
      /\ prep \in Later(g) /\ prep \notin {"hash", "demucs", "scene", "thumb"} =>
           prep \in {"update", "save", "tell", "closing", "over"}
  BY DEF Later, Stages
<1>1. ASSUME UNCHANGED <<prep, proc>>
      PROVE  Passed(g) => Passed(g)' /\ (g \in Running' => g \in Running)
  BY <1>1 DEF Passed, Running
<1>2. ASSUME proc' = proc, prep' # prep, prep \in Later(g) => prep' \in Later(g),
             prep = g /\ proc[g] \notin {"none", "spawned"} => prep' \in Later(g)
      PROVE  Passed(g) => Passed(g)' /\ (g \in Running' => g \in Running)
  BY <1>2 DEF Passed, Running
<1>3. ASSUME PrepBegins \/ Download \/ Hash \/ Update \/ Save \/ Tell
      PROVE  Passed(g) => Passed(g)' /\ (g \in Running' => g \in Running)
  BY <1>2, <1>3
  DEF PrepBegins, Download, Hash, Update, Save, Tell, PrepEnds, Later, Stages
<1>4. ASSUME NEW h \in Stages, StageStarts(h) \/ Registers(h)
      PROVE  Passed(g) => Passed(g)' /\ (g \in Running' => g \in Running)
  BY <1>4, <1>a, <1>b DEF StageStarts, Registers, Passed, Running
<1>5. ASSUME NEW h \in Stages, StageEnds(h) \/ StageTimesOut(h)
      PROVE  Passed(g) => Passed(g)' /\ (g \in Running' => g \in Running)
  <2>1. prep = h /\ proc' = [proc EXCEPT ![h] = "none"]
    BY <1>5 DEF StageEnds, StageTimesOut, Follows
  <2>2. prep' \in Later(h)
    BY <1>5 DEF StageEnds, StageTimesOut, Follows, Later, Stages
  <2>3. h \in Later(g) => \A p \in Later(h) : p \in Later(g)
    BY <1>5 DEF Later, Stages
  <2> QED
    BY <2>1, <2>2, <2>3, <1>a DEF Passed, Running
<1>6. ASSUME GoesMute \/ \E h \in Stages : ProcEnds(h)
      PROVE  Passed(g) => Passed(g)' /\ (g \in Running' => g \in Running)
  BY <1>6, <1>a DEF GoesMute, ProcEnds, Passed, Running, Stages
<1>7. ASSUME Dropped \/ Closed \/ PrepCancelled
      PROVE  Passed(g) => Passed(g)' /\ (g \in Running' => g \in Running)
  <2>1. prep' \in {"closing", "over"} /\ \A h \in Stages : proc'[h] \in {"none", proc[h]}
    BY <1>7, <1>a DEF Dropped, Closed, PrepCancelled, PrepEnds
  <2> QED
    BY <2>1, <1>b DEF Passed, Running
<1>8. ASSUME AbortSide
      PROVE  Passed(g) => Passed(g)' /\ (g \in Running' => g \in Running)
  <2>1. CASE Kill
    BY <2>1, <1>a DEF Kill, Killed, Passed, Running
  <2> QED
    BY <1>1, <1>8, <2>1 DEF AbortSide, AbortStep, Snapshot, Forget, Mark, prepVars
<1> QED
  BY <1>1, <1>3, <1>4, <1>5, <1>6, <1>7, <1>8, Sides, OtherFrame, UserFrame
  DEF PrepSide, PrepStep, vars, prepVars

\* Only the stage that the pipeline is at has a process running, before any
\* abort also in the registry.
LEMMA RegisteredStep ==
    ASSUME TypeOK, ProcOK, PrepSide, Running \subseteq registry \/ prep = "closing"
    PROVE  Running' \subseteq registry' \/ prep' = "closing"
<1>a. proc \in [Stages -> {"none", "spawned", "running", "mute", "ok", "failed"}]
  BY DEF TypeOK
<1>b. prep # "closing" => \A g \in Running : prep = g
  BY DEF Running, ProcOK
<1>1. ASSUME PrepBegins \/ Download \/ Hash \/ Update \/ Save \/ Tell
      PROVE  Running' = {}
  <2>1. Running = {}
    BY <1>1, <1>b DEF PrepBegins, Download, Hash, Update, Save, Tell, Running, Stages
  <2> QED
    BY <1>1, <2>1 DEF PrepBegins, Download, Hash, Update, Save, Tell, Running
<1>2. ASSUME NEW g \in Stages, StageStarts(g) \/ Registers(g)
      PROVE  Running' \subseteq registry' \/ prep' = "closing"
  BY <1>2, <1>a, <1>b DEF StageStarts, Registers, Running, Stages
<1>3. ASSUME NEW g \in Stages, StageEnds(g) \/ StageTimesOut(g) PROVE Running' = {}
  <2>1. prep = g /\ proc' = [proc EXCEPT ![g] = "none"]
    BY <1>3 DEF StageEnds, StageTimesOut, Follows
  <2>2. prep # "closing"
    BY <2>1 DEF Stages
  <2> QED
    BY <2>1, <2>2, <1>a, <1>b DEF Running
<1>4. ASSUME GoesMute \/ \E g \in Stages : ProcEnds(g)
      PROVE  Running' \subseteq registry' \/ prep' = "closing"
  BY <1>4, <1>a DEF GoesMute, ProcEnds, Running, Stages
<1>5. ASSUME Dropped PROVE Running' \subseteq registry' \/ prep' = "closing"
  <2>1. CASE prep' = "closing"
    BY <2>1
  <2>2. CASE prep' # "closing"
    <3>1. prep # "closing" /\ proc' = proc /\ (prep \in Stages => proc[prep] = "none")
      BY <1>5, <2>2 DEF Dropped, Stages
    <3> QED
      BY <3>1, <1>b DEF Running
  <2> QED
    BY <2>1, <2>2
<1>6. ASSUME Closed \/ PrepCancelled PROVE Running' \subseteq registry'
  <2>1. CASE Closed
    <3>1. \A g \in Stages : proc[g] # "none" => g = "demucs"
      BY <2>1 DEF Closed, ProcOK, Stages
    <3> QED
      BY <2>1, <3>1, <1>a DEF Closed, Running
  <2>2. CASE PrepCancelled
    <3>1. prep # "closing"
      BY <2>2 DEF PrepCancelled, Stages
    <3> QED
      BY <2>2, <3>1, <1>a, <1>b DEF PrepCancelled, Running
  <2> QED
    BY <1>6, <2>1, <2>2
<1> QED
  BY <1>1, <1>2, <1>3, <1>4, <1>5, <1>6 DEF PrepSide, PrepStep

LEMMA AbortStepOK ==
    ASSUME TypeOK, ProcOK, AbortOK, [Next]_vars
    PROVE  AbortOK'
<1>a. /\ abort \in [at : {"idle", "kill", "forget", "mark"}, procs : SUBSET Stages,
                    ran : SUBSET Stages, count : 0..MaxAborts]
      /\ \A g \in abort.ran : Passed(g)' /\ (g \in Running' => g \in Running)
  <2>1. /\ abort \in [at : {"idle", "kill", "forget", "mark"}, procs : SUBSET Stages,
                      ran : SUBSET Stages, count : 0..MaxAborts]
        /\ \A g \in abort.ran : g \in Stages /\ Passed(g)
    BY DEF TypeOK, AbortOK
  <2> QED
    BY <2>1, PassedStays
<1>b. prep # "closing" => \A g \in Running : prep = g
  BY DEF Running, ProcOK
<1>1. ASSUME UNCHANGED <<phase, abort>>, prep = "over" => prep' = "over",
             abort.count = 0 /\ (Running \subseteq registry \/ prep = "closing") =>
               Running' \subseteq registry' \/ prep' = "closing"
      PROVE  AbortOK'
  BY <1>1, <1>a DEF AbortOK
<1>2. ASSUME PrepSide PROVE AbortOK'
  <2>1. prep = "over" => prep' = "over"
    BY <1>2 DEF PrepSide, PrepStep, PrepBegins, Download, StageStarts, Registers, StageEnds,
         StageTimesOut, GoesMute, ProcEnds, Hash, Update, Save, Tell, Closed, Dropped, PrepCancelled, Stages
  <2> QED
    BY <1>1, <1>2, <2>1, PrepFrame, RegisteredStep
<1>3. ASSUME UNCHANGED <<phase, prep, proc, registry, abort>> PROVE AbortOK'
  BY <1>1, <1>3 DEF Running
<1>4. ASSUME AbortSide PROVE AbortOK'
  <2>a. UNCHANGED <<phase, prep>>
    BY <1>4, AbortFrame
  <2>1. CASE Snapshot
    <3>1. abort' = [at |-> IF phase = "prep" THEN "kill" ELSE "mark", procs |-> registry,
                    ran |-> IF prep = "closing" THEN {} ELSE Running,
                    count |-> abort.count + 1]
      BY <2>1 DEF Snapshot
    <3>2. UNCHANGED <<proc, registry>> /\ abort.count \in Nat
      BY <2>1, <1>a DEF Snapshot, prepVars
    <3>3. /\ abort'.count = abort.count + 1 /\ abort'.procs = registry
          /\ abort'.at \in {"kill", "mark"} /\ (abort'.at = "mark" => phase # "prep")
          /\ abort'.ran \in {{}, Running} /\ (prep = "closing" => abort'.ran = {})
      BY <3>1
    <3>4. \A g \in abort'.ran : Passed(g)'
      BY <2>a, <3>2, <3>3, <1>b DEF Passed, Running
    <3>5. phase # "prep" => Running = {}
      BY <1>b DEF AbortOK, Running, Stages
    <3>6. abort'.count # 0 /\ (abort'.count = 1 => abort.count = 0) /\ Running' = Running
      BY <3>2, <3>3 DEF Running
    <3> QED
      BY <2>a, <3>3, <3>4, <3>5, <3>6 DEF AbortOK
  <2>2. CASE Kill
    <3>1. /\ abort.at = "kill" /\ abort'.at = "forget" /\ abort'.ran = abort.ran
          /\ abort'.count = abort.count /\ abort'.procs = abort.procs
      BY <2>2, <1>a DEF Kill
    <3>2. Running' \cap abort.procs = {}
      BY <2>2 DEF Kill, Killed, Running
    <3> QED
      BY <2>a, <3>1, <3>2, <1>a DEF AbortOK
  <2>3. CASE Forget
    <3>1. /\ abort.at = "forget" /\ abort'.at = "mark" /\ abort'.ran = abort.ran
          /\ abort'.count = abort.count /\ abort'.procs = abort.procs
      BY <2>3, <1>a DEF Forget
    <3> QED
      BY <2>a, <3>1, <1>a DEF AbortOK
  <2>4. CASE Mark
    <3>1. /\ abort.at = "mark" /\ abort'.at = "idle" /\ abort'.ran = {}
          /\ abort'.count = abort.count
      BY <2>4, <1>a DEF Mark
    <3> QED
      BY <2>a, <3>1, <1>a DEF AbortOK
  <2> QED
    BY <1>4, <2>1, <2>2, <2>3, <2>4 DEF AbortSide, AbortStep
<1> QED
  BY <1>2, <1>3, <1>4, Sides, OtherFrame, UserFrame DEF vars, prepVars

----------------------------------------------------------------------------
(* The invariant and the theorems.                                         *)

LEMMA Initially == Init => IInv
<1> SUFFICES ASSUME Init PROVE IInv
  OBVIOUS
<1>1. TypeOK
  BY InitType
<1>2. /\ \A u \in Users : user[u].at = "idle"
      /\ \A g \in Stages : proc[g] = "none"
      /\ gone = FALSE /\ tts # "cpu" /\ deletion.alone = FALSE
  BY DEF Init, NoUser
<1>3. abort.at = "idle" /\ abort.ran = {} /\ abort.count = 0 /\ (phase # "prep" => prep = "over")
  BY DEF Init
<1>4. ChunkOK /\ HeldOK /\ ProcOK /\ GoneOK /\ DeletedStays /\ ModelBack
  BY <1>2 DEF ChunkOK, HeldOK, Busy, ProcOK, GoneOK, DeletedStays, ModelBack
<1>5. AbortOK
  BY <1>2, <1>3 DEF AbortOK, Running
<1> QED
  BY <1>1, <1>4, <1>5 DEF IInv

LEMMA Inductive == IInv /\ [Next]_vars => IInv'
BY TypeStep, UserStep, ProcStep, AbortStepOK, GoneStep, ModelStep DEF IInv

LEMMA Invariant == Spec => []IInv
BY Initially, Inductive, PTL DEF Spec

\* No process of a stage outlives the pipeline that started it, however the pipeline
\* ends and wherever an abort meets it, though an abort makes the registry forget
\* processes that live (ingest_pipeline, run_proc, kill_job_procs).  The process that
\* converts a download belongs to a thread, not to a stage.
THEOREM NoProcessLeft == Spec => []NoProcLeft
<1>1. IInv => NoProcLeft
  BY DEF IInv, ProcOK, NoProcLeft, Running, Stages
<1> QED
  BY <1>1, Invariant, PTL

\* When an abort has gone through the registry, what was registered under the job
\* when it was called is dead; for the first abort that is all the pipeline knew to
\* run, but for a pipeline that was being closed (dub_abort, kill_job_procs).
THEOREM AbortKills == Spec => []KillsAll
<1>1. IInv => KillsAll
  BY DEF IInv, AbortOK, KillsAll, Running, TypeOK
<1> QED
  BY <1>1, Invariant, PTL

\* A deletion that nothing of the job overlaps is final: the job is in neither the
\* history nor the memory from then on (delete_single_dub_history, get_job).  For
\* clear_dub_history it is stated of jobs that are not in memory, where it leaves them.
THEOREM DeletedForGood == Spec => []DeletedStays
BY Invariant, PTL DEF IInv

\* The speech model is not left in main memory when the transcriptions are over,
\* unless the last to end did so before its restore or could not move the model
\* (dub_transcribe_stream, restore_tts_after_asr).
THEOREM ModelComesBack == Spec => []ModelBack
BY Invariant, PTL DEF IInv
=============================================================================
