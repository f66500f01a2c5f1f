--------------------------- MODULE ModelInstall ---------------------------
(***************************************************************************)
(* The installation of a model (api/routers/setup/download.py) and the      *)
(* segmented download of its weights (services/segmented_download.py): one  *)
(* file, its .part and the manifest of finished segments beside it.         *)
(*                                                                          *)
(* Each install runs in a thread with an event loop of its own, and nothing *)
(* keeps two installs of a repository apart.  A file that is open stays     *)
(* what it is when it is renamed or removed, so files have numbers here and *)
(* names denote numbers.                                                    *)
(***************************************************************************)
EXTENDS Naturals, FiniteSets

CONSTANTS
    Installs,    \* requests to install the model
    Segments,    \* what _plan_segments makes of the file
    Regimes,     \* a set of <<alone, hashed, ranges>>, see the variables
    MaxAttempts, \* _max_attempts, 5 in the code
    MaxFiles,    \* bound: files made
    MaxStarts,   \* bound: installs started, alone and not
    MaxCrashes,  \* bound: deaths of the process
    MaxDeletes   \* bound: deletions of the model, alone and not

ASSUME ModelInstallAssumption ==
    /\ Regimes \subseteq BOOLEAN \X BOOLEAN \X BOOLEAN
    /\ {MaxStarts, MaxDeletes} \subseteq [BOOLEAN -> Nat]
    /\ {MaxAttempts, MaxFiles, MaxCrashes} \subseteq Nat

VARIABLES
    alone,     \* no two installs run at a time
    hashed,    \* the etag is a SHA-256, so the file is verified
    ranges,    \* the server always accepts ranges, or does at times
    dir,       \* the directory of the blobs exists
    file,      \* what each file holds of each segment
    files,     \* files made
    part,      \* the number of the file named <blob>.part, 0 without
    manifest,  \* <blob>.part.done: the finished segments
    blob,      \* the number of the file in the cache, 0 without
    install,   \* the installs
    cancelled, \* _cancelled holds the model
    cooldown,  \* _install_cooldowns holds it
    victims,   \* what a deletion in progress has still to remove, {} without one
    starts, crashes, deletes

disk == <<dir, file, files, part, manifest, blob>>
request == <<cancelled, cooldown>>
world == <<alone, hashed, ranges, victims, starts, crashes, deletes>>
vars == <<disk, install, request, world>>

Files == 1..MaxFiles
Empty == [s \in Segments |-> "absent"]
Whole == [s \in Segments |-> "full"]
Idle == [at |-> "idle", attempt |-> 0, file |-> 0, done |-> {}, open |-> {}]

\* A segment is beyond the end of the file, all zero, partly or wholly there.
Content == {"absent", "zero", "some", "full"}

Places == {"idle", "begin", "try", "blob", "probe", "load", "allocate", "fetch", "stream",
           "verify", "rename", "clean", "snapshot", "validate", "retry"}

\* file is what a single stream is written to; each segment that is being fetched
\* has opened the part for itself.
Install == [at : Places, attempt : Nat, file : 0..MaxFiles,
            done : SUBSET Segments, open : SUBSET (Segments \X Files)]

\* A deletion removes the names it has found, and the directory last.
Names == {"part", "manifest", "blob", "dir"}

TypeOK ==
    /\ {alone, hashed, ranges, dir, cancelled, cooldown} \subseteq BOOLEAN
    /\ file \in [Files -> [Segments -> Content]]
    /\ files \in 0..MaxFiles
    /\ {part, blob} \subseteq 0..files
    /\ manifest \subseteq Segments
    /\ install \in [Installs -> Install]
    /\ victims \subseteq Names
    /\ starts \in 0..MaxStarts[alone] /\ crashes \in 0..MaxCrashes /\ deletes \in 0..MaxDeletes[alone]

Init ==
    /\ \E r \in Regimes : alone = r[1] /\ hashed = r[2] /\ ranges = r[3]
    /\ dir = FALSE /\ file = [f \in Files |-> Empty] /\ files = 0
    /\ part = 0 /\ manifest = {} /\ blob = 0
    /\ install = [i \in Installs |-> Idle]
    /\ cancelled = FALSE /\ cooldown = FALSE /\ victims = {}
    /\ starts = 0 /\ crashes = 0 /\ deletes = 0

At(i) == install[i].at
Goes(i, at) == install' = [install EXCEPT ![i].at = at]
Running == {i \in Installs : At(i) # "idle"}

----------------------------------------------------------------------------
(* install_model.                                                          *)

Start(i) ==
    /\ At(i) = "idle" /\ starts < MaxStarts[alone] /\ ~cooldown
    /\ alone => Running = {}
    /\ Goes(i, "begin") /\ starts' = starts + 1
    /\ UNCHANGED <<disk, request, alone, hashed, ranges, victims, crashes, deletes>>

\* The cooldown passes.
Cools ==
    /\ cooldown /\ cooldown' = FALSE
    /\ UNCHANGED <<disk, install, cancelled, world>>

\* The thread forgets any cancel so far; too full a disk ends the install.
Begin(i) ==
    /\ At(i) = "begin" /\ cancelled' = FALSE
    /\ Goes(i, "try") \/ install' = [install EXCEPT ![i] = Idle]
    /\ UNCHANGED <<disk, cooldown, world>>

\* The finally clause forgets a cancel, whosever it was.
Ends(i) == install' = [install EXCEPT ![i] = Idle] /\ cancelled' = FALSE

Cancelled(i) ==
    /\ At(i) \in {"try", "blob"} /\ cancelled
    /\ Ends(i) /\ cooldown' = FALSE
    /\ UNCHANGED <<disk, world>>

\* The segmented download, which makes the directory, is tried once, unless it
\* is switched off.
Try(i) ==
    /\ At(i) = "try" /\ ~cancelled
    /\ \E at \in IF install[i].attempt = 0 THEN {"blob", "snapshot"} ELSE {"snapshot"} :
         /\ install' = [install EXCEPT ![i].at = at, ![i].attempt = @ + 1]
         /\ dir' = (dir \/ at = "blob")
    /\ UNCHANGED <<file, files, part, manifest, blob, request, world>>

\* Whatever goes wrong with the segmented download, a cancel included, is
\* answered by snapshot_download.
FallsBack(i) ==
    install' = [install EXCEPT ![i] = [at |-> "snapshot", attempt |-> @.attempt,
                                       file |-> 0, done |-> {}, open |-> {}]]

\* The library finds the blob or makes a new file of its own, or raises.
Snapshot(i) ==
    /\ At(i) = "snapshot"
    /\ \/ blob # 0 /\ Goes(i, "validate") /\ UNCHANGED <<disk, request>>
       \/ /\ blob = 0 /\ files < MaxFiles
          /\ dir' = TRUE /\ files' = files + 1 /\ blob' = files + 1
          /\ file' = [file EXCEPT ![files + 1] = Whole]
          /\ Goes(i, "validate")
          /\ UNCHANGED <<part, manifest, request>>
       \/ Goes(i, "retry") /\ UNCHANGED <<disk, request>>
       \/ Ends(i) /\ cooldown' = TRUE /\ UNCHANGED disk
    /\ UNCHANGED world

\* A snapshot without weights counts as a network error.
Validate(i) ==
    /\ At(i) = "validate"
    /\ IF blob # 0 THEN Ends(i) /\ cooldown' = FALSE
                   ELSE Goes(i, "retry") /\ UNCHANGED request
    /\ UNCHANGED <<disk, world>>

\* Mutant: attempts are not counted.
RetryForEver(i) ==
    /\ At(i) = "retry"
    /\ install' = [install EXCEPT ![i].at = "try", ![i].attempt = 1]
    /\ UNCHANGED <<disk, request, world>>

Retry(i) ==
    /\ At(i) = "retry"
    /\ IF install[i].attempt < MaxAttempts
       THEN Goes(i, "try") /\ UNCHANGED request
       ELSE Ends(i) /\ cooldown' = TRUE
    /\ UNCHANGED <<disk, world>>

----------------------------------------------------------------------------
(* _segmented_snapshot and segmented_download.                             *)

Blob(i) ==
    /\ At(i) = "blob" /\ ~cancelled
    /\ Goes(i, IF blob # 0 THEN "validate" ELSE "probe")
    /\ UNCHANGED <<disk, request, world>>

\* A file is made under the name of the part, which had none.
NewPart(holds) ==
    /\ dir /\ files < MaxFiles
    /\ files' = files + 1 /\ part' = files + 1
    /\ file' = [file EXCEPT ![files + 1] = holds]

\* Segments if the server accepts ranges; else one stream into the part, whose
\* contents go at once, while the manifest stays.
Probe(i) ==
    /\ At(i) = "probe"
    /\ \/ Goes(i, "load") /\ UNCHANGED disk
       \/ /\ ~ranges /\ UNCHANGED <<dir, manifest, blob>>
          /\ IF part = 0 THEN NewPart(Empty)
                         ELSE file' = [file EXCEPT ![part] = Empty] /\ UNCHANGED <<files, part>>
          /\ install' = [install EXCEPT ![i].at = "stream", ![i].file = part']
    /\ UNCHANGED <<request, world>>

\* One segment's worth after the other, to the end.
Stream(i) ==
    /\ At(i) = "stream"
    /\ LET f == install[i].file
           left == {s \in Segments : file[f][s] # "full"} IN
         IF left = {} THEN Goes(i, "verify") /\ UNCHANGED file
                      ELSE /\ \E s \in left : file' = [file EXCEPT ![f][s] = "full"]
                           /\ UNCHANGED install
    /\ UNCHANGED <<dir, files, part, manifest, blob, request, world>>

Load(i) ==
    /\ At(i) = "load"
    /\ install' = [install EXCEPT ![i].at = "allocate", ![i].done = manifest]
    /\ UNCHANGED <<disk, request, world>>

Filled(holds) == [s \in Segments |-> IF holds[s] = "absent" THEN "zero" ELSE holds[s]]

Allocate(i) ==
    /\ At(i) = "allocate" /\ Goes(i, "fetch")
    /\ IF part = 0 THEN NewPart(Filled(Empty))
                   ELSE file' = [file EXCEPT ![part] = Filled(@)] /\ UNCHANGED <<files, part>>
    /\ UNCHANGED <<dir, manifest, blob, request, world>>

\* A segment that was not finished is fetched from its start.  Bytes that are
\* there already are overwritten with the same bytes.
FetchOpens(i, s) ==
    /\ At(i) = "fetch" /\ part # 0
    /\ s \notin install[i].done \cup {o[1] : o \in install[i].open}
    /\ install' = [install EXCEPT ![i].open = @ \cup {<<s, part>>}]
    /\ file' = [file EXCEPT ![part][s] = IF @ = "full" THEN @ ELSE "some"]
    /\ UNCHANGED <<dir, files, part, manifest, blob, request, world>>

\* Mutant: the manifest names a segment once it is opened.
FetchEndsEarly(i, o) ==
    /\ At(i) = "fetch" /\ o \in install[i].open
    /\ LET done == install[i].done \cup {o[1]} IN
         /\ install' = [install EXCEPT ![i].done = done, ![i].open = @ \ {o}]
         /\ manifest' = done
    /\ UNCHANGED <<dir, file, files, part, blob, request, world>>

\* All its bytes were counted: the segment is done, and the manifest says so,
\* or could not be written.
FetchEnds(i, o) ==
    /\ At(i) = "fetch" /\ o \in install[i].open
    /\ file' = [file EXCEPT ![o[2]][o[1]] = "full"]
    /\ LET done == install[i].done \cup {o[1]} IN
         /\ install' = [install EXCEPT ![i].done = done, ![i].open = @ \ {o}]
         /\ manifest' = manifest \/ (dir /\ manifest' = done)
    /\ UNCHANGED <<dir, files, part, blob, request, world>>

Fetched(i) ==
    /\ At(i) = "fetch" /\ install[i].done = Segments /\ install[i].open = {}
    /\ Goes(i, "verify")
    /\ UNCHANGED <<disk, request, world>>

\* The part is there, has its size, and its hash where that is known.
Sound ==
    /\ part # 0
    /\ \A s \in Segments : file[part][s] # "absent"
    /\ hashed => file[part] = Whole

Verify(i) ==
    /\ At(i) = "verify" /\ Sound
    /\ Goes(i, "rename")
    /\ UNCHANGED <<disk, request, world>>

Rename(i) ==
    /\ At(i) = "rename" /\ part # 0
    /\ blob' = part /\ part' = 0
    /\ Goes(i, "clean")
    /\ UNCHANGED <<dir, file, files, manifest, request, world>>

Clean(i) ==
    /\ At(i) = "clean" /\ manifest' = {}
    /\ Goes(i, "validate")
    /\ UNCHANGED <<dir, file, files, part, blob, request, world>>

\* The connection fails, a segment is short, a cancel is noticed, a file is not
\* there or not what it should be.
Fails(i) ==
    /\ At(i) \in {"blob", "probe", "allocate", "stream", "fetch", "verify", "rename"}
    /\ At(i) = "verify" => ~Sound
    /\ At(i) = "rename" => part = 0
    /\ FallsBack(i)
    /\ UNCHANGED <<disk, request, world>>

----------------------------------------------------------------------------
(* cancel_install, delete_model, and the death of the process.             *)

Cancel ==
    /\ cancelled' = TRUE /\ cooldown' = FALSE
    /\ UNCHANGED <<disk, install, world>>

Present == {n \in Names : \/ n = "part" /\ part # 0
                          \/ n = "manifest" /\ manifest # {}
                          \/ n = "blob" /\ blob # 0}

\* All revisions go, the one that is being downloaded too: rmtree takes the directory
\* of the model, one name after the other, while a download goes on in it.  Two
\* deletions may be at work at a time.
Delete ==
    /\ dir /\ deletes < MaxDeletes[alone]
    /\ deletes' = deletes + 1
    /\ victims' = victims \cup {"dir"} \cup Present
    /\ UNCHANGED <<disk, install, request, alone, hashed, ranges, starts, crashes>>

\* A deletion that fails at a name takes no further step.  The directory can only be
\* removed when it is empty.
Removes(n) ==
    /\ n \in victims /\ (n = "dir" => victims = {"dir"} /\ Present = {})
    /\ victims' = victims \ {n}
    /\ part' = IF n = "part" THEN 0 ELSE part
    /\ manifest' = IF n = "manifest" THEN {} ELSE manifest
    /\ blob' = IF n = "blob" THEN 0 ELSE blob
    /\ dir' = (dir /\ n # "dir")
    /\ UNCHANGED <<file, files, install, request, alone, hashed, ranges, starts, crashes, deletes>>

\* A deletion in progress dies with the process.
Crash ==
    /\ Running # {} /\ crashes < MaxCrashes
    /\ crashes' = crashes + 1 /\ victims' = {}
    /\ install' = [i \in Installs |-> Idle]
    /\ cancelled' = FALSE /\ cooldown' = FALSE
    /\ UNCHANGED <<disk, alone, hashed, ranges, starts, deletes>>

----------------------------------------------------------------------------
Step(i) ==
    \/ Begin(i) \/ Cancelled(i) \/ Try(i) \/ Snapshot(i) \/ Validate(i) \/ Retry(i)
    \/ Blob(i) \/ Probe(i) \/ Stream(i) \/ Load(i) \/ Allocate(i)
    \/ \E s \in Segments : FetchOpens(i, s)
    \/ \E o \in install[i].open : FetchEnds(i, o)
    \/ Fetched(i) \/ Verify(i) \/ Rename(i) \/ Clean(i) \/ Fails(i)

Next ==
    \/ \E i \in Installs : Start(i) \/ Step(i)
    \/ Cools \/ Cancel \/ Crash
    \/ Delete \/ \E n \in Names : Removes(n)

Spec == Init /\ [][Next]_vars

\* Threads run and connections have timeouts.
FairSpec == Spec /\ \A i \in Installs : WF_vars(Step(i))

----------------------------------------------------------------------------
\* What the cache holds is the whole file, after cancels, crashes, resumed and
\* mixed downloads.  Installs that do not overlap need a hash that is known, or else
\* a server that always accepts ranges and no deletion: the manifest of an earlier
\* run may describe bytes that a single stream has taken away, or a part that a
\* deletion has.  Two that overlap need hash and ranges, and no deletion; with three
\* one may rename the part another has just made anew.
Intact ==
    (IF alone THEN hashed \/ (ranges /\ deletes = 0)
              ELSE hashed /\ ranges /\ deletes = 0 /\ \E i, j \in Installs : Installs = {i, j})
        => blob = 0 \/ file[blob] = Whole

\* Every install comes to its end: installed, cancelled or failed.
InstallsEnd == \A i \in Installs : At(i) # "idle" ~> At(i) = "idle"
============================================================================
