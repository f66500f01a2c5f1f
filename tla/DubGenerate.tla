---------------------------- MODULE DubGenerate ----------------------------
(***************************************************************************)
(* Generation of the speech of a dubbing job                                *)
(* (api/routers/dub_generate.py), with the fingerprints that tell the       *)
(* editor which segments it has to be done for (services/incremental.py).   *)
(*                                                                         *)
(* A job has one track per language.  Each segment's speech is kept in a    *)
(* file of its own, from which a later run may build the track anew.  Runs  *)
(* are tasks of the one worker of TaskManager, so there is one at a time.   *)
(* The job's dict is saved in the step that changes it: the dict and its    *)
(* row are one here.                                                        *)
(***************************************************************************)
EXTENDS Naturals, FiniteSets

CONSTANTS
    Langs,      \* language codes of the tracks
    Segs,       \* the number of segments
    Texts,      \* what a segment may say, with its voice, speed and direction
    Blank,      \* a text of spaces, or a slot too short for speech
    None,
    Strategies, \* among "concise", "stretch_video", "strict_slot", "smart_fit"
    MaxRuns,    \* bound: runs
    MaxFaults   \* bound: runs cut short, and segments that fail

ASSUME DubGenerateAssumption ==
    /\ {Segs, MaxRuns, MaxFaults} \subseteq Nat
    /\ Blank \in Texts /\ None \notin Texts
    /\ Strategies \subseteq {"concise", "stretch_video", "strict_slot", "smart_fit"}

VARIABLES
    wav,     \* seg_<lang>_<id>.wav
    old,     \* seg_<id>.wav of an earlier build
    track,   \* dubbed_<lang>.wav, segment by segment
    job,     \* the job's dict
    run,     \* the run under way
    rough,   \* segments whose fingerprint does not vouch for their file
    torn,    \* pieces of tracks that nothing vouches for
    runs, faults

vars == <<wav, old, track, job, run, rough, torn, runs, faults>>

Segments == 1..Segs
Kinds == {"unknown", "natural", "slotted"}

Audio == [text : Texts, lang : Langs, kind : Kinds]
Spoken(t, l, k) == [text |-> t, lang |-> l, kind |-> k]

ASSUME NoneIsNothing == None \notin Audio \cup (Texts \X Langs)

\* Silence: where nothing is to be said, and where the run reports an error.
Silence == Spoken(None, None, "silence")
Failed == Spoken(None, None, "failed")

\* A piece of a track.
Piece == Audio \cup {Silence, Failed}

\* segment_fingerprint: what is said, and in which language.
Fingerprint(text, lang) == <<text, lang>>

Job == [hashes : [Langs -> [Segments -> {None} \cup Texts \X Langs]],
        mapped : BOOLEAN,         \* seg_wav_kind_by_lang exists
        kind : [Langs -> Kinds],  \* it, or seg_wav_kind before
        tracks : SUBSET Langs,
        said : [Langs -> [Segments -> {None} \cup Texts]]]  \* segments_i18n

Idle == [at |-> "idle"]
Run == [at : {"loop", "mix", "save"}, lang : Langs, strategy : Strategies,
        text : [Segments -> Texts], only : SUBSET Segments, next : 1..(Segs + 1),
        piece : [Segments -> Piece], doubt : SUBSET Segments,
        pending : SUBSET Segments, unwritten : SUBSET Segments]

TypeOK ==
    /\ wav \in [Langs -> [Segments -> {None} \cup Audio]]
    /\ old \in [Segments -> {None} \cup Audio]
    /\ track \in [Langs -> [Segments -> {None} \cup Piece]]
    /\ job \in Job
    /\ run \in {Idle} \cup Run
    /\ rough \subseteq Langs \X Segments
    /\ torn \subseteq Langs \X Segments
    /\ runs \in 0..MaxRuns /\ faults \in 0..MaxFaults

Earlier(made, t, k) ==
    [l \in Langs |-> [s \in Segments |-> IF l \in made THEN Spoken(t, l, k) ELSE None]]

\* The tracks a job may have already.  Those of an earlier build have files
\* without a language, of the track rendered last, and fingerprints without a
\* language, which match nothing.
Init ==
    /\ \E made \in SUBSET Langs, last \in Langs, t \in Texts \ {Blank}, k \in Kinds,
          keyed \in BOOLEAN :
         /\ keyed => made # {} /\ k # "unknown"
         /\ made # {} => last \in made
         /\ track = Earlier(made, t, k)
         /\ wav = Earlier(IF keyed THEN made ELSE {}, t, k)
         /\ old = [s \in Segments |-> IF keyed THEN None ELSE track[last][s]]
         /\ job = [hashes |-> [l \in Langs |-> [s \in Segments |->
                                 IF keyed /\ l \in made THEN Fingerprint(t, l) ELSE None]],
                   mapped |-> keyed,
                   kind |-> [l \in Langs |-> IF keyed /\ l \notin made THEN "unknown" ELSE k],
                   tracks |-> made,
                   said |-> [l \in Langs |-> [s \in Segments |->
                               IF keyed /\ l \in made THEN t ELSE None]]]
    /\ run = Idle /\ rough = {} /\ torn = {} /\ runs = 0 /\ faults = 0

----------------------------------------------------------------------------
(* dub_generate.                                                           *)

\* smart_fit takes only speech at its natural rate from the files.
Guarded(only, lang, strategy) ==
    IF strategy = "smart_fit" /\ job.kind[lang] # "natural" THEN Segments ELSE only

\* regen_only may be any set: the editor plans against fingerprints of its own, which
\* may be older than the job's, and for texts that may have been edited since, or asks
\* for what has preview quality only, or for all.
Generate(lang, strategy, text) ==
    /\ run = Idle /\ runs < MaxRuns
    /\ runs' = runs + 1
    /\ \E only \in SUBSET Segments :
         run' = [at |-> "loop", lang |-> lang, strategy |-> strategy, text |-> text,
                 only |-> Guarded(only, lang, strategy), next |-> 1,
                 piece |-> [s \in Segments |-> Silence], doubt |-> {},
                 pending |-> {}, unwritten |-> {}]
    /\ UNCHANGED <<wav, old, track, job, rough, torn, faults>>

----------------------------------------------------------------------------
(* The loop over the segments.                                             *)

\* The segment the loop is at.
At(s) == run # Idle /\ run.at = "loop" /\ run.next = s

Placed(s, piece) == [run EXCEPT !.next = s + 1, !.piece[s] = piece]

Skip(s) ==
    /\ At(s) /\ run.text[s] = Blank
    /\ run' = Placed(s, Silence)
    /\ UNCHANGED <<wav, old, track, job, rough, torn, runs, faults>>

\* Mutant: files without a language serve every track.
LegacyAlways(lang) == TRUE

\* _legacy_seg_cache_ok: no other language may be in the files without one.
LegacyCacheOk(lang) == job.tracks \subseteq {lang}

Cached(s) ==
    IF wav[run.lang][s] # None THEN wav[run.lang][s]
    ELSE IF LegacyCacheOk(run.lang) THEN old[s] ELSE None

Reusing(s) == At(s) /\ run.text[s] # Blank /\ s \notin run.only

\* plan_incremental would call the segment fresh, and be right.
Vouched(s) ==
    /\ job.hashes[run.lang][s] = Fingerprint(run.text[s], run.lang)
    /\ <<run.lang, s>> \notin rough

Reuse(s) ==
    /\ Reusing(s)
    /\ run' = [Placed(s, IF Cached(s) = None THEN Silence ELSE Cached(s))
                 EXCEPT !.doubt = IF Vouched(s) THEN @ ELSE @ \cup {s}]
    /\ UNCHANGED <<wav, old, track, job, rough, torn, runs, faults>>

\* The file is there and cannot be read.
ReuseFails(s) ==
    /\ Reusing(s) /\ Cached(s) # None /\ faults < MaxFaults /\ faults' = faults + 1
    /\ run' = Placed(s, Failed)
    /\ UNCHANGED <<wav, old, track, job, rough, torn, runs>>

Kind(strategy) == IF strategy = "strict_slot" THEN "slotted" ELSE "natural"
Speech(s) == Spoken(run.text[s], run.lang, Kind(run.strategy))

Rendering(s) == At(s) /\ run.text[s] # Blank /\ s \in run.only

Render(s) ==
    /\ Rendering(s)
    /\ wav' = [wav EXCEPT ![run.lang][s] = Speech(s)]
    /\ run' = [Placed(s, Speech(s)) EXCEPT !.pending = @ \cup {s}]
    /\ rough' = rough \cup {<<run.lang, s>>}
    /\ UNCHANGED <<old, track, job, torn, runs, faults>>

\* The speech is there and cannot be written, or is lost after its fingerprint
\* was noted: the file stays what it was.
RenderUnwritten(s) ==
    /\ Rendering(s) /\ faults < MaxFaults /\ faults' = faults + 1
    /\ \E piece \in {Speech(s), Failed} :
         run' = [Placed(s, piece) EXCEPT !.pending = @ \cup {s}, !.unwritten = @ \cup {s}]
    /\ UNCHANGED <<wav, old, track, job, rough, torn, runs>>

\* The model fails, or passes its deadline.
RenderFails(s) ==
    /\ Rendering(s) /\ faults < MaxFaults /\ faults' = faults + 1
    /\ run' = Placed(s, Failed)
    /\ UNCHANGED <<wav, old, track, job, rough, torn, runs>>

----------------------------------------------------------------------------
(* Fingerprints, the mix, and the end.                                     *)

\* Mutant: the fingerprints of all segments of the request are taken over.
FlushAll ==
    /\ run # Idle /\ run.at = "loop" /\ run.next = Segs + 1
    /\ job' = [job EXCEPT !.hashes[run.lang] =
                 [s \in Segments |-> Fingerprint(run.text[s], run.lang)]]
    /\ rough' = (rough \ ({run.lang} \X run.pending)) \cup ({run.lang} \X run.unwritten)
    /\ run' = [run EXCEPT !.at = "mix"]
    /\ UNCHANGED <<wav, old, track, torn, runs, faults>>

\* The fingerprints of what was rendered are kept and the job is saved.
Flush ==
    /\ run # Idle /\ run.at = "loop" /\ run.next = Segs + 1
    /\ job' = [job EXCEPT !.hashes[run.lang] =
                 [s \in Segments |-> IF s \in run.pending
                                     THEN Fingerprint(run.text[s], run.lang) ELSE @[s]]]
    /\ rough' = (rough \ ({run.lang} \X run.pending)) \cup ({run.lang} \X run.unwritten)
    /\ run' = [run EXCEPT !.at = "mix"]
    /\ UNCHANGED <<wav, old, track, torn, runs, faults>>

\* What is torn in the language of the run becomes these.
Tears(segments) == (torn \ ({run.lang} \X Segments)) \cup ({run.lang} \X segments)

\* The track is put together and takes its name.  Until the texts are saved it says
\* something else where they differ.
Mix ==
    /\ run # Idle /\ run.at = "mix"
    /\ track' = [track EXCEPT ![run.lang] = run.piece]
    /\ torn' = Tears(run.doubt \cup {s \in Segments : run.text[s] # job.said[run.lang][s]})
    /\ run' = [run EXCEPT !.at = "save"]
    /\ UNCHANGED <<wav, old, job, rough, runs, faults>>

\* The track, its kind and the texts of its segments enter the job.
Save ==
    /\ run # Idle /\ run.at = "save"
    /\ job' = [hashes |-> job.hashes, mapped |-> TRUE,
               kind |-> [l \in Langs |-> IF l = run.lang THEN Kind(run.strategy)
                                         ELSE IF job.mapped THEN job.kind[l] ELSE "unknown"],
               tracks |-> job.tracks \cup {run.lang},
               said |-> [job.said EXCEPT ![run.lang] = run.text]]
    /\ torn' = Tears(run.doubt)
    /\ run' = Idle
    /\ UNCHANGED <<wav, old, track, rough, runs, faults>>

\* A cancel is noticed at a segment, the worker drops the generator at an event,
\* the mix fails, or the process dies.
Cut ==
    /\ run # Idle /\ faults < MaxFaults /\ faults' = faults + 1
    /\ run' = Idle
    /\ UNCHANGED <<wav, old, track, job, rough, torn, runs>>

----------------------------------------------------------------------------
Next ==
    \/ \E lang \in Langs, strategy \in Strategies, text \in [Segments -> Texts] :
         Generate(lang, strategy, text)
    \/ \E s \in Segments : \/ Skip(s) \/ Reuse(s) \/ ReuseFails(s)
                           \/ Render(s) \/ RenderUnwritten(s) \/ RenderFails(s)
    \/ Flush \/ Mix \/ Save \/ Cut

Spec == Init /\ [][Next]_vars

----------------------------------------------------------------------------
\* No track ever contains speech that was rendered for another, whatever is reused:
\* not from the files of earlier builds, which have no language in their names, either.
OwnLanguage ==
    \A l \in Langs, s \in Segments :
      track[l][s] \in Audio => track[l][s].lang = l

\* "Regenerate what changed" is right: a finished track says what its subtitles say,
\* segment by segment, and is silent only where nothing is to be said or the run
\* reported an error -- through edits that are taken back, other languages and other
\* strategies.  Left out are pieces a run took over though the job's fingerprints called
\* them stale, or from a file written without its fingerprint or the other way round
\* (a run cut short, a failed write); and, after a run that mixed its track and did not
\* save, those whose text it had changed.
TrackTrue ==
    \A l \in Langs, s \in Segments :
      \/ job.said[l][s] = None \/ <<l, s>> \in torn
      \/ track[l][s] = Failed
      \/ IF job.said[l][s] = Blank THEN track[l][s] = Silence
         ELSE track[l][s] \in Audio /\ track[l][s].text = job.said[l][s]

\* The plan of segments to keep is safe: the file says what its fingerprint says.
\* Fails for a segment of a run that was cut short, or one that could not be
\* written: an edit that is taken back is then taken for rendered.
FreshIsTrue ==
    run = Idle => \A l \in Langs, s \in Segments : job.hashes[l][s] # None =>
      /\ wav[l][s] # None
      /\ job.hashes[l][s] = Fingerprint(wav[l][s].text, l)

\* What smart_fit mixes was rendered at its natural rate.  Fails: a partial run in
\* another strategy declares the files natural it took over from strict_slot.
NaturalOnly ==
    run # Idle /\ run.at = "mix" /\ run.strategy = "smart_fit" =>
      \A s \in Segments : run.piece[s] \in Audio => run.piece[s].kind = "natural"
============================================================================
