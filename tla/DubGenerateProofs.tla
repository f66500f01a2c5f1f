------------------------- MODULE DubGenerateProofs -------------------------
(***************************************************************************)
(* Theorems of DubGenerate for any languages, segments, texts, strategies,  *)
(* runs and faults: a track speaks its own language, and its pieces say     *)
(* what its subtitles say where the fingerprints speak for their files.     *)
(***************************************************************************)
EXTENDS DubGenerate, TLAPS

Busy == run # Idle

\* Files without a language hold the speech of a track the job has.
OwnInv ==
    /\ \A l \in Langs, s \in Segments : wav[l][s] \in Audio => wav[l][s].lang = l
    /\ \A s \in Segments : old[s] \in Audio => old[s].lang \in job.tracks
    /\ Busy => \A s \in Segments : run.piece[s] \in Audio => run.piece[s].lang = run.lang
    /\ OwnLanguage

\* What a fingerprint says is in the file, unless the segment is rough.
Fresh ==
    \A l \in Langs, s \in Segments, t \in Texts :
      <<l, s>> \notin rough /\ job.hashes[l][s] = Fingerprint(t, l) =>
        wav[l][s] \in Audio /\ wav[l][s].text = t

Right(s, piece, text) ==
    \/ piece = Failed
    \/ IF text = Blank THEN piece = Silence ELSE piece \in Audio /\ piece.text = text

\* What was rendered is in its file, unless it could not be written.
PendingInv ==
    Busy /\ run.at = "loop" =>
      /\ run.unwritten \subseteq run.pending
      /\ \A s \in run.pending :
           /\ s < run.next
           /\ s \in run.unwritten
                \/ (wav[run.lang][s] \in Audio /\ wav[run.lang][s].text = run.text[s])

\* A piece is right, or was taken from a file nothing vouched for.
PieceInv ==
    Busy => \A s \in Segments : s < run.next =>
      s \in run.doubt \/ Right(s, run.piece[s], run.text[s])

\* The pieces of a run that has left the loop, and of one that has been mixed.
MixInv ==
    Busy => /\ run.at # "loop" => run.next = Segs + 1
            /\ run.at = "save" => track[run.lang] = run.piece

TrueParts == Fresh /\ PendingInv /\ PieceInv /\ MixInv /\ TrackTrue

----------------------------------------------------------------------------
(* Pieces.                                                                 *)

LEMMA SpokenIsAudio ==
    ASSUME NEW t \in Texts, NEW l \in Langs, NEW k \in Kinds
    PROVE  /\ Spoken(t, l, k) \in Audio
           /\ Spoken(t, l, k).text = t /\ Spoken(t, l, k).lang = l
BY DEF Spoken, Audio

LEMMA NoSpeech == Silence \notin Audio /\ Failed \notin Audio /\ None \notin Audio
<1>1. Silence.kind = "silence" /\ Failed.kind = "failed"
  BY DEF Silence, Failed, Spoken
<1>2. \A a \in Audio : a.kind \in Kinds
  BY DEF Audio
<1> QED
  BY <1>1, <1>2, NoneIsNothing DEF Kinds

LEMMA NoneIsNoPrint ==
    ASSUME NEW t \in Texts, NEW l \in Langs
    PROVE  Fingerprint(t, l) # None
BY NoneIsNothing DEF Fingerprint

----------------------------------------------------------------------------
(* Types.                                                                  *)

LEMMA InitType == Init => TypeOK
<1> SUFFICES ASSUME Init PROVE TypeOK
  OBVIOUS
<1>1. PICK made \in SUBSET Langs, last \in Langs, t \in Texts \ {Blank}, k \in Kinds,
           keyed \in BOOLEAN :
        /\ keyed => made # {} /\ k # "unknown"
        /\ made # {} => last \in made
        /\ track = Earlier(made, t, k)
        /\ wav = Earlier(IF keyed THEN made ELSE {}, t, k)
        /\ old = [s \in Segments |-> IF keyed THEN None ELSE track[last][s]]
        /\ job = [hashes |-> [l \in Langs |-> [s \in Segments |->
                                IF keyed /\ l \in made THEN Fingerprint(t, l) ELSE None]],
                  mapped |-> keyed,
                  kind |-> [l \in Langs |-> IF keyed /\ l \notin made THEN "unknown" ELSE k],
                  tracks |-> made,
                  said |-> [l \in Langs |-> [s \in Segments |->
                              IF keyed /\ l \in made THEN t ELSE None]]]
  BY Zenon DEF Init
<1>2. \A m \in SUBSET Langs : Earlier(m, t, k) \in [Langs -> [Segments -> {None} \cup Audio]]
  BY SpokenIsAudio DEF Earlier
<1>3. /\ wav \in [Langs -> [Segments -> {None} \cup Audio]]
      /\ track \in [Langs -> [Segments -> {None} \cup Audio]]
  BY <1>1, <1>2
<1>4. /\ track \in [Langs -> [Segments -> {None} \cup Piece]]
      /\ old \in [Segments -> {None} \cup Audio]
  BY <1>1, <1>3 DEF Piece
<1>5. job \in Job
  BY <1>1 DEF Job, Kinds, Fingerprint
<1>6. /\ run \in {Idle} \cup Run /\ rough \subseteq Langs \X Segments
      /\ torn \subseteq Langs \X Segments /\ runs \in 0..MaxRuns /\ faults \in 0..MaxFaults
  BY DubGenerateAssumption DEF Init
<1> QED
  BY <1>3, <1>4, <1>5, <1>6 DEF TypeOK

LEMMA BusyRun == ASSUME TypeOK, Busy PROVE run \in Run
BY DEF TypeOK, Busy

\* A run that goes on to the next segment.
LEMMA PlacedType ==
    ASSUME run \in Run, NEW s \in Segments, NEW p \in Piece
    PROVE  /\ Placed(s, p) \in Run
           /\ Placed(s, p).at = run.at /\ Placed(s, p).lang = run.lang
           /\ Placed(s, p).text = run.text /\ Placed(s, p).only = run.only
           /\ Placed(s, p).pending = run.pending /\ Placed(s, p).unwritten = run.unwritten
           /\ Placed(s, p).doubt = run.doubt
           /\ Placed(s, p).next = s + 1
           /\ Placed(s, p).piece = [run.piece EXCEPT ![s] = p]
<1>1. s + 1 \in 1..(Segs + 1)
  BY DubGenerateAssumption DEF Segments
<1>2. [run.piece EXCEPT ![s] = p] \in [Segments -> Piece]
  BY DEF Run
<1> QED
  BY <1>1, <1>2 DEF Placed, Run

LEMMA PendingType ==
    ASSUME NEW r \in Run, NEW P \in SUBSET Segments
    PROVE  LET q == [r EXCEPT !.pending = P] IN
           /\ q \in Run /\ q.pending = P
           /\ q.at = r.at /\ q.lang = r.lang /\ q.text = r.text /\ q.next = r.next
           /\ q.only = r.only /\ q.unwritten = r.unwritten /\ q.piece = r.piece
           /\ q.doubt = r.doubt
BY DEF Run

LEMMA UnwrittenType ==
    ASSUME NEW r \in Run, NEW P \in SUBSET Segments, NEW U \in SUBSET Segments
    PROVE  LET q == [r EXCEPT !.pending = P, !.unwritten = U] IN
           /\ q \in Run /\ q.pending = P /\ q.unwritten = U
           /\ q.at = r.at /\ q.lang = r.lang /\ q.text = r.text /\ q.next = r.next
           /\ q.only = r.only /\ q.piece = r.piece /\ q.doubt = r.doubt
BY DEF Run

LEMMA DoubtType ==
    ASSUME NEW r \in Run, NEW D \in SUBSET Segments
    PROVE  LET q == [r EXCEPT !.doubt = D] IN
           /\ q \in Run /\ q.doubt = D
           /\ q.at = r.at /\ q.lang = r.lang /\ q.text = r.text /\ q.next = r.next
           /\ q.only = r.only /\ q.piece = r.piece
           /\ q.pending = r.pending /\ q.unwritten = r.unwritten
BY DEF Run

LEMMA SpeechType ==
    ASSUME run \in Run, NEW s \in Segments
    PROVE  Speech(s) \in Audio /\ Speech(s).text = run.text[s] /\ Speech(s).lang = run.lang
BY SpokenIsAudio DEF Speech, Kind, Run, Kinds

LEMMA CachedType == ASSUME TypeOK, run \in Run, NEW s \in Segments PROVE Cached(s) \in {None} \cup Audio
BY DEF TypeOK, Cached, Run

\* A run that takes a piece from a file.
LEMMA ReuseRun ==
    ASSUME TypeOK, NEW s \in Segments, Reuse(s)
    PROVE  /\ run \in Run /\ Busy /\ run.at = "loop" /\ run.next = s
           /\ run' \in Run /\ run' # Idle /\ run'.at = "loop" /\ run'.lang = run.lang
           /\ run'.text = run.text /\ run'.next = s + 1
           /\ run'.pending = run.pending /\ run'.unwritten = run.unwritten
           /\ run.text[s] # Blank
           /\ run'.doubt = IF Vouched(s) THEN run.doubt ELSE run.doubt \cup {s}
           /\ LET p == IF Cached(s) = None THEN Silence ELSE Cached(s) IN
                p \in Piece /\ run'.piece = [run.piece EXCEPT ![s] = p]
<1>1. /\ run \in Run /\ Busy /\ run.at = "loop" /\ run.next = s /\ run.text[s] # Blank
  BY DEF Reuse, Reusing, At, TypeOK, Busy
<1> DEFINE p == IF Cached(s) = None THEN Silence ELSE Cached(s)
           r == Placed(s, p)
           D == IF Vouched(s) THEN run.doubt ELSE run.doubt \cup {s}
<1>2. p \in Piece
  BY <1>1, CachedType DEF Piece
<1>3. D \in SUBSET Segments
  BY <1>1 DEF Run
<1> HIDE DEF p
<1>4. /\ r \in Run /\ r.at = run.at /\ r.lang = run.lang /\ r.text = run.text
      /\ r.pending = run.pending /\ r.unwritten = run.unwritten /\ r.next = s + 1
      /\ r.piece = [run.piece EXCEPT ![s] = p] /\ r.doubt = run.doubt
  BY <1>1, <1>2, PlacedType
<1>5. run' = [r EXCEPT !.doubt = IF Vouched(s) THEN @ ELSE @ \cup {s}]
  BY DEF Reuse, p
<1> HIDE DEF r
<1>6. run' = [r EXCEPT !.doubt = D]
  BY <1>4, <1>5
<1> HIDE DEF D
<1> DEFINE q == [r EXCEPT !.doubt = D]
<1>7. /\ q \in Run /\ q.doubt = D /\ q.at = r.at /\ q.lang = r.lang /\ q.text = r.text
      /\ q.next = r.next /\ q.piece = r.piece
      /\ q.pending = r.pending /\ q.unwritten = r.unwritten
  BY <1>3, <1>4, DoubtType
<1> HIDE DEF q
<1>8. run' = q
  BY <1>6 DEF q
<1>9. run' # Idle
  BY <1>1, <1>4, <1>7, <1>8 DEF Idle
<1> QED
  BY <1>1, <1>2, <1>4, <1>7, <1>8, <1>9 DEF p, D

LEMMA TypeStep == TypeOK /\ [Next]_vars => TypeOK'
<1> SUFFICES ASSUME TypeOK, [Next]_vars PROVE TypeOK'
  OBVIOUS
<1> USE DubGenerateAssumption
<1>1. ASSUME NEW lang \in Langs, NEW strategy \in Strategies, NEW text \in [Segments -> Texts],
             Generate(lang, strategy, text)
      PROVE  TypeOK'
  <2>1. PICK only \in SUBSET Segments :
          run' = [at |-> "loop", lang |-> lang, strategy |-> strategy, text |-> text,
                  only |-> Guarded(only, lang, strategy), next |-> 1,
                  piece |-> [s \in Segments |-> Silence], doubt |-> {},
                  pending |-> {}, unwritten |-> {}]
    BY <1>1 DEF Generate
  <2>2. Guarded(only, lang, strategy) \subseteq Segments
    BY DEF Guarded
  <2>3. 1 \in 1..(Segs + 1) /\ Silence \in Piece
    BY DEF Piece
  <2>4. run' \in Run
    BY <2>1, <2>2, <2>3 DEF Run
  <2> QED
    BY <1>1, <2>4 DEF Generate, TypeOK
<1>2. ASSUME NEW s \in Segments, Skip(s) PROVE TypeOK'
  <2>1. run \in Run
    BY <1>2 DEF Skip, At, TypeOK
  <2>2. run' \in Run
    BY <1>2, <2>1, PlacedType DEF Skip, Piece
  <2> QED
    BY <1>2, <2>2 DEF Skip, TypeOK
<1>3. ASSUME NEW s \in Segments, Reuse(s) PROVE TypeOK'
  <2>1. run' \in Run
    BY <1>3, ReuseRun
  <2> QED
    BY <1>3, <2>1 DEF Reuse, TypeOK
<1>4. ASSUME NEW s \in Segments, Render(s) PROVE TypeOK'
  <2>1. run \in Run
    BY <1>4 DEF Render, Rendering, At, TypeOK
  <2>2. Speech(s) \in Audio /\ Speech(s) \in Piece
    BY <2>1, SpeechType DEF Piece
  <2>3. Placed(s, Speech(s)) \in Run /\ Placed(s, Speech(s)).pending \cup {s} \in SUBSET Segments
    BY <2>1, <2>2, PlacedType DEF Run
  <2>4. run' \in Run
    BY <1>4, <2>3, PendingType DEF Render
  <2>5. wav' \in [Langs -> [Segments -> {None} \cup Audio]]
    BY <1>4, <2>1, <2>2 DEF Render, TypeOK, Run
  <2>6. rough' \subseteq Langs \X Segments
    BY <1>4, <2>1 DEF Render, TypeOK, Run
  <2> QED
    BY <1>4, <2>4, <2>5, <2>6 DEF Render, TypeOK
<1>5. ASSUME NEW s \in Segments, RenderUnwritten(s) PROVE TypeOK'
  <2>1. run \in Run
    BY <1>5 DEF RenderUnwritten, Rendering, At, TypeOK
  <2>2. PICK piece \in {Speech(s), Failed} :
          run' = [Placed(s, piece) EXCEPT !.pending = @ \cup {s}, !.unwritten = @ \cup {s}]
    BY <1>5 DEF RenderUnwritten
  <2>3. piece \in Piece
    BY <2>1, SpeechType DEF Piece
  <2>4. /\ Placed(s, piece) \in Run
        /\ Placed(s, piece).pending \cup {s} \in SUBSET Segments
        /\ Placed(s, piece).unwritten \cup {s} \in SUBSET Segments
    BY <2>1, <2>3, PlacedType DEF Run
  <2>5. run' \in Run
    BY <2>2, <2>4, UnwrittenType
  <2> QED
    BY <1>5, <2>5 DEF RenderUnwritten, TypeOK
<1>6. ASSUME NEW s \in Segments, RenderFails(s) \/ ReuseFails(s) PROVE TypeOK'
  <2>1. run \in Run
    BY <1>6 DEF RenderFails, Rendering, ReuseFails, Reusing, At, TypeOK
  <2>2. run' \in Run
    BY <1>6, <2>1, PlacedType DEF RenderFails, ReuseFails, Piece
  <2> QED
    BY <1>6, <2>2 DEF RenderFails, ReuseFails, TypeOK
<1>7. CASE Flush
  <2>1. run \in Run
    BY <1>7 DEF Flush, TypeOK
  <2>2. run' \in Run
    BY <1>7, <2>1 DEF Flush, Run
  <2>3. \A s \in Segments : Fingerprint(run.text[s], run.lang) \in Texts \X Langs
    BY <2>1 DEF Run, Fingerprint
  <2>4. [s \in Segments |-> IF s \in run.pending THEN Fingerprint(run.text[s], run.lang)
                                                ELSE job.hashes[run.lang][s]]
          \in [Segments -> {None} \cup Texts \X Langs]
    BY <2>1, <2>3 DEF TypeOK, Job, Run
  <2>5. job' \in Job
    BY <1>7, <2>1, <2>4 DEF Flush, TypeOK, Job, Run
  <2>6. rough' \subseteq Langs \X Segments
    BY <1>7, <2>1 DEF Flush, TypeOK, Run
  <2> QED
    BY <1>7, <2>2, <2>5, <2>6 DEF Flush, TypeOK
<1>8. CASE Mix
  <2>1. run \in Run
    BY <1>8 DEF Mix, TypeOK
  <2>2. run' \in Run
    BY <1>8, <2>1 DEF Mix, Run
  <2>3. track' \in [Langs -> [Segments -> {None} \cup Piece]] /\ torn' \subseteq Langs \X Segments
    BY <1>8, <2>1 DEF Mix, Tears, TypeOK, Run
  <2> QED
    BY <1>8, <2>2, <2>3 DEF Mix, TypeOK
<1>9. CASE Save
  <2>1. run \in Run
    BY <1>9 DEF Save, TypeOK
  <2>2. job' \in Job
    BY <1>9, <2>1 DEF Save, TypeOK, Job, Run, Kind, Kinds
  <2>3. torn' \subseteq Langs \X Segments
    BY <1>9, <2>1 DEF Save, Tears, TypeOK, Run
  <2> QED
    BY <1>9, <2>2, <2>3 DEF Save, TypeOK
<1>10. CASE Cut
  BY <1>10 DEF Cut, TypeOK
<1>11. CASE UNCHANGED vars
  BY <1>11 DEF vars, TypeOK
<1> QED
  BY <1>1, <1>2, <1>3, <1>4, <1>5, <1>6, <1>7, <1>8, <1>9, <1>10, <1>11 DEF Next

----------------------------------------------------------------------------
(* What a step makes of the run.                                           *)

LEMMA GenerateRun ==
    ASSUME TypeOK, NEW lang \in Langs, NEW strategy \in Strategies,
           NEW text \in [Segments -> Texts], Generate(lang, strategy, text)
    PROVE  /\ run' # Idle /\ run'.at = "loop" /\ run'.lang = lang /\ run'.text = text
           /\ run'.next = 1 /\ run'.pending = {} /\ run'.unwritten = {}
           /\ run'.piece = [s \in Segments |-> Silence]
           /\ run'.doubt = {}
BY DEF Generate, Idle

\* A run that places silence: nothing is to be said, or an error is reported.
LEMMA PlacedRun ==
    ASSUME TypeOK, NEW s \in Segments, Skip(s) \/ RenderFails(s) \/ ReuseFails(s)
    PROVE  /\ run \in Run /\ Busy /\ run.at = "loop" /\ run.next = s
           /\ run' # Idle /\ run'.at = "loop" /\ run'.lang = run.lang /\ run'.text = run.text
           /\ run'.next = s + 1
           /\ run'.pending = run.pending /\ run'.unwritten = run.unwritten
           /\ run'.doubt = run.doubt
           /\ \E p \in {Silence, Failed} :
                /\ run'.piece = [run.piece EXCEPT ![s] = p]
                /\ (run.text[s] = Blank /\ p = Silence) \/ p = Failed
<1>1. run \in Run /\ Busy /\ run.at = "loop" /\ run.next = s
  BY DEF Skip, RenderFails, Rendering, ReuseFails, Reusing, At, TypeOK, Busy
<1>2. PICK p \in {Silence, Failed} :
        run' = Placed(s, p) /\ ((run.text[s] = Blank /\ p = Silence) \/ p = Failed)
  BY DEF Skip, RenderFails, ReuseFails
<1>3. p \in Piece
  BY DEF Piece
<1>4. /\ run'.at = run.at /\ run'.lang = run.lang /\ run'.text = run.text
      /\ run'.pending = run.pending /\ run'.unwritten = run.unwritten
      /\ run'.doubt = run.doubt /\ run'.next = s + 1
      /\ run'.piece = [run.piece EXCEPT ![s] = p]
  BY <1>1, <1>2, <1>3, PlacedType
<1>5. run' # Idle
  BY <1>1, <1>4 DEF Idle
<1> QED
  BY <1>1, <1>2, <1>4, <1>5

LEMMA RenderRun ==
    ASSUME TypeOK, NEW s \in Segments, Render(s)
    PROVE  /\ run \in Run /\ Busy /\ run.at = "loop" /\ run.next = s /\ run.text[s] # Blank
           /\ run' # Idle /\ run'.at = "loop" /\ run'.lang = run.lang /\ run'.text = run.text
           /\ run'.doubt = run.doubt /\ run'.next = s + 1
           /\ run'.pending = run.pending \cup {s} /\ run'.unwritten = run.unwritten
           /\ run'.piece = [run.piece EXCEPT ![s] = Speech(s)]
<1>1. run \in Run /\ Busy /\ run.at = "loop" /\ run.next = s /\ run.text[s] # Blank
  BY DEF Render, Rendering, At, TypeOK, Busy
<1>2. Speech(s) \in Piece
  BY <1>1, SpeechType DEF Piece
<1>3. /\ Placed(s, Speech(s)) \in Run
      /\ Placed(s, Speech(s)).pending \cup {s} \in SUBSET Segments
      /\ Placed(s, Speech(s)).pending = run.pending
  BY <1>1, <1>2, PlacedType DEF Run
<1>4. /\ run'.at = Placed(s, Speech(s)).at /\ run'.lang = Placed(s, Speech(s)).lang
      /\ run'.text = Placed(s, Speech(s)).text /\ run'.doubt = Placed(s, Speech(s)).doubt
      /\ run'.unwritten = Placed(s, Speech(s)).unwritten
      /\ run'.next = Placed(s, Speech(s)).next
      /\ run'.piece = Placed(s, Speech(s)).piece
      /\ run'.pending = Placed(s, Speech(s)).pending \cup {s}
  BY <1>3, PendingType DEF Render
<1>5. /\ run'.at = run.at /\ run'.lang = run.lang /\ run'.text = run.text
      /\ run'.doubt = run.doubt /\ run'.unwritten = run.unwritten /\ run'.next = s + 1
      /\ run'.piece = [run.piece EXCEPT ![s] = Speech(s)]
      /\ run'.pending = run.pending \cup {s}
  BY <1>1, <1>2, <1>4, PlacedType
<1>6. run' # Idle
  BY <1>1, <1>5 DEF Idle
<1> QED
  BY <1>1, <1>5, <1>6

LEMMA UnwrittenRun ==
    ASSUME TypeOK, NEW s \in Segments, RenderUnwritten(s)
    PROVE  /\ run \in Run /\ Busy /\ run.at = "loop" /\ run.next = s /\ run.text[s] # Blank
           /\ run' # Idle /\ run'.at = "loop" /\ run'.lang = run.lang /\ run'.text = run.text
           /\ run'.doubt = run.doubt /\ run'.next = s + 1
           /\ run'.pending = run.pending \cup {s}
           /\ run'.unwritten = run.unwritten \cup {s}
           /\ \E p \in {Speech(s), Failed} : run'.piece = [run.piece EXCEPT ![s] = p]
<1>1. run \in Run /\ Busy /\ run.at = "loop" /\ run.next = s /\ run.text[s] # Blank
  BY DEF RenderUnwritten, Rendering, At, TypeOK, Busy
<1>2. PICK p \in {Speech(s), Failed} :
        run' = [Placed(s, p) EXCEPT !.pending = @ \cup {s}, !.unwritten = @ \cup {s}]
  BY DEF RenderUnwritten
<1>3. p \in Piece
  BY <1>1, SpeechType DEF Piece
<1>4. /\ Placed(s, p) \in Run
      /\ Placed(s, p).pending \cup {s} \in SUBSET Segments
      /\ Placed(s, p).unwritten \cup {s} \in SUBSET Segments
  BY <1>1, <1>3, PlacedType DEF Run
<1>5. /\ run'.at = Placed(s, p).at /\ run'.lang = Placed(s, p).lang
      /\ run'.text = Placed(s, p).text /\ run'.doubt = Placed(s, p).doubt
      /\ run'.unwritten = Placed(s, p).unwritten \cup {s}
      /\ run'.next = Placed(s, p).next
      /\ run'.piece = Placed(s, p).piece
      /\ run'.pending = Placed(s, p).pending \cup {s}
  <2>1. run' = [Placed(s, p) EXCEPT !.pending = Placed(s, p).pending \cup {s},
                                    !.unwritten = Placed(s, p).unwritten \cup {s}]
    BY <1>2
  <2> DEFINE r == Placed(s, p)
             P == r.pending \cup {s}
             U == r.unwritten \cup {s}
  <2>2. r \in Run /\ P \in SUBSET Segments /\ U \in SUBSET Segments
    BY <1>4
  <2>3. run' = [r EXCEPT !.pending = P, !.unwritten = U]
    BY <2>1
  <2> HIDE DEF r, P, U
  <2> DEFINE q == [r EXCEPT !.pending = P, !.unwritten = U]
  <2>5. /\ q.at = r.at /\ q.lang = r.lang /\ q.text = r.text /\ q.doubt = r.doubt
        /\ q.unwritten = U /\ q.next = r.next /\ q.piece = r.piece /\ q.pending = P
    BY <2>2 DEF Run
  <2> HIDE DEF q
  <2>4. /\ run'.at = r.at /\ run'.lang = r.lang /\ run'.text = r.text /\ run'.doubt = r.doubt
        /\ run'.unwritten = U /\ run'.next = r.next /\ run'.piece = r.piece
        /\ run'.pending = P
    BY <2>5, <2>3 DEF q
  <2> QED
    BY <2>4 DEF r, P, U
<1>6. /\ run'.at = run.at /\ run'.lang = run.lang /\ run'.text = run.text
      /\ run'.doubt = run.doubt /\ run'.unwritten = run.unwritten \cup {s} /\ run'.next = s + 1
      /\ run'.piece = [run.piece EXCEPT ![s] = p]
      /\ run'.pending = run.pending \cup {s}
  BY <1>1, <1>3, <1>5, PlacedType
<1>7. run' # Idle
  BY <1>1, <1>6 DEF Idle
<1> QED
  BY <1>1, <1>2, <1>6, <1>7

LEMMA FlushRun ==
    ASSUME TypeOK, Flush
    PROVE  /\ run \in Run /\ Busy /\ run.at = "loop" /\ run.next = Segs + 1
           /\ run' # Idle /\ run'.at = "mix" /\ run'.lang = run.lang /\ run'.text = run.text
           /\ run'.next = Segs + 1 /\ run'.piece = run.piece
           /\ run'.doubt = run.doubt
           /\ \A l \in Langs, s \in Segments :
                job'.hashes[l][s] = IF l = run.lang /\ s \in run.pending
                                    THEN Fingerprint(run.text[s], run.lang)
                                    ELSE job.hashes[l][s]
           /\ job'.tracks = job.tracks /\ job'.said = job.said
<1>1. run \in Run /\ Busy /\ run.at = "loop" /\ run.next = Segs + 1
  BY DEF Flush, TypeOK, Busy
<1>2. /\ run'.at = "mix" /\ run'.lang = run.lang /\ run'.text = run.text
      /\ run'.next = Segs + 1 /\ run'.piece = run.piece /\ run'.doubt = run.doubt
  BY <1>1 DEF Flush, Run
<1>3. run' # Idle
  BY <1>2 DEF Idle
<1>4. /\ \A l \in Langs, s \in Segments :
           job'.hashes[l][s] = IF l = run.lang /\ s \in run.pending
                               THEN Fingerprint(run.text[s], run.lang)
                               ELSE job.hashes[l][s]
      /\ job'.tracks = job.tracks /\ job'.said = job.said
  BY <1>1 DEF Flush, TypeOK, Job, Run
<1> QED
  BY <1>1, <1>2, <1>3, <1>4

LEMMA MixRun ==
    ASSUME TypeOK, Mix
    PROVE  /\ run \in Run /\ Busy /\ run.at = "mix"
           /\ run' # Idle /\ run'.at = "save" /\ run'.lang = run.lang /\ run'.text = run.text
           /\ run'.next = run.next /\ run'.piece = run.piece
           /\ run'.doubt = run.doubt
           /\ \A l \in Langs : track'[l] = IF l = run.lang THEN run.piece ELSE track[l]
<1>1. run \in Run /\ Busy /\ run.at = "mix"
  BY DEF Mix, TypeOK, Busy
<1>2. /\ run'.at = "save" /\ run'.lang = run.lang /\ run'.text = run.text
      /\ run'.next = run.next /\ run'.piece = run.piece /\ run'.doubt = run.doubt
  BY <1>1 DEF Mix, Run
<1>3. run' # Idle
  BY <1>2 DEF Idle
<1>4. \A l \in Langs : track'[l] = IF l = run.lang THEN run.piece ELSE track[l]
  BY <1>1 DEF Mix, TypeOK, Run
<1> QED
  BY <1>1, <1>2, <1>3, <1>4

LEMMA SaveRun ==
    ASSUME TypeOK, Save
    PROVE  /\ run \in Run /\ Busy /\ run.at = "save" /\ run' = Idle
           /\ job'.hashes = job.hashes /\ job'.tracks = job.tracks \cup {run.lang}
           /\ \A l \in Langs : job'.said[l] = IF l = run.lang THEN run.text ELSE job.said[l]
BY DEF Save, TypeOK, Busy, Job, Run

----------------------------------------------------------------------------
(* A track speaks its own language.                                        *)

LEMMA InitOwn == Init => OwnInv
<1> SUFFICES ASSUME Init PROVE OwnInv
  OBVIOUS
<1>1. PICK made \in SUBSET Langs, last \in Langs, t \in Texts \ {Blank}, k \in Kinds,
           keyed \in BOOLEAN :
        /\ track = Earlier(made, t, k)
        /\ wav = Earlier(IF keyed THEN made ELSE {}, t, k)
        /\ old = [s \in Segments |-> IF keyed THEN None ELSE track[last][s]]
        /\ job.tracks = made
  BY DEF Init
<1>2. run = Idle
  BY DEF Init
<1>3. \A l \in Langs, s \in Segments : track[l][s] \in Audio => l \in made /\ track[l][s].lang = l
  BY <1>1, SpokenIsAudio, NoSpeech DEF Earlier
<1>4. \A l \in Langs, s \in Segments : wav[l][s] \in Audio => wav[l][s].lang = l
  BY <1>1, SpokenIsAudio, NoSpeech DEF Earlier
<1>5. \A s \in Segments : old[s] \in Audio => old[s].lang \in made
  BY <1>1, <1>3, NoSpeech
<1> QED
  BY <1>1, <1>2, <1>3, <1>4, <1>5 DEF OwnInv, OwnLanguage, Busy

\* What a run takes from a file is in its language.
LEMMA CachedOwn ==
    ASSUME TypeOK, OwnInv, run \in Run, NEW s \in Segments, Cached(s) \in Audio
    PROVE  Cached(s).lang = run.lang
BY NoSpeech DEF Cached, LegacyCacheOk, OwnInv, Run

LEMMA OwnStep == TypeOK /\ OwnInv /\ [Next]_vars => OwnInv'
<1> SUFFICES ASSUME TypeOK, OwnInv, [Next]_vars PROVE OwnInv'
  OBVIOUS
<1> USE DEF OwnInv, OwnLanguage, Busy
<1>1. ASSUME NEW lang \in Langs, NEW strategy \in Strategies, NEW text \in [Segments -> Texts],
             Generate(lang, strategy, text)
      PROVE  OwnInv'
  <2>1. run'.piece = [s \in Segments |-> Silence]
    BY <1>1, GenerateRun
  <2> QED
    BY <1>1, <2>1, NoSpeech DEF Generate
<1>2. ASSUME NEW s \in Segments, Skip(s) \/ RenderFails(s) \/ ReuseFails(s) PROVE OwnInv'
  <2>1. PICK p \in {Silence, Failed} : run'.piece = [run.piece EXCEPT ![s] = p]
    BY <1>2, PlacedRun
  <2>2. run \in Run /\ run # Idle /\ run'.lang = run.lang
    BY <1>2, PlacedRun
  <2>3. \A z \in Segments : run'.piece[z] \in Audio => run'.piece[z].lang = run'.lang
    BY <2>1, <2>2, NoSpeech DEF Run
  <2>4. UNCHANGED <<wav, old, job, track>>
    BY <1>2 DEF Skip, RenderFails, ReuseFails
  <2> QED
    BY <2>3, <2>4
<1>10. ASSUME NEW s \in Segments, Reuse(s) PROVE OwnInv'
  <2> DEFINE p == IF Cached(s) = None THEN Silence ELSE Cached(s)
  <2>1. run \in Run /\ run # Idle /\ run'.lang = run.lang /\ run'.piece = [run.piece EXCEPT ![s] = p]
    BY <1>10, ReuseRun
  <2>2. p \in Audio => p.lang = run.lang
    BY <2>1, CachedOwn, NoSpeech
  <2>3. \A z \in Segments : run'.piece[z] \in Audio => run'.piece[z].lang = run'.lang
    BY <2>1, <2>2 DEF Run
  <2>4. UNCHANGED <<wav, old, job, track>>
    BY <1>10 DEF Reuse
  <2> QED
    BY <2>3, <2>4
<1>3. ASSUME NEW s \in Segments, Render(s) PROVE OwnInv'
  <2>1. /\ run \in Run /\ run # Idle /\ run'.lang = run.lang
        /\ run'.piece = [run.piece EXCEPT ![s] = Speech(s)]
    BY <1>3, RenderRun
  <2>2. Speech(s).lang = run.lang
    BY <2>1, SpeechType
  <2>3. \A z \in Segments : run'.piece[z] \in Audio => run'.piece[z].lang = run'.lang
    BY <2>1, <2>2 DEF Run
  <2>4. \A l \in Langs, z \in Segments : wav'[l][z] \in Audio => wav'[l][z].lang = l
    BY <1>3, <2>1, <2>2 DEF Render, TypeOK
  <2> QED
    BY <1>3, <2>3, <2>4 DEF Render
<1>4. ASSUME NEW s \in Segments, RenderUnwritten(s) PROVE OwnInv'
  <2>1. PICK p \in {Speech(s), Failed} : run'.piece = [run.piece EXCEPT ![s] = p]
    BY <1>4, UnwrittenRun
  <2>2. run \in Run /\ run # Idle /\ run'.lang = run.lang
    BY <1>4, UnwrittenRun
  <2>3. p \in Audio => p.lang = run.lang
    BY <2>1, <2>2, SpeechType, NoSpeech
  <2>4. \A z \in Segments : run'.piece[z] \in Audio => run'.piece[z].lang = run'.lang
    BY <2>1, <2>2, <2>3 DEF Run
  <2> QED
    BY <1>4, <2>4 DEF RenderUnwritten
<1>5. CASE Flush
  BY <1>5, FlushRun DEF Flush
<1>6. CASE Mix
  <2>1. \A l \in Langs, s \in Segments : track'[l][s] \in Audio => track'[l][s].lang = l
    BY <1>6, MixRun
  <2> QED
    BY <1>6, <2>1, MixRun DEF Mix
<1>7. CASE Save
  BY <1>7, SaveRun DEF Save
<1>8. CASE Cut
  BY <1>8 DEF Cut
<1>9. CASE UNCHANGED vars
  BY <1>9 DEF vars
<1> QED
  BY <1>1, <1>2, <1>10, <1>3, <1>4, <1>5, <1>6, <1>7, <1>8, <1>9 DEF Next

\* No track ever speaks another track's language, whatever regen_only asks for and
\* whatever files are taken over from earlier builds, as long as those that have no
\* language in their names are of a track the job lists.
THEOREM TracksSpeakTheirLanguage == Spec => []OwnLanguage
<1>1. Init => TypeOK /\ OwnInv
  BY InitType, InitOwn
<1>2. TypeOK /\ OwnInv /\ [Next]_vars => (TypeOK /\ OwnInv)'
  BY TypeStep, OwnStep
<1>3. OwnInv => OwnLanguage
  BY DEF OwnInv
<1> QED
  BY <1>1, <1>2, <1>3, PTL DEF Spec

----------------------------------------------------------------------------
(* A track says what its subtitles say.                                    *)

LEMMA InitTrue == Init => TrueParts
<1> SUFFICES ASSUME Init PROVE TrueParts
  OBVIOUS
<1>1. PICK made \in SUBSET Langs, last \in Langs, t \in Texts \ {Blank}, k \in Kinds,
           keyed \in BOOLEAN :
        /\ keyed => made # {} /\ k # "unknown"
        /\ made # {} => last \in made
        /\ track = Earlier(made, t, k)
        /\ wav = Earlier(IF keyed THEN made ELSE {}, t, k)
        /\ old = [s \in Segments |-> IF keyed THEN None ELSE track[last][s]]
        /\ job = [hashes |-> [l \in Langs |-> [s \in Segments |->
                                IF keyed /\ l \in made THEN Fingerprint(t, l) ELSE None]],
                  mapped |-> keyed,
                  kind |-> [l \in Langs |-> IF keyed /\ l \notin made THEN "unknown" ELSE k],
                  tracks |-> made,
                  said |-> [l \in Langs |-> [s \in Segments |->
                              IF keyed /\ l \in made THEN t ELSE None]]]
  BY Zenon DEF Init
<1>2. run = Idle
  BY DEF Init
<1>3. Fresh
  <2> SUFFICES ASSUME NEW l \in Langs, NEW s \in Segments, NEW u \in Texts,
                      job.hashes[l][s] = Fingerprint(u, l)
               PROVE  wav[l][s] \in Audio /\ wav[l][s].text = u
    BY DEF Fresh
  <2>1. keyed /\ l \in made
    BY <1>1, NoneIsNoPrint
  <2>2. u = t
    BY <1>1, <2>1 DEF Fingerprint
  <2>3. wav[l][s] = Spoken(t, l, k)
    BY <1>1, <2>1 DEF Earlier
  <2> QED
    BY <2>2, <2>3, SpokenIsAudio
<1>4. TrackTrue
  <2> SUFFICES ASSUME NEW l \in Langs, NEW s \in Segments, job.said[l][s] # None
               PROVE  IF job.said[l][s] = Blank THEN track[l][s] = Silence
                      ELSE track[l][s] \in Audio /\ track[l][s].text = job.said[l][s]
    BY DEF TrackTrue
  <2>1. keyed /\ l \in made
    BY <1>1
  <2>2. job.said[l][s] = t /\ track[l][s] = Spoken(t, l, k)
    BY <1>1, <2>1 DEF Earlier
  <2> QED
    BY <2>2, SpokenIsAudio
<1> QED
  BY <1>2, <1>3, <1>4 DEF TrueParts, MixInv, PendingInv, PieceInv, Busy

LEMMA GenerateTrue ==
    ASSUME TypeOK, TrueParts, NEW lang \in Langs, NEW strategy \in Strategies,
           NEW text \in [Segments -> Texts], Generate(lang, strategy, text)
    PROVE  TrueParts'
<1> USE DEF TrueParts, Busy
<1>1. UNCHANGED <<wav, track, job, rough, torn>>
  BY DEF Generate
<1>2. Fresh'
  BY <1>1 DEF Fresh
<1>4. PendingInv'
  BY GenerateRun DEF PendingInv
<1>5. PieceInv'
  BY GenerateRun DEF PieceInv, Segments
<1>6. MixInv'
  BY GenerateRun DEF MixInv
<1> QED
  BY <1>1, <1>2, <1>4, <1>5, <1>6 DEF TrackTrue

LEMMA PlacedTrue ==
    ASSUME TypeOK, TrueParts, NEW s \in Segments, Skip(s) \/ RenderFails(s) \/ ReuseFails(s)
    PROVE  TrueParts'
<1> USE DEF TrueParts, Busy
<1>1. UNCHANGED <<wav, track, job, rough, torn>>
  BY DEF Skip, RenderFails, ReuseFails
<1>2. Fresh'
  BY <1>1 DEF Fresh
<1>3. PendingInv'
  <2>1. /\ run # Idle /\ run.at = "loop" /\ run.next = s
        /\ run' # Idle /\ run'.at = "loop" /\ run'.lang = run.lang /\ run'.text = run.text
        /\ run'.next = s + 1 /\ run'.pending = run.pending /\ run'.unwritten = run.unwritten
    BY PlacedRun
  <2>2. run.pending \subseteq Segments
    BY PlacedRun DEF Run
  <2>3. \A z \in Segments : z < s => z < s + 1
    BY DEF Segments
  <2> QED
    BY <1>1, <2>1, <2>2, <2>3 DEF PendingInv
<1>4. PieceInv'
  <2>1. PICK p \in {Silence, Failed} :
          /\ run'.piece = [run.piece EXCEPT ![s] = p]
          /\ (run.text[s] = Blank /\ p = Silence) \/ p = Failed
    BY PlacedRun
  <2>2. Right(s, p, run.text[s])
    BY <2>1 DEF Right
  <2>3. ASSUME NEW z \in Segments, z < s + 1, z # s
        PROVE  /\ z < s /\ run'.piece[z] = run.piece[z]
    BY <2>1, <2>3, PlacedRun DEF Segments, Run
  <2>4. run'.piece[s] = p
    BY <2>1, PlacedRun DEF Run
  <2> QED
    BY <2>2, <2>3, <2>4, PlacedRun DEF PieceInv, Right
<1>5. MixInv'
  BY PlacedRun DEF MixInv
<1> QED
  BY <1>1, <1>2, <1>3, <1>4, <1>5 DEF TrackTrue

\* What the fingerprints speak for is in the file, so the file is what is taken.
LEMMA ReuseTrue ==
    ASSUME TypeOK, TrueParts, NEW s \in Segments, Reuse(s)
    PROVE  TrueParts'
<1> USE DEF TrueParts, Busy
<1>1. UNCHANGED <<wav, track, job, rough, torn>>
  BY DEF Reuse
<1>2. Fresh'
  BY <1>1 DEF Fresh
<1>3. PendingInv'
  <2>1. /\ run # Idle /\ run.at = "loop" /\ run.next = s
        /\ run' # Idle /\ run'.at = "loop" /\ run'.lang = run.lang /\ run'.text = run.text
        /\ run'.next = s + 1 /\ run'.pending = run.pending /\ run'.unwritten = run.unwritten
    BY ReuseRun
  <2>2. run.pending \subseteq Segments
    BY ReuseRun DEF Run
  <2>3. \A z \in Segments : z < s => z < s + 1
    BY DEF Segments
  <2> QED
    BY <1>1, <2>1, <2>2, <2>3 DEF PendingInv
<1>4. PieceInv'
  <2> DEFINE p == IF Cached(s) = None THEN Silence ELSE Cached(s)
  <2>1. /\ run'.piece = [run.piece EXCEPT ![s] = p] /\ run.piece \in [Segments -> Piece]
        /\ run.lang \in Langs /\ run.text[s] \in Texts /\ run.text[s] # Blank
    BY ReuseRun DEF Run
  <2>2. ASSUME Vouched(s) PROVE Right(s, p, run.text[s])
    <3>1. wav[run.lang][s] \in Audio /\ wav[run.lang][s].text = run.text[s]
      BY <2>1, <2>2 DEF Vouched, Fresh
    <3>2. p = wav[run.lang][s]
      BY <3>1, NoSpeech DEF Cached
    <3> QED
      BY <2>1, <3>1, <3>2 DEF Right
  <2>3. s \in run'.doubt \/ Right(s, p, run.text[s])
    BY <2>2, ReuseRun
  <2> HIDE DEF p
  <2>4. ASSUME NEW z \in Segments, z < s + 1, z # s
        PROVE  /\ z < s /\ run'.piece[z] = run.piece[z] /\ (z \in run.doubt => z \in run'.doubt)
    <3>1. z < s
      BY <2>4 DEF Segments
    <3> QED
      BY <2>1, <2>4, <3>1, ReuseRun
  <2>5. run'.piece[s] = p
    BY <2>1
  <2> QED
    <3> SUFFICES ASSUME NEW z \in Segments, z < s + 1
                 PROVE  z \in run'.doubt \/ Right(z, run'.piece[z], run.text[z])
      BY ReuseRun DEF PieceInv, Right
    <3>1. CASE z = s
      BY <3>1, <2>3, <2>5
    <3>2. CASE z # s
      BY <3>2, <2>4, ReuseRun DEF PieceInv, Right
    <3> QED
      BY <3>1, <3>2
<1>5. MixInv'
  BY ReuseRun DEF MixInv
<1> QED
  BY <1>1, <1>2, <1>3, <1>4, <1>5 DEF TrackTrue

LEMMA RenderTrue ==
    ASSUME TypeOK, TrueParts, NEW s \in Segments, Render(s)
    PROVE  TrueParts'
<1> USE DEF TrueParts, Busy
<1>a. /\ run # Idle /\ run.at = "loop" /\ run.next = s /\ run.text[s] # Blank
      /\ run' # Idle /\ run'.at = "loop" /\ run'.lang = run.lang /\ run'.text = run.text
      /\ run'.next = s + 1 /\ run'.pending = run.pending \cup {s}
      /\ run'.unwritten = run.unwritten
  BY RenderRun
<1>b. run.pending \subseteq Segments /\ run.piece \in [Segments -> Piece]
  BY RenderRun DEF Run
<1>c. \A z \in Segments : z < s + 1 /\ z # s => z < s
  BY DEF Segments
<1>d. \A z \in Segments : z < s => z < s + 1 /\ z # s
  BY DEF Segments
<1>e. s < s + 1
  BY DEF Segments
<1>1. UNCHANGED <<track, job, torn>> /\ rough' = rough \cup {<<run.lang, s>>}
  BY DEF Render
<1>2. run.lang \in Langs /\ Speech(s) \in Audio /\ Speech(s).text = run.text[s]
  BY RenderRun, SpeechType DEF Run
<1>3. \A l \in Langs, z \in Segments :
        wav'[l][z] = IF l = run.lang /\ z = s THEN Speech(s) ELSE wav[l][z]
  BY <1>2 DEF Render, TypeOK
<1>4. Fresh => Fresh'
  BY <1>1, <1>3 DEF Fresh
<1>6. ASSUME PendingInv PROVE PendingInv'
  <2>1. \A z \in run.pending : z \in Segments /\ z < s /\ z < s + 1 /\ z # s
    BY <1>6, <1>a, <1>b, <1>d DEF PendingInv
  <2>3. \A z \in run.pending : wav'[run.lang][z] = wav[run.lang][z]
    BY <1>2, <1>3, <2>1
  <2>4. wav'[run.lang][s] = Speech(s)
    BY <1>2, <1>3
  <2>5. run'.unwritten \subseteq run'.pending
    BY <1>6, <1>a DEF PendingInv
  <2>6. ASSUME NEW z \in run'.pending
        PROVE  /\ z < run'.next
               /\ z \in run'.unwritten
                    \/ (wav'[run'.lang][z] \in Audio /\ wav'[run'.lang][z].text = run'.text[z])
    <3>1. CASE z = s
      BY <3>1, <1>2, <1>a, <1>e, <2>4
    <3>2. CASE z \in run.pending
      BY <3>2, <1>6, <1>a, <2>1, <2>3 DEF PendingInv
    <3> QED
      BY <2>6, <3>1, <3>2, <1>a
  <2> QED
    BY <2>5, <2>6 DEF PendingInv
<1>7. PieceInv'
  <2>1. ASSUME NEW z \in Segments, z < s + 1, z # s
        PROVE  z < s /\ run'.piece[z] = run.piece[z]
    <3>1. run'.piece = [run.piece EXCEPT ![s] = Speech(s)]
      BY RenderRun
    <3> QED
      BY <2>1, <3>1, <1>a, <1>b, <1>c
  <2>2. run'.piece[s] = Speech(s)
    BY <1>b, RenderRun
  <2>3. Right(s, run'.piece[s], run.text[s])
    BY <1>2, <1>a, <2>2 DEF Right
  <2> QED
    <3> SUFFICES ASSUME NEW z \in Segments, z < s + 1
                 PROVE  z \in run'.doubt \/ Right(z, run'.piece[z], run.text[z])
      BY <1>a, RenderRun DEF PieceInv, Right
    <3>1. CASE z = s
      BY <3>1, <2>3
    <3>2. CASE z # s
      BY <3>2, <2>1, RenderRun DEF PieceInv, Right
    <3> QED
      BY <3>1, <3>2
<1>8. MixInv'
  BY RenderRun DEF MixInv
<1> QED
  BY <1>1, <1>4, <1>6, <1>7, <1>8 DEF TrackTrue

LEMMA UnwrittenTrue ==
    ASSUME TypeOK, TrueParts, NEW s \in Segments, RenderUnwritten(s)
    PROVE  TrueParts'
<1> USE DEF TrueParts, Busy
<1>a. /\ run # Idle /\ run.at = "loop" /\ run.next = s /\ run.text[s] # Blank
      /\ run' # Idle /\ run'.at = "loop" /\ run'.lang = run.lang /\ run'.text = run.text
      /\ run'.next = s + 1 /\ run'.pending = run.pending \cup {s}
      /\ run'.unwritten = run.unwritten \cup {s}
  BY UnwrittenRun
<1>b. run.pending \subseteq Segments /\ run.piece \in [Segments -> Piece]
  BY UnwrittenRun DEF Run
<1>c. \A z \in Segments : z < s + 1 /\ z # s => z < s
  BY DEF Segments
<1>d. \A z \in Segments : z < s => z < s + 1 /\ z # s
  BY DEF Segments
<1>e. s < s + 1
  BY DEF Segments
<1>1. UNCHANGED <<wav, track, job, rough, torn>>
  BY DEF RenderUnwritten
<1>2. Speech(s) \in Audio /\ Speech(s).text = run.text[s]
  BY UnwrittenRun, SpeechType
<1>3. Fresh => Fresh'
  BY <1>1 DEF Fresh
<1>5. ASSUME PendingInv PROVE PendingInv'
  <2>1. \A z \in run.pending : z < s + 1
    BY <1>5, <1>a, <1>b, <1>d DEF PendingInv
  <2>2. run'.unwritten \subseteq run'.pending
    BY <1>5, <1>a DEF PendingInv
  <2>3. ASSUME NEW z \in run'.pending
        PROVE  /\ z < run'.next
               /\ z \in run'.unwritten
                    \/ (wav[run'.lang][z] \in Audio /\ wav[run'.lang][z].text = run'.text[z])
    <3>1. CASE z = s
      <4>1. z < run'.next
        BY <3>1, <1>a, <1>e
      <4>2. z \in run'.unwritten
        BY <3>1, <1>a
      <4> QED
        BY <4>1, <4>2
    <3>2. CASE z \in run.pending
      BY <3>2, <1>5, <1>a, <2>1 DEF PendingInv
    <3> QED
      BY <2>3, <3>1, <3>2, <1>a
  <2> QED
    BY <1>1, <2>2, <2>3 DEF PendingInv
<1>6. PieceInv'
  <2>1. ASSUME NEW z \in Segments, z < s + 1, z # s
        PROVE  z < s /\ run'.piece[z] = run.piece[z]
    <3>1. PICK p : run'.piece = [run.piece EXCEPT ![s] = p]
      BY UnwrittenRun
    <3> QED
      BY <2>1, <3>1, <1>a, <1>b, <1>c
  <2>2. run'.piece[s] \in {Speech(s), Failed}
    BY <1>b, UnwrittenRun
  <2>3. Right(s, run'.piece[s], run.text[s])
    BY <1>2, <1>a, <2>2 DEF Right
  <2> QED
    <3> SUFFICES ASSUME NEW z \in Segments, z < s + 1
                 PROVE  z \in run'.doubt \/ Right(z, run'.piece[z], run.text[z])
      BY <1>a, UnwrittenRun DEF PieceInv, Right
    <3>1. CASE z = s
      BY <3>1, <2>3
    <3>2. CASE z # s
      BY <3>2, <2>1, UnwrittenRun DEF PieceInv, Right
    <3> QED
      BY <3>1, <3>2
<1>7. MixInv'
  BY UnwrittenRun DEF MixInv
<1> QED
  BY <1>1, <1>3, <1>5, <1>6, <1>7 DEF TrackTrue

LEMMA FlushTrue == ASSUME TypeOK, TrueParts, Flush PROVE TrueParts'
<1> USE DEF TrueParts, Busy
<1>1. /\ UNCHANGED <<wav, track, torn>>
      /\ rough' = (rough \ ({run.lang} \X run.pending)) \cup ({run.lang} \X run.unwritten)
  BY DEF Flush
<1>2. run.lang \in Langs /\ run.text \in [Segments -> Texts]
  BY FlushRun DEF Run
<1>3. ASSUME Fresh, PendingInv PROVE Fresh'
  <2> SUFFICES ASSUME NEW l \in Langs, NEW s \in Segments, NEW t \in Texts,
                      <<l, s>> \notin rough', job'.hashes[l][s] = Fingerprint(t, l)
               PROVE  wav[l][s] \in Audio /\ wav[l][s].text = t
    BY <1>1 DEF Fresh
  <2>1. CASE l = run.lang /\ s \in run.pending
    <3>1. s \notin run.unwritten
      BY <1>1, <2>1
    <3>2. wav[l][s] \in Audio /\ wav[l][s].text = run.text[s]
      BY <1>3, <2>1, <3>1, FlushRun DEF PendingInv
    <3>3. Fingerprint(t, l) = Fingerprint(run.text[s], run.lang)
      BY <2>1, FlushRun
    <3>4. t = run.text[s]
      BY <3>3 DEF Fingerprint
    <3> QED
      BY <3>2, <3>4
  <2>2. CASE ~(l = run.lang /\ s \in run.pending)
    BY <1>1, <1>3, <2>2, FlushRun DEF Fresh
  <2> QED
    BY <2>1, <2>2
<1>4. PendingInv'
  BY FlushRun DEF PendingInv
<1>5. PieceInv'
  <2> SUFFICES ASSUME NEW s \in Segments
               PROVE  s \in run.doubt \/ Right(s, run.piece[s], run.text[s])
    BY FlushRun DEF PieceInv, Right
  <2>1. s < run.next
    BY DubGenerateAssumption, FlushRun DEF Segments
  <2> QED
    BY <2>1, FlushRun DEF PieceInv
<1>6. MixInv'
  BY FlushRun DEF MixInv
<1> QED
  BY <1>1, <1>3, <1>4, <1>5, <1>6, FlushRun DEF TrackTrue

LEMMA MixTrue == ASSUME TypeOK, TrueParts, Mix PROVE TrueParts'
<1> USE DEF TrueParts, Busy
<1>1. /\ UNCHANGED <<wav, job, rough>>
      /\ torn' = Tears(run.doubt \cup {s \in Segments : run.text[s] # job.said[run.lang][s]})
  BY DEF Mix
<1>2. Fresh'
  BY <1>1 DEF Fresh
<1>3. PendingInv'
  BY MixRun DEF PendingInv
<1>4. PieceInv'
  BY <1>1, MixRun DEF PieceInv, Right
<1>5. MixInv'
  BY MixRun DEF MixInv, Run
<1>6. TrackTrue'
  <2>1. run.lang \in Langs
    BY MixRun DEF Run
  <2> SUFFICES ASSUME NEW l \in Langs, NEW s \in Segments, <<l, s>> \notin torn',
                      job.said[l][s] # None, track'[l][s] # Failed
               PROVE  IF job.said[l][s] = Blank THEN track'[l][s] = Silence
                      ELSE track'[l][s] \in Audio /\ track'[l][s].text = job.said[l][s]
    BY <1>1 DEF TrackTrue
  <2>2. CASE l = run.lang
    <3>1. s \notin run.doubt /\ run.text[s] = job.said[l][s]
      BY <1>1, <2>1, <2>2 DEF Tears
    <3>2. s < run.next
      BY DubGenerateAssumption, MixRun DEF MixInv, Segments
    <3>3. Right(s, run.piece[s], run.text[s])
      BY <3>1, <3>2, MixRun DEF PieceInv
    <3> QED
      BY <2>2, <3>1, <3>3, MixRun DEF Right
  <2>3. CASE l # run.lang
    BY <1>1, <2>3, MixRun DEF Tears, TrackTrue
  <2> QED
    BY <2>2, <2>3
<1> QED
  BY <1>2, <1>3, <1>4, <1>5, <1>6

LEMMA SaveTrue == ASSUME TypeOK, TrueParts, Save PROVE TrueParts'
<1> USE DEF TrueParts, Busy
<1>1. /\ UNCHANGED <<wav, track, rough>> /\ run' = Idle
      /\ torn' = Tears(run.doubt)
  BY DEF Save
<1>2. Fresh'
  BY <1>1, SaveRun DEF Fresh
<1>3. PendingInv' /\ PieceInv' /\ MixInv'
  BY <1>1 DEF PendingInv, PieceInv, MixInv
<1>4. ASSUME NEW s \in Segments
      PROVE  <<run.lang, s>> \in torn' \/ Right(s, track[run.lang][s], run.text[s])
  <2>1. run.lang \in Langs /\ s < run.next /\ track[run.lang] = run.piece
    BY DubGenerateAssumption, SaveRun DEF MixInv, Run, Segments
  <2> QED
    BY <1>1, <2>1, SaveRun DEF PieceInv, Tears
<1>5. TrackTrue'
  <2> SUFFICES ASSUME NEW l \in Langs, NEW s \in Segments, <<l, s>> \notin torn',
                      job'.said[l][s] # None, track[l][s] # Failed
               PROVE  IF job'.said[l][s] = Blank THEN track[l][s] = Silence
                      ELSE track[l][s] \in Audio /\ track[l][s].text = job'.said[l][s]
    BY <1>1 DEF TrackTrue
  <2>1. CASE l = run.lang
    BY <2>1, <1>4, SaveRun DEF Right
  <2>2. CASE l # run.lang
    BY <2>2, <1>1, SaveRun DEF TrackTrue, Tears
  <2> QED
    BY <2>1, <2>2
<1> QED
  BY <1>1, <1>2, <1>3, <1>5

LEMMA CutTrue == ASSUME TypeOK, TrueParts, Cut PROVE TrueParts'
BY DEF TrueParts, Cut, Busy, Fresh, PendingInv, PieceInv, MixInv, TrackTrue

LEMMA StutterTrue == ASSUME TrueParts, UNCHANGED vars PROVE TrueParts'
BY DEF TrueParts, vars, Busy, Fresh, PendingInv, PieceInv, Right, MixInv,
       TrackTrue

\* Whatever regen_only asks for, a track says what its subtitles say, or is silent after
\* an error -- but for pieces taken over though the job's fingerprints called them stale
\* or from files that a run cut short or a failed write had parted from their
\* fingerprints, and pieces of a track mixed by a run that did not save the texts it had
\* changed.
THEOREM TracksSayTheirSubtitles == Spec => []TrackTrue
<1>1. Init => TypeOK /\ TrueParts
  BY InitType, InitTrue
<1>2. TypeOK /\ TrueParts /\ [Next]_vars => (TypeOK /\ TrueParts)'
  <2> SUFFICES ASSUME TypeOK, TrueParts, [Next]_vars PROVE TrueParts'
    BY TypeStep
  <2> QED
    BY GenerateTrue, PlacedTrue, ReuseTrue, RenderTrue, UnwrittenTrue, FlushTrue, MixTrue, SaveTrue,
       CutTrue, StutterTrue DEF Next
<1>3. TrueParts => TrackTrue
  BY DEF TrueParts
<1> QED
  BY <1>1, <1>2, <1>3, PTL DEF Spec
============================================================================
