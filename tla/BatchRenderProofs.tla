-------------------------- MODULE BatchRenderProofs --------------------------
(***************************************************************************)
(* Theorems of BatchRender for every number of sources, templates, batches, *)
(* reruns, resets and restarts: no item spins behind a worker that goes on, *)
(* what has ended keeps its end, and what was deleted does not come back    *)
(* unless a reload or a rerun that had read it was under way.               *)
(***************************************************************************)
EXTENDS BatchRender, WellFoundedInduction, TLAPS

\* An item whose row is gone or about to go is in no dict, and no reload or rerun
\* has it in hand, but for the items that are noted; the worker's dicts show a status.
CrossOK ==
    \A i \in Items :
      /\ dict[i].live => dict[i].status # "none"
      /\ /\ rows[i] = "none" \/ i \in deleting.items
         /\ dict[i].status # "none" \/ read.of = i \/ rerun = i
         => i \in crossed

\* An item the worker holds is one of its batch; it is queued until its source is
\* taken up and running only while the worker is at it.
OwnOK ==
    \A i \in Items : own[i] # "none" =>
      /\ worker # Idle /\ i[1] = worker.batch
      /\ i[2] \in worker.left => own[i] = "queued"
      /\ own[i] = "running" =>
           /\ worker.stage # "next" /\ i[2] = worker.src
           /\ worker.stage \in {"item", "render"} => i[3] \in worker.todo

\* The items the worker has still to render are running.
PlaceOK ==
    /\ worker.stage = "dub" => \A i \in Group : own[i] = "running"
    /\ worker.stage \in {"item", "render"} =>
         \A t \in worker.todo : /\ <<worker.batch, worker.src, t>> \in Items
                                /\ own[<<worker.batch, worker.src, t>>] = "running"
    /\ worker.stage = "render" => worker.todo # {}
    /\ worker.stage \in {"dub", "item", "render"} => worker.src \notin worker.left

\* Without requests while the worker is at work, its dicts are those of the process
\* and agree with the rows; a dict that shows an item as queued tells the truth.
FaultyOK ==
    regime = "faulty" =>
      /\ worker # Idle => /\ read = NoRow /\ deleting = None /\ rerun = NoItem
      /\ \A i \in Items :
           /\ dict[i].status = "queued" => rows[i] \in {"queued", "none"}
           /\ read.of = i /\ read.status = "queued" => rows[i] \in {"queued", "none"}
           /\ own[i] # "none" => dict[i].live /\ rows[i] \in {own[i], "none"}

\* The types without the bounds on counters.
Dicts == [status : Status, live : BOOLEAN]
Loop  == [batch : Nat, stage : {"idle", "next", "dub", "item", "render", "dead"},
          left : SUBSET Sources, src : Nat, todo : SUBSET Templates]
Types ==
    /\ made \in Nat /\ queue \in Seq(Nat) /\ worker \in Loop
    /\ rows \in [Items -> Status] /\ own \in [Items -> Status]
    /\ dict \in [Items -> Dicts]
    /\ read.status \in Status
    /\ rerun \in Items \cup {NoItem}

RenderInv == Types /\ CrossOK /\ OwnOK /\ PlaceOK /\ FaultyOK /\ NoSpinner


\* The order of the numbers as a relation.
Less == {ss \in Nat \X Nat : ss[1] < ss[2]}

LEMMA LessWF == IsWellFoundedOn(Less, Nat)
BY NatLessThanWellFounded, Zenon DEF OpToRel, Less

\* A set of numbers that is not empty contains its minimum.
LEMMA MinIn == ASSUME NEW S, S \subseteq Nat, S # {} PROVE Min(S) \in S
<1>1. \E x \in S : \A y \in S : ~(<<y, x>> \in Less)
  BY LessWF, WFMin
<1>2. PICK x \in S : \A y \in S : ~(<<y, x>> \in Less)
  BY <1>1
<1>3. ASSUME NEW y \in S PROVE x <= y
  <2>1. x \in Nat /\ y \in Nat
    OBVIOUS
  <2>2. <<y, x>> \in Nat \X Nat /\ ~(<<y, x>> \in Less)
    BY <1>2, <2>1
  <2>3. ~(y < x)
    BY <2>2 DEF Less
  <2>4. QED BY <2>1, <2>3
<1>4. QED BY <1>3 DEF Min


\* The parts of an item.
LEMMA ItemFields ==
    ASSUME NEW i \in Items
    PROVE  /\ i = <<i[1], i[2], i[3]>>
           /\ i[1] \in Nat \ {0} /\ i[2] \in Sources /\ i[3] \in Templates
BY DEF Items, Batches

\* What is no item is in no place of one.
LEMMA NotItems == ASSUME BatchRenderAssumption, NEW b
                  PROVE  ~(NoItem \in Items) /\ ~(BatchKey(b) \in Items)
<1>1. ASSUME NEW i \in Items PROVE i # NoItem /\ i # BatchKey(b)
  <2>1. i[1] # 0 /\ i[2] # 0
    BY ItemFields, BatchRenderAssumption
  <2>2. NoItem[1] = 0 /\ BatchKey(b)[2] = 0
    BY DEF NoItem, BatchKey
  <2>3. QED BY <2>1, <2>2
<1>2. QED BY <1>1

LEMMA InitRender == ASSUME BatchRenderAssumption PROVE Init => RenderInv
<1> SUFFICES ASSUME Init PROVE RenderInv
  OBVIOUS
<1>1. Types
  BY DEF Init, Types, Status, Final, Dicts, Absent, Loop, Idle, NoRow
<1>2. CrossOK
  <2>1. \A i \in Items : /\ dict[i].status = "none" /\ dict[i].live = FALSE
                         /\ read.of # i /\ rerun # i
    BY NotItems DEF Init, Absent, NoRow
  <2>2. QED BY <2>1 DEF CrossOK
<1>3. QED
  BY <1>1, <1>2 DEF Init, RenderInv, OwnOK, PlaceOK, FaultyOK, NoSpinner, Absent, Idle,
              Group, NoRow

----------------------------------------------------------------------------
\* The requests of the routes.
Requests ==
    \/ Create \/ Request
    \/ \E b \in 1..made : ReadBatch(b) \/ DeleteBatch(b)
    \/ \E i \in Items : Read(i) \/ DeleteItem(i) \/ RerunFinds(i)

\* What a request does to an item: its row becomes queued or goes; its dict goes,
\* becomes that of a row a reload had read or of the row it has, or a new one that
\* is queued as its row is.
Fresh(s) == [status |-> s, live |-> FALSE]
Asked ==
    /\ rows' \in [Items -> Status] /\ dict' \in [Items -> Dicts]
    /\ \A i \in Items :
         /\ rows'[i] \in {rows[i], "none", "queued"}
         /\ \/ dict'[i] = dict[i]
            \/ dict'[i] = Absent
            \/ dict'[i] = Fresh(rows[i]) /\ rows[i] # "none" /\ rows'[i] = rows[i]
            \/ dict'[i] = Fresh("queued") /\ rows'[i] = "queued"
            \/ dict'[i] = Fresh(read.status) /\ read.of = i /\ rows'[i] = rows[i]
    /\ \/ read' = read \/ read' = NoRow
       \/ \E b \in Nat : read' = [of |-> BatchKey(b), status |-> "none"]
       \/ \E i \in Items : read' = [of |-> i, status |-> rows[i]] /\ rows' = rows
    /\ rerun' \in Items \cup {NoItem}
    /\ made' \in Nat /\ queue' \in Seq(Nat)
    /\ own' = own /\ worker' = worker

LEMMA LoadedGives ==
    ASSUME Types
    PROVE  /\ Loaded \in [Items -> Dicts]
           /\ \A i \in Items : Loaded[i] = IF rows[i] = "none" THEN dict[i]
                                           ELSE Fresh(rows[i])
<1>1. \A i \in Items : Loaded[i] = IF rows[i] = "none" THEN dict[i] ELSE Fresh(rows[i])
  BY DEF Loaded, Fresh
<1>2. \A s \in Status : Fresh(s) \in Dicts
  BY DEF Fresh, Dicts
<1>3. \A i \in Items : rows[i] \in Status /\ dict[i] \in Dicts
  BY DEF Types
<1>4. QED BY <1>1, <1>2, <1>3 DEF Loaded

LEMMA RequestAsks == ASSUME BatchRenderAssumption, Types, Requests PROVE Asked
<1>1. /\ Loaded \in [Items -> Dicts]
      /\ \A i \in Items : Loaded[i] = IF rows[i] = "none" THEN dict[i]
                                      ELSE Fresh(rows[i])
  BY LoadedGives
<1>2. /\ \A i \in Items : rows[i] \in Status /\ dict[i] \in Dicts
      /\ rows \in [Items -> Status] /\ dict \in [Items -> Dicts]
      /\ "none" \in Status /\ "queued" \in Status
      /\ made \in Nat /\ queue \in Seq(Nat) /\ rerun \in Items \cup {NoItem}
  BY DEF Types, Status
<1>3. /\ \A s \in Status : Fresh(s) \in Dicts
      /\ Absent \in Dicts
  BY <1>2 DEF Fresh, Dicts, Absent
<1>4. CASE Create
  <2>1. PICK I :
          /\ made' = made + 1
          /\ rows' = [i \in Items |-> IF i \in I THEN "queued" ELSE rows[i]]
          /\ dict' = [i \in Items |-> IF i \in I THEN Fresh("queued") ELSE Loaded[i]]
          /\ queue' = Append(queue, made + 1) \/ queue' = queue
    BY <1>4, Zenon DEF Create, Fresh
  <2>2. rows' \in [Items -> Status] /\ dict' \in [Items -> Dicts]
    BY <1>1, <1>2, <1>3, <2>1
  <2>3. ASSUME NEW i \in Items
        PROVE  /\ rows'[i] \in {rows[i], "none", "queued"}
               /\ \/ dict'[i] = dict[i]
                  \/ dict'[i] = Fresh(rows[i]) /\ rows[i] # "none" /\ rows'[i] = rows[i]
                  \/ dict'[i] = Fresh("queued") /\ rows'[i] = "queued"
    <3>1. /\ rows'[i] = IF i \in I THEN "queued" ELSE rows[i]
          /\ dict'[i] = IF i \in I THEN Fresh("queued") ELSE Loaded[i]
      BY <2>1
    <3>2. Loaded[i] = dict[i] \/ (Loaded[i] = Fresh(rows[i]) /\ rows[i] # "none")
      BY <1>1
    <3>3. CASE i \in I
      BY <3>1, <3>3
    <3>4. CASE ~(i \in I)
      <4>1. rows'[i] = rows[i] /\ dict'[i] = Loaded[i]
        BY <3>1, <3>4
      <4>2. QED BY <3>2, <4>1, Zenon
    <3>5. QED BY <3>3, <3>4
  <2>4. made' \in Nat /\ queue' \in Seq(Nat)
    <3>1. PICK q \in Seq(Nat) : q = queue
      BY <1>2
    <3>2. PICK n \in Nat : n = made + 1
      BY <1>2
    <3>3. Append(q, n) \in Seq(Nat)
      BY <3>1, <3>2
    <3>4. made' = n /\ queue' \in {q, Append(q, n)}
      BY <2>1, <3>1, <3>2, Zenon
    <3>5. QED BY <3>1, <3>2, <3>3, <3>4
  <2>5. UNCHANGED <<read, rerun, own, worker>>
    BY <1>4 DEF Create
  <2>6. QED BY <1>2, <2>2, <2>3, <2>4, <2>5 DEF Asked
<1>5. ASSUME NEW i \in Items, Read(i) PROVE Asked
  <2>1. /\ read' = [of |-> i, status |-> rows[i]]
        /\ UNCHANGED <<made, rows, dict, rerun, own, queue, worker>>
    BY <1>5 DEF Read, items
  <2>2. QED BY <1>2, <2>1 DEF Asked
<1>6. CASE Fill
  <2>1. /\ read.of \in Items /\ read' = NoRow
        /\ dict' = [dict EXCEPT ![read.of] = Fresh(read.status)]
        /\ UNCHANGED <<made, rows, rerun, own, queue, worker>>
    BY <1>6 DEF Fill, Fresh
  <2>2. Fresh(read.status) \in Dicts
    BY <1>3 DEF Types
  <2>3. PICK k \in Items : k = read.of
    BY <2>1
  <2>4. /\ dict' \in [Items -> Dicts]
        /\ \A i \in Items : dict'[i] = IF i = k THEN Fresh(read.status) ELSE dict[i]
    BY <1>2, <2>1, <2>2, <2>3
  <2>5. QED BY <1>2, <2>1, <2>3, <2>4 DEF Asked
<1>7. ASSUME NEW b \in 1..made, ReadBatch(b) PROVE Asked
  <2>1. /\ read' = [of |-> BatchKey(b), status |-> "none"] /\ b \in Nat
        /\ UNCHANGED <<made, rows, dict, rerun, own, queue, worker>>
    BY <1>2, <1>7 DEF ReadBatch, items
  <2>2. QED BY <1>2, <2>1 DEF Asked
<1>8. CASE FillBatch
  <2>1. /\ read' = NoRow
        /\ UNCHANGED <<made, rows, dict, rerun, own, queue, worker>>
    BY <1>8 DEF FillBatch
  <2>2. QED BY <1>2, <2>1 DEF Asked
<1>9. ASSUME NEW b, NEW I, Pop(b, I) PROVE Asked
  <2>1. /\ dict' = [i \in Items |-> IF i \in I THEN Absent ELSE dict[i]]
        /\ UNCHANGED <<made, rows, read, rerun, own, queue, worker>>
    BY <1>9 DEF Pop
  <2>2. /\ dict' \in [Items -> Dicts]
        /\ \A i \in Items : dict'[i] = dict[i] \/ dict'[i] = Absent
    BY <1>2, <1>3, <2>1
  <2>3. QED BY <1>2, <2>1, <2>2 DEF Asked
<1>10. CASE DeleteRows
  <2>1. /\ rows' = [i \in Items |-> IF i \in deleting.items THEN "none" ELSE rows[i]]
        /\ UNCHANGED <<made, dict, read, rerun, own, queue, worker>>
    BY <1>10 DEF DeleteRows
  <2>2. /\ rows' \in [Items -> Status]
        /\ \A i \in Items : rows'[i] \in {rows[i], "none"}
    BY <1>2, <2>1
  <2>3. QED BY <1>2, <2>1, <2>2 DEF Asked
<1>11. ASSUME NEW i \in Items, RerunFinds(i) PROVE Asked
  <2>1. /\ dict' = Loaded /\ rerun' = i
        /\ UNCHANGED <<made, rows, read, own, queue, worker>>
    BY <1>11 DEF RerunFinds
  <2>2. \A k \in Items : \/ dict'[k] = dict[k]
                         \/ dict'[k] = Fresh(rows[k]) /\ rows[k] # "none"
                                                      /\ rows'[k] = rows[k]
    BY <1>1, <2>1
  <2>3. QED BY <1>1, <1>2, <2>1, <2>2 DEF Asked
<1>12. CASE RerunWrites
  <2>1. /\ dict' = [dict EXCEPT ![rerun] = Fresh("queued")]
        /\ rows' = [rows EXCEPT ![rerun] = "queued"]
        /\ queue' = Append(queue, rerun[1]) /\ rerun' = NoItem
        /\ UNCHANGED <<made, read, own, worker>>
    BY <1>12 DEF RerunWrites, Fresh
  <2>2. PICK k \in Items : k = rerun
    BY <1>2, <1>12 DEF RerunWrites
  <2>3. k[1] \in Nat
    BY ItemFields
  <2>4. rows' \in [Items -> Status] /\ dict' \in [Items -> Dicts]
    BY <1>2, <1>3, <2>1
  <2>5. \A i \in Items : /\ rows'[i] = IF i = k THEN "queued" ELSE rows[i]
                         /\ dict'[i] = IF i = k THEN Fresh("queued") ELSE dict[i]
    BY <1>2, <2>1, <2>2
  <2>6. queue' \in Seq(Nat)
    BY <1>2, <2>1, <2>2, <2>3
  <2>7. QED BY <1>2, <2>1, <2>4, <2>5, <2>6 DEF Asked
<1>13. QED
  BY <1>4, <1>5, <1>6, <1>7, <1>8, <1>9, <1>10, <1>11, <1>12
     DEF Requests, Request, DeleteBatch, DeleteItem

----------------------------------------------------------------------------
\* Items that lose their row while a reload or a rerun has them are noted.
LEMMA RequestCrosses ==
    ASSUME BatchRenderAssumption, RenderInv, Requests
    PROVE  CrossOK'
<1>1. /\ Types /\ CrossOK /\ Asked
      /\ \A i \in Items : rows[i] \in Status /\ dict[i] \in Dicts
      /\ rerun \in Items \cup {NoItem}
      /\ read.status \in Status
  BY RequestAsks DEF RenderInv, Types
<1>2. /\ Absent.status = "none" /\ Absent.live = FALSE
      /\ \A s \in Status : Fresh(s).status = s /\ Fresh(s).live = FALSE
      /\ "queued" \in Status /\ "none" \in Status
  BY DEF Absent, Fresh, Status
<1>3. ASSUME NEW i \in Items
      PROVE  dict'[i].live => dict'[i].status # "none"
  BY <1>1, <1>2 DEF Asked, CrossOK
<1> DEFINE Gone(i)  == rows[i] = "none" \/ i \in deleting.items
           Asks(i)  == dict[i].status # "none" \/ read.of = i \/ rerun = i
           Gone1(i) == rows'[i] = "none" \/ i \in deleting'.items
           Asks1(i) == dict'[i].status # "none" \/ read'.of = i \/ rerun' = i
<1>4. \A i \in Items : Gone(i) /\ Asks(i) => i \in crossed
  BY <1>1 DEF CrossOK
<1>5. \A i \in Items : i # NoItem /\ (\A b : i # BatchKey(b))
  BY NotItems
<1>6. \A i \in Items : Loaded[i].status = IF rows[i] = "none" THEN dict[i].status ELSE rows[i]
  BY <1>1, <1>2, LoadedGives
<1>7. ASSUME NEW i \in Items, Gone1(i), Asks1(i), Create PROVE i \in crossed'
  <2>1. PICK I :
          /\ rows' = [k \in Items |-> IF k \in I THEN "queued" ELSE rows[k]]
          /\ dict' = [k \in Items |-> IF k \in I THEN Fresh("queued") ELSE Loaded[k]]
    BY <1>7, Zenon DEF Create, Fresh
  <2>2. crossed' = crossed \cup deleting.items /\ UNCHANGED <<read, deleting, rerun>>
    BY <1>7 DEF Create
  <2>3. CASE i \in deleting.items
    BY <2>2, <2>3
  <2>4. CASE rows'[i] = "none"
    <3>1. rows[i] = "none" /\ dict'[i] = Loaded[i]
      BY <2>1, <2>4
    <3>2. Asks(i)
      BY <1>6, <1>7, <2>2, <3>1
    <3>3. QED BY <1>4, <2>2, <3>1, <3>2
  <2>5. QED BY <1>7, <2>2, <2>3, <2>4
<1>8. ASSUME NEW k \in Items, Read(k), NEW i \in Items, Gone1(i), Asks1(i)
      PROVE  i \in crossed'
  <2>1. /\ read' = [of |-> k, status |-> rows[k]] /\ rows[k] # "none"
        /\ crossed' = IF k \in deleting.items \/ rerun = k THEN crossed \cup {k}
                      ELSE crossed
        /\ UNCHANGED <<rows, dict, deleting, rerun>>
    BY <1>8 DEF Read, items
  <2>2. crossed \subseteq crossed'
    BY <2>1
  <2>3. CASE i = k
    <3>1. k \in deleting.items
      BY <1>8, <2>1, <2>3
    <3>2. QED BY <2>1, <2>3, <3>1
  <2>4. CASE i # k
    <3>1. Gone(i) /\ Asks(i)
      BY <1>8, <2>1, <2>4
    <3>2. QED BY <1>4, <2>2, <3>1
  <2>5. QED BY <2>3, <2>4
<1>9. ASSUME NEW i \in Items, Gone1(i), Asks1(i), Fill PROVE i \in crossed'
  <2>1. /\ read' = NoRow
        /\ UNCHANGED <<rows, deleting, rerun, crossed>>
        /\ dict'[i] = dict[i] \/ read.of = i
    BY <1>1, <1>9 DEF Fill, Types
  <2>2. read'.of = NoItem
    BY <2>1 DEF NoRow
  <2>3. Gone(i) /\ Asks(i)
    BY <1>5, <1>9, <2>1, <2>2
  <2>4. QED BY <1>4, <2>1, <2>3
<1>10. ASSUME NEW b, ReadBatch(b), NEW i \in Items, Gone1(i), Asks1(i)
       PROVE  i \in crossed'
  <2>1. /\ read' = [of |-> BatchKey(b), status |-> "none"]
        /\ crossed' = IF deleting.batch = b THEN crossed \cup ItemsOf(b) ELSE crossed
        /\ UNCHANGED <<rows, dict, deleting, rerun>>
    BY <1>10 DEF ReadBatch, items
  <2>2. crossed \subseteq crossed' /\ read'.of # i
    BY <1>5, <2>1
  <2>3. QED BY <1>4, <1>10, <2>1, <2>2
<1>11. ASSUME NEW i \in Items, Gone1(i), Asks1(i), FillBatch PROVE i \in crossed'
  <2>1. read' = NoRow /\ UNCHANGED <<rows, dict, deleting, rerun, crossed>>
    BY <1>11 DEF FillBatch
  <2>2. read'.of # i
    BY <1>5, <2>1 DEF NoRow
  <2>3. QED BY <1>4, <1>11, <2>1, <2>2
<1>12. ASSUME NEW b, NEW I, Pop(b, I), NEW i \in Items, Gone1(i), Asks1(i)
       PROVE  i \in crossed'
  <2>1. /\ deleting = None /\ deleting' = [batch |-> b, items |-> I]
        /\ dict' = [k \in Items |-> IF k \in I THEN Absent ELSE dict[k]]
        /\ crossed' = crossed \cup IF b # 0 /\ read.of = BatchKey(b) THEN I
                                   ELSE {k \in I : k = read.of \/ k = rerun}
        /\ UNCHANGED <<rows, read, rerun>>
    BY <1>12 DEF Pop
  <2>2. CASE i \in I
    <3>1. dict'[i].status = "none"
      BY <1>2, <2>1, <2>2
    <3>2. i = read.of \/ i = rerun
      BY <1>12, <2>1, <3>1
    <3>3. QED BY <2>1, <2>2, <3>2
  <2>3. CASE ~(i \in I)
    <3>1. dict'[i] = dict[i] /\ rows[i] = "none"
      BY <1>12, <2>1, <2>3
    <3>2. QED BY <1>4, <1>12, <2>1, <3>1
  <2>4. QED BY <2>2, <2>3
<1>13. ASSUME NEW i \in Items, Gone1(i), Asks1(i), DeleteRows PROVE i \in crossed'
  <2>1. /\ rows' = [k \in Items |-> IF k \in deleting.items THEN "none" ELSE rows[k]]
        /\ deleting' = None /\ UNCHANGED <<dict, read, rerun, crossed>>
    BY <1>13 DEF DeleteRows
  <2>2. ~(i \in deleting'.items)
    BY <2>1 DEF None
  <2>3. Gone(i)
    BY <1>13, <2>1, <2>2
  <2>4. QED BY <1>4, <1>13, <2>1, <2>3
<1>14. ASSUME NEW k \in Items, RerunFinds(k), NEW i \in Items, Gone1(i), Asks1(i)
       PROVE  i \in crossed'
  <2>1. /\ Loaded[k].status \in Final /\ dict' = Loaded /\ rerun' = k
        /\ crossed' = crossed \cup deleting.items \cup {j \in {read.of} : j = k}
        /\ UNCHANGED <<rows, read, deleting>>
    BY <1>14 DEF RerunFinds
  <2>2. CASE i \in deleting.items
    BY <2>1, <2>2
  <2>3. CASE ~(i \in deleting.items)
    <3>1. rows[i] = "none" /\ dict'[i].status = dict[i].status
      BY <1>6, <1>14, <2>1, <2>3
    <3>2. i = k => dict[i].status # "none"
      BY <2>1, <3>1 DEF Final
    <3>3. Asks(i)
      BY <1>14, <2>1, <3>1, <3>2
    <3>4. QED BY <1>4, <2>1, <3>1, <3>3
  <2>4. QED BY <2>2, <2>3
<1>15. ASSUME NEW i \in Items, Gone1(i), Asks1(i), RerunWrites PROVE i \in crossed'
  <2>1. /\ rerun # NoItem /\ rerun' = NoItem
        /\ dict' = [dict EXCEPT ![rerun] = Fresh("queued")]
        /\ rows' = [rows EXCEPT ![rerun] = "queued"]
        /\ UNCHANGED <<read, deleting, crossed>>
    BY <1>15 DEF RerunWrites, Fresh
  <2>2. rerun' # i
    BY <1>5, <2>1
  <2>3. rows'[i] = IF i = rerun THEN "queued" ELSE rows[i]
    BY <1>1, <2>1 DEF Types
  <2>4. dict'[i] = IF i = rerun THEN Fresh("queued") ELSE dict[i]
    BY <1>1, <2>1 DEF Types
  <2>5. Gone(i) /\ Asks(i)
    BY <1>15, <2>1, <2>2, <2>3, <2>4
  <2>6. QED BY <1>4, <2>1, <2>5
<1>16. \A i \in Items : Gone1(i) /\ Asks1(i) => i \in crossed'
  <2> SUFFICES ASSUME NEW i \in Items, Gone1(i), Asks1(i) PROVE i \in crossed'
    OBVIOUS
  <2> HIDE DEF Gone1, Asks1, Gone, Asks
  <2>1. QED
    BY <1>7, <1>8, <1>9, <1>10, <1>11, <1>12, <1>13, <1>14, <1>15
       DEF Requests, Request, DeleteBatch, DeleteItem
<1>17. QED BY <1>3, <1>16 DEF CrossOK, Items, Batches

LEMMA RequestKeeps ==
    ASSUME BatchRenderAssumption, RenderInv, Requests, regime' = regime
    PROVE  RenderInv'
<1>1. Asked /\ CrossOK' /\ Types
  BY RequestAsks, RequestCrosses DEF RenderInv
<1>2. Types'
  <2>1. read'.status \in Status
    <3>1. "none" \in Status /\ \A i \in Items : rows[i] \in Status
      BY <1>1 DEF Types, Status
    <3>2. QED BY <1>1, <3>1 DEF Asked, Types, NoRow
  <2>2. worker' \in Loop /\ own' \in [Items -> Status]
    BY <1>1 DEF Asked, Types
  <2>3. QED BY <1>1, <2>1, <2>2 DEF Asked, Types, Items, Batches
<1>3. OwnOK' /\ PlaceOK'
  BY <1>1 DEF Asked, RenderInv, OwnOK, PlaceOK, Group, ItemsOf, Items, Batches, Idle
<1>4. FaultyOK'
  <2>1. CASE regime # "faulty"
    BY <2>1 DEF FaultyOK
  <2>2. CASE regime = "faulty"
    <3>1. worker = Idle
      <4>1. CASE Request
        <5>1. read # NoRow \/ deleting # None \/ rerun # NoItem
          BY <4>1, NotItems DEF Request, Fill, FillBatch, DeleteRows, RerunWrites, NoRow
        <5>2. QED BY <2>2, <5>1 DEF RenderInv, FaultyOK
      <4>2. QED
        BY <2>2, <4>1 DEF Open, Requests, Create, ReadBatch, DeleteBatch, Read,
                          DeleteItem, RerunFinds
    <3>2. worker' = Idle
      BY <1>1, <3>1 DEF Asked
    <3>3. ASSUME NEW i \in Items
          PROVE  /\ dict'[i].status = "queued" => rows'[i] \in {"queued", "none"}
                 /\ read'.of = i /\ read'.status = "queued" => rows'[i] \in {"queued", "none"}
                 /\ own'[i] = "none"
      <4>1. /\ dict[i].status = "queued" => rows[i] \in {"queued", "none"}
            /\ read.of = i /\ read.status = "queued" => rows[i] \in {"queued", "none"}
        BY <2>2 DEF RenderInv, FaultyOK
      <4>2. own'[i] = "none"
        BY <1>1, <3>1 DEF RenderInv, OwnOK, Asked
      <4>3. read'.of = i /\ read'.status = "queued" => rows'[i] \in {"queued", "none"}
        BY <1>1, <4>1 DEF Asked, NoRow
      <4>4. dict'[i].status = "queued" => rows'[i] \in {"queued", "none"}
        BY <1>1, <4>1 DEF Asked, Absent, Fresh
      <4>5. QED BY <4>2, <4>3, <4>4
    <3>4. QED BY <3>2, <3>3 DEF FaultyOK, Items, Batches, Idle
  <2>3. QED BY <2>1, <2>2
<1>5. NoSpinner'
  <2>1. \A i \in Items : rows'[i] = "running" => rows[i] = "running" /\ own'[i] = own[i]
    BY <1>1 DEF Asked
  <2>2. QED BY <2>1 DEF RenderInv, NoSpinner, Items, Batches
<1>6. QED BY <1>1, <1>2, <1>3, <1>4, <1>5 DEF RenderInv

LEMMA RestartKeeps ==
    ASSUME BatchRenderAssumption, RenderInv, Restart, regime' = regime
    PROVE  RenderInv'
<1>1. /\ made' = made /\ rows' = rows /\ queue' = <<>> /\ worker' = Idle
      /\ dict' = [i \in Items |-> Absent] /\ own' = [i \in Items |-> "none"]
      /\ read' = NoRow /\ rerun' = NoItem
      /\ regime = "faulty" /\ regime' = regime
  BY DEF Restart
<1>2. Types'
  <2>1. Idle \in Loop /\ Absent \in Dicts /\ "none" \in Status
    BY DEF Idle, Loop, Absent, Dicts, Status
  <2>2. QED BY <1>1, <2>1 DEF RenderInv, Types, NoRow
<1>3. \A i \in Items : /\ dict'[i] = Absent /\ own'[i] = "none"
                       /\ read'.of # i /\ rerun' # i
  BY <1>1, NotItems DEF NoRow
<1>4. CrossOK' /\ OwnOK'
  BY <1>3 DEF CrossOK, OwnOK, Absent, Items, Batches
<1>5. PlaceOK'
  BY <1>1 DEF PlaceOK, Idle
<1>6. FaultyOK' /\ NoSpinner'
  BY <1>1, <1>3 DEF FaultyOK, NoSpinner, Absent, Items, Batches
<1>7. QED BY <1>2, <1>4, <1>5, <1>6 DEF RenderInv

\* Write item by item.
LEMMA WriteGives ==
    ASSUME Types, NEW I, NEW s \in Status, Write(I, s)
    PROVE  /\ rows' \in [Items -> Status]
           /\ own' \in [Items -> Status]
           /\ dict' \in [Items -> Dicts]
           /\ \A i \in Items :
                /\ rows'[i] = IF i \in I THEN s ELSE rows[i]
                /\ own'[i] = IF i \in I THEN s ELSE own[i]
                /\ dict'[i].live = dict[i].live
                /\ dict'[i].status = IF i \in I /\ dict[i].live THEN s ELSE dict[i].status
                /\ ~(i \in I) => dict'[i] = dict[i]
<1>1. /\ own' = [i \in Items |-> IF i \in I THEN s ELSE own[i]]
      /\ dict' = [i \in Items |-> IF i \in I /\ dict[i].live
                                  THEN [dict[i] EXCEPT !.status = s] ELSE dict[i]]
      /\ rows' = [i \in Items |-> IF i \in I THEN s ELSE rows[i]]
  BY DEF Write
<1>2. \A i \in Items : /\ rows[i] \in Status /\ own[i] \in Status
                       /\ dict[i] \in Dicts
  BY DEF Types
<1>3. rows' \in [Items -> Status] /\ own' \in [Items -> Status]
  BY <1>1, <1>2
<1>4. ASSUME NEW i \in Items
      PROVE  /\ dict'[i] \in Dicts
             /\ dict'[i].live = dict[i].live
             /\ dict'[i].status = IF i \in I /\ dict[i].live THEN s ELSE dict[i].status
             /\ ~(i \in I) => dict'[i] = dict[i]
  <2>1. dict'[i] = IF i \in I /\ dict[i].live THEN [dict[i] EXCEPT !.status = s] ELSE dict[i]
    BY <1>1
  <2>2. dict[i] \in Dicts
    BY <1>2
  <2>3. QED BY <2>1, <2>2 DEF Dicts
<1>5. dict' \in [Items -> Dicts]
  BY <1>1, <1>4
<1>6. QED BY <1>1, <1>3, <1>4, <1>5

\* The parts of the invariant that a write of held items keeps, whatever it writes.
LEMMA WriteKeeps ==
    ASSUME RenderInv, NEW I, NEW s \in Status \ {"none"}, Write(I, s), UNCHANGED calls,
           \A i \in Items : i \in I => own[i] # "none", worker # Idle, regime' = regime
    PROVE  /\ rows' \in [Items -> Status]
           /\ own' \in [Items -> Status]
           /\ dict' \in [Items -> Dicts]
           /\ CrossOK' /\ FaultyOK' /\ NoSpinner'
<1>1. /\ rows' \in [Items -> Status] /\ own' \in [Items -> Status]
      /\ dict' \in [Items -> Dicts]
      /\ \A i \in Items :
           /\ rows'[i] = IF i \in I THEN s ELSE rows[i]
           /\ own'[i] = IF i \in I THEN s ELSE own[i]
           /\ dict'[i].live = dict[i].live
           /\ dict'[i].status = IF i \in I /\ dict[i].live THEN s ELSE dict[i].status
           /\ ~(i \in I) => dict'[i] = dict[i]
      /\ UNCHANGED <<read, deleting, rerun, crossed>>
  BY WriteGives DEF RenderInv, calls
<1>2. CrossOK'
  <2>1. ASSUME NEW i \in Items
        PROVE  /\ dict'[i].live => dict'[i].status # "none"
               /\ /\ rows'[i] = "none" \/ i \in deleting'.items
                  /\ dict'[i].status # "none" \/ read'.of = i \/ rerun' = i
                  => i \in crossed'
    BY <1>1, <2>1 DEF RenderInv, CrossOK
  <2>2. QED BY <2>1 DEF CrossOK, Items, Batches
<1>3. FaultyOK'
  <2>1. ASSUME regime = "faulty"
        PROVE  read' = NoRow /\ deleting' = None /\ rerun' = NoItem
    BY <1>1, <2>1 DEF RenderInv, FaultyOK
  <2>2. ASSUME regime = "faulty", NEW i \in Items
        PROVE  /\ dict'[i].status = "queued" => rows'[i] \in {"queued", "none"}
               /\ read'.of = i /\ read'.status = "queued" => rows'[i] \in {"queued", "none"}
               /\ own'[i] # "none" => dict'[i].live /\ rows'[i] \in {own'[i], "none"}
    <3>1. /\ dict[i].status = "queued" => rows[i] \in {"queued", "none"}
          /\ own[i] # "none" => dict[i].live /\ rows[i] \in {own[i], "none"}
      BY <2>2 DEF RenderInv, FaultyOK
    <3>2. read'.status # "queued"
      BY <2>1, <2>2 DEF NoRow
    <3>3. QED BY <1>1, <3>1, <3>2
  <2>3. QED BY <2>1, <2>2 DEF FaultyOK, Items, Batches
<1>4. NoSpinner'
  <2>1. \A i \in Items : regime = "busy" /\ rows'[i] = "running" => own'[i] = "running"
    BY <1>1 DEF RenderInv, NoSpinner
  <2>2. QED BY <2>1 DEF NoSpinner, Items, Batches
<1>5. QED BY <1>1, <1>2, <1>3, <1>4

----------------------------------------------------------------------------
LEMMA GetKeeps ==
    ASSUME RenderInv, WorkerGet, rerun = NoItem, regime' = regime
    PROVE  RenderInv'
<1>1. /\ worker = Idle /\ queue # <<>> /\ queue' = Tail(queue)
      /\ UNCHANGED <<made, rows, read, deleting, rerun, crossed>> /\ Quiet
  BY DEF WorkerGet, calls
<1>2. /\ Types /\ queue' \in Seq(Nat) /\ Head(queue) \in Nat
  <2>1. Types
    BY DEF RenderInv
  <2>2. QED BY <1>1, <2>1 DEF Types
<1>3. CASE UNCHANGED <<dict, own, worker>>
  <2>1. Types'
    BY <1>1, <1>2, <1>3 DEF Types, Items, Batches
  <2>2. CrossOK' /\ OwnOK' /\ PlaceOK'
    BY <1>1, <1>3 DEF RenderInv, CrossOK, OwnOK, PlaceOK, Group, ItemsOf, Items, Batches,
                      Idle
  <2>3. FaultyOK' /\ NoSpinner'
    BY <1>1, <1>3 DEF RenderInv, FaultyOK, NoSpinner, Items, Batches, Idle, NoRow, None
  <2>4. QED BY <2>1, <2>2, <2>3 DEF RenderInv
<1> DEFINE I == {i \in ItemsOf(Head(queue)) : dict[i].status = "queued"}
<1>4. ASSUME worker' = [Idle EXCEPT !.batch = Head(queue), !.stage = "next",
                                    !.left = {i[2] : i \in I}],
             own' = [i \in Items |-> IF i \in I THEN "queued" ELSE "none"],
             dict' = [i \in Items |-> [dict[i] EXCEPT !.live = i \in I]]
      PROVE  RenderInv'
  <2>1. \A i \in Items : own[i] = "none"
    BY <1>1 DEF RenderInv, OwnOK
  <2>2. \A i \in I : i \in Items /\ i[1] = Head(queue) /\ dict[i].status = "queued"
    BY DEF ItemsOf
  <2>3. {i[2] : i \in I} \subseteq Sources
    BY <2>2, ItemFields
  <2> HIDE DEF I
  <2>4. /\ worker'.batch = Head(queue) /\ worker'.stage = "next" /\ worker' \in Loop
        /\ worker' # Idle
    BY <1>2, <1>4, <2>3 DEF Idle, Loop
  <2>5. /\ \A i \in Items : own'[i] = IF i \in I THEN "queued" ELSE "none"
        /\ own' \in [Items -> Status]
    BY <1>4 DEF Status
  <2>6. ASSUME NEW i \in Items
        PROVE  /\ dict'[i] \in Dicts /\ dict'[i].status = dict[i].status
               /\ i \in I => dict'[i].live
               /\ ~(i \in I) => dict'[i].live = FALSE
    <3>1. dict[i] \in Dicts
      BY <1>2 DEF Types
    <3>2. PICK b \in BOOLEAN : /\ dict'[i] = [dict[i] EXCEPT !.live = b]
                               /\ i \in I => b = TRUE
                               /\ ~(i \in I) => b = FALSE
      <4>1. dict'[i] = [dict[i] EXCEPT !.live = i \in I]
        BY <1>4
      <4>2. CASE i \in I
        <5>1. (i \in I) = TRUE
          BY <4>2
        <5>2. [dict[i] EXCEPT !.live = i \in I] = [dict[i] EXCEPT !.live = TRUE]
          BY <5>1, Zenon
        <5>3. QED BY <4>1, <4>2, <5>2
      <4>3. CASE ~(i \in I)
        <5>1. (i \in I) = FALSE
          BY <4>3
        <5>2. [dict[i] EXCEPT !.live = i \in I] = [dict[i] EXCEPT !.live = FALSE]
          BY <5>1, Zenon
        <5>3. QED BY <4>1, <4>3, <5>2
      <4>4. QED BY <4>2, <4>3
    <3>3. /\ dict'[i] \in Dicts /\ dict'[i].status = dict[i].status
          /\ dict'[i].live = b
      BY <3>1, <3>2 DEF Dicts
    <3>4. QED BY <3>2, <3>3
  <2>7. dict' \in [Items -> Dicts]
    BY <1>4, <2>6
  <2>8. Types'
    BY <1>1, <1>2, <2>4, <2>5, <2>7 DEF Types, Items, Batches
  <2>9. CrossOK'
    <3>1. ASSUME NEW i \in Items
          PROVE  /\ dict'[i].live => dict'[i].status # "none"
                 /\ /\ rows'[i] = "none" \/ i \in deleting'.items
                    /\ dict'[i].status # "none" \/ read'.of = i \/ rerun' = i
                    => i \in crossed'
      BY <1>1, <2>2, <2>6 DEF RenderInv, CrossOK
    <3>2. QED BY <3>1 DEF CrossOK, Items, Batches
  <2>10. OwnOK'
    <3>1. ASSUME NEW i \in Items, own'[i] # "none"
          PROVE  i[1] = worker'.batch /\ own'[i] = "queued"
      BY <2>2, <2>4, <2>5, <3>1
    <3>2. QED BY <2>4, <3>1 DEF OwnOK, Idle, Items, Batches
  <2>11. PlaceOK'
    BY <2>4 DEF PlaceOK
  <2>12. FaultyOK'
    <3>1. ASSUME regime = "faulty", NEW i \in Items
          PROVE  /\ dict'[i].status = "queued" => rows'[i] \in {"queued", "none"}
                 /\ read'.status # "queued"
                 /\ own'[i] # "none" => dict'[i].live /\ rows'[i] \in {own'[i], "none"}
      <4>1. dict[i].status = "queued" => rows[i] \in {"queued", "none"}
        BY <3>1 DEF RenderInv, FaultyOK
      <4>2. i \in I => rows[i] \in {"queued", "none"}
        BY <2>2, <4>1
      <4>3. read'.status # "queued"
        BY <1>1, <3>1 DEF Quiet, NoRow
      <4>4. QED BY <1>1, <2>5, <2>6, <4>1, <4>2, <4>3
    <3>2. regime = "faulty" => read' = NoRow /\ deleting' = None /\ rerun' = NoItem
      BY <1>1 DEF Quiet
    <3>3. QED BY <3>1, <3>2 DEF FaultyOK, Items, Batches
  <2>13. NoSpinner'
    <3>1. \A i \in Items : regime = "busy" => rows'[i] # "running"
      BY <1>1, <2>1 DEF RenderInv, NoSpinner
    <3>2. QED BY <3>1 DEF NoSpinner, Items, Batches
  <2>14. QED BY <2>8, <2>9, <2>10, <2>11, <2>12, <2>13 DEF RenderInv
<1>5. QED BY <1>3, <1>4 DEF WorkerGet

LEMMA EndBatchKeeps ==
    ASSUME RenderInv, EndBatch, regime' = regime
    PROVE  RenderInv'
<1>1. /\ worker.stage = "next" /\ worker' = Idle
      /\ own' = [i \in Items |-> "none"]
      /\ dict' = [i \in Items |-> [dict[i] EXCEPT !.live = FALSE]]
      /\ UNCHANGED <<made, rows, queue, read, deleting, rerun, crossed>>
  BY DEF EndBatch, calls
<1>2. ASSUME NEW i \in Items
      PROVE  /\ own'[i] = "none" /\ dict'[i] \in Dicts
             /\ dict'[i].status = dict[i].status /\ dict'[i].live = FALSE
  <2>1. dict[i] \in Dicts
    BY DEF RenderInv, Types
  <2>2. dict'[i] = [dict[i] EXCEPT !.live = FALSE]
    BY <1>1
  <2>3. QED BY <1>1, <2>1, <2>2 DEF Dicts
<1>3. Types'
  <2>1. Idle \in Loop /\ "none" \in Status
    BY DEF Idle, Loop, Status
  <2>2. dict' \in [Items -> Dicts]
    BY <1>1, <1>2
  <2>3. QED BY <1>1, <2>1, <2>2 DEF RenderInv, Types, Items, Batches
<1>4. CrossOK'
  <2>1. ASSUME NEW i \in Items
        PROVE  /\ dict'[i].live = FALSE
               /\ /\ rows'[i] = "none" \/ i \in deleting'.items
                  /\ dict'[i].status # "none" \/ read'.of = i \/ rerun' = i
                  => i \in crossed'
    BY <1>1, <1>2 DEF RenderInv, CrossOK
  <2>2. QED BY <2>1 DEF CrossOK, Items, Batches
<1>5. OwnOK' /\ PlaceOK'
  BY <1>1, <1>2 DEF OwnOK, PlaceOK, Idle, Items, Batches
<1>6. FaultyOK'
  <2>1. worker # Idle
    BY <1>1 DEF Idle
  <2>2. ASSUME regime = "faulty", NEW i \in Items
        PROVE  /\ dict'[i].status = "queued" => rows'[i] \in {"queued", "none"}
               /\ read'.status # "queued" /\ own'[i] = "none"
    <3>1. dict[i].status = "queued" => rows[i] \in {"queued", "none"}
      BY <2>2 DEF RenderInv, FaultyOK
    <3>2. read' = NoRow
      BY <1>1, <2>1, <2>2 DEF RenderInv, FaultyOK
    <3>3. read'.status = "none"
      BY <3>2 DEF NoRow
    <3>4. QED BY <1>1, <1>2, <3>1, <3>3
  <2>3. QED BY <1>1, <2>2 DEF FaultyOK, Items, Batches
<1>7. NoSpinner'
  <2>1. \A i \in Items : own[i] # "running"
    BY <1>1 DEF RenderInv, OwnOK
  <2>2. \A i \in Items : regime = "busy" => rows'[i] # "running"
    BY <1>1, <2>1 DEF RenderInv, NoSpinner
  <2>3. QED BY <2>2 DEF NoSpinner, Items, Batches
<1>8. QED BY <1>3, <1>4, <1>5, <1>6, <1>7 DEF RenderInv

----------------------------------------------------------------------------
\* What a write by the worker does, in the terms of the invariant.
Wrote(I, s) ==
    /\ \A i \in Items : own'[i] = IF i \in I THEN s ELSE own[i]
    /\ \A i \in Items : rows'[i] = IF i \in I THEN s ELSE rows[i]

LEMMA StepKeeps ==
    ASSUME RenderInv, NEW I, NEW s \in Status \ {"none"}, Write(I, s),
           \A i \in Items : i \in I => own[i] # "none", regime' = regime,
           UNCHANGED <<made, queue, calls>>, worker.stage # "idle", worker' \in Loop,
           Wrote(I, s) => OwnOK' /\ PlaceOK'
    PROVE  RenderInv'
<1>1. Types /\ s \in Status /\ worker # Idle
  BY DEF RenderInv, Idle
<1>2. Wrote(I, s)
  BY <1>1, WriteGives DEF Wrote
<1>3. /\ rows' \in [Items -> Status] /\ own' \in [Items -> Status]
      /\ dict' \in [Items -> Dicts] /\ CrossOK' /\ FaultyOK' /\ NoSpinner'
  BY <1>1, WriteKeeps
<1>4. Types'
  BY <1>1, <1>3 DEF Types, calls, Items, Batches
<1>5. QED BY <1>2, <1>3, <1>4 DEF RenderInv

LEMMA StartSourceKeeps ==
    ASSUME BatchRenderAssumption, RenderInv, StartSource, regime' = regime
    PROVE  RenderInv'
<1> DEFINE s == Min(worker.left)
           I == {i \in ItemsOf(worker.batch) : own[i] # "none" /\ i[2] = s}
<1>1. /\ worker.stage = "next" /\ worker.left # {} /\ Write(I, "running")
      /\ worker' = [worker EXCEPT !.stage = "dub", !.src = s, !.left = @ \ {s}]
      /\ UNCHANGED <<made, queue, calls>>
  BY DEF StartSource
<1>2. worker \in Loop /\ worker.left \subseteq Sources /\ worker.todo \subseteq Templates
  BY DEF RenderInv, Types, Loop
<1>3. s \in worker.left /\ s \in Nat
  BY <1>1, <1>2, MinIn, BatchRenderAssumption
<1>4. \A i \in Items : i \in I <=> (i[1] = worker.batch /\ own[i] # "none" /\ i[2] = s)
  BY DEF ItemsOf
<1>5. \A i \in Items : own[i] # "none" => i[1] = worker.batch
  BY DEF RenderInv, OwnOK
<1> HIDE DEF I, s
<1>6. /\ worker' \in Loop /\ worker' # Idle /\ worker'.stage = "dub"
      /\ worker'.batch = worker.batch /\ worker'.src = s
      /\ worker'.left = worker.left \ {s}
  BY <1>1, <1>2, <1>3 DEF Loop, Idle
<1>7. ASSUME Wrote(I, "running") PROVE OwnOK' /\ PlaceOK'
  <2>1. ASSUME NEW i \in Items, own'[i] # "none"
        PROVE  /\ i[1] = worker'.batch
               /\ i[2] \in worker'.left => own'[i] = "queued"
               /\ own'[i] = "running" => i[2] = worker'.src
    <3>1. own[i] # "none"
      BY <1>4, <1>7, <2>1 DEF Wrote
    <3>2. i[1] = worker.batch /\ (i[2] \in worker.left => own[i] = "queued")
          /\ own[i] # "running"
      BY <1>1, <3>1 DEF RenderInv, OwnOK
    <3>3. own'[i] = IF i[2] = s THEN "running" ELSE own[i]
      BY <1>4, <1>7, <3>1, <3>2 DEF Wrote
    <3>4. QED BY <1>6, <3>2, <3>3
  <2>2. OwnOK'
    BY <1>6, <2>1 DEF OwnOK, Idle, Items, Batches
  <2>3. ASSUME NEW i \in Items, i[1] = worker'.batch, own'[i] # "none",
               i[2] = worker'.src
        PROVE  own'[i] = "running"
    BY <1>4, <1>6, <1>7, <2>3 DEF Wrote
  <2>4. PlaceOK'
    BY <1>3, <1>6, <2>3 DEF PlaceOK, Group, ItemsOf, Items, Batches
  <2>5. QED BY <2>2, <2>4
<1>8. "running" \in Status \ {"none"}
  BY DEF Status
<1>9. QED BY <1>1, <1>4, <1>6, <1>7, <1>8, StepKeeps

\* The items of the source at hand are the ones held under its number.
LEMMA GroupItems ==
    ASSUME RenderInv
    PROVE  /\ \A i \in Items :
                i \in Group <=> (own[i] # "none" /\ i[2] = worker.src)
           /\ \A i \in Group : i \in Items
BY DEF Group, ItemsOf, RenderInv, OwnOK

LEMMA DubbedKeeps ==
    ASSUME RenderInv, Dubbed, regime' = regime
    PROVE  RenderInv'
<1>1. /\ worker.stage = "dub" /\ Write(Group, "running")
      /\ worker' = [worker EXCEPT !.stage = "item", !.todo = {i[3] : i \in Group}]
      /\ UNCHANGED <<made, queue, calls>>
  BY DEF Dubbed
<1>2. PICK T : T = {i[3] : i \in Group}
  OBVIOUS
<1>3. /\ \A i \in Group : i \in Items /\ i[3] \in T
      /\ \A t \in T : \E i \in Group : i[3] = t
      /\ T \subseteq Templates
  BY <1>2, GroupItems, ItemFields
<1>4. worker \in Loop
  BY DEF RenderInv, Types
<1>5. /\ worker' \in Loop /\ worker' # Idle /\ worker'.stage = "item"
      /\ worker'.batch = worker.batch /\ worker'.src = worker.src
      /\ worker'.left = worker.left /\ worker'.todo = T
  BY <1>1, <1>2, <1>3, <1>4 DEF Loop, Idle
<1>6. \A i \in Items : i \in Group <=> (own[i] # "none" /\ i[2] = worker.src)
  BY GroupItems
<1>7. \A i \in Group : i \in Items /\ own[i] = "running" /\ i[1] = worker.batch
                       /\ i[2] = worker.src
  BY <1>1 DEF RenderInv, PlaceOK, Group, ItemsOf
<1>8. ASSUME Wrote(Group, "running") PROVE OwnOK' /\ PlaceOK'
  <2>1. \A i \in Items : own'[i] = own[i]
    BY <1>7, <1>8 DEF Wrote
  <2>2. ASSUME NEW i \in Items, own'[i] # "none"
        PROVE  /\ i[1] = worker'.batch
               /\ i[2] \in worker'.left => own'[i] = "queued"
               /\ own'[i] = "running" => i[2] = worker'.src /\ i[3] \in worker'.todo
    <3>1. /\ i[1] = worker.batch
          /\ i[2] \in worker.left => own[i] = "queued"
          /\ own[i] = "running" => i[2] = worker.src
      BY <2>1, <2>2 DEF RenderInv, OwnOK
    <3>2. own[i] = "running" => i[3] \in T
      BY <1>3, <1>6, <3>1
    <3>3. QED BY <1>5, <2>1, <3>1, <3>2
  <2>3. OwnOK'
    BY <1>5, <2>2 DEF OwnOK, Idle, Items, Batches
  <2>4. ASSUME NEW t \in T
        PROVE  /\ <<worker.batch, worker.src, t>> \in Items
               /\ own'[<<worker.batch, worker.src, t>>] = "running"
    <3>1. PICK i \in Group : i[3] = t
      BY <1>3
    <3>2. i = <<worker.batch, worker.src, t>>
      BY <1>7, <3>1, ItemFields
    <3>3. QED BY <1>7, <2>1, <3>2
  <2>5. PlaceOK'
    BY <1>1, <1>5, <2>4 DEF RenderInv, PlaceOK, Items, Batches
  <2>6. QED BY <2>3, <2>5
<1>9. "running" \in Status \ {"none"}
  BY DEF Status
<1>10. \A i \in Items : i \in Group => own[i] # "none"
  BY <1>6
<1>11. QED BY <1>1, <1>5, <1>8, <1>9, <1>10, StepKeeps

\* The item at hand is running and among those still to render.
LEMMA CurrentHeld ==
    ASSUME BatchRenderAssumption, RenderInv,
           worker.stage \in {"item", "render"}, worker.todo # {}
    PROVE  /\ Current \in Items /\ own[Current] = "running"
           /\ Current[1] = worker.batch /\ Current[2] = worker.src
           /\ Current[3] = Min(worker.todo)
           /\ Current[3] \in worker.todo
<1>1. worker.todo \subseteq Nat
  BY BatchRenderAssumption DEF RenderInv, Types, Loop
<1>2. Min(worker.todo) \in worker.todo
  BY <1>1, MinIn
<1>3. QED BY <1>2 DEF RenderInv, PlaceOK, Current

LEMMA FailKeeps ==
    ASSUME RenderInv, worker.stage \in {"dub", "item", "render"}, FailGroup,
           UNCHANGED <<made, queue, calls>>, regime' = regime
    PROVE  RenderInv'
<1> DEFINE I == {i \in Group : own[i] # "done"}
<1>1. /\ Write(I, "failed")
      /\ worker' = [worker EXCEPT !.stage = "next", !.todo = {}]
  BY DEF FailGroup
<1>2. \A i \in Items : i \in I <=> (own[i] # "none" /\ i[2] = worker.src /\ own[i] # "done")
  BY GroupItems
<1> HIDE DEF I
<1>3. worker \in Loop
  BY DEF RenderInv, Types
<1>4. /\ worker' \in Loop /\ worker' # Idle /\ worker'.stage = "next"
      /\ worker'.batch = worker.batch /\ worker'.left = worker.left
      /\ worker'.todo = {}
  BY <1>1, <1>3 DEF Loop, Idle
<1>5. ASSUME Wrote(I, "failed") PROVE OwnOK' /\ PlaceOK'
  <2>1. ASSUME NEW i \in Items, own'[i] # "none"
        PROVE  /\ i[1] = worker'.batch
               /\ i[2] \in worker'.left => own'[i] = "queued"
               /\ own'[i] # "running"
    <3>1. own[i] # "none"
      BY <1>2, <1>5, <2>1 DEF Wrote
    <3>2. /\ i[1] = worker.batch
          /\ i[2] \in worker.left => own[i] = "queued"
          /\ own[i] = "running" => i[2] = worker.src
      BY <3>1 DEF RenderInv, OwnOK
    <3>3. own'[i] # "running"
      BY <1>2, <1>5, <3>1, <3>2 DEF Wrote
    <3>4. ~(worker.src \in worker.left)
      BY DEF RenderInv, PlaceOK
    <3>5. i[2] \in worker.left => own'[i] = own[i]
      BY <1>2, <1>5, <3>4 DEF Wrote
    <3>6. QED BY <1>4, <3>2, <3>3, <3>5
  <2>2. OwnOK'
    BY <1>4, <2>1 DEF OwnOK, Idle, Items, Batches
  <2>3. PlaceOK'
    BY <1>4 DEF PlaceOK
  <2>4. QED BY <2>2, <2>3
<1>6. "failed" \in Status \ {"none"}
  BY DEF Status, Final
<1>7. \A i \in Items : i \in I => own[i] # "none"
  BY <1>2
<1>8. QED BY <1>1, <1>4, <1>5, <1>6, <1>7, StepKeeps

LEMMA StartItemKeeps ==
    ASSUME BatchRenderAssumption, RenderInv, StartItem, regime' = regime
    PROVE  RenderInv'
<1>1. worker.stage = "item" /\ UNCHANGED <<made, queue, calls>> /\ worker \in Loop
  BY DEF StartItem, RenderInv, Types
<1>2. CASE /\ worker.todo = {} /\ UNCHANGED <<items, own>>
           /\ worker' = [worker EXCEPT !.stage = "next"]
  <2>1. /\ worker' \in Loop /\ worker' # Idle /\ worker'.stage = "next"
        /\ worker'.batch = worker.batch /\ worker'.left = worker.left
    BY <1>1, <1>2 DEF Loop, Idle
  <2>2. UNCHANGED <<made, queue, rows, dict, own>>
    BY <1>1, <1>2 DEF items
  <2>3. Types' /\ CrossOK' /\ FaultyOK' /\ NoSpinner'
    <3>1. UNCHANGED <<read, deleting, rerun, crossed>> /\ worker # Idle
      BY <1>1 DEF calls, Idle
    <3>2. QED
      BY <2>1, <2>2, <3>1 DEF RenderInv, Types, CrossOK, FaultyOK, NoSpinner, Items,
                              Batches
  <2>4. ASSUME NEW i \in Items, own[i] # "none"
        PROVE  /\ i[1] = worker'.batch
               /\ i[2] \in worker'.left => own[i] = "queued"
               /\ own[i] # "running"
    BY <1>1, <1>2, <2>1, <2>4 DEF RenderInv, OwnOK
  <2>5. OwnOK'
    BY <2>1, <2>2, <2>4 DEF OwnOK, Idle, Items, Batches
  <2>6. PlaceOK'
    BY <2>1 DEF PlaceOK
  <2>7. QED BY <2>3, <2>5, <2>6 DEF RenderInv
<1>3. CASE /\ worker.todo # {} /\ Write({Current}, "running")
           /\ worker' = [worker EXCEPT !.stage = "render"]
  <2>1. /\ worker' \in Loop /\ worker' # Idle /\ worker'.stage = "render"
        /\ worker'.batch = worker.batch /\ worker'.left = worker.left
        /\ worker'.src = worker.src /\ worker'.todo = worker.todo
    BY <1>1, <1>3 DEF Loop, Idle
  <2>2. own[Current] = "running" /\ Current \in Items
    BY <1>1, <1>3, CurrentHeld
  <2>3. ASSUME Wrote({Current}, "running") PROVE OwnOK' /\ PlaceOK'
    <3>1. \A i \in Items : own'[i] = own[i]
      BY <2>2, <2>3 DEF Wrote
    <3>2. ASSUME NEW i \in Items, own'[i] # "none"
          PROVE  /\ i[1] = worker'.batch
                 /\ i[2] \in worker'.left => own'[i] = "queued"
                 /\ own'[i] = "running" => i[2] = worker'.src /\ i[3] \in worker'.todo
      BY <1>1, <2>1, <3>1, <3>2 DEF RenderInv, OwnOK
    <3>3. OwnOK'
      BY <2>1, <3>2 DEF OwnOK, Idle, Items, Batches
    <3>4. \A t \in worker.todo : /\ <<worker.batch, worker.src, t>> \in Items
                                 /\ own'[<<worker.batch, worker.src, t>>] = "running"
      BY <1>1, <3>1 DEF RenderInv, PlaceOK
    <3>5. PlaceOK'
      BY <1>1, <1>3, <2>1, <3>4 DEF RenderInv, PlaceOK, Items, Batches
    <3>6. QED BY <3>3, <3>5
  <2>4. /\ "running" \in Status \ {"none"}
        /\ \A i \in Items : i \in {Current} => own[i] # "none"
    BY <2>2 DEF Status
  <2>5. QED BY <1>1, <1>3, <2>1, <2>3, <2>4, StepKeeps
<1>4. CASE FailGroup
  BY <1>1, <1>4, FailKeeps
<1>5. QED BY <1>2, <1>3, <1>4 DEF StartItem

LEMMA RenderedKeeps ==
    ASSUME BatchRenderAssumption, RenderInv, Rendered, regime' = regime
    PROVE  RenderInv'
<1>1. /\ worker.stage = "render" /\ UNCHANGED <<made, queue, calls>> /\ worker \in Loop
      /\ Write({Current}, "done") /\ worker.todo # {}
      /\ worker' = [worker EXCEPT !.stage = "item", !.todo = @ \ {Current[3]}]
  BY DEF Rendered, RenderInv, Types, PlaceOK
<1>2. /\ Current \in Items /\ own[Current] = "running"
      /\ Current[1] = worker.batch /\ Current[2] = worker.src
      /\ Current[3] \in worker.todo
  BY <1>1, CurrentHeld
<1>3. PICK c : c = Current
  OBVIOUS
<1>4. /\ worker' \in Loop /\ worker' # Idle /\ worker'.stage = "item"
      /\ worker'.batch = worker.batch /\ worker'.left = worker.left
      /\ worker'.src = worker.src /\ worker'.todo = worker.todo \ {c[3]}
  BY <1>1, <1>3 DEF Loop, Idle
<1>5. c \in Items /\ own[c] = "running" /\ c[1] = worker.batch /\ c[2] = worker.src
  BY <1>2, <1>3
<1>6. ASSUME Wrote({Current}, "done") PROVE OwnOK' /\ PlaceOK'
  <2>1. \A i \in Items : own'[i] = IF i = c THEN "done" ELSE own[i]
    BY <1>3, <1>6 DEF Wrote
  <2>2. ASSUME NEW i \in Items, own'[i] # "none"
        PROVE  /\ i[1] = worker'.batch
               /\ i[2] \in worker'.left => own'[i] = "queued"
               /\ own'[i] = "running" => i[2] = worker'.src /\ i[3] \in worker'.todo
    <3>1. own[i] # "none"
      BY <1>5, <2>1, <2>2
    <3>2. /\ i[1] = worker.batch
          /\ i[2] \in worker.left => own[i] = "queued"
          /\ own[i] = "running" => i[2] = worker.src /\ i[3] \in worker.todo
      BY <1>1, <3>1 DEF RenderInv, OwnOK
    <3>3. CASE i = c
      <4>1. ~(i[2] \in worker.left)
        BY <1>5, <3>2, <3>3
      <4>2. QED BY <1>4, <2>1, <3>2, <3>3, <4>1
    <3>4. CASE i # c
      <4>1. own[i] = "running" => i[3] # c[3]
        BY <1>5, <3>2, <3>4, ItemFields
      <4>2. QED BY <1>4, <2>1, <3>2, <3>4, <4>1
    <3>5. QED BY <3>3, <3>4
  <2>3. OwnOK'
    BY <1>4, <2>2 DEF OwnOK, Idle, Items, Batches
  <2>4. ASSUME NEW t \in worker'.todo
        PROVE  /\ <<worker.batch, worker.src, t>> \in Items
               /\ own'[<<worker.batch, worker.src, t>>] = "running"
    <3>1. t \in worker.todo /\ t # c[3]
      BY <1>4
    <3>2. PICK k : k = <<worker.batch, worker.src, t>>
      OBVIOUS
    <3>3. k \in Items /\ own[k] = "running" /\ k[3] = t
      BY <1>1, <3>1, <3>2 DEF RenderInv, PlaceOK
    <3>4. QED BY <2>1, <3>1, <3>2, <3>3
  <2>5. PlaceOK'
    BY <1>1, <1>4, <2>4 DEF RenderInv, PlaceOK, Items, Batches
  <2>6. QED BY <2>3, <2>5
<1>7. /\ "done" \in Status \ {"none"}
      /\ \A i \in Items : i \in {Current} => own[i] # "none"
  BY <1>2 DEF Status, Final
<1>8. QED BY <1>1, <1>4, <1>6, <1>7, StepKeeps

LEMMA ResetKeeps ==
    ASSUME RenderInv, PoolReset, regime' = regime
    PROVE  RenderInv'
<1>1. /\ worker.stage = "dub" /\ worker' = [worker EXCEPT !.stage = "dead"]
      /\ UNCHANGED <<made, queue, rows, dict, own>> /\ worker \in Loop
  BY DEF PoolReset, items, RenderInv, Types
<1>2. /\ worker' \in Loop /\ worker' # Idle /\ worker'.stage = "dead"
      /\ worker'.batch = worker.batch /\ worker'.left = worker.left
      /\ worker'.src = worker.src
  BY <1>1 DEF Loop, Idle
<1>3. Types' /\ CrossOK' /\ FaultyOK' /\ NoSpinner'
  <2>1. UNCHANGED <<read, deleting, rerun, crossed>> /\ worker # Idle
    BY <1>1 DEF PoolReset, calls, Idle
  <2>2. QED
    BY <1>1, <1>2, <2>1 DEF RenderInv, Types, CrossOK, FaultyOK, NoSpinner, Items, Batches
<1>4. ASSUME NEW i \in Items, own[i] # "none"
      PROVE  /\ i[1] = worker'.batch
             /\ i[2] \in worker'.left => own[i] = "queued"
             /\ own[i] = "running" => i[2] = worker'.src
  BY <1>1, <1>2, <1>4 DEF RenderInv, OwnOK
<1>5. OwnOK'
  BY <1>1, <1>2, <1>4 DEF OwnOK, Idle, Items, Batches
<1>6. PlaceOK'
  BY <1>2 DEF PlaceOK
<1>7. QED BY <1>3, <1>5, <1>6 DEF RenderInv

LEMMA NextRender ==
    ASSUME BatchRenderAssumption, RenderInv,
           [Next /\ UNCHANGED regime]_<<vars, regime>>
    PROVE  RenderInv'
<1>1. CASE UNCHANGED <<vars, regime>>
  <2>1. UNCHANGED <<regime, made, rows, dict, own, queue, worker, read, deleting, rerun,
                    crossed>>
    BY <1>1 DEF vars, calls, items
  <2>2. Types' /\ CrossOK'
    BY <2>1 DEF RenderInv, Types, CrossOK, Items, Batches
  <2>3. OwnOK' /\ PlaceOK' /\ FaultyOK' /\ NoSpinner'
    BY <2>1 DEF RenderInv, OwnOK, PlaceOK, FaultyOK, NoSpinner, Group, ItemsOf, Items,
                Batches, Idle
  <2>4. QED BY <2>2, <2>3 DEF RenderInv
<1>2. CASE Next /\ regime' = regime
  <2>1. CASE Requests
    BY <1>2, <2>1, RequestKeeps
  <2>2. CASE Raises
    <3>1. /\ worker.stage \in {"dub", "item", "render"} /\ FailGroup
          /\ UNCHANGED <<made, queue, calls>>
      BY <2>2 DEF Raises
    <3>2. QED BY <1>2, <3>1, FailKeeps
  <2>3. Requests \/ Restart \/ Worker \/ PoolReset
    BY <1>2 DEF Next, Requests
  <2>4. QED
    BY <1>2, <2>1, <2>2, <2>3, RestartKeeps, GetKeeps, EndBatchKeeps, StartSourceKeeps, DubbedKeeps,
       StartItemKeeps, RenderedKeeps, ResetKeeps DEF Worker
<1>3. QED BY <1>1, <1>2

LEMMA InvariantRender == ASSUME BatchRenderAssumption PROVE Spec => []RenderInv
<1>1. Init => RenderInv
  BY InitRender
<1>2. RenderInv /\ [Next /\ UNCHANGED regime]_<<vars, regime>> => RenderInv'
  BY NextRender
<1>3. QED BY <1>1, <1>2, PTL DEF Spec

----------------------------------------------------------------------------
\* The worker changes the row of an item it holds only; one that has ended for the
\* worker keeps what its dict says.
LEMMA WorkerTouches ==
    ASSUME BatchRenderAssumption, RenderInv, Worker,
           NEW i \in Items, rows'[i] # rows[i]
    PROVE  own[i] # "none" /\ (own[i] \in Final => rows'[i] = own[i])
<1>1. Types /\ {"running", "failed", "done"} \subseteq Status
  BY DEF RenderInv, Status, Final
<1>2. ASSUME FailGroup
      PROVE  own[i] # "none" /\ (own[i] \in Final => rows'[i] = own[i])
  <2> DEFINE I == {k \in Group : own[k] # "done"}
  <2>1. Write(I, "failed")
    BY <1>2 DEF FailGroup
  <2>2. rows'[i] = IF i \in I THEN "failed" ELSE rows[i]
    BY <1>1, <2>1, WriteGives
  <2>3. i \in I /\ rows'[i] = "failed"
    BY <2>2
  <2>4. own[i] # "none" /\ own[i] # "done"
    BY <2>3 DEF Group
  <2>5. QED BY <2>3, <2>4 DEF Final
<1>3. CASE StartSource
  <2> DEFINE s == Min(worker.left)
             I == {k \in ItemsOf(worker.batch) : own[k] # "none" /\ k[2] = s}
  <2>1. Write(I, "running") /\ worker.left # {}
    BY <1>3 DEF StartSource
  <2>2. rows'[i] = IF i \in I THEN "running" ELSE rows[i]
    BY <1>1, <2>1, WriteGives
  <2>3. own[i] # "none" /\ i[2] = s
    BY <2>2
  <2>4. s \in worker.left
    <3>1. worker.left \subseteq Nat
      BY BatchRenderAssumption DEF RenderInv, Types, Loop
    <3>2. QED BY <2>1, <3>1, MinIn
  <2>5. own[i] = "queued"
    BY <2>3, <2>4 DEF RenderInv, OwnOK
  <2>6. QED BY <2>5 DEF Final
<1>4. CASE Dubbed
  <2>1. Write(Group, "running") /\ worker.stage = "dub"
    BY <1>4 DEF Dubbed
  <2>2. rows'[i] = IF i \in Group THEN "running" ELSE rows[i]
    BY <1>1, <2>1, WriteGives
  <2>3. own[i] = "running"
    BY <2>1, <2>2 DEF RenderInv, PlaceOK
  <2>4. QED BY <2>3 DEF Final
<1>5. ASSUME NEW s \in {"running", "done"}, Write({Current}, s),
             worker.stage \in {"item", "render"}, worker.todo # {}
      PROVE  own[i] # "none" /\ (own[i] \in Final => rows'[i] = own[i])
  <2>1. rows'[i] = IF i \in {Current} THEN s ELSE rows[i]
    BY <1>1, <1>5, WriteGives
  <2>2. own[i] = "running"
    BY <1>5, <2>1, CurrentHeld
  <2>3. QED BY <2>2 DEF Final
<1>6. CASE WorkerGet \/ EndBatch
  BY <1>6 DEF WorkerGet, EndBatch
<1>7. CASE StartItem
  <2>1. CASE UNCHANGED items
    BY <2>1 DEF items
  <2>2. QED BY <1>2, <1>5, <1>7, <2>1 DEF StartItem
<1>8. CASE Rendered
  BY <1>5, <1>8 DEF Rendered, RenderInv, PlaceOK
<1>9. CASE Raises
  BY <1>2, <1>9 DEF Raises
<1>10. QED BY <1>3, <1>4, <1>6, <1>7, <1>8, <1>9 DEF Worker

LEMMA OtherRows ==
    ASSUME BatchRenderAssumption, RenderInv, Next, ~Worker, NEW i \in Items
    PROVE  /\ rows'[i] \in {rows[i], "none", "queued"}
           /\ rows[i] = "none" /\ i[1] <= made /\ ~(i \in crossed) => rows'[i] = "none"
<1>1. CASE Requests
  <2>1. rows'[i] \in {rows[i], "none", "queued"}
    BY <1>1, RequestAsks DEF RenderInv, Asked
  <2>2. ASSUME rows[i] = "none", i[1] <= made, ~(i \in crossed) PROVE rows'[i] = "none"
    <3>1. CASE Create
      <4>1. PICK shape \in Shapes,
                 bad \in IF regime = "faulty" THEN Sources \cup {0} ELSE {0} :
              LET b == made + 1
                  I == {k \in ItemsOf(b) : /\ k[2] <= shape[2] /\ k[3] <= shape[3]
                                           /\ bad = 0 \/ k[2] < bad}
              IN rows' = [k \in Items |-> IF k \in I THEN "queued" ELSE rows[k]]
        BY <3>1 DEF Create
      <4>2. i[1] # made + 1
        <5>1. i[1] \in Nat /\ made \in Nat
          BY ItemFields DEF RenderInv, Types
        <5>2. QED BY <2>2, <5>1
      <4>3. QED BY <2>2, <4>1, <4>2 DEF ItemsOf
    <3>2. CASE RerunWrites
      <4>1. rows' = [rows EXCEPT ![rerun] = "queued"] /\ rows \in [Items -> Status]
        BY <3>2 DEF RerunWrites, RenderInv, Types
      <4>2. rerun # i
        BY <2>2 DEF RenderInv, CrossOK
      <4>3. QED BY <2>2, <4>1, <4>2
    <3>3. CASE DeleteRows
      BY <2>2, <3>3 DEF DeleteRows
    <3>4. CASE ~Create /\ ~RerunWrites /\ ~DeleteRows
      <4>1. rows' = rows
        BY <1>1, <3>4 DEF Requests, Request, Fill, FillBatch, ReadBatch, DeleteBatch, Read,
                          DeleteItem, RerunFinds, Pop, items
      <4>2. QED BY <2>2, <4>1
    <3>5. QED BY <3>1, <3>2, <3>3, <3>4
  <2>3. QED BY <2>1, <2>2
<1>2. CASE Restart \/ PoolReset
  BY <1>2 DEF Restart, PoolReset, items
<1>3. QED BY <1>1, <1>2 DEF Next, Requests

\* While requests arrive at any moment, a row that says running is that of an item the
\* worker is at, or was at when a reset of the GPU pool ended it
\* (_set_render_item_state, the handlers of _render_worker).
THEOREM NobodySpins ==
    ASSUME BatchRenderAssumption PROVE Spec => []NoSpinner
BY InvariantRender, PTL DEF RenderInv

\* Where no request meets the worker at work, an item that has ended keeps its end until
\* it is rerun or deleted, through refused sources, a dead worker and restarts
\* (_render_worker, rerun_render_item).
THEOREM EndedForGood ==
    ASSUME BatchRenderAssumption PROVE Spec => EndedStays
<1>1. ASSUME RenderInv, Next, NEW i \in Items,
             regime = "faulty", rows[i] \in Final
      PROVE  rows'[i] \in {rows[i], "none", "queued"}
  <2>1. CASE Worker /\ rows'[i] # rows[i]
    <3>1. own[i] # "none" /\ (own[i] \in Final => rows'[i] = own[i])
      BY <1>1, <2>1, WorkerTouches
    <3>2. rows[i] = own[i]
      BY <1>1, <3>1 DEF RenderInv, FaultyOK, Final
    <3>3. QED BY <1>1, <3>1, <3>2
  <2>2. QED BY <1>1, <2>1, OtherRows
<1>2. RenderInv /\ [Next /\ UNCHANGED regime]_<<vars, regime>> =>
        [\A i \in Items : regime = "faulty" /\ rows[i] \in Final =>
           rows'[i] \in {rows[i], "none", "queued"}]_vars
  BY <1>1
<1>3. QED BY <1>2, InvariantRender, PTL DEF Spec, EndedStays

\* A deleted item that the worker did not hold, and that no reload or rerun had read when
\* it was deleted, never comes back to the table, whatever the worker writes and
\* whatever is reloaded, deleted and rerun meanwhile (delete_render_item).
THEOREM RemovedForGood ==
    ASSUME BatchRenderAssumption PROVE Spec => DeletedStays
<1>1. ASSUME RenderInv, Next, NEW i \in Items,
             i[1] <= made, rows[i] = "none", own[i] = "none", ~(i \in crossed)
      PROVE  rows'[i] = "none"
  BY <1>1, WorkerTouches, OtherRows
<1>2. RenderInv /\ [Next /\ UNCHANGED regime]_<<vars, regime>> =>
        [\A i \in Items :
           i[1] <= made /\ rows[i] = "none" /\ own[i] = "none" /\ i \notin crossed =>
             rows'[i] = "none"]_vars
  BY <1>1
<1>3. QED BY <1>2, InvariantRender, PTL DEF Spec, DeletedStays
==============================================================================
