---------------------------- MODULE ModelProofs ----------------------------
(***************************************************************************)
(* Theorems about the model manager and the installation of models, for    *)
(* every value of the constants.  GpuPool: what a timed-out call leaves    *)
(* behind takes no capacity, a reset loses no call, the pool implements    *)
(* CallService, and slots are served when threads outnumber sidecars.      *)
(* ModelLifecycle, of which there is an instance in the second part: while *)
(* loads and uses are over within the idle timeout, the model is in memory *)
(* at most once.                                                           *)
(* ModelInstall, an instance in the third: what the cache holds is whole.  *)
(***************************************************************************)
EXTENDS GpuPool, SequenceTheorems, FiniteSetTheorems, TLAPS

Types == job \in Seq(Job) /\ pool \in Seq(Pool) /\ live \in 0..Len(pool)

\* A job was given to a pool there is, and so was the slot it asks for.
PlaceOK ==
    \A j \in Jobs :
      /\ job[j].pool \in 1..Len(pool)
      /\ job[j].slot \in 0..Len(pool)
      /\ job[j].phase \in {"got", "retry", "slot"} => job[j].slot # 0

LiveOK == live # 0 => pool[live].open = TRUE

\* e may be in the queue of pool p: the job it belongs to is gone, or waits for it.
Waits(e, p) ==
    \/ job[e.job].phase = "gone"
    \/ e.noop = TRUE /\ job[e.job].phase = "slot" /\ job[e.job].slot = p
    \/ e.noop = FALSE /\ job[e.job].phase = "queued" /\ job[e.job].pool = p

EntryOK ==
    \A p \in 1..Len(pool) : \A k \in 1..Len(pool[p].queue) :
      pool[p].queue[k].job \in Jobs /\ Waits(pool[p].queue[k], p)

\* A job is in a queue once.
OnceOK ==
    \A p \in 1..Len(pool) : \A i, k \in 1..Len(pool[p].queue) :
      pool[p].queue[i].job = pool[p].queue[k].job => i = k

\* What waits is in the queue of an open pool.
Has(p, j, noop) ==
    /\ pool[p].open = TRUE
    /\ \E k \in 1..Len(pool[p].queue) :
         pool[p].queue[k].job = j /\ pool[p].queue[k].noop = noop

WaitOK ==
    \A j \in Jobs :
      /\ job[j].phase = "gone" => job[j].answer # "none"
      /\ job[j].phase = "queued" =>
           job[j].answer = "none" /\ Has(job[j].pool, j, FALSE)
      /\ job[j].phase = "slot" => Has(job[j].slot, j, TRUE)

PoolInv ==
    /\ Types /\ PlaceOK /\ LiveOK
    /\ EntryOK /\ OnceOK /\ WaitOK
    /\ CapacityRestored

\* One record of a sequence is replaced.
LEMMA Replaced ==
    ASSUME NEW S, NEW s \in Seq(S), NEW i \in 1..Len(s), NEW r \in S
    PROVE  /\ [s EXCEPT ![i] = r] \in Seq(S)
           /\ Len([s EXCEPT ![i] = r]) = Len(s)
           /\ \A k \in 1..Len(s) : [s EXCEPT ![i] = r][k] = IF k = i THEN r ELSE s[k]
OBVIOUS

\* One record is appended to a sequence.
LEMMA Added ==
    ASSUME NEW S, NEW s \in Seq(S), NEW r \in S
    PROVE  /\ Append(s, r) \in Seq(S)
           /\ Len(Append(s, r)) = Len(s) + 1
           /\ \A k \in 1..Len(s) : Append(s, r)[k] = s[k]
           /\ Append(s, r)[Len(s) + 1] = r
OBVIOUS

\* A running job moves on, no entry is added or taken, pools may be built.
LEMMA Moves ==
    ASSUME PoolInv, Types', NEW j \in Jobs, Len(pool') >= Len(pool),
           job[j].phase \notin {"queued", "slot", "gone"},
           job'[j].phase \notin {"queued", "slot"},
           job'[j].phase = "gone" => job'[j].answer # "none",
           job'[j].phase # "gone" => job'[j].answer = job[j].answer,
           job'[j].pool = job[j].pool, job'[j].slot \in 0..Len(pool'),
           job'[j].phase \in {"got", "retry"} => job'[j].slot # 0,
           Len(job') = Len(job),
           \A k \in Jobs : k # j => job'[k] = job[k],
           \A p \in 1..Len(pool) : pool'[p] = pool[p],
           \A p \in 1..Len(pool') : p \notin 1..Len(pool) => pool'[p] = Fresh,
           live' \in {live, Len(pool) + 1},
           live' = Len(pool) + 1 => Len(pool') = Len(pool) + 1
    PROVE  PoolInv'
<1>1. /\ Jobs' = Jobs /\ Len(pool) \in Nat /\ Len(pool') \in Nat
      /\ live \in 0..Len(pool)
  BY DEF PoolInv, Types, Jobs
<1>2. \A k \in Jobs : k # j => job'[k] = job[k]
  OBVIOUS
<1>3. PlaceOK'
  <2>1. ASSUME NEW k \in Jobs
        PROVE  /\ job'[k].pool \in 1..Len(pool')
               /\ job'[k].slot \in 0..Len(pool')
               /\ job'[k].phase \in {"got", "retry", "slot"} => job'[k].slot # 0
    <3>1. /\ job[k].pool \in 1..Len(pool')
          /\ job[k].slot \in 0..Len(pool')
          /\ job[k].phase \in {"got", "retry", "slot"} => job[k].slot # 0
      BY <1>1 DEF PoolInv, PlaceOK
    <3>2. CASE k = j
      BY <3>1, <3>2
    <3>3. CASE k # j
      BY <1>2, <3>1, <3>3
    <3>4. QED BY <3>2, <3>3
  <2>2. QED BY <1>1, <2>1 DEF PlaceOK
<1>4. LiveOK'
  BY <1>1 DEF PoolInv, LiveOK, Fresh
<1>5. ASSUME NEW p \in 1..Len(pool'), NEW k \in 1..Len(pool'[p].queue)
      PROVE  p \in 1..Len(pool) /\ pool'[p] = pool[p]
  BY <1>1, <1>5 DEF Fresh
<1>6. EntryOK'
  <2> SUFFICES ASSUME NEW p \in 1..Len(pool'), NEW k \in 1..Len(pool'[p].queue)
               PROVE  (pool[p].queue[k].job \in Jobs /\ Waits(pool[p].queue[k], p))'
    BY DEF EntryOK
  <2>1. p \in 1..Len(pool) /\ pool'[p] = pool[p]
    BY <1>5
  <2>2. pool[p].queue[k].job \in Jobs /\ Waits(pool[p].queue[k], p)
    BY <2>1 DEF PoolInv, EntryOK
  <2>3. pool[p].queue[k].job # j
    BY <2>2 DEF Waits
  <2>4. job'[pool[p].queue[k].job] = job[pool[p].queue[k].job]
    BY <1>2, <2>2, <2>3
  <2>5. QED BY <1>1, <2>1, <2>2, <2>4 DEF Waits
<1>7. OnceOK'
  BY <1>5 DEF PoolInv, OnceOK
<1>8. \A p \in 1..Len(pool), i \in Jobs, noop \in BOOLEAN :
        Has(p, i, noop) => Has(p, i, noop)'
  BY <1>1 DEF Has
<1>9. WaitOK'
  <2>1. ASSUME NEW k \in Jobs, k # j
        PROVE  /\ job'[k].phase = "gone" => job'[k].answer # "none"
               /\ job'[k].phase = "queued" =>
                    job'[k].answer = "none" /\ Has(job[k].pool, k, FALSE)'
               /\ job'[k].phase = "slot" => Has(job[k].slot, k, TRUE)'
    <3>1. job'[k] = job[k]
      BY <1>2, <2>1
    <3>2. job[k].phase = "queued" => job[k].answer = "none" /\ Has(job[k].pool, k, FALSE)
      BY DEF PoolInv, WaitOK
    <3>3. job[k].phase = "slot" => Has(job[k].slot, k, TRUE)
      BY DEF PoolInv, WaitOK
    <3>4. job[k].phase = "gone" => job[k].answer # "none"
      BY DEF PoolInv, WaitOK
    <3>5. job[k].pool \in 1..Len(pool)
      BY DEF PoolInv, PlaceOK
    <3>6. job[k].phase = "slot" => job[k].slot \in 1..Len(pool)
      BY <1>1 DEF PoolInv, PlaceOK
    <3>7. job[k].phase = "queued" => Has(job[k].pool, k, FALSE)'
      BY <1>8, <3>2, <3>5
    <3>8. job[k].phase = "slot" => Has(job[k].slot, k, TRUE)'
      BY <1>8, <3>3, <3>6
    <3>9. QED BY <3>1, <3>2, <3>4, <3>7, <3>8
  <2>2. QED BY <1>1, <2>1 DEF WaitOK
<1>10. CapacityRestored'
  <2> SUFFICES ASSUME live' # 0, NEW k \in Held(live)'
               PROVE  job'[k].answer = "none"
    BY DEF CapacityRestored
  <2>1. k \in Jobs /\ job'[k].pool = live' /\ job'[k].phase \notin {"queued", "gone"}
    BY <1>1 DEF Held
  <2>2. job[k].pool = live' /\ job[k].phase \notin {"queued", "gone"}
    BY <1>2, <2>1
  <2>3. job[k].pool \in 1..Len(pool)
    BY <2>1 DEF PoolInv, PlaceOK
  <2>4. live' = live
    BY <1>1, <2>2, <2>3
  <2>5. job[k].answer = "none"
    BY <2>1, <2>2, <2>4 DEF PoolInv, CapacityRestored, Held
  <2>6. QED BY <1>2, <2>1, <2>5
<1>11. QED BY <1>3, <1>4, <1>6, <1>7, <1>9, <1>10 DEF PoolInv

\* A job enters the queue of an open pool, of one that may be built for it: a
\* new call, or the no-op of a slot.
LEMMA Enters ==
    ASSUME PoolInv, Types', NEW p \in 1..Len(pool'), NEW j \in Jobs', NEW noop \in BOOLEAN,
           Jobs' = Jobs \cup {j},
           \A k \in Jobs : k # j => job'[k] = job[k],
           job'[j].pool \in 1..Len(pool'), job'[j].slot \in 0..Len(pool'),
           \/ /\ noop = TRUE /\ j \in Jobs /\ job[j].phase \in {"got", "retry"}
              /\ job'[j].phase = "slot" /\ job'[j].slot = p
              /\ job'[j].pool = job[j].pool /\ job'[j].answer = job[j].answer
           \/ /\ noop = FALSE /\ j \notin Jobs
              /\ job'[j].phase = "queued" /\ job'[j].pool = p
              /\ job'[j].answer = "none",
           Len(pool') >= Len(pool),
           \A q \in 1..Len(pool') : q # p => q \in 1..Len(pool) /\ pool'[q] = pool[q],
           pool'[p].open = TRUE,
           \/ /\ p \in 1..Len(pool) /\ live' = live
              /\ pool'[p].queue = Append(pool[p].queue, [job |-> j, noop |-> noop])
           \/ /\ p \notin 1..Len(pool) /\ live' = p
              /\ pool'[p].queue = <<[job |-> j, noop |-> noop]>>
    PROVE  PoolInv'
<1>1. /\ Len(pool) \in Nat /\ Len(pool') \in Nat
      /\ live \in 0..Len(pool) /\ Jobs \subseteq Jobs'
  BY DEF PoolInv, Types
<1>2. p # 0 /\ noop \in BOOLEAN
  OBVIOUS
<1>3. PlaceOK'
  <2>1. ASSUME NEW k \in Jobs'
        PROVE  /\ job'[k].pool \in 1..Len(pool')
               /\ job'[k].slot \in 0..Len(pool')
               /\ job'[k].phase \in {"got", "retry", "slot"} => job'[k].slot # 0
    <3>1. CASE k = j
      BY <1>2, <3>1
    <3>2. CASE k # j
      <4>1. /\ job[k].pool \in 1..Len(pool')
            /\ job[k].slot \in 0..Len(pool')
            /\ job[k].phase \in {"got", "retry", "slot"} => job[k].slot # 0
        BY <1>1, <3>2 DEF PoolInv, PlaceOK
      <4>2. QED BY <3>2, <4>1
    <3>3. QED BY <3>1, <3>2
  <2>2. QED BY <2>1 DEF PlaceOK
<1>4. LiveOK'
  BY <1>1 DEF PoolInv, LiveOK
<1>5. ASSUME p \in 1..Len(pool)
      PROVE  /\ Len(pool[p].queue) \in Nat
             /\ Len(pool'[p].queue) = Len(pool[p].queue) + 1
             /\ \A k \in 1..Len(pool[p].queue) : pool'[p].queue[k] = pool[p].queue[k]
             /\ pool'[p].queue[Len(pool[p].queue) + 1] = [job |-> j, noop |-> noop]
  <2>1. pool[p] \in Pool
    BY <1>5 DEF PoolInv, Types
  <2>2. pool[p].queue \in Seq(Entry)
    BY <2>1 DEF Pool
  <2>3. [job |-> j, noop |-> noop] \in Entry
    BY DEF Entry, Jobs
  <2>4. pool'[p].queue = Append(pool[p].queue, [job |-> j, noop |-> noop])
    BY <1>5
  <2>5. QED BY <2>2, <2>3, <2>4, Added
<1>6. p \notin 1..Len(pool) =>
        Len(pool'[p].queue) = 1 /\ pool'[p].queue[1] = [job |-> j, noop |-> noop]
  <2>1. p \notin 1..Len(pool) => pool'[p].queue = <<[job |-> j, noop |-> noop]>>
    OBVIOUS
  <2> DEFINE e == [job |-> j, noop |-> noop]
  <2> HIDE DEF e
  <2>2. Len(<<e>>) = 1 /\ <<e>>[1] = e
    OBVIOUS
  <2>3. QED BY <2>1, <2>2 DEF e
<1>7. ASSUME NEW q \in 1..Len(pool'), NEW k \in 1..Len(pool'[q].queue)
      PROVE  \/ /\ q \in 1..Len(pool) /\ k \in 1..Len(pool[q].queue)
                /\ pool'[q].queue[k] = pool[q].queue[k]
             \/ /\ q = p /\ k = Len(pool'[q].queue)
                /\ pool'[q].queue[k] = [job |-> j, noop |-> noop]
  <2>1. CASE q # p
    BY <1>7, <2>1
  <2>2. CASE q = p /\ p \in 1..Len(pool)
    <3>1. k \in 1..(Len(pool[p].queue) + 1)
      BY <1>5, <2>2
    <3>2. k \in 1..Len(pool[p].queue) \/ k = Len(pool[p].queue) + 1
      BY <1>5, <2>2, <3>1
    <3>3. QED BY <1>5, <2>2, <3>2
  <2>3. CASE q = p /\ p \notin 1..Len(pool)
    <3>1. Len(pool'[q].queue) = 1 /\ pool'[q].queue[1] = [job |-> j, noop |-> noop]
      BY <1>6, <2>3
    <3>2. k = 1
      BY <1>7, <3>1
    <3>3. QED BY <2>3, <3>1, <3>2
  <2>4. QED BY <2>1, <2>2, <2>3
<1>8. ASSUME NEW q \in 1..Len(pool), NEW k \in 1..Len(pool[q].queue)
      PROVE  pool[q].queue[k].job \in Jobs /\ pool[q].queue[k].job # j
  <2>1. pool[q].queue[k].job \in Jobs /\ Waits(pool[q].queue[k], q)
    BY <1>8 DEF PoolInv, EntryOK
  <2>2. pool[q].queue[k].job = j => job[j].phase \in {"gone", "slot", "queued"}
    BY <2>1 DEF Waits
  <2>3. QED BY <2>1, <2>2
<1>9. EntryOK'
  <2> SUFFICES ASSUME NEW q \in 1..Len(pool'), NEW k \in 1..Len(pool'[q].queue)
               PROVE  (pool[q].queue[k].job \in Jobs /\ Waits(pool[q].queue[k], q))'
    BY DEF EntryOK
  <2>1. CASE /\ q \in 1..Len(pool) /\ k \in 1..Len(pool[q].queue)
             /\ pool'[q].queue[k] = pool[q].queue[k]
    <3>1. pool[q].queue[k].job \in Jobs /\ Waits(pool[q].queue[k], q)
      BY <2>1 DEF PoolInv, EntryOK
    <3>2. job'[pool[q].queue[k].job] = job[pool[q].queue[k].job]
      BY <1>8, <2>1
    <3>3. QED BY <1>1, <2>1, <3>1, <3>2 DEF Waits
  <2>2. CASE q = p /\ pool'[q].queue[k] = [job |-> j, noop |-> noop]
    BY <2>2 DEF Waits
  <2>3. QED BY <1>7, <2>1, <2>2
<1>10. OnceOK'
  <2> SUFFICES ASSUME NEW q \in 1..Len(pool'), NEW i \in 1..Len(pool'[q].queue),
                      NEW k \in 1..Len(pool'[q].queue),
                      pool'[q].queue[i].job = pool'[q].queue[k].job
               PROVE  i = k
    BY DEF OnceOK
  <2> DEFINE Old(m) == /\ q \in 1..Len(pool) /\ m \in 1..Len(pool[q].queue)
                       /\ pool'[q].queue[m] = pool[q].queue[m]
             New(m) == /\ q = p /\ m = Len(pool'[q].queue)
                       /\ pool'[q].queue[m] = [job |-> j, noop |-> noop]
  <2>1. (Old(i) \/ New(i)) /\ (Old(k) \/ New(k))
    BY <1>7
  <2>2. CASE Old(i) /\ Old(k)
    BY <2>2 DEF PoolInv, OnceOK
  <2>3. CASE New(i) /\ New(k)
    BY <2>3
  <2>4. CASE Old(i) /\ New(k)
    BY <1>8, <2>4
  <2>5. CASE New(i) /\ Old(k)
    BY <1>8, <2>5
  <2>6. QED BY <2>1, <2>2, <2>3, <2>4, <2>5
<1>11. ASSUME NEW q \in 1..Len(pool), NEW i, NEW n, Has(q, i, n)
       PROVE  Has(q, i, n)'
  <2>1. CASE q # p
    <3>1. pool'[q] = pool[q]
      BY <1>1, <2>1
    <3>2. QED BY <1>11, <3>1 DEF Has
  <2>2. CASE q = p
    <3>1. pool'[q].open = TRUE
      BY <2>2
    <3>2. \A k \in 1..Len(pool[q].queue) :
            k \in 1..Len(pool'[q].queue) /\ pool'[q].queue[k] = pool[q].queue[k]
      BY <1>5, <2>2
    <3>3. QED BY <1>11, <3>1, <3>2 DEF Has
  <2>3. QED BY <2>1, <2>2
<1>12. Has(p, j, noop)'
  <2>1. PICK k \in 1..Len(pool'[p].queue) : pool'[p].queue[k] = [job |-> j, noop |-> noop]
    BY <1>5, <1>6
  <2>2. pool'[p].queue[k].job = j /\ pool'[p].queue[k].noop = noop
    BY <2>1
  <2>3. QED BY <2>2 DEF Has
<1>13. WaitOK'
  <2>1. ASSUME NEW k \in Jobs, k # j
        PROVE  /\ job'[k].phase = "gone" => job'[k].answer # "none"
               /\ job'[k].phase = "queued" =>
                    job'[k].answer = "none" /\ Has(job[k].pool, k, FALSE)'
               /\ job'[k].phase = "slot" => Has(job[k].slot, k, TRUE)'
    <3>1. job'[k] = job[k]
      BY <2>1
    <3>2. job[k].phase = "queued" => job[k].answer = "none" /\ Has(job[k].pool, k, FALSE)
      BY DEF PoolInv, WaitOK
    <3>3. job[k].phase = "slot" => Has(job[k].slot, k, TRUE)
      BY DEF PoolInv, WaitOK
    <3>4. job[k].phase = "gone" => job[k].answer # "none"
      BY DEF PoolInv, WaitOK
    <3>5. job[k].pool \in 1..Len(pool)
      BY DEF PoolInv, PlaceOK
    <3>6. job[k].phase = "slot" => job[k].slot \in 1..Len(pool)
      BY <1>1 DEF PoolInv, PlaceOK
    <3>7. job[k].phase = "queued" => Has(job[k].pool, k, FALSE)'
      BY <1>11, <3>2, <3>5
    <3>8. job[k].phase = "slot" => Has(job[k].slot, k, TRUE)'
      BY <1>11, <3>3, <3>6
    <3>9. QED BY <3>1, <3>2, <3>4, <3>7, <3>8
  <2>2. /\ job'[j].phase = "gone" => job'[j].answer # "none"
        /\ job'[j].phase = "queued" =>
             job'[j].answer = "none" /\ Has(job[j].pool, j, FALSE)'
        /\ job'[j].phase = "slot" => Has(job[j].slot, j, TRUE)'
    BY <1>12
  <2>3. \A k \in Jobs' : k = j \/ k \in Jobs
    OBVIOUS
  <2>4. QED BY <2>1, <2>2, <2>3 DEF WaitOK
<1>14. CapacityRestored'
  <2> SUFFICES ASSUME live' # 0, NEW k \in Held(live)'
               PROVE  job'[k].answer = "none"
    BY DEF CapacityRestored
  <2>1. k \in Jobs' /\ job'[k].pool = live' /\ job'[k].phase \notin {"queued", "gone"}
    BY DEF Held
  <2>2. k \in Jobs /\ job[k].pool = live' /\ job[k].phase \notin {"queued", "gone"}
    BY <2>1
  <2>3. job[k].pool \in 1..Len(pool)
    BY <2>2 DEF PoolInv, PlaceOK
  <2>4. live' = live
    BY <1>1, <2>2, <2>3
  <2>5. job[k].answer = "none"
    BY <2>2, <2>4 DEF PoolInv, CapacityRestored, Held
  <2>6. job'[k].answer = job[k].answer
    BY <2>1, <2>2
  <2>7. QED BY <2>5, <2>6
<1>15. QED BY <1>3, <1>4, <1>9, <1>10, <1>13, <1>14 DEF PoolInv

\* A reset keeps the types.
LEMMA ResetTypes ==
    ASSUME Types, NEW jobs, Reset(jobs), \A k \in Jobs : jobs[k] \in Job
    PROVE  Types'
<1> DEFINE Dropped == IF live = 0 THEN {}
                      ELSE {pool[live].queue[k].job : k \in 1..Len(pool[live].queue)}
<1>1. /\ job' = [k \in Jobs |->
                   IF k \in Dropped /\ jobs[k].phase # "gone"
                   THEN [jobs[k] EXCEPT !.phase = "gone",
                                        !.answer = IF @ = "none" THEN "cancelled" ELSE @]
                   ELSE jobs[k]]
      /\ live' = 0
      /\ pool' = IF live = 0 THEN pool
                 ELSE [pool EXCEPT ![live] = [open |-> FALSE, queue |-> <<>>]]
  BY DEF Reset
<1> HIDE DEF Dropped
<1>2. ASSUME NEW r \in Job
      PROVE  [r EXCEPT !.phase = "gone",
                       !.answer = IF @ = "none" THEN "cancelled" ELSE @] \in Job
  BY DEF Job, Phase, Answer
<1>3. \A k \in Jobs : job'[k] \in Job
  BY <1>1, <1>2
<1>4. Len(job) \in Nat
  BY DEF Types
<1>5. job' \in Seq(Job)
  <2>1. job' = [k \in 1..Len(job) |-> job'[k]]
    BY <1>1 DEF Jobs
  <2>2. \A k \in 1..Len(job) : job'[k] \in Job
    BY <1>3 DEF Jobs
  <2>3. QED BY <1>4, <2>1, <2>2, IsASeq
<1>6. pool' \in Seq(Pool)
  <2> DEFINE shut == [open |-> FALSE, queue |-> <<>>]
  <2>1. shut \in Pool
    BY DEF Pool
  <2>2. pool' = IF live = 0 THEN pool ELSE [pool EXCEPT ![live] = shut]
    BY <1>1
  <2> HIDE DEF shut
  <2>3. live # 0 => live \in 1..Len(pool)
    BY DEF Types
  <2>4. live # 0 => [pool EXCEPT ![live] = shut] \in Seq(Pool)
    BY <2>1, <2>3, Replaced DEF Types
  <2>5. QED BY <2>2, <2>4 DEF Types
<1>7. live' \in 0..Len(pool')
  <2>1. Len(pool') \in Nat
    BY <1>6
  <2>2. live' = 0
    BY <1>1
  <2>3. QED BY <2>1, <2>2
<1>8. QED BY <1>5, <1>6, <1>7 DEF Types

\* A reset, in which at most the job j loses its caller and, if it was still
\* queued or waits for its slot, is gone.
LEMMA ResetKeeps ==
    ASSUME PoolInv, Types', NEW j \in Jobs, NEW jobs, Reset(jobs),
           \A k \in Jobs : jobs[k] \in Job /\ (k # j => jobs[k] = job[k]),
           jobs[j].pool = job[j].pool, jobs[j].slot = job[j].slot,
           jobs[j].answer # "none",
           \/ jobs[j].phase = "gone"
           \/ jobs[j].phase = job[j].phase /\ job[j].phase # "queued"
    PROVE  PoolInv'
<1> DEFINE Dropped == IF live = 0 THEN {}
                      ELSE {pool[live].queue[k].job : k \in 1..Len(pool[live].queue)}
<1>1. /\ Len(pool) \in Nat /\ Len(job) \in Nat /\ live \in 0..Len(pool)
  BY DEF PoolInv, Types
<1>2. /\ job' = [k \in Jobs |->
                   IF k \in Dropped /\ jobs[k].phase # "gone"
                   THEN [jobs[k] EXCEPT !.phase = "gone",
                                        !.answer = IF @ = "none" THEN "cancelled" ELSE @]
                   ELSE jobs[k]]
      /\ live' = 0
      /\ pool' = IF live = 0 THEN pool
                 ELSE [pool EXCEPT ![live] = [open |-> FALSE, queue |-> <<>>]]
  BY DEF Reset
<1> HIDE DEF Dropped
<1>3. Len(job') = Len(job) /\ Jobs' = Jobs
  <2>1. DOMAIN job' = 1..Len(job)
    BY <1>2 DEF Jobs
  <2>2. job' \in Seq(Job)
    BY DEF Types
  <2>3. DOMAIN job' = 1..Len(job') /\ Len(job') \in Nat
    BY <2>2
  <2>4. Len(job') = Len(job)
    BY <1>1, <2>1, <2>3
  <2>5. QED BY <2>4 DEF Jobs
<1>4. /\ Len(pool') = Len(pool)
      /\ \A p \in 1..Len(pool) : p # live => pool'[p] = pool[p]
      /\ live # 0 => pool'[live].open = FALSE /\ pool'[live].queue = <<>>
  <2>1. CASE live = 0
    BY <1>2, <2>1
  <2>2. CASE live # 0
    <3>1. live \in 1..Len(pool) /\ pool \in Seq(Pool)
      BY <1>1, <2>2 DEF PoolInv, Types
    <3> DEFINE shut == [open |-> FALSE, queue |-> <<>>]
    <3>2. shut \in Pool
      BY DEF Pool
    <3>3. shut.open = FALSE /\ shut.queue = <<>>
      OBVIOUS
    <3>4. pool' = [pool EXCEPT ![live] = shut]
      BY <1>2, <2>2
    <3> HIDE DEF shut
    <3>5. /\ Len(pool') = Len(pool)
          /\ \A p \in 1..Len(pool) : pool'[p] = IF p = live THEN shut ELSE pool[p]
      BY <3>1, <3>2, <3>4, Replaced
    <3>6. QED BY <3>1, <3>3, <3>5
  <2>3. QED BY <2>1, <2>2
<1>5. ASSUME NEW k \in Jobs
      PROVE  /\ job'[k].pool = job[k].pool /\ job'[k].slot = job[k].slot
             /\ job'[k].phase \in {job[k].phase, "gone"}
             /\ job'[k].phase = "gone" => job'[k].answer # "none"
             /\ job'[k].phase \in {"queued", "slot"} => k \notin Dropped
             /\ job'[k].phase = "queued" => job'[k] = job[k]
  <2>1. /\ jobs[k].pool = job[k].pool /\ jobs[k].slot = job[k].slot
        /\ jobs[k].phase \in {job[k].phase, "gone"}
        /\ jobs[k].phase = "queued" => jobs[k] = job[k]
        /\ jobs[k].phase = "gone" => jobs[k].answer # "none"
    <3>1. CASE k = j
      BY <3>1
    <3>2. CASE k # j
      <4>1. jobs[k] = job[k]
        BY <3>2
      <4>2. job[k].phase = "gone" => job[k].answer # "none"
        BY DEF PoolInv, WaitOK
      <4>3. QED BY <4>1, <4>2
    <3>3. QED BY <3>1, <3>2
  <2>2. CASE k \in Dropped /\ jobs[k].phase # "gone"
    <3>1. job'[k] = [jobs[k] EXCEPT !.phase = "gone",
                                    !.answer = IF @ = "none" THEN "cancelled" ELSE @]
      BY <1>2, <2>2
    <3>2. jobs[k] \in Job
      OBVIOUS
    <3>3. /\ job'[k].pool = jobs[k].pool /\ job'[k].slot = jobs[k].slot
          /\ job'[k].phase = "gone" /\ job'[k].answer # "none"
      BY <3>1, <3>2 DEF Job
    <3>4. QED BY <2>1, <3>3
  <2>3. CASE ~(k \in Dropped /\ jobs[k].phase # "gone")
    <3>1. job'[k] = jobs[k]
      BY <1>2, <2>3
    <3>2. QED BY <2>1, <2>3, <3>1
  <2>4. QED BY <2>2, <2>3
<1>6. PlaceOK'
  <2>1. ASSUME NEW k \in Jobs
        PROVE  /\ job'[k].pool \in 1..Len(pool)
               /\ job'[k].slot \in 0..Len(pool)
               /\ job'[k].phase \in {"got", "retry", "slot"} => job'[k].slot # 0
    BY <1>5 DEF PoolInv, PlaceOK
  <2>2. QED BY <1>3, <1>4, <2>1 DEF PlaceOK
<1>7. LiveOK'
  BY <1>2 DEF LiveOK
<1>8. ASSUME NEW p \in 1..Len(pool), NEW k \in 1..Len(pool'[p].queue)
      PROVE  p # live /\ pool'[p] = pool[p]
  BY <1>4, <1>8
<1>9. EntryOK'
  <2> SUFFICES ASSUME NEW p \in 1..Len(pool), NEW k \in 1..Len(pool'[p].queue)
               PROVE  (pool[p].queue[k].job \in Jobs /\ Waits(pool[p].queue[k], p))'
    BY <1>4 DEF EntryOK
  <2>1. pool'[p] = pool[p]
    BY <1>8
  <2>2. pool[p].queue[k].job \in Jobs /\ Waits(pool[p].queue[k], p)
    BY <2>1 DEF PoolInv, EntryOK
  <2>3. QED BY <1>3, <1>5, <2>1, <2>2 DEF Waits
<1>10. OnceOK'
  BY <1>4, <1>8 DEF PoolInv, OnceOK
<1>11. ASSUME NEW p \in 1..Len(pool), NEW k \in Jobs, NEW n, Has(p, k, n), k \notin Dropped
       PROVE  Has(p, k, n)'
  <2>1. p # live
    BY <1>1, <1>11 DEF Has, Dropped
  <2>2. pool'[p] = pool[p]
    BY <1>4, <2>1
  <2>3. QED BY <1>11, <2>2 DEF Has
<1>12. WaitOK'
  <2>1. ASSUME NEW k \in Jobs
        PROVE  /\ job'[k].phase = "gone" => job'[k].answer # "none"
               /\ job'[k].phase = "queued" =>
                    job'[k].answer = "none" /\ Has(job[k].pool, k, FALSE)'
               /\ job'[k].phase = "slot" => Has(job[k].slot, k, TRUE)'
    <3>1. CASE job'[k].phase = "queued"
      <4>1. job[k].phase = "queued" /\ job'[k] = job[k] /\ k \notin Dropped
        BY <1>5, <3>1
      <4>2. /\ job[k].answer = "none" /\ Has(job[k].pool, k, FALSE)
            /\ job[k].pool \in 1..Len(pool)
        BY <4>1 DEF PoolInv, WaitOK, PlaceOK
      <4>3. Has(job[k].pool, k, FALSE)'
        BY <1>11, <4>1, <4>2
      <4>4. QED BY <3>1, <4>1, <4>2, <4>3
    <3>2. CASE job'[k].phase = "slot"
      <4>1. job[k].phase = "slot" /\ job'[k].slot = job[k].slot /\ k \notin Dropped
        BY <1>5, <3>2
      <4>2. Has(job[k].slot, k, TRUE) /\ job[k].slot \in 0..Len(pool) /\ job[k].slot # 0
        BY <4>1 DEF PoolInv, WaitOK, PlaceOK
      <4>3. job[k].slot \in 1..Len(pool)
        BY <1>1, <4>2
      <4>4. Has(job[k].slot, k, TRUE)'
        BY <1>11, <4>1, <4>2, <4>3
      <4>5. QED BY <3>2, <4>4
    <3>3. QED BY <1>5, <3>1, <3>2
  <2>2. QED BY <1>3, <2>1 DEF WaitOK
<1>13. CapacityRestored'
  BY <1>2 DEF CapacityRestored
<1>14. QED BY <1>6, <1>7, <1>9, <1>10, <1>12, <1>13 DEF PoolInv

\* Job j becomes r.
LEMMA JobBecomes ==
    ASSUME Types, NEW j \in Jobs, NEW r \in Job
    PROVE  /\ [job EXCEPT ![j] = r] \in Seq(Job)
           /\ Len([job EXCEPT ![j] = r]) = Len(job)
           /\ [job EXCEPT ![j] = r][j] = r
           /\ \A k \in Jobs : k # j => [job EXCEPT ![j] = r][k] = job[k]
BY Replaced DEF Types, Jobs

\* What a job is that raised.
LEMMA RaisedIs ==
    ASSUME PoolInv, NEW j \in Jobs, NEW answer \in Answer, answer # "none"
    PROVE  /\ Raised(j, answer) \in Seq(Job)
           /\ Len(Raised(j, answer)) = Len(job)
           /\ Raised(j, answer)[j].phase = "gone"
           /\ Raised(j, answer)[j].answer # "none"
           /\ Raised(j, answer)[j].answer =
                IF job[j].answer = "none" THEN answer ELSE job[j].answer
           /\ Raised(j, answer)[j].pool = job[j].pool
           /\ Raised(j, answer)[j].slot = job[j].slot
           /\ \A k \in Jobs : k # j => Raised(j, answer)[k] = job[k]
<1> DEFINE r == [job[j] EXCEPT !.phase = "gone",
                               !.answer = IF @ = "none" THEN answer ELSE @]
<1>1. job[j] \in Job /\ Types
  BY DEF PoolInv, Types, Jobs
<1>2. /\ r \in Job /\ r.phase = "gone" /\ r.answer # "none"
      /\ r.pool = job[j].pool /\ r.slot = job[j].slot
      /\ r.answer = IF job[j].answer = "none" THEN answer ELSE job[j].answer
  BY <1>1 DEF Job, Phase, Answer
<1>3. Raised(j, answer) = [job EXCEPT ![j] = r]
  BY DEF Raised
<1> HIDE DEF r
<1>4. QED BY <1>1, <1>2, <1>3, JobBecomes

\* A pool that was just built.
LEMMA FreshOK == Fresh \in Pool /\ Fresh.open = TRUE /\ Fresh.queue = <<>>
BY DEF Fresh, Pool

\* A thread looks up the live pool (submit, before its lock).
LEMMA AskSlotKeeps == ASSUME PoolInv, NEW j \in Jobs, AskSlot(j) PROVE PoolInv'
<1> DEFINE p == IF live = 0 THEN Len(pool) + 1 ELSE live
           r == [job[j] EXCEPT !.phase = "got", !.slot = p]
<1>1. Types /\ job[j] \in Job /\ job[j].phase = "ask" /\ Len(pool) \in Nat
  BY DEF PoolInv, Types, Jobs, AskSlot
<1>2. /\ pool' = IF live = 0 THEN Append(pool, Fresh) ELSE pool
      /\ live' = p /\ job' = [job EXCEPT ![j] = r]
  BY DEF AskSlot
<1>3. p \in Nat /\ p # 0 /\ p \in 1..Len(pool')
  <2>1. CASE live = 0
    BY <1>1, <1>2, <2>1, FreshOK, Added DEF Types
  <2>2. CASE live # 0
    BY <1>1, <1>2, <2>2 DEF Types
  <2>3. QED BY <2>1, <2>2
<1>4. /\ r \in Job /\ r.phase = "got" /\ r.slot = p
      /\ r.pool = job[j].pool /\ r.answer = job[j].answer
  BY <1>1, <1>3 DEF Job, Phase
<1> HIDE DEF r
<1>5. /\ job' \in Seq(Job) /\ Len(job') = Len(job) /\ job'[j] = r
      /\ \A k \in Jobs : k # j => job'[k] = job[k]
  BY <1>1, <1>2, <1>4, JobBecomes
<1>6. /\ pool' \in Seq(Pool) /\ Len(pool') >= Len(pool) /\ Len(pool') \in Nat
      /\ \A q \in 1..Len(pool) : pool'[q] = pool[q]
      /\ \A q \in 1..Len(pool') : q \notin 1..Len(pool) => pool'[q] = Fresh
      /\ live' \in {live, Len(pool) + 1}
      /\ live' = Len(pool) + 1 => Len(pool') = Len(pool) + 1
  <2>1. CASE live = 0
    <3>1. pool' = Append(pool, Fresh) /\ live' = Len(pool) + 1
      BY <1>2, <2>1
    <3>2. /\ pool' \in Seq(Pool) /\ Len(pool') = Len(pool) + 1
          /\ \A q \in 1..Len(pool) : pool'[q] = pool[q]
          /\ pool'[Len(pool) + 1] = Fresh
      BY <1>1, <3>1, FreshOK, Added DEF Types
    <3>3. \A q \in 1..Len(pool') : q \notin 1..Len(pool) => q = Len(pool) + 1
      BY <1>1, <3>2
    <3>4. QED BY <1>1, <3>1, <3>2, <3>3
  <2>2. CASE live # 0
    BY <1>1, <1>2, <2>2 DEF Types
  <2>3. QED BY <2>1, <2>2
<1>7. Types'
  BY <1>2, <1>3, <1>5, <1>6 DEF Types
<1>8. /\ job'[j].phase = "got" /\ job'[j].slot # 0 /\ job'[j].slot \in 0..Len(pool')
      /\ job'[j].pool = job[j].pool /\ job'[j].answer = job[j].answer
  BY <1>3, <1>4, <1>5
<1>9. QED BY <1>1, <1>5, <1>6, <1>7, <1>8, Moves

\* No pool changes.
LEMMA MovesOnly ==
    ASSUME PoolInv, NEW j \in Jobs, UNCHANGED <<pool, live>>,
           job[j].phase \notin {"queued", "slot", "gone"},
           job' \in Seq(Job), Len(job') = Len(job),
           \A k \in Jobs : k # j => job'[k] = job[k],
           job'[j].pool = job[j].pool, job'[j].slot = job[j].slot,
           \/ job'[j].phase = "gone" /\ job'[j].answer # "none"
           \/ job'[j].phase = "wedged" /\ job'[j].answer = job[j].answer
    PROVE  PoolInv'
<1>1. Types' /\ Len(pool) \in Nat
  BY DEF PoolInv, Types
<1>2. job'[j].slot \in 0..Len(pool')
  BY DEF PoolInv, PlaceOK
<1>3. /\ Len(pool') >= Len(pool) /\ live' \in {live, Len(pool) + 1}
      /\ \A p \in 1..Len(pool) : pool'[p] = pool[p]
      /\ \A p \in 1..Len(pool') : p \notin 1..Len(pool) => pool'[p] = Fresh
      /\ live' = Len(pool) + 1 => Len(pool') = Len(pool) + 1
  BY <1>1 DEF PoolInv, Types
<1>4. /\ job'[j].phase \notin {"queued", "slot"}
      /\ job'[j].phase = "gone" => job'[j].answer # "none"
      /\ job'[j].phase # "gone" => job'[j].answer = job[j].answer
      /\ job'[j].phase \in {"got", "retry"} => job'[j].slot # 0
  OBVIOUS
<1>5. QED BY <1>1, <1>2, <1>3, <1>4, Moves

\* The code of a job returns or raises.
LEMMA ReturnsKeeps == ASSUME PoolInv, NEW j \in Jobs, Returns(j) PROVE PoolInv'
<1>1. PICK answer \in {"ok", "error"} : job' = Raised(j, answer)
  BY DEF Returns
<1>2. answer \in Answer /\ answer # "none"
  BY DEF Answer
<1>3. QED BY <1>1, <1>2, RaisedIs, MovesOnly DEF Returns

\* The code of a job stops for good.
LEMMA WedgesKeeps == ASSUME PoolInv, NEW j \in Jobs, Wedges(j) PROVE PoolInv'
<1> DEFINE r == [job[j] EXCEPT !.phase = "wedged"]
<1>1. Types /\ job[j] \in Job
  BY DEF PoolInv, Types, Jobs
<1>2. /\ r \in Job /\ r.phase = "wedged" /\ r.answer = job[j].answer
      /\ r.pool = job[j].pool /\ r.slot = job[j].slot
  BY <1>1 DEF Job, Phase
<1>3. job' = [job EXCEPT ![j] = r]
  BY DEF Wedges
<1> HIDE DEF r
<1>4. /\ job' \in Seq(Job) /\ Len(job') = Len(job) /\ job'[j] = r
      /\ \A k \in Jobs : k # j => job'[k] = job[k]
  BY <1>1, <1>2, <1>3, JobBecomes
<1>5. QED BY <1>2, <1>4, MovesOnly DEF Wedges

\* An entry is added to the queue of pool p.
LEMMA EnteredIs ==
    ASSUME PoolInv, NEW p \in 1..Len(pool), NEW e \in Entry,
           pool' = [pool EXCEPT ![p] = Entered(@, e)]
    PROVE  /\ pool' \in Seq(Pool) /\ Len(pool') = Len(pool)
           /\ pool'[p].open = pool[p].open
           /\ pool'[p].queue = Append(pool[p].queue, e)
           /\ \A q \in 1..Len(pool) : q # p => pool'[q] = pool[q]
<1> DEFINE r == [pool[p] EXCEPT !.queue = Append(@, e)]
<1>1. pool \in Seq(Pool) /\ pool[p] \in Pool
  BY DEF PoolInv, Types
<1>2. pool[p].queue \in Seq(Entry)
  BY <1>1 DEF Pool
<1>3. Append(pool[p].queue, e) \in Seq(Entry)
  BY <1>2, Added
<1>4. r \in Pool /\ r.open = pool[p].open /\ r.queue = Append(pool[p].queue, e)
  BY <1>1, <1>3 DEF Pool
<1>5. pool' = [pool EXCEPT ![p] = r]
  BY DEF Entered
<1> HIDE DEF r
<1>6. QED BY <1>1, <1>4, <1>5, Replaced

\* The no-op of a slot is accepted.
LEMMA SlotEnters ==
    ASSUME PoolInv, NEW j \in Jobs, job[j].phase \in {"got", "retry"},
           pool[job[j].slot].open,
           pool' = [pool EXCEPT ![job[j].slot] = Entered(@, [job |-> j, noop |-> TRUE])],
           job' = [job EXCEPT ![j].phase = "slot"],
           live' = live
    PROVE  PoolInv'
<1> DEFINE p == job[j].slot
           e == [job |-> j, noop |-> TRUE]
           r == [job[j] EXCEPT !.phase = "slot"]
<1>1. /\ Types /\ job[j] \in Job /\ Len(pool) \in Nat
      /\ live \in 0..Len(pool)
  BY DEF PoolInv, Types, Jobs
<1>2. p \in 1..Len(pool)
  BY <1>1 DEF PoolInv, PlaceOK
<1>3. e \in Entry
  BY DEF Entry, Jobs
<1>4. /\ r \in Job /\ r.phase = "slot" /\ r.answer = job[j].answer
      /\ r.pool = job[j].pool /\ r.slot = p
  BY <1>1 DEF Job, Phase
<1>5. job' = [job EXCEPT ![j] = r]
  OBVIOUS
<1>6. pool' = [pool EXCEPT ![p] = Entered(@, e)]
  OBVIOUS
<1>7. pool[p].open = TRUE
  <2>1. pool[p] \in Pool
    BY <1>1, <1>2 DEF Types
  <2>2. QED BY <2>1 DEF Pool
<1>8. /\ job' \in Seq(Job) /\ Len(job') = Len(job) /\ job'[j] = r
      /\ \A k \in Jobs : k # j => job'[k] = job[k]
  <2>0. Types
    BY <1>1
  <2>1. ASSUME NEW x \in Job
        PROVE  /\ [job EXCEPT ![j] = x] \in Seq(Job)
               /\ Len([job EXCEPT ![j] = x]) = Len(job)
               /\ [job EXCEPT ![j] = x][j] = x
               /\ \A k \in Jobs : k # j => [job EXCEPT ![j] = x][k] = job[k]
    BY <2>0, JobBecomes
  <2>2. r \in Job
    BY <1>4
  <2> HIDE DEF r
  <2>3. QED BY <1>5, <2>1, <2>2
<1> HIDE DEF r
<1>9. /\ pool' \in Seq(Pool) /\ Len(pool') = Len(pool)
      /\ pool'[p].open = TRUE /\ pool'[p].queue = Append(pool[p].queue, e)
      /\ \A q \in 1..Len(pool) : q # p => pool'[q] = pool[q]
  BY <1>2, <1>3, <1>6, <1>7, EnteredIs
<1>10. Types' /\ Jobs' = Jobs
  BY <1>1, <1>8, <1>9 DEF Types, Jobs
<1>11. /\ job'[j].phase = "slot" /\ job'[j].slot = p
       /\ job'[j].pool = job[j].pool /\ job'[j].answer = job[j].answer
       /\ job'[j].pool \in 1..Len(pool') /\ job'[j].slot \in 0..Len(pool')
  BY <1>1, <1>2, <1>4, <1>8, <1>9 DEF PoolInv, PlaceOK
<1>12. /\ p \in 1..Len(pool') /\ j \in Jobs' /\ Jobs' = Jobs \cup {j}
       /\ Len(pool') >= Len(pool)
       /\ \A q \in 1..Len(pool') : q # p => q \in 1..Len(pool) /\ pool'[q] = pool[q]
  BY <1>1, <1>2, <1>9, <1>10
<1> HIDE DEF p
<1>13. QED BY <1>2, <1>8, <1>9, <1>10, <1>11, <1>12, Enters

\* A no-op is submitted, or the pool is rebuilt because it was shut down.
LEMMA SubmitSlotKeeps == ASSUME PoolInv, NEW j \in Jobs, SubmitSlot(j) PROVE PoolInv'
<1>1. CASE pool[job[j].slot].open
  BY <1>1, SlotEnters DEF SubmitSlot
<1>2. CASE ~pool[job[j].slot].open
  <2> DEFINE p == Len(pool) + 1
             r == [job[j] EXCEPT !.phase = "retry", !.slot = p]
  <2>1. Types /\ job[j] \in Job /\ job[j].phase = "got" /\ Len(pool) \in Nat
    BY DEF PoolInv, Types, Jobs, SubmitSlot
  <2>2. /\ pool' = Append(pool, Fresh) /\ live' = Len(pool) + 1
        /\ job' = [job EXCEPT ![j] = r]
    BY <1>2 DEF SubmitSlot
  <2>3. p \in Nat
    BY <2>1
  <2> HIDE DEF p
  <2>4. /\ r \in Job /\ r.phase = "retry" /\ r.slot = p
        /\ r.pool = job[j].pool /\ r.answer = job[j].answer
    BY <2>1, <2>3 DEF Job, Phase
  <2> HIDE DEF r
  <2>5. /\ job' \in Seq(Job) /\ Len(job') = Len(job) /\ job'[j] = r
        /\ \A k \in Jobs : k # j => job'[k] = job[k]
    BY <2>1, <2>2, <2>4, JobBecomes
  <2>6. /\ pool' \in Seq(Pool) /\ Len(pool') = Len(pool) + 1
        /\ \A q \in 1..Len(pool) : pool'[q] = pool[q]
        /\ pool'[Len(pool) + 1] = Fresh
    BY <2>1, <2>2, FreshOK, Added DEF Types
  <2>7. \A q \in 1..Len(pool') : q \notin 1..Len(pool) => pool'[q] = Fresh
    <3>1. \A q \in 1..Len(pool') : q \notin 1..Len(pool) => q = Len(pool) + 1
      BY <2>1, <2>6
    <3>2. QED BY <2>6, <3>1
  <2>8. Types'
    BY <2>1, <2>2, <2>5, <2>6 DEF Types
  <2>9. /\ job'[j].phase = "retry" /\ job'[j].slot # 0 /\ job'[j].slot \in 0..Len(pool')
        /\ job'[j].pool = job[j].pool /\ job'[j].answer = job[j].answer
        /\ Len(pool') >= Len(pool) /\ live' \in {live, Len(pool) + 1}
    BY <2>1, <2>2, <2>4, <2>5, <2>6 DEF p
  <2>10. QED BY <2>1, <2>2, <2>5, <2>6, <2>7, <2>8, <2>9, Moves
<1>3. QED BY <1>1, <1>2

\* The no-op is submitted again, or the call fails.
LEMMA RetrySlotKeeps == ASSUME PoolInv, NEW j \in Jobs, RetrySlot(j) PROVE PoolInv'
<1>1. CASE pool[job[j].slot].open
  BY <1>1, SlotEnters DEF RetrySlot
<1>2. CASE ~pool[job[j].slot].open
  <2>1. job' = Raised(j, "error") /\ UNCHANGED <<pool, live>> /\ job[j].phase = "retry"
    BY <1>2 DEF RetrySlot
  <2>2. "error" \in Answer
    BY DEF Answer
  <2>3. QED BY <2>1, <2>2, RaisedIs, MovesOnly
<1>3. QED BY <1>1, <1>2

\* What is left of a queue.
LEMMA TailIs ==
    ASSUME NEW S, NEW s \in Seq(S), s # <<>>
    PROVE  /\ Tail(s) \in Seq(S) /\ Head(s) = s[1]
           /\ Len(s) \in Nat /\ 1 \in 1..Len(s) /\ Len(Tail(s)) = Len(s) - 1
           /\ \A k \in 1..Len(Tail(s)) :
                k + 1 \in 1..Len(s) /\ k + 1 # 1 /\ Tail(s)[k] = s[k + 1]
           /\ \A k \in 1..Len(s) :
                k # 1 => k - 1 \in 1..Len(Tail(s)) /\ Tail(s)[k - 1] = s[k]
<1>1. Tail(s) \in Seq(S) /\ Head(s) = s[1] /\ Len(s) \in Nat /\ Len(s) # 0
  OBVIOUS
<1>2. Len(Tail(s)) = Len(s) - 1 /\ \A k \in 1..(Len(s) - 1) : Tail(s)[k] = s[k + 1]
  OBVIOUS
<1>3. ASSUME NEW k \in 1..Len(s), k # 1
      PROVE  k - 1 \in 1..(Len(s) - 1) /\ (k - 1) + 1 = k
  BY <1>1, <1>3
<1>4. ASSUME NEW k \in 1..Len(Tail(s))
      PROVE  k + 1 \in 1..Len(s) /\ k + 1 # 1 /\ k \in 1..(Len(s) - 1)
  BY <1>1, <1>2
<1>5. \A k \in 1..Len(s) :
        k # 1 => k - 1 \in 1..Len(Tail(s)) /\ Tail(s)[k - 1] = s[k]
  <2>1. ASSUME NEW k \in 1..Len(s), k # 1
        PROVE  k - 1 \in 1..Len(Tail(s)) /\ Tail(s)[k - 1] = s[k]
    <3>1. k - 1 \in 1..(Len(s) - 1) /\ (k - 1) + 1 = k
      BY <1>3, <2>1
    <3>2. Tail(s)[k - 1] = s[(k - 1) + 1]
      BY <1>2, <3>1
    <3>3. QED BY <1>2, <3>1, <3>2
  <2>2. QED BY <2>1
<1>6. 1 \in 1..Len(s)
  BY <1>1
<1>7. QED BY <1>1, <1>2, <1>4, <1>5, <1>6

\* A thread takes an entry: no other of the same job is in any queue.
LEMMA TakeKeeps == ASSUME PoolInv, NEW p \in 1..Len(pool), Take(p) PROVE PoolInv'
<1> DEFINE e == Head(pool[p].queue)
           j == e.job
           ph == IF ~e.noop /\ job[j].kind = "sidecar" THEN "ask" ELSE "work"
<1>1. /\ Types /\ Len(pool) \in Nat /\ pool[p] \in Pool
      /\ live \in 0..Len(pool)
  BY DEF PoolInv, Types
<1>2. pool[p].queue \in Seq(Entry) /\ pool[p].queue # <<>>
  BY <1>1 DEF Pool, Take
<1>3. /\ Tail(pool[p].queue) \in Seq(Entry)
      /\ e = pool[p].queue[1] /\ 1 \in 1..Len(pool[p].queue)
      /\ \A k \in 1..Len(Tail(pool[p].queue)) :
           /\ k + 1 \in 1..Len(pool[p].queue) /\ k + 1 # 1
           /\ Tail(pool[p].queue)[k] = pool[p].queue[k + 1]
      /\ \A k \in 1..Len(pool[p].queue) :
           k # 1 => /\ k - 1 \in 1..Len(Tail(pool[p].queue))
                    /\ Tail(pool[p].queue)[k - 1] = pool[p].queue[k]
  BY <1>2, TailIs
<1>4. j \in Jobs /\ Waits(e, p)
  BY <1>3 DEF PoolInv, EntryOK
<1>5. /\ pool' = [pool EXCEPT ![p].queue = Tail(@)]
      /\ job' = IF job[j].phase = "gone" THEN job ELSE [job EXCEPT ![j].phase = ph]
      /\ live' = live
  BY DEF Take
<1>6. /\ pool' \in Seq(Pool) /\ Len(pool') = Len(pool)
      /\ pool'[p].open = pool[p].open /\ pool'[p].queue = Tail(pool[p].queue)
      /\ \A q \in 1..Len(pool) : q # p => pool'[q] = pool[q]
  <2> DEFINE r == [pool[p] EXCEPT !.queue = Tail(@)]
  <2>1. r \in Pool /\ r.open = pool[p].open /\ r.queue = Tail(pool[p].queue)
    BY <1>1, <1>3 DEF Pool
  <2>2. pool' = [pool EXCEPT ![p] = r]
    BY <1>5
  <2> HIDE DEF r
  <2>3. QED BY <1>1, <2>1, <2>2, Replaced DEF Types
<1>7. /\ job' \in Seq(Job) /\ Len(job') = Len(job)
      /\ \A k \in Jobs : k # j => job'[k] = job[k]
      /\ job'[j].pool = job[j].pool /\ job'[j].slot = job[j].slot
      /\ job'[j].answer = job[j].answer
      /\ job'[j].phase \notin {"queued", "slot", "got", "retry"} \/ job'[j] = job[j]
      /\ job[j].phase = "gone" => job'[j] = job[j]
      /\ job[j].phase # "gone" => job'[j].phase \in {"ask", "work"}
  <2>1. CASE job[j].phase = "gone"
    BY <1>1, <1>5, <2>1 DEF Types
  <2>2. CASE job[j].phase # "gone"
    <3> DEFINE r == [job[j] EXCEPT !.phase = ph]
    <3>1. job[j] \in Job
      BY <1>1, <1>4 DEF Types, Jobs
    <3>2. ph \in {"ask", "work"}
      OBVIOUS
    <3>3. job' = [job EXCEPT ![j] = r]
      BY <1>5, <2>2
    <3> HIDE DEF ph
    <3>4. /\ r \in Job /\ r.phase \in {"ask", "work"} /\ r.answer = job[j].answer
          /\ r.pool = job[j].pool /\ r.slot = job[j].slot
      BY <3>1, <3>2 DEF Job, Phase
    <3>5. j \in Jobs
      BY <1>4
    <3> HIDE DEF r, j
    <3>6. ASSUME NEW x \in Job
          PROVE  /\ [job EXCEPT ![j] = x] \in Seq(Job)
                 /\ Len([job EXCEPT ![j] = x]) = Len(job)
                 /\ [job EXCEPT ![j] = x][j] = x
                 /\ \A k \in Jobs : k # j => [job EXCEPT ![j] = x][k] = job[k]
      BY <1>1, <3>5, JobBecomes
    <3>7. /\ job' \in Seq(Job) /\ Len(job') = Len(job) /\ job'[j] = r
          /\ \A k \in Jobs : k # j => job'[k] = job[k]
      BY <3>3, <3>4, <3>6
    <3>8. QED BY <2>2, <3>4, <3>7
  <2>3. QED BY <2>1, <2>2
<1>8. e \in Entry
  BY <1>2, <1>3
<1> HIDE DEF e, ph
<1>9. Types' /\ Jobs' = Jobs
  BY <1>1, <1>5, <1>6, <1>7 DEF Types, Jobs
<1>10. PlaceOK'
  <2>1. ASSUME NEW k \in Jobs
        PROVE  /\ job'[k].pool \in 1..Len(pool)
               /\ job'[k].slot \in 0..Len(pool)
               /\ job'[k].phase \in {"got", "retry", "slot"} => job'[k].slot # 0
    <3>1. /\ job[k].pool \in 1..Len(pool)
          /\ job[k].slot \in 0..Len(pool)
          /\ job[k].phase \in {"got", "retry", "slot"} => job[k].slot # 0
      BY DEF PoolInv, PlaceOK
    <3>2. CASE k = j
      BY <1>7, <3>1, <3>2
    <3>3. CASE k # j
      BY <1>7, <3>1, <3>3
    <3>4. QED BY <3>2, <3>3
  <2>2. QED BY <1>6, <1>9, <2>1 DEF PlaceOK
<1>11. LiveOK'
  BY <1>1, <1>5, <1>6 DEF PoolInv, LiveOK
\* What is in a queue now was in it before, behind the entry that was taken.
<1>12. ASSUME NEW q \in 1..Len(pool), NEW k \in 1..Len(pool'[q].queue)
       PROVE  \E i \in 1..Len(pool[q].queue) :
                /\ pool'[q].queue[k] = pool[q].queue[i]
                /\ i = (IF q = p THEN k + 1 ELSE k)
                /\ ~(q = p /\ i = 1)
  <2>1. CASE q = p
    BY <1>3, <1>6, <1>12, <2>1
  <2>2. CASE q # p
    BY <1>6, <1>12, <2>2
  <2>3. QED BY <2>1, <2>2
<1>13. EntryOK'
  <2> SUFFICES ASSUME NEW q \in 1..Len(pool), NEW k \in 1..Len(pool'[q].queue)
               PROVE  (pool[q].queue[k].job \in Jobs /\ Waits(pool[q].queue[k], q))'
    BY <1>6 DEF EntryOK
  <2>1. PICK i \in 1..Len(pool[q].queue) :
               pool'[q].queue[k] = pool[q].queue[i] /\ ~(q = p /\ i = 1)
    BY <1>12
  <2>2. pool[q].queue[i].job \in Jobs /\ Waits(pool[q].queue[i], q)
    BY DEF PoolInv, EntryOK
  <2>3. CASE pool[q].queue[i].job # j
    <3>1. job'[pool[q].queue[i].job] = job[pool[q].queue[i].job]
      BY <1>7, <2>2, <2>3
    <3>2. QED BY <1>9, <2>1, <2>2, <3>1 DEF Waits
  <2>4. CASE pool[q].queue[i].job = j
    <3>1. job[j].phase = "gone"
      <4>1. SUFFICES ASSUME job[j].phase # "gone"
                     PROVE  FALSE
        OBVIOUS
      <4>2. q = p
        BY <1>4, <2>2, <2>4, <4>1 DEF Waits
      <4>3. i = 1
        BY <1>3, <2>4, <4>2 DEF PoolInv, OnceOK
      <4>4. QED BY <2>1, <4>2, <4>3
    <3>2. job'[j] = job[j]
      BY <1>7, <3>1
    <3>3. QED BY <1>9, <2>1, <2>2, <2>4, <3>1, <3>2 DEF Waits
  <2>5. QED BY <2>3, <2>4
<1>14. OnceOK'
  <2> SUFFICES ASSUME NEW q \in 1..Len(pool), NEW i \in 1..Len(pool'[q].queue),
                      NEW k \in 1..Len(pool'[q].queue),
                      pool'[q].queue[i].job = pool'[q].queue[k].job
               PROVE  i = k
    BY <1>6 DEF OnceOK
  <2>1. PICK m \in 1..Len(pool[q].queue) :
               /\ pool'[q].queue[i] = pool[q].queue[m]
               /\ m = (IF q = p THEN i + 1 ELSE i)
    BY <1>12
  <2>2. PICK n \in 1..Len(pool[q].queue) :
               /\ pool'[q].queue[k] = pool[q].queue[n]
               /\ n = (IF q = p THEN k + 1 ELSE k)
    BY <1>12
  <2>3. m = n
    BY <2>1, <2>2 DEF PoolInv, OnceOK
  <2>4. QED BY <2>1, <2>2, <2>3
<1>15. ASSUME NEW q \in 1..Len(pool), NEW i, NEW n, Has(q, i, n), i # j
       PROVE  Has(q, i, n)'
  <2>1. PICK k \in 1..Len(pool[q].queue) :
               pool[q].queue[k].job = i /\ pool[q].queue[k].noop = n
    BY <1>15 DEF Has
  <2>2. pool'[q].open = TRUE
    BY <1>6, <1>15 DEF Has
  <2>3. CASE q = p
    <3>1. k # 1
      BY <1>3, <1>15, <2>1, <2>3
    <3>2. /\ k - 1 \in 1..Len(pool'[q].queue)
          /\ pool'[q].queue[k - 1] = pool[q].queue[k]
      BY <1>3, <1>6, <2>3, <3>1
    <3>3. QED BY <2>1, <2>2, <3>2 DEF Has
  <2>4. CASE q # p
    BY <1>6, <2>1, <2>2, <2>4 DEF Has
  <2>5. QED BY <2>3, <2>4
<1>16. WaitOK'
  <2>1. ASSUME NEW k \in Jobs
        PROVE  /\ job'[k].phase = "gone" => job'[k].answer # "none"
               /\ job'[k].phase = "queued" =>
                    job'[k].answer = "none" /\ Has(job[k].pool, k, FALSE)'
               /\ job'[k].phase = "slot" => Has(job[k].slot, k, TRUE)'
    <3>1. /\ job[k].phase = "gone" => job[k].answer # "none"
          /\ job[k].phase = "queued" => job[k].answer = "none" /\ Has(job[k].pool, k, FALSE)
          /\ job[k].phase = "slot" => Has(job[k].slot, k, TRUE)
      BY DEF PoolInv, WaitOK
    <3>2. CASE k # j
      <4>1. job'[k] = job[k]
        BY <1>7, <3>2
      <4>2. job[k].pool \in 1..Len(pool)
        BY DEF PoolInv, PlaceOK
      <4>3. job[k].phase = "slot" => job[k].slot \in 1..Len(pool)
        BY <1>1 DEF PoolInv, PlaceOK
      <4>4. \A q \in 1..Len(pool), n \in BOOLEAN : Has(q, k, n) => Has(q, k, n)'
        BY <1>15, <3>2
      <4>5. /\ job[k].phase = "queued" => Has(job[k].pool, k, FALSE)'
            /\ job[k].phase = "slot" => Has(job[k].slot, k, TRUE)'
        BY <3>1, <4>1, <4>2, <4>3, <4>4
      <4>6. QED BY <3>1, <4>1, <4>5
    <3>3. CASE k = j
      BY <1>7, <3>1, <3>3
    <3>4. QED BY <3>2, <3>3
  <2>2. QED BY <1>9, <2>1 DEF WaitOK
<1>17. CapacityRestored'
  <2> SUFFICES ASSUME live' # 0, NEW k \in Held(live)'
               PROVE  job'[k].answer = "none"
    BY DEF CapacityRestored
  <2>1. k \in Jobs /\ job'[k].pool = live /\ job'[k].phase \notin {"queued", "gone"}
    BY <1>5, <1>9 DEF Held
  <2>2. job[k].pool = live /\ job'[k].answer = job[k].answer /\ job[k].phase # "gone"
    <3>1. CASE k = j
      BY <1>7, <2>1, <3>1
    <3>2. CASE k # j
      BY <1>7, <2>1, <3>2
    <3>3. QED BY <3>1, <3>2
  <2>3. CASE job[k].phase = "queued"
    BY <2>1, <2>2, <2>3 DEF PoolInv, WaitOK
  <2>4. CASE job[k].phase # "queued"
    BY <1>5, <2>1, <2>2, <2>4 DEF PoolInv, CapacityRestored, Held
  <2>5. QED BY <2>2, <2>3, <2>4
<1>18. QED BY <1>9, <1>10, <1>11, <1>13, <1>14, <1>16, <1>17 DEF PoolInv

\* A guarded call runs out of time.
LEMMA TimeoutResets == ASSUME PoolInv, NEW j \in Jobs, Timeout(j) PROVE PoolInv'
<1> DEFINE r == [job[j] EXCEPT !.answer = "timeout",
                               !.phase = IF @ = "queued" THEN "gone" ELSE @]
           jobs == [job EXCEPT ![j] = r]
<1>1. Types /\ job[j] \in Job
  BY DEF PoolInv, Types, Jobs
<1>2. /\ r \in Job /\ r.answer = "timeout"
      /\ r.pool = job[j].pool /\ r.slot = job[j].slot
      /\ \/ r.phase = "gone"
         \/ r.phase = job[j].phase /\ job[j].phase # "queued"
  BY <1>1 DEF Job, Phase, Answer
<1>3. Reset(jobs)
  BY DEF Timeout
<1> HIDE DEF r
<1>4. /\ jobs \in Seq(Job) /\ Len(jobs) = Len(job) /\ jobs[j] = r
      /\ \A k \in Jobs : k # j => jobs[k] = job[k]
  BY <1>1, <1>2, JobBecomes
<1> HIDE DEF jobs
<1>5. \A k \in Jobs : jobs[k] \in Job
  BY <1>4 DEF Jobs
<1>6. Types'
  BY <1>1, <1>3, <1>4, <1>5, ResetTypes
<1>7. QED BY <1>2, <1>3, <1>4, <1>5, <1>6, ResetKeeps

\* A slot is not served in time.
LEMMA SlotTimeoutKeeps == ASSUME PoolInv, NEW j \in Jobs, SlotTimeout(j) PROVE PoolInv'
<1> DEFINE jobs == Raised(j, "timeout")
<1>1. "timeout" \in Answer
  BY DEF Answer
<1>2. /\ jobs \in Seq(Job) /\ Len(jobs) = Len(job)
      /\ jobs[j].phase = "gone" /\ jobs[j].answer # "none"
      /\ jobs[j].pool = job[j].pool /\ jobs[j].slot = job[j].slot
      /\ \A k \in Jobs : k # j => jobs[k] = job[k]
  BY <1>1, RaisedIs
<1>3. Types /\ job[j].phase = "slot"
  BY DEF PoolInv, SlotTimeout
<1>4. CASE job[j].answer = "none"
  <2>1. Reset(jobs)
    BY <1>4 DEF SlotTimeout
  <2> HIDE DEF jobs
  <2>2. \A k \in Jobs : jobs[k] \in Job
    BY <1>2 DEF Jobs
  <2>3. Types'
    BY <1>2, <1>3, <2>1, <2>2, ResetTypes
  <2>4. QED BY <1>2, <2>1, <2>2, <2>3, ResetKeeps
\* The no-op stays in its queue until a thread skips it.
<1>5. CASE job[j].answer # "none"
  <2>1. job' = jobs /\ pool' = pool /\ live' = live
    BY <1>5 DEF SlotTimeout
  <2> HIDE DEF jobs
  <2>2. /\ Types' /\ Jobs' = Jobs
        /\ job'[j].phase = "gone" /\ job'[j].answer # "none"
        /\ job'[j].pool = job[j].pool /\ job'[j].slot = job[j].slot
        /\ \A k \in Jobs : k # j => job'[k] = job[k]
    BY <1>2, <1>3, <2>1 DEF Types, Jobs
  <2>3. PlaceOK' /\ LiveOK' /\ OnceOK'
    <3>1. LiveOK' /\ OnceOK'
      BY <2>1 DEF PoolInv, LiveOK, OnceOK
    <3>2. ASSUME NEW k \in Jobs
          PROVE  /\ job'[k].pool \in 1..Len(pool)
                 /\ job'[k].slot \in 0..Len(pool)
                 /\ job'[k].phase \in {"got", "retry", "slot"} => job'[k].slot # 0
      <4>1. CASE k = j
        BY <2>2, <4>1 DEF PoolInv, PlaceOK
      <4>2. CASE k # j
        <5>1. job'[k] = job[k]
          BY <2>2, <4>2
        <5>2. QED BY <5>1 DEF PoolInv, PlaceOK
      <4>3. QED BY <4>1, <4>2
    <3>3. QED BY <2>1, <2>2, <3>1, <3>2 DEF PlaceOK
  <2>4. EntryOK'
    <3> SUFFICES ASSUME NEW p \in 1..Len(pool), NEW k \in 1..Len(pool[p].queue)
                 PROVE  (pool[p].queue[k].job \in Jobs /\ Waits(pool[p].queue[k], p))'
      BY <2>1 DEF EntryOK
    <3>1. pool[p].queue[k].job \in Jobs /\ Waits(pool[p].queue[k], p)
      BY DEF PoolInv, EntryOK
    <3>2. CASE pool[p].queue[k].job = j
      BY <2>1, <2>2, <3>1, <3>2 DEF Waits
    <3>3. CASE pool[p].queue[k].job # j
      <4>1. job'[pool[p].queue[k].job] = job[pool[p].queue[k].job]
        BY <2>2, <3>1, <3>3
      <4>2. QED BY <2>1, <2>2, <3>1, <4>1 DEF Waits
    <3>4. QED BY <3>2, <3>3
  <2>5. WaitOK'
    <3>1. ASSUME NEW k \in Jobs
          PROVE  (/\ job[k].phase = "gone" => job[k].answer # "none"
                  /\ job[k].phase = "queued" =>
                       job[k].answer = "none" /\ Has(job[k].pool, k, FALSE)
                  /\ job[k].phase = "slot" => Has(job[k].slot, k, TRUE))'
      <4>1. CASE k = j
        BY <2>2, <4>1
      <4>2. CASE k # j
        <5>1. job'[k] = job[k]
          BY <2>2, <4>2
        <5>2. QED BY <2>1, <5>1 DEF PoolInv, WaitOK, Has
      <4>3. QED BY <4>1, <4>2
    <3>2. QED BY <2>2, <3>1 DEF WaitOK
  <2>6. CapacityRestored'
    BY <2>1, <2>2 DEF PoolInv, CapacityRestored, Held
  <2>7. QED BY <2>2, <2>3, <2>4, <2>5, <2>6 DEF PoolInv
<1>6. QED BY <1>4, <1>5

\* A new call.
LEMMA CallKeeps == ASSUME PoolInv, NEW kind \in Kinds, Call(kind) PROVE PoolInv'
<1> DEFINE j == Len(job) + 1
           e == [job |-> j, noop |-> FALSE]
           p == IF live = 0 THEN Len(pool) + 1 ELSE live
           r == [kind |-> kind, phase |-> "queued", pool |-> p,
                 slot |-> 0, answer |-> "none"]
<1>1. /\ Types /\ Len(pool) \in Nat /\ Len(job) \in Nat /\ live \in 0..Len(pool)
  BY DEF PoolInv, Types
<1>2. j \in Nat /\ j \notin Jobs /\ p \in Nat
  BY <1>1 DEF Jobs
<1>3. /\ job' = Append(job, r) /\ live' = p
      /\ pool' = IF live = 0 THEN Append(pool, Entered(Fresh, e))
                 ELSE [pool EXCEPT ![p] = Entered(@, e)]
  BY DEF Call
<1>4. e \in Entry
  BY <1>2 DEF Entry
<1>5. /\ r \in Job /\ r.phase = "queued" /\ r.pool = p
      /\ r.slot = 0 /\ r.answer = "none"
  <2> HIDE DEF p
  <2>1. QED BY <1>2 DEF Job, Phase, Answer
<1> HIDE DEF r
<1>6. /\ job' \in Seq(Job) /\ Len(job') = Len(job) + 1 /\ job'[j] = r
      /\ \A k \in Jobs : job'[k] = job[k]
  BY <1>1, <1>3, <1>5, Added DEF Types, Jobs
<1>7. Jobs' = Jobs \cup {j} /\ j \in Jobs'
  BY <1>1, <1>6 DEF Jobs
<1>8. /\ pool' \in Seq(Pool) /\ Len(pool') >= Len(pool)
      /\ Len(pool') \in Nat /\ p \in 1..Len(pool')
      /\ \A q \in 1..Len(pool') : q # p => q \in 1..Len(pool) /\ pool'[q] = pool[q]
      /\ pool'[p].open = TRUE
      /\ \/ /\ p \in 1..Len(pool) /\ live' = live
            /\ pool'[p].queue = Append(pool[p].queue, e)
         \/ /\ p \notin 1..Len(pool) /\ live' = p /\ pool'[p].queue = <<e>>
  <2>1. CASE live = 0
    <3> DEFINE f == [Fresh EXCEPT !.queue = Append(@, e)]
    <3>1. Append(<<>>, e) = <<e>> /\ <<e>> \in Seq(Entry)
      <4> HIDE DEF e
      <4>1. QED BY <1>4
    <3>2. f \in Pool /\ f.open = TRUE /\ f.queue = <<e>>
      BY <3>1 DEF Fresh, Pool
    <3>3. pool' = Append(pool, f) /\ p = Len(pool) + 1 /\ live' = p
      BY <1>3, <2>1 DEF Entered
    <3> HIDE DEF f, e
    <3>4. /\ pool' \in Seq(Pool) /\ Len(pool') = Len(pool) + 1
          /\ \A q \in 1..Len(pool) : pool'[q] = pool[q]
          /\ pool'[Len(pool) + 1] = f
      BY <1>1, <3>2, <3>3, Added DEF Types
    <3>5. \A q \in 1..Len(pool') : q # p => q \in 1..Len(pool)
      BY <1>1, <3>3, <3>4
    <3>6. p \in 1..Len(pool') /\ p \notin 1..Len(pool)
      BY <1>1, <3>3, <3>4
    <3>7. QED BY <1>1, <3>2, <3>3, <3>4, <3>5, <3>6
  <2>2. CASE live # 0
    <3>1. p \in 1..Len(pool) /\ live' = live /\ p = live
      BY <1>1, <1>3, <2>2
    <3>2. pool' = [pool EXCEPT ![p] = Entered(@, e)]
      BY <1>3, <2>2
    <3>3. pool[p].open = TRUE
      BY <2>2, <3>1 DEF PoolInv, LiveOK
    <3> HIDE DEF p, e
    <3>4. /\ pool' \in Seq(Pool) /\ Len(pool') = Len(pool)
          /\ pool'[p].open = pool[p].open
          /\ pool'[p].queue = Append(pool[p].queue, e)
          /\ \A q \in 1..Len(pool) : q # p => pool'[q] = pool[q]
      BY <1>4, <3>1, <3>2, EnteredIs
    <3>5. QED BY <1>1, <3>1, <3>3, <3>4
  <2>3. QED BY <2>1, <2>2
<1>9. Types'
  BY <1>3, <1>6, <1>8 DEF Types
<1>10. /\ job'[j].phase = "queued" /\ job'[j].pool = p /\ job'[j].answer = "none"
       /\ job'[j].pool \in 1..Len(pool') /\ job'[j].slot \in 0..Len(pool')
  BY <1>5, <1>6, <1>8
<1>11. PICK noop \in BOOLEAN : noop = FALSE
  OBVIOUS
<1>12. /\ e = [job |-> j, noop |-> noop] /\ Types' /\ j \in Jobs'
       /\ \A k \in Jobs : k # j => job'[k] = job[k]
  BY <1>6, <1>7, <1>9, <1>11
<1> HIDE DEF j, p, e
<1>13. QED BY <1>2, <1>7, <1>8, <1>10, <1>11, <1>12, Enters

LEMMA PoolNext == ASSUME PoolInv, [Next]_vars PROVE PoolInv'
<1>1. CASE UNCHANGED vars
  <2>1. job' = job /\ pool' = pool /\ live' = live
    BY <1>1 DEF vars
  <2>2. Types' /\ PlaceOK' /\ LiveOK' /\ OnceOK'
    BY <2>1 DEF PoolInv, Types, PlaceOK, LiveOK, OnceOK, Jobs
  <2>3. EntryOK'
    BY <2>1 DEF PoolInv, EntryOK, Waits, Jobs
  <2>4. WaitOK'
    BY <2>1 DEF PoolInv, WaitOK, Has, Jobs
  <2>5. CapacityRestored'
    BY <2>1 DEF PoolInv, CapacityRestored, Held, Jobs
  <2>6. QED BY <2>2, <2>3, <2>4, <2>5 DEF PoolInv
<1>2. ASSUME NEW kind \in Kinds, Call(kind) PROVE PoolInv'
  BY <1>2, CallKeeps
<1>3. ASSUME NEW p \in 1..Len(pool), Take(p) PROVE PoolInv'
  BY <1>3, TakeKeeps
<1>4. ASSUME NEW j \in Jobs, Thread(j) \/ Wedges(j) PROVE PoolInv'
  BY <1>4, AskSlotKeeps, SubmitSlotKeeps, RetrySlotKeeps, ReturnsKeeps, WedgesKeeps
     DEF Thread
<1>5. ASSUME NEW j \in Jobs, Timeout(j) \/ SlotTimeout(j) PROVE PoolInv'
  BY <1>5, TimeoutResets, SlotTimeoutKeeps
<1>6. QED BY <1>1, <1>2, <1>3, <1>4, <1>5 DEF Next

LEMMA PoolInit == ASSUME Init PROVE PoolInv
<1>1. job = <<>> /\ pool = <<>> /\ live = 0 /\ Len(job) = 0 /\ Len(pool) = 0
  BY DEF Init
<1>2. job \in Seq(Job) /\ pool \in Seq(Pool) /\ live \in 0..Len(pool) /\ Jobs = {}
  BY <1>1 DEF Jobs
<1>3. QED BY <1>1, <1>2 DEF PoolInv, Types, PlaceOK, LiveOK, EntryOK, OnceOK, WaitOK,
                    CapacityRestored

LEMMA PoolAlways == Spec => []PoolInv
BY PoolInit, PoolNext, PTL DEF Spec

\* In the pool new calls go to, every thread that is taken works for a caller that
\* still waits: what a timed-out call leaves behind takes no capacity (reset).
THEOREM CapacityComesBack == Spec => []CapacityRestored
<1>1. PoolInv => CapacityRestored
  BY DEF PoolInv
<1>2. QED BY <1>1, PoolAlways, PTL

\* What waits is in its queue.
LEMMA HasIsQueued ==
    ASSUME PoolInv, NEW p \in 1..Len(pool), NEW j, NEW noop, Has(p, j, noop)
    PROVE  Queued(p, j, noop)
<1>1. PICK k \in 1..Len(pool[p].queue) :
             pool[p].queue[k].job = j /\ pool[p].queue[k].noop = noop
  BY DEF Has
<1>2. pool[p] \in Pool
  BY DEF PoolInv, Types
<1>3. PICK x : x = pool[p].queue[k]
  OBVIOUS
<1>4. x \in Entry /\ x.job = j /\ x.noop = noop
  BY <1>1, <1>2, <1>3 DEF Pool
<1>5. x = [job |-> j, noop |-> noop]
  BY <1>4 DEF Entry
<1>6. QED BY <1>1, <1>3, <1>5 DEF Has, Queued

\* A call without an answer is at work, or in the queue of a pool that is open, and
\* so is its slot (submit, reset, run_on_gpu_pool_guarded).
THEOREM ResetLosesNothing == Spec => []NothingLost
<1>1. PoolInv => NothingLost
  <2> SUFFICES ASSUME PoolInv, NEW j \in Jobs, job[j].answer = "none"
               PROVE  /\ job[j].phase # "gone"
                      /\ job[j].phase = "queued" =>
                           /\ pool[job[j].pool].open
                           /\ \E k \in 1..Len(pool[job[j].pool].queue) :
                                pool[job[j].pool].queue[k] = [job |-> j, noop |-> FALSE]
                      /\ job[j].phase = "slot" => pool[job[j].slot].open
    BY DEF NothingLost
  <2>1. job[j].phase # "gone"
    BY DEF PoolInv, WaitOK
  <2>2. ASSUME job[j].phase = "queued"
        PROVE  /\ pool[job[j].pool].open
               /\ \E k \in 1..Len(pool[job[j].pool].queue) :
                    pool[job[j].pool].queue[k] = [job |-> j, noop |-> FALSE]
    <3>1. Has(job[j].pool, j, FALSE) /\ job[j].pool \in 1..Len(pool)
      BY <2>2 DEF PoolInv, WaitOK, PlaceOK
    <3>2. Queued(job[j].pool, j, FALSE)
      BY <3>1, HasIsQueued
    <3>3. QED BY <3>2 DEF Queued
  <2>3. ASSUME job[j].phase = "slot"
        PROVE  pool[job[j].slot].open
    BY <2>3 DEF PoolInv, WaitOK, Has
  <2>4. QED BY <2>1, <2>2, <2>3
<1>2. QED BY <1>1, PoolAlways, PTL

-----------------------------------------------------------------------------
(***************************************************************************)
(* The pool is a CallService.                                              *)
(***************************************************************************)
CallInv == PoolInv /\ Len(job) <= MaxCalls

Codes   == [j \in 1..MaxCalls |-> CodeOf(j)]
Answers == [j \in 1..MaxCalls |-> AnswerOf(j)]

\* What a caller sees of a phase, as long as nothing is lost.
Seen(phase) == CASE phase = "gone" -> "over"
                 [] phase = "queued" -> "waiting"
                 [] OTHER -> "running"

\* Nothing is lost, and so this is what the callers see.
CallsSeen ==
    /\ Jobs \subseteq 1..MaxCalls
    /\ Codes = [j \in 1..MaxCalls |->
                  IF j \in Jobs THEN Seen(job[j].phase) ELSE "absent"]
    /\ Answers = [j \in 1..MaxCalls |-> IF j \in Jobs THEN job[j].answer ELSE "none"]
    /\ \A j \in Jobs : /\ job[j].phase = "queued" => job[j].answer = "none"
                       /\ job[j].phase = "gone" => job[j].answer # "none"

LEMMA CodeIs == ASSUME PoolInv, NEW j \in Jobs PROVE CodeOf(j) = Seen(job[j].phase)
<1>1. CASE job[j].phase = "queued"
  <2>1. Has(job[j].pool, j, FALSE) /\ job[j].pool \in 1..Len(pool)
    BY <1>1 DEF PoolInv, WaitOK, PlaceOK
  <2>2. QED BY <1>1, <2>1, HasIsQueued DEF CodeOf, Seen
<1>2. CASE job[j].phase = "slot"
  <2>1. Len(pool) \in Nat /\ job[j].slot \in 0..Len(pool) /\ job[j].slot # 0
    BY <1>2 DEF PoolInv, PlaceOK, Types
  <2>2. job[j].slot \in 1..Len(pool)
    BY <2>1
  <2>3. Has(job[j].slot, j, TRUE)
    BY <1>2 DEF PoolInv, WaitOK
  <2>4. QED BY <1>2, <2>2, <2>3, HasIsQueued DEF CodeOf, Seen
<1>3. CASE job[j].phase \notin {"queued", "slot"}
  BY <1>3 DEF CodeOf, Seen
<1>4. QED BY <1>1, <1>2, <1>3

LEMMA CallsAreSeen == CallInv => CallsSeen
<1> SUFFICES ASSUME CallInv PROVE CallsSeen
  OBVIOUS
<1>1. MaxCalls \in Nat /\ Len(job) \in Nat /\ Len(job) <= MaxCalls
  BY GpuPoolAssumption DEF CallInv, PoolInv, Types
<1>2. Jobs \subseteq 1..MaxCalls
  BY <1>1 DEF Jobs
<1>3. \A j \in 1..MaxCalls :
        CodeOf(j) = IF j \in Jobs THEN Seen(job[j].phase) ELSE "absent"
  BY CodeIs DEF CallInv, CodeOf
<1>4. \A j \in 1..MaxCalls : AnswerOf(j) = IF j \in Jobs THEN job[j].answer ELSE "none"
  BY DEF AnswerOf
<1>5. QED BY <1>2, <1>3, <1>4 DEF CallsSeen, Codes, Answers, CallInv, PoolInv, WaitOK

\* Nothing that a caller can see changes.
LEMMA NothingSeen ==
    ASSUME CallsSeen, CallsSeen', Jobs' = Jobs,
           \A k \in Jobs : /\ Seen(job'[k].phase) = Seen(job[k].phase)
                           /\ job'[k].answer = job[k].answer
    PROVE  UNCHANGED <<Codes, Answers>>
<1>1. \A k \in Jobs : Seen(job[k].phase)' = Seen(job[k].phase)
  BY DEF Seen
<1>2. QED BY <1>1 DEF CallsSeen

\* One call moves, which may be a new one.
LEMMA OneIsSeen ==
    ASSUME CallsSeen, CallsSeen', NEW j \in Jobs', Jobs' = Jobs \cup {j},
           \A k \in Jobs : k # j => job'[k] = job[k]
    PROVE  /\ j \in 1..MaxCalls
           /\ Codes' = [Codes EXCEPT ![j] = Seen(job'[j].phase)]
           /\ Answers' = [Answers EXCEPT ![j] = job'[j].answer]
           /\ Codes[j] = IF j \in Jobs THEN Seen(job[j].phase) ELSE "absent"
           /\ Answers[j] = IF j \in Jobs THEN job[j].answer ELSE "none"
<1>1. \A k \in 1..MaxCalls : k # j =>
        /\ (k \in Jobs' <=> k \in Jobs)
        /\ k \in Jobs => Seen(job[k].phase)' = Seen(job[k].phase)
  BY DEF Seen
<1>2. Seen(job[j].phase)' = Seen(job'[j].phase)
  BY DEF Seen
<1>3. j \in 1..MaxCalls
  BY DEF CallsSeen
<1>4. Codes' = [Codes EXCEPT ![j] = Seen(job'[j].phase)]
  BY <1>1, <1>2, <1>3 DEF CallsSeen
<1>5. Answers' = [Answers EXCEPT ![j] = job'[j].answer]
  BY <1>1, <1>3 DEF CallsSeen
<1>6. QED BY <1>3, <1>4, <1>5 DEF CallsSeen

\* What Seen gives.
LEMMA SeenIs ==
    /\ Seen("gone") = "over" /\ Seen("queued") = "waiting"
    /\ \A phase : phase \notin {"gone", "queued"} => Seen(phase) = "running"
BY DEF Seen

\* A call whose code runs raises or returns.
LEMMA EndServes ==
    ASSUME CallInv, CallsSeen, CallsSeen', NEW j \in Jobs,
           job[j].phase \notin {"queued", "gone"},
           NEW answer \in {"ok", "error", "timeout"}, job' = Raised(j, answer)
    PROVE  Service!Next
<1>1. /\ Len(job') = Len(job) /\ job'[j].phase = "gone"
      /\ job'[j].answer = IF job[j].answer = "none" THEN answer ELSE job[j].answer
      /\ \A k \in Jobs : k # j => job'[k] = job[k]
  BY RaisedIs DEF CallInv, Answer
<1>2. Jobs' = Jobs
  BY <1>1 DEF Jobs
<1>3. /\ j \in 1..MaxCalls
      /\ Codes' = [Codes EXCEPT ![j] = "over"] /\ Codes[j] = "running"
      /\ Answers' = [Answers EXCEPT ![j] =
                       IF job[j].answer = "none" THEN answer ELSE job[j].answer]
      /\ Answers[j] = job[j].answer
  BY <1>1, <1>2, OneIsSeen, SeenIs
<1>4. Service!End(j)
  BY <1>3 DEF Service!End, Codes, Answers
<1>5. QED BY <1>3, <1>4 DEF Service!Next

\* A call whose code goes on elsewhere.
LEMMA GoesOnServes ==
    ASSUME CallInv, CallsSeen, CallsSeen', NEW j \in Jobs,
           job[j].phase \notin {"queued", "gone"},
           NEW r, r.phase \notin {"queued", "gone"}, r.answer = job[j].answer,
           job' = [job EXCEPT ![j] = r]
    PROVE  UNCHANGED <<Codes, Answers>>
<1>1. job \in [1..Len(job) -> Job] /\ Len(job) \in Nat
  BY DEF CallInv, PoolInv, Types
<1>2. Jobs' = Jobs /\ job'[j] = r /\ \A k \in Jobs : k # j => job'[k] = job[k]
  <2>1. DOMAIN job' = 1..Len(job) /\ Len(job') = Len(job)
    BY <1>1
  <2>2. QED BY <1>1, <2>1 DEF Jobs
<1>3. \A k \in Jobs : /\ Seen(job'[k].phase) = Seen(job[k].phase)
                      /\ job'[k].answer = job[k].answer
  BY <1>2, SeenIs
<1>4. QED BY <1>2, <1>3, NothingSeen

\* A new call.
LEMMA CallServes ==
    ASSUME CallInv, CallsSeen, CallsSeen', NEW kind \in Kinds, Call(kind)
    PROVE  Service!Next
<1> DEFINE p == IF live = 0 THEN Len(pool) + 1 ELSE live
           r == [kind |-> kind, phase |-> "queued", pool |-> p,
                 slot |-> 0, answer |-> "none"]
           j == Len(job) + 1
<1>1. job' = Append(job, r) /\ r.phase = "queued" /\ r.answer = "none"
  BY DEF Call
<1> HIDE DEF r
<1>2. /\ Len(job') = Len(job) + 1 /\ Len(job) \in Nat /\ job'[j] = r
      /\ \A k \in 1..Len(job) : job'[k] = job[k]
  BY <1>1 DEF CallInv, PoolInv, Types
<1>3. Jobs' = Jobs \cup {j} /\ j \in Jobs' /\ j \notin Jobs
  BY <1>2 DEF Jobs
<1>4. /\ j \in 1..MaxCalls /\ Codes[j] = "absent" /\ Answers[j] = "none"
      /\ Codes' = [Codes EXCEPT ![j] = "waiting"]
      /\ Answers' = [Answers EXCEPT ![j] = "none"]
  <2> HIDE DEF j
  <2>1. QED BY <1>1, <1>2, <1>3, OneIsSeen, SeenIs DEF Jobs
<1>5. Answers' = Answers
  BY <1>4 DEF Answers
<1>6. Service!Submit(j)
  BY <1>4, <1>5 DEF Service!Submit, Codes, Answers
<1>7. QED BY <1>4, <1>6 DEF Service!Next

\* A thread takes an entry: it starts the call, serves a slot or skips what is over.
LEMMA TakeServes ==
    ASSUME CallInv, CallsSeen, CallsSeen', NEW p \in 1..Len(pool), Take(p)
    PROVE  Service!Next \/ UNCHANGED <<Codes, Answers>>
<1> DEFINE e == Head(pool[p].queue)
           j == e.job
           ph == IF ~e.noop /\ job[j].kind = "sidecar" THEN "ask" ELSE "work"
           r == [job[j] EXCEPT !.phase = ph]
<1>1. pool[p].queue \in Seq(Entry) /\ pool[p].queue # <<>>
  <2>1. pool[p] \in Pool
    BY DEF CallInv, PoolInv, Types
  <2>2. QED BY <2>1 DEF Pool, Take
<1>2. e = pool[p].queue[1] /\ 1 \in 1..Len(pool[p].queue)
  BY <1>1, TailIs
<1>3. j \in Jobs /\ Waits(e, p)
  BY <1>2 DEF CallInv, PoolInv, EntryOK
<1>4. job' = IF job[j].phase = "gone" THEN job ELSE [job EXCEPT ![j] = r]
  BY DEF Take
<1>5. job[j] \in Job /\ ph \in {"ask", "work"}
  BY <1>3 DEF CallInv, PoolInv, Types, Jobs
<1>6. r.phase = ph /\ r.answer = job[j].answer
  BY <1>5 DEF Job
<1> HIDE DEF r, ph, e
<1>7. CASE job[j].phase = "gone"
  <2>1. job' = job
    BY <1>4, <1>7
  <2>2. QED BY <2>1, NothingSeen DEF Jobs
<1>8. CASE job[j].phase = "slot"
  <2>1. job' = [job EXCEPT ![j] = r]
    BY <1>4, <1>8
  <2>2. QED BY <1>3, <1>5, <1>6, <1>8, <2>1, GoesOnServes
<1>9. CASE job[j].phase = "queued"
  <2>1. job' = [job EXCEPT ![j] = r]
    BY <1>4, <1>9
  <2>2. job \in [1..Len(job) -> Job] /\ Len(job) \in Nat
    BY DEF CallInv, PoolInv, Types
  <2>3. DOMAIN job' = 1..Len(job) /\ Len(job') = Len(job)
    BY <2>1, <2>2
  <2>4. Jobs' = Jobs /\ job'[j] = r /\ \A k \in Jobs : k # j => job'[k] = job[k]
    BY <1>3, <2>1, <2>2, <2>3 DEF Jobs
  <2>5. job[j].answer = "none"
    BY <1>3, <1>9 DEF CallsSeen
  <2>6. /\ j \in 1..MaxCalls /\ Codes[j] = "waiting" /\ Answers[j] = "none"
        /\ Codes' = [Codes EXCEPT ![j] = "running"]
        /\ Answers' = [Answers EXCEPT ![j] = "none"]
    <3> HIDE DEF j
    <3>1. QED BY <1>3, <1>5, <1>6, <1>9, <2>4, <2>5, OneIsSeen, SeenIs
  <2>7. Answers' = Answers
    BY <2>6 DEF Answers
  <2>8. Service!Start(j)
    BY <2>6, <2>7 DEF Service!Start, Codes, Answers
  <2>9. QED BY <2>6, <2>8 DEF Service!Next
<1>10. QED BY <1>3, <1>7, <1>8, <1>9 DEF Waits

\* The time of a call is over, and the pool is reset.
LEMMA ResetServes ==
    ASSUME CallInv, Types', CallsSeen, CallsSeen', NEW j \in Jobs, NEW jobs, Reset(jobs),
           job[j].answer = "none", jobs[j].answer = "timeout",
           \A k \in Jobs : jobs[k] \in Job /\ (k # j => jobs[k] = job[k]),
           \/ jobs[j].phase = "gone"
           \/ jobs[j].phase = job[j].phase /\ job[j].phase # "queued"
    PROVE  Service!Next
<1> DEFINE Dropped == IF live = 0 THEN {}
                      ELSE {pool[live].queue[k].job : k \in 1..Len(pool[live].queue)}
           S == {k \in Jobs : job'[k].phase = "gone" /\ job[k].phase # "gone"}
<1>1. job' = [k \in Jobs |->
                IF k \in Dropped /\ jobs[k].phase # "gone"
                THEN [jobs[k] EXCEPT !.phase = "gone",
                                     !.answer = IF @ = "none" THEN "cancelled" ELSE @]
                ELSE jobs[k]]
  BY DEF Reset
<1> HIDE DEF Dropped
<1>2. Jobs' = Jobs
  <2>1. Len(job') \in Nat /\ DOMAIN job' = 1..Len(job') /\ Len(job) \in Nat
    BY DEF CallInv, PoolInv, Types
  <2>2. QED BY <1>1, <2>1 DEF Jobs
<1>3. job[j].phase # "gone"
  BY DEF CallsSeen
<1>4. ASSUME NEW k \in Jobs
      PROVE  /\ k \in S => /\ job'[k].phase = "gone"
                           /\ job'[k].answer = IF job[k].answer # "none" THEN job[k].answer
                                               ELSE IF k = j THEN "timeout" ELSE "cancelled"
             /\ k \notin S => /\ job'[k].phase = job[k].phase
                              /\ k # j => job'[k].answer = job[k].answer
                              /\ k = j => job'[k].answer = "timeout" /\ job[k].phase # "queued"
  <2>1. jobs[k] \in Job
    OBVIOUS
  <2>2. CASE k \in Dropped /\ jobs[k].phase # "gone"
    <3>1. /\ job'[k].phase = "gone"
          /\ job'[k].answer = IF jobs[k].answer = "none" THEN "cancelled" ELSE jobs[k].answer
      BY <1>1, <2>1, <2>2 DEF Job
    <3>2. QED BY <1>3, <2>2, <3>1
  <2>3. CASE ~(k \in Dropped /\ jobs[k].phase # "gone")
    <3>1. job'[k] = jobs[k]
      BY <1>1, <2>3
    <3>2. QED BY <1>3, <3>1
  <2>4. QED BY <2>2, <2>3
<1>5. \A k \in S : k \in Jobs /\ job[k].phase # "gone"
  OBVIOUS
<1> HIDE DEF S
<1>6. Jobs \subseteq 1..MaxCalls /\ S \in SUBSET (1..MaxCalls)
  BY <1>5 DEF CallsSeen
<1>7. \A k \in Jobs : /\ Codes[k] = Seen(job[k].phase) /\ Answers[k] = job[k].answer
                      /\ Codes'[k] = Seen(job'[k].phase) /\ Answers'[k] = job'[k].answer
  BY <1>2, <1>6 DEF CallsSeen, Seen
<1>8. \A k \in 1..MaxCalls : k \notin Jobs =>
        /\ Codes[k] = "absent" /\ Answers[k] = "none"
        /\ Codes'[k] = "absent" /\ Answers'[k] = "none"
  BY <1>2 DEF CallsSeen
<1>9. Codes[j] \in {"waiting", "running"} /\ Answers[j] = "none"
  BY <1>3, <1>7 DEF Seen
<1>10. \A k \in S : Codes[k] \in {"waiting", "running"}
  BY <1>5, <1>7 DEF Seen
<1>11. Codes' = [k \in 1..MaxCalls |->
                   IF k \in S \/ (k = j /\ Codes[k] = "waiting") THEN "over" ELSE Codes[k]]
  <2>1. ASSUME NEW k \in 1..MaxCalls
        PROVE  Codes'[k] = IF k \in S \/ (k = j /\ Codes[k] = "waiting") THEN "over"
                           ELSE Codes[k]
    <3>1. CASE k \in S
      BY <1>4, <1>5, <1>7, <3>1, SeenIs
    <3>2. CASE k \in Jobs /\ k \notin S
      BY <1>4, <1>7, <3>2 DEF Seen
    <3>3. CASE k \notin Jobs
      BY <1>5, <1>8, <3>3
    <3>4. QED BY <3>1, <3>2, <3>3
  <2>2. QED BY <2>1 DEF Codes
<1>12. Answers' = [k \in 1..MaxCalls |->
                     IF Answers[k] # "none" THEN Answers[k]
                     ELSE IF k = j THEN "timeout"
                     ELSE IF k \in S THEN "cancelled" ELSE "none"]
  <2>1. ASSUME NEW k \in 1..MaxCalls
        PROVE  Answers'[k] = IF Answers[k] # "none" THEN Answers[k]
                             ELSE IF k = j THEN "timeout"
                             ELSE IF k \in S THEN "cancelled" ELSE "none"
    <3>1. CASE k \in Jobs
      BY <1>4, <1>7, <3>1
    <3>2. CASE k \notin Jobs
      BY <1>5, <1>8, <3>2
    <3>3. QED BY <3>1, <3>2
  <2>2. QED BY <2>1 DEF Answers
<1>13. Service!TimeOut(j, S)
  BY <1>9, <1>10, <1>11, <1>12 DEF Service!TimeOut, Codes, Answers
<1>14. QED BY <1>6, <1>13 DEF Service!Next

\* No more calls are made than there may be.
LEMMA BoundKept == ASSUME CallInv, PoolInv', [Next]_vars PROVE CallInv'
<1>1. /\ job \in Seq(Job) /\ Len(job) \in Nat /\ DOMAIN job = 1..Len(job)
      /\ Len(job) <= MaxCalls
      /\ Len(job') \in Nat /\ DOMAIN job' = 1..Len(job')
  BY DEF CallInv, PoolInv, Types
<1>2. ASSUME DOMAIN job' = DOMAIN job PROVE CallInv'
  BY <1>1, <1>2 DEF CallInv
<1>3. ASSUME NEW kind \in Kinds, Call(kind) PROVE CallInv'
  <2> DEFINE r == [kind |-> kind, phase |-> "queued",
                   pool |-> IF live = 0 THEN Len(pool) + 1 ELSE live,
                   slot |-> 0, answer |-> "none"]
  <2>1. job' = Append(job, r) /\ Len(job) + 1 <= MaxCalls
    BY <1>3 DEF Call
  <2> HIDE DEF r
  <2>2. QED BY <1>1, <2>1 DEF CallInv
<1>4. \A jobs : Reset(jobs) => DOMAIN job' = DOMAIN job
  BY <1>1 DEF Reset, Jobs
<1>5. \A j, answer : DOMAIN Raised(j, answer) = DOMAIN job
  BY <1>1 DEF Raised
<1>6. ASSUME NEW j \in Jobs, Thread(j) \/ Wedges(j) \/ Timeout(j) \/ SlotTimeout(j)
      PROVE  CallInv'
  <2>1. CASE AskSlot(j)
    BY <1>1, <1>2, <2>1 DEF AskSlot
  <2>2. CASE SubmitSlot(j)
    BY <1>1, <1>2, <2>2 DEF SubmitSlot
  <2>3. CASE RetrySlot(j)
    BY <1>1, <1>2, <1>5, <2>3 DEF RetrySlot
  <2>4. CASE Returns(j) \/ Wedges(j)
    BY <1>1, <1>2, <1>5, <2>4 DEF Returns, Wedges
  <2>5. CASE Timeout(j) \/ SlotTimeout(j)
    BY <1>2, <1>4, <1>5, <2>5 DEF Timeout, SlotTimeout
  <2>6. QED BY <1>6, <2>1, <2>2, <2>3, <2>4, <2>5 DEF Thread
<1>7. ASSUME NEW p \in 1..Len(pool), Take(p) PROVE CallInv'
  BY <1>1, <1>2, <1>7 DEF Take
<1>8. CASE UNCHANGED vars
  BY <1>2, <1>8 DEF vars
<1>9. QED BY <1>3, <1>6, <1>7, <1>8 DEF Next

\* Every step of the pool is a step of CallService or none.
LEMMA NextServes ==
    ASSUME CallInv, CallInv', CallsSeen, CallsSeen', [Next]_vars
    PROVE  Service!Next \/ UNCHANGED <<Codes, Answers>>
<1>1. /\ Types /\ Types'
      /\ \A j \in Jobs : job[j] \in Job
  BY DEF CallInv, PoolInv, Types, Jobs
<1>2. ASSUME NEW j \in Jobs, Thread(j) \/ Wedges(j)
      PROVE  Service!Next \/ UNCHANGED <<Codes, Answers>>
  <2>1. CASE AskSlot(j)
    <3> DEFINE r == [job[j] EXCEPT !.phase = "got",
                                   !.slot = IF live = 0 THEN Len(pool) + 1 ELSE live]
    <3>1. job' = [job EXCEPT ![j] = r] /\ job[j].phase = "ask"
      BY <2>1 DEF AskSlot
    <3>2. r.phase = "got" /\ r.answer = job[j].answer
      BY <1>1 DEF Job
    <3> HIDE DEF r
    <3>3. QED BY <3>1, <3>2, GoesOnServes
  <2>2. ASSUME job[j].phase \in {"got", "retry"}, job' = [job EXCEPT ![j].phase = "slot"]
        PROVE  UNCHANGED <<Codes, Answers>>
    <3> DEFINE r == [job[j] EXCEPT !.phase = "slot"]
    <3>1. job' = [job EXCEPT ![j] = r]
      BY <2>2
    <3>2. r.phase = "slot" /\ r.answer = job[j].answer
      BY <1>1 DEF Job
    <3> HIDE DEF r
    <3>3. QED BY <2>2, <3>1, <3>2, GoesOnServes
  <2>3. CASE SubmitSlot(j)
    <3>1. CASE pool[job[j].slot].open
      BY <2>2, <2>3, <3>1 DEF SubmitSlot
    <3>2. CASE ~pool[job[j].slot].open
      <4> DEFINE r == [job[j] EXCEPT !.phase = "retry", !.slot = Len(pool) + 1]
      <4>1. job' = [job EXCEPT ![j] = r] /\ job[j].phase = "got"
        BY <2>3, <3>2 DEF SubmitSlot
      <4>2. r.phase = "retry" /\ r.answer = job[j].answer
        BY <1>1 DEF Job
      <4> HIDE DEF r
      <4>3. QED BY <4>1, <4>2, GoesOnServes
    <3>3. QED BY <3>1, <3>2
  <2>4. CASE RetrySlot(j)
    <3>1. \/ job[j].phase = "retry" /\ job' = [job EXCEPT ![j].phase = "slot"]
          \/ job[j].phase = "retry" /\ job' = Raised(j, "error")
      BY <2>4 DEF RetrySlot
    <3>2. QED BY <2>2, <3>1, EndServes
  <2>5. CASE Returns(j)
    BY <2>5, EndServes DEF Returns
  <2>6. CASE Wedges(j)
    <3> DEFINE r == [job[j] EXCEPT !.phase = "wedged"]
    <3>1. job' = [job EXCEPT ![j] = r] /\ job[j].phase = "work"
      BY <2>6 DEF Wedges
    <3>2. r.phase = "wedged" /\ r.answer = job[j].answer
      BY <1>1 DEF Job
    <3> HIDE DEF r
    <3>3. QED BY <3>1, <3>2, GoesOnServes
  <2>7. QED BY <1>2, <2>1, <2>3, <2>4, <2>5, <2>6 DEF Thread
<1>3. ASSUME NEW j \in Jobs, Timeout(j) PROVE Service!Next
  <2> DEFINE r == [job[j] EXCEPT !.answer = "timeout",
                                 !.phase = IF @ = "queued" THEN "gone" ELSE @]
             jobs == [job EXCEPT ![j] = r]
  <2>1. Reset(jobs) /\ job[j].answer = "none"
    BY <1>3 DEF Timeout
  <2>2. /\ r \in Job /\ r.answer = "timeout"
        /\ \/ r.phase = "gone"
           \/ r.phase = job[j].phase /\ job[j].phase # "queued"
    BY <1>1 DEF Job, Phase, Answer
  <2> HIDE DEF r
  <2>3. jobs[j] = r /\ \A k \in Jobs : k # j => jobs[k] = job[k]
    BY <1>1, <2>2, JobBecomes
  <2> HIDE DEF jobs
  <2>4. \A k \in Jobs : jobs[k] \in Job
    BY <1>1, <2>2, <2>3
  <2>5. QED BY <1>1, <2>1, <2>2, <2>3, <2>4, ResetServes
<1>4. ASSUME NEW j \in Jobs, SlotTimeout(j) PROVE Service!Next
  <2>1. CASE job[j].answer = "none"
    <3> DEFINE jobs == Raised(j, "timeout")
    <3>1. Reset(jobs)
      BY <1>4, <2>1 DEF SlotTimeout
    <3>2. /\ jobs \in Seq(Job) /\ Len(jobs) = Len(job) /\ jobs[j].phase = "gone"
          /\ jobs[j].answer = "timeout"
          /\ \A k \in Jobs : k # j => jobs[k] = job[k]
      BY <2>1, RaisedIs DEF CallInv, Answer
    <3> HIDE DEF jobs
    <3>3. \A k \in Jobs : jobs[k] \in Job
      BY <3>2 DEF Jobs
    <3>4. QED BY <1>1, <2>1, <3>1, <3>2, <3>3, ResetServes
  <2>2. CASE job[j].answer # "none"
    <3>1. job' = Raised(j, "timeout") /\ job[j].phase = "slot"
      BY <1>4, <2>2 DEF SlotTimeout
    <3>2. QED BY <3>1, EndServes
  <2>3. QED BY <2>1, <2>2
<1>5. CASE UNCHANGED vars
  <2>1. job' = job /\ Jobs' = Jobs
    BY <1>5 DEF vars, Jobs
  <2>2. QED BY <2>1, NothingSeen
<1>6. QED BY <1>2, <1>3, <1>4, <1>5, CallServes, TakeServes DEF Next

\* The pool is a CallService, whatever pools are dropped and rebuilt: no call is lost
\* in a reset, runs twice or after its caller was answered, and none is cancelled
\* unless the time of a call is over (submit, reset, run_on_gpu_pool_guarded).
THEOREM CallsAreServed == Spec => ServesCalls
<1>1. Init => CallInv /\ Service!Init
  <2> SUFFICES ASSUME Init PROVE CallInv /\ Service!Init
    OBVIOUS
  <2>1. Len(job) = 0 /\ Jobs = {} /\ MaxCalls \in Nat
    BY GpuPoolAssumption DEF Init, Jobs
  <2>2. CallInv
    BY <2>1, PoolInit DEF CallInv
  <2>3. Service!Init
    BY <2>1 DEF Service!Init, CodeOf, AnswerOf
  <2>4. QED BY <2>2, <2>3
<1>2. CallInv /\ [Next]_vars => CallInv'
  BY PoolNext, BoundKept DEF CallInv
<1>3. CallInv /\ CallInv' /\ CallsSeen /\ CallsSeen' /\ [Next]_vars
        => [Service!Next]_<<Codes, Answers>>
  BY NextServes
<1>4. QED
  BY <1>1, <1>2, <1>3, CallsAreSeen, PTL
     DEF Spec, ServesCalls, Service!Spec, Service!vars, Codes, Answers

-----------------------------------------------------------------------------
(***************************************************************************)
(* When a slot is always served.                                           *)
(***************************************************************************)
Nesting == {"ask", "got", "retry", "slot"}

\* Only a sidecar asks for a slot.
SidecarsOK == \A j \in Jobs : job[j].phase \in Nesting => job[j].kind = "sidecar"

\* The sidecar calls that hold a thread of any pool.
AtWork == {j \in Jobs : job[j].kind = "sidecar" /\ job[j].phase \notin {"queued", "gone"}}

\* Neither the calls nor their kinds change.
LEMMA KindsStay ==
    ASSUME SidecarsOK, Types, Types', DOMAIN job' = DOMAIN job,
           \A k \in Jobs : /\ job'[k].kind = job[k].kind
                           /\ job'[k].phase \in Nesting =>
                                job[k].phase \in Nesting \/ job[k].kind = "sidecar"
    PROVE  SidecarsOK'
<1>1. Jobs' = Jobs
  <2>1. /\ Len(job) \in Nat /\ DOMAIN job = 1..Len(job)
        /\ Len(job') \in Nat /\ DOMAIN job' = 1..Len(job')
    BY DEF Types
  <2>2. QED BY <2>1 DEF Jobs
<1>2. QED BY <1>1 DEF SidecarsOK

\* Call j becomes r, which nests only if it is a sidecar.
LEMMA KindStays ==
    ASSUME SidecarsOK, Types, Types', NEW j \in Jobs, NEW r \in Job,
           r.kind = job[j].kind,
           r.phase \in Nesting => job[j].phase \in Nesting \/ job[j].kind = "sidecar",
           job' = [job EXCEPT ![j] = r]
    PROVE  SidecarsOK'
<1>1. job'[j] = r /\ \A k \in Jobs : k # j => job'[k] = job[k]
  BY JobBecomes
<1>2. \A k \in Jobs : /\ job'[k].kind = job[k].kind
                      /\ job'[k].phase \in Nesting =>
                           job[k].phase \in Nesting \/ job[k].kind = "sidecar"
  BY <1>1
<1>3. DOMAIN job' = DOMAIN job
  OBVIOUS
<1>4. QED BY <1>2, <1>3, KindsStay

\* A call raises.
LEMMA RaisedKind ==
    ASSUME PoolInv, NEW j \in Jobs, NEW answer
    PROVE  /\ DOMAIN Raised(j, answer) = DOMAIN job
           /\ \A k \in Jobs : /\ Raised(j, answer)[k].kind = job[k].kind
                              /\ Raised(j, answer)[k].phase \in {job[k].phase, "gone"}
<1> DEFINE r == [job[j] EXCEPT !.phase = "gone",
                               !.answer = IF @ = "none" THEN answer ELSE @]
<1>1. DOMAIN job = Jobs /\ \A k \in Jobs : job[k] \in Job
  BY DEF PoolInv, Types, Jobs
<1>2. r.kind = job[j].kind /\ r.phase = "gone"
  BY <1>1 DEF Job
<1>3. Raised(j, answer) = [job EXCEPT ![j] = r]
  BY DEF Raised
<1> HIDE DEF r
<1>4. QED BY <1>1, <1>2, <1>3

\* A reset.
LEMMA ResetKinds ==
    ASSUME SidecarsOK, PoolInv, Types', NEW jobs, Reset(jobs),
           \A k \in Jobs : /\ jobs[k] \in Job /\ jobs[k].kind = job[k].kind
                           /\ jobs[k].phase \in {job[k].phase, "gone"}
    PROVE  SidecarsOK'
<1> DEFINE Dropped == IF live = 0 THEN {}
                      ELSE {pool[live].queue[k].job : k \in 1..Len(pool[live].queue)}
<1>1. job' = [k \in Jobs |->
                IF k \in Dropped /\ jobs[k].phase # "gone"
                THEN [jobs[k] EXCEPT !.phase = "gone",
                                     !.answer = IF @ = "none" THEN "cancelled" ELSE @]
                ELSE jobs[k]]
  BY DEF Reset
<1> HIDE DEF Dropped
<1>2. Types /\ DOMAIN job = Jobs
  BY DEF PoolInv, Types, Jobs
<1>3. ASSUME NEW k \in Jobs
      PROVE  /\ job'[k].kind = job[k].kind
             /\ job'[k].phase \in {job[k].phase, "gone"}
  <2>1. jobs[k] \in Job
    OBVIOUS
  <2>2. CASE k \in Dropped /\ jobs[k].phase # "gone"
    BY <1>1, <2>1, <2>2 DEF Job
  <2>3. CASE ~(k \in Dropped /\ jobs[k].phase # "gone")
    BY <1>1, <2>3
  <2>4. QED BY <2>2, <2>3
<1>4. \A k \in Jobs : job'[k].phase \in Nesting => job[k].phase \in Nesting
  BY <1>3 DEF Nesting
<1>5. QED BY <1>1, <1>2, <1>3, <1>4, KindsStay

\* A new call waits in the queue.
LEMMA CallKinds ==
    ASSUME SidecarsOK, PoolInv, NEW kind \in Kinds, Call(kind) PROVE SidecarsOK'
<1> DEFINE r == [kind |-> kind, phase |-> "queued",
                 pool |-> IF live = 0 THEN Len(pool) + 1 ELSE live,
                 slot |-> 0, answer |-> "none"]
           j == Len(job) + 1
<1>1. /\ job' = Append(job, r) /\ r.kind = kind /\ r.phase = "queued"
  BY DEF Call
<1> HIDE DEF r
<1>2. /\ job \in Seq(Job) /\ Len(job) \in Nat
      /\ Len(job') = Len(job) + 1 /\ job'[j] = r
      /\ \A k \in 1..Len(job) : job'[k] = job[k]
  BY <1>1 DEF PoolInv, Types
<1>3. Jobs' = Jobs \cup {j} /\ j \notin Jobs /\ \A k \in Jobs : job'[k] = job[k]
  BY <1>2 DEF Jobs
<1>4. job'[j].kind = kind /\ job'[j].phase = "queued"
  BY <1>1, <1>2
<1> HIDE DEF j
<1>5. \A k \in Jobs' : job'[k].phase \in Nesting => job'[k].kind = "sidecar"
  BY <1>3, <1>4 DEF Nesting, SidecarsOK
<1>6. QED BY <1>5 DEF SidecarsOK

LEMMA SidecarsKept == ASSUME SidecarsOK, PoolInv, PoolInv', [Next]_vars PROVE SidecarsOK'
<1>1. /\ Types /\ Types' /\ DOMAIN job = Jobs
      /\ \A k \in Jobs : job[k] \in Job
  BY DEF PoolInv, Types, Jobs
<1>2. CASE job' = job
  BY <1>1, <1>2, KindsStay
<1>3. ASSUME NEW j \in Jobs, NEW answer, job' = Raised(j, answer) PROVE SidecarsOK'
  <2>1. \A k \in Jobs : job'[k].phase \in Nesting => job[k].phase \in Nesting
    BY <1>3, RaisedKind DEF Nesting
  <2>2. DOMAIN job' = DOMAIN job /\ \A k \in Jobs : job'[k].kind = job[k].kind
    BY <1>3, RaisedKind
  <2>3. QED BY <1>1, <2>1, <2>2, KindsStay
\* In each of the following cases r is what call j becomes.
<1>4. ASSUME NEW j \in Jobs, Thread(j) \/ Wedges(j) PROVE SidecarsOK'
  <2>1. CASE AskSlot(j)
    <3> DEFINE p == IF live = 0 THEN Len(pool) + 1 ELSE live
               r == [job[j] EXCEPT !.phase = "got", !.slot = p]
    <3>1. job' = [job EXCEPT ![j] = r] /\ job[j].phase \in Nesting
      BY <2>1 DEF AskSlot, Nesting
    <3>2. p \in Nat
      BY <1>1 DEF Types
    <3> HIDE DEF p
    <3>3. r \in Job /\ r.kind = job[j].kind
      BY <1>1, <3>2 DEF Job, Phase
    <3> HIDE DEF r
    <3>4. QED BY <1>1, <3>1, <3>3, KindStays
  <2>2. ASSUME job[j].phase \in Nesting, job' = [job EXCEPT ![j].phase = "slot"]
        PROVE  SidecarsOK'
    <3> DEFINE r == [job[j] EXCEPT !.phase = "slot"]
    <3>1. job' = [job EXCEPT ![j] = r]
      BY <2>2
    <3>2. r \in Job /\ r.kind = job[j].kind
      BY <1>1 DEF Job, Phase
    <3> HIDE DEF r
    <3>3. QED BY <1>1, <2>2, <3>1, <3>2, KindStays
  <2>3. CASE SubmitSlot(j)
    <3>0. job[j].phase \in Nesting
      BY <2>3 DEF SubmitSlot, Nesting
    <3>1. CASE pool[job[j].slot].open
      BY <2>2, <2>3, <3>0, <3>1 DEF SubmitSlot
    <3>2. CASE ~pool[job[j].slot].open
      <4> DEFINE p == Len(pool) + 1
                 r == [job[j] EXCEPT !.phase = "retry", !.slot = p]
      <4>1. job' = [job EXCEPT ![j] = r]
        BY <2>3, <3>2 DEF SubmitSlot
      <4>2. p \in Nat
        BY <1>1 DEF Types
      <4> HIDE DEF p
      <4>3. r \in Job /\ r.kind = job[j].kind
        BY <1>1, <4>2 DEF Job, Phase
      <4> HIDE DEF r
      <4>4. QED BY <1>1, <3>0, <4>1, <4>3, KindStays
    <3>3. QED BY <3>1, <3>2
  <2>4. CASE RetrySlot(j)
    <3>1. /\ job[j].phase \in Nesting
          /\ \/ job' = [job EXCEPT ![j].phase = "slot"]
             \/ job' = Raised(j, "error")
      BY <2>4 DEF RetrySlot, Nesting
    <3>2. QED BY <1>3, <2>2, <3>1
  <2>5. CASE Returns(j)
    BY <1>3, <2>5 DEF Returns
  <2>6. CASE Wedges(j)
    <3> DEFINE r == [job[j] EXCEPT !.phase = "wedged"]
    <3>1. job' = [job EXCEPT ![j] = r]
      BY <2>6 DEF Wedges
    <3>2. r \in Job /\ r.kind = job[j].kind /\ r.phase \notin Nesting
      BY <1>1 DEF Job, Phase, Nesting
    <3> HIDE DEF r
    <3>3. QED BY <1>1, <3>1, <3>2, KindStays
  <2>7. QED BY <1>4, <2>1, <2>3, <2>4, <2>5, <2>6 DEF Thread
<1>5. ASSUME NEW j \in Jobs, Timeout(j) PROVE SidecarsOK'
  <2> DEFINE r == [job[j] EXCEPT !.answer = "timeout",
                                 !.phase = IF @ = "queued" THEN "gone" ELSE @]
             jobs == [job EXCEPT ![j] = r]
  <2>1. Reset(jobs)
    BY <1>5 DEF Timeout
  <2>2. r \in Job /\ r.kind = job[j].kind /\ r.phase \in {job[j].phase, "gone"}
    BY <1>1 DEF Job, Phase, Answer
  <2> HIDE DEF r
  <2>3. jobs[j] = r /\ \A k \in Jobs : k # j => jobs[k] = job[k]
    BY <1>1, <2>2, JobBecomes
  <2> HIDE DEF jobs
  <2>4. QED BY <1>1, <2>1, <2>2, <2>3, ResetKinds
<1>6. ASSUME NEW j \in Jobs, SlotTimeout(j) PROVE SidecarsOK'
  <2>1. CASE job[j].answer = "none"
    <3> DEFINE jobs == Raised(j, "timeout")
    <3>1. Reset(jobs)
      BY <1>6, <2>1 DEF SlotTimeout
    <3>2. \A k \in Jobs : jobs[k] \in Job
      <4>1. jobs \in Seq(Job) /\ Len(jobs) = Len(job)
        BY RaisedIs DEF Answer
      <4> HIDE DEF jobs
      <4>2. QED BY <4>1 DEF Jobs
    <3>3. \A k \in Jobs : /\ jobs[k].kind = job[k].kind
                          /\ jobs[k].phase \in {job[k].phase, "gone"}
      BY RaisedKind
    <3> HIDE DEF jobs
    <3>4. QED BY <1>1, <3>1, <3>2, <3>3, ResetKinds
  <2>2. CASE job[j].answer # "none"
    BY <1>3, <1>6, <2>2 DEF SlotTimeout
  <2>3. QED BY <2>1, <2>2
<1>7. ASSUME NEW p \in 1..Len(pool), Take(p) PROVE SidecarsOK'
  <2> DEFINE e == Head(pool[p].queue)
             j == e.job
             ph == IF ~e.noop /\ job[j].kind = "sidecar" THEN "ask" ELSE "work"
             r == [job[j] EXCEPT !.phase = ph]
  <2>1. pool[p].queue \in Seq(Entry) /\ pool[p].queue # <<>>
    <3>1. pool[p] \in Pool
      BY <1>1 DEF Types
    <3>2. QED BY <1>7, <3>1 DEF Pool, Take
  <2>2. e = pool[p].queue[1] /\ 1 \in 1..Len(pool[p].queue)
    BY <2>1, TailIs
  <2>3. j \in Jobs
    BY <2>2 DEF PoolInv, EntryOK
  <2>4. job' = IF job[j].phase = "gone" THEN job ELSE [job EXCEPT ![j] = r]
    BY <1>7 DEF Take
  <2>5. ph \in {"ask", "work"} /\ (ph = "ask" => job[j].kind = "sidecar")
    OBVIOUS
  <2> HIDE DEF ph, e
  <2>6. r \in Job /\ r.kind = job[j].kind /\ r.phase = ph
    BY <1>1, <2>3, <2>5 DEF Job, Phase
  <2> HIDE DEF r
  <2>7. r.phase \in Nesting => job[j].kind = "sidecar"
    BY <2>5, <2>6 DEF Nesting
  <2>8. QED BY <1>1, <1>2, <2>3, <2>4, <2>6, <2>7, KindStays
<1>8. ASSUME UNCHANGED vars PROVE SidecarsOK'
  BY <1>2, <1>8 DEF vars
<1>9. QED BY <1>4, <1>5, <1>6, <1>7, <1>8, CallKinds DEF Next

\* While fewer sidecar calls hold threads than a pool has, the threads of a pool do not
\* all wait for one another: the slot a sidecar asks for from inside the pool can be
\* served, through resets and rebuilt pools (SubprocessASRBackend.transcribe).
THEOREM SlotsAreServed == Spec => [](Cardinality(AtWork) < Slots => NoSelfDeadlock)
<1>1. PoolInv /\ SidecarsOK => (Cardinality(AtWork) < Slots => NoSelfDeadlock)
  <2> SUFFICES ASSUME PoolInv, SidecarsOK, Cardinality(AtWork) < Slots, NEW j \in Jobs,
                      \A k \in Held(job[j].slot) : job[k].phase = "slot"
               PROVE  Cardinality(Held(job[j].slot)) < Slots
    BY DEF NoSelfDeadlock
  <2>1. Held(job[j].slot) \in SUBSET AtWork
    BY DEF Held, AtWork, SidecarsOK, Nesting
  <2>2. IsFiniteSet(AtWork)
    <3>1. Len(job) \in Nat
      BY DEF PoolInv, Types
    <3>2. IsFiniteSet(Jobs)
      BY <3>1, FS_Interval DEF Jobs
    <3>3. AtWork \in SUBSET Jobs
      BY DEF AtWork
    <3>4. QED BY <3>2, <3>3, FS_Subset
  <2>3. /\ Cardinality(Held(job[j].slot)) <= Cardinality(AtWork)
        /\ IsFiniteSet(Held(job[j].slot))
    BY <2>1, <2>2, FS_Subset
  <2>4. Cardinality(Held(job[j].slot)) \in Nat /\ Cardinality(AtWork) \in Nat
    BY <2>2, <2>3, FS_CardinalityType
  <2>5. Slots \in Nat
    BY GpuPoolAssumption
  <2>6. QED BY <2>3, <2>4, <2>5
<1>2. Init => SidecarsOK
  BY DEF Init, Jobs, SidecarsOK
<1>3. PoolInv /\ PoolInv' /\ SidecarsOK /\ [Next]_vars => SidecarsOK'
  BY SidecarsKept
<1>4. QED BY <1>1, <1>2, <1>3, PoolAlways, PTL DEF Spec

-----------------------------------------------------------------------------
(***************************************************************************)
(* The life of the speech model, an instance with a state of its own.      *)
(***************************************************************************)
CONSTANTS Callers, MaxAsks, Regimes

VARIABLES regime, model, copy, fresh, call, asks

Model == INSTANCE ModelLifecycle

Caller == [at : {"idle", "lock", "load", "use"}, copy : 0..MaxAsks, uses : BOOLEAN]

\* A call that waits or loads has a copy of its own to load.
NamesOK ==
    \A c \in Callers : call[c].at \in {"lock", "load"} => call[c].copy \in Model!Copies

\* One call loads at a time, and only while there is no model.
LockOK ==
    /\ \A c, d \in Callers : call[c].at = "load" /\ call[d].at = "load" => c = d
    /\ \A c \in Callers : call[c].at = "load" => model = 0

\* While everything is quick, what is used is the model, and no call in progress
\* lets the idle timeout pass.
QuickOK ==
    regime = "quick" =>
      /\ \A c \in Callers : call[c].at = "use" => model # 0 /\ call[c].copy = model
      /\ \A c \in Callers : call[c].at # "idle" => fresh

ModelInv == Model!TypeOK /\ NamesOK /\ LockOK /\ QuickOK

----------------------------------------------------------------------------
\* What a step that changes one call makes of it.
LEMMA OneCall ==
    ASSUME Model!TypeOK, NEW c \in Callers, NEW r \in Caller, call' = [call EXCEPT ![c] = r]
    PROVE  /\ call' \in [Callers -> Caller]
           /\ call'[c] = r
           /\ \A d \in Callers : d # c => call'[d] = call[d]
BY DEF Model!TypeOK, Caller

\* A call that ends is as if it had not been made.
LEMMA LeaveFacts ==
    ASSUME Model!ModelLifecycleAssumption,
           Model!TypeOK, NEW c \in Callers, Model!Leave(c)
    PROVE  /\ call' \in [Callers -> Caller]
           /\ call'[c].at = "idle"
           /\ \A d \in Callers : d # c => call'[d] = call[d]
<1>1. Model!NoCall \in Caller /\ Model!NoCall.at = "idle"
  BY DEF Model!ModelLifecycleAssumption, Model!NoCall, Caller
<1>2. call' = [call EXCEPT ![c] = Model!NoCall]
  BY DEF Model!Leave
<1>3. QED BY <1>1, <1>2, OneCall

\* A call that gets the model uses it or ends.
LEMMA GotFacts ==
    ASSUME Model!ModelLifecycleAssumption,
           Model!TypeOK, NEW c \in Callers, NEW n \in 0..MaxAsks, Model!Got(c, n)
    PROVE  /\ call' \in [Callers -> Caller]
           /\ \/ call'[c].at = "idle"
              \/ call'[c].at = "use" /\ call'[c].copy = n
           /\ \A d \in Callers : d # c => call'[d] = call[d]
<1>1. call[c] \in Caller
  BY DEF Model!TypeOK, Caller
<1>2. Model!NoCall \in Caller /\ Model!NoCall.at = "idle"
  BY DEF Model!ModelLifecycleAssumption, Model!NoCall, Caller
<1>3. CASE call[c].uses
  <2> DEFINE r == [call[c] EXCEPT !.at = "use", !.copy = n]
  <2>1. r \in Caller /\ r.at = "use" /\ r.copy = n
    BY <1>1 DEF Caller
  <2>2. call' = [call EXCEPT ![c] = r]
    BY <1>3 DEF Model!Got, Model!TypeOK
  <2> HIDE DEF r
  <2>3. QED BY <2>1, <2>2, OneCall
<1>4. CASE ~call[c].uses
  <2>1. call' = [call EXCEPT ![c] = Model!NoCall]
    BY <1>4 DEF Model!Got, Model!TypeOK
  <2>2. QED BY <2>1, <1>2, OneCall
<1>5. QED BY <1>3, <1>4

\* A reset of the pool takes no copy further.
LEMMA CancelledFacts ==
    ASSUME Model!TypeOK, copy' = Model!Cancelled
    PROVE  /\ copy' \in [Model!Copies -> {"none", "queued", "loading", "ready", "failed"}]
           /\ \A n \in Model!Copies : copy'[n] \notin {"queued"}
           /\ \A n \in Model!Copies : copy'[n] = "loading" => copy[n] = "loading"
BY DEF Model!TypeOK, Model!Cancelled

----------------------------------------------------------------------------
\* In the initial state nobody has asked.
LEMMA InvInit == ASSUME Model!ModelLifecycleAssumption, Model!Init PROVE ModelInv
BY DEF Model!ModelLifecycleAssumption, Model!Init, ModelInv, Model!TypeOK,
       NamesOK, LockOK, QuickOK, Model!NoCall, Model!Copies

LEMMA AskStep ==
    ASSUME Model!ModelLifecycleAssumption, ModelInv, NEW c \in Callers, NEW uses \in BOOLEAN,
           Model!Ask(c, uses)
    PROVE  ModelInv'
<1> USE DEF ModelInv
<1> DEFINE r == IF model # 0 THEN [at |-> "use", copy |-> model, uses |-> uses]
                             ELSE [at |-> "lock", copy |-> asks + 1, uses |-> uses]
<1>1. asks' \in 0..MaxAsks /\ asks + 1 \in Model!Copies /\ asks' = asks + 1
  BY DEF Model!ModelLifecycleAssumption, Model!Ask, Model!TypeOK, Model!Copies
<1>2. r \in Caller /\ (r.at = "use" => model # 0 /\ r.copy = model)
         /\ (r.at = "lock" => r.copy \in Model!Copies) /\ r.at \in {"use", "lock"}
  BY <1>1 DEF Model!TypeOK, Caller, Model!Copies
<1>3. call' = [call EXCEPT ![c] = r] /\ call[c].at = "idle"
  BY DEF Model!Ask
<1>4. fresh' = TRUE /\ UNCHANGED <<regime, model, copy>>
  BY DEF Model!Ask
<1> HIDE DEF r
<1>5. /\ call' \in [Callers -> Caller] /\ call'[c] = r
      /\ \A d \in Callers : d # c => call'[d] = call[d]
  BY <1>2, <1>3, OneCall
<1>6. Model!TypeOK' /\ NamesOK'
  BY <1>1, <1>2, <1>4, <1>5 DEF Model!TypeOK, NamesOK, Caller, Model!Copies
<1>7. LockOK'
  BY <1>2, <1>4, <1>5 DEF LockOK
<1>8. QuickOK'
  BY <1>2, <1>3, <1>4, <1>5 DEF QuickOK, Model!Copies
<1>9. QED BY <1>6, <1>7, <1>8

LEMMA TakeLockStep ==
    ASSUME Model!ModelLifecycleAssumption, ModelInv, NEW c \in Callers, Model!TakeLock(c)
    PROVE  ModelInv'
<1> USE DEF ModelInv
<1>1. /\ call[c].at = "lock" /\ call[c].copy \in Model!Copies
      /\ \A d \in Callers : call[d].at # "load"
      /\ UNCHANGED <<regime, model, fresh, asks>>
  BY DEF Model!TakeLock, Model!Locked, NamesOK
<1>2. CASE model # 0
  <2>1. Model!Got(c, model) /\ UNCHANGED copy
    BY <1>2 DEF Model!TakeLock, Model!Enter
  <2>2. /\ call' \in [Callers -> Caller]
        /\ \/ call'[c].at = "idle"
           \/ call'[c].at = "use" /\ call'[c].copy = model
        /\ \A d \in Callers : d # c => call'[d] = call[d]
    BY <2>1, GotFacts DEF Model!TypeOK
  <2>3. Model!TypeOK' /\ NamesOK' /\ LockOK'
    BY <1>1, <2>1, <2>2 DEF Model!TypeOK, NamesOK, LockOK, Caller, Model!Copies
  <2>4. QuickOK'
    BY <1>1, <1>2, <2>1, <2>2 DEF QuickOK, Model!Copies
  <2>5. QED BY <2>3, <2>4
<1>3. CASE model = 0
  <2> DEFINE r == [call[c] EXCEPT !.at = "load"]
  <2>1. /\ copy' = [copy EXCEPT ![call[c].copy] = "queued"]
        /\ call' = [call EXCEPT ![c] = r]
    BY <1>3 DEF Model!TakeLock, Model!Enter
  <2>2. r \in Caller /\ r.at = "load" /\ r.copy = call[c].copy
    BY DEF Model!TypeOK, Caller
  <2> HIDE DEF r
  <2>3. /\ call' \in [Callers -> Caller] /\ call'[c] = r
        /\ \A d \in Callers : d # c => call'[d] = call[d]
    BY <2>1, <2>2, OneCall
  <2>4. /\ copy' \in [Model!Copies -> {"none", "queued", "loading", "ready", "failed"}]
        /\ \A n \in Model!Copies : n # call[c].copy => copy'[n] = copy[n]
    BY <2>1, <1>1 DEF Model!TypeOK
  <2>5. Model!TypeOK' /\ NamesOK' /\ LockOK'
    <3>1. Model!TypeOK'
      BY <1>1, <1>3, <2>2, <2>3, <2>4 DEF Model!TypeOK, Caller
    <3>2. NamesOK' /\ LockOK'
      BY <1>1, <1>3, <2>2, <2>3, <2>4 DEF NamesOK, LockOK, Model!Copies
    <3>3. QED BY <3>1, <3>2
  <2>6. QuickOK'
    BY <1>1, <1>3, <2>2, <2>3, <2>4 DEF QuickOK, Model!Copies
  <2>7. QED BY <2>5, <2>6
<1>4. QED BY <1>2, <1>3

LEMMA LoadReturnsStep ==
    ASSUME Model!ModelLifecycleAssumption, ModelInv, NEW c \in Callers, Model!LoadReturns(c)
    PROVE  ModelInv'
<1> USE DEF ModelInv
<1> DEFINE n == call[c].copy
<1>1. /\ call[c].at = "load" /\ n \in Model!Copies /\ copy[n] = "ready" /\ model' = n
      /\ Model!Got(c, n) /\ UNCHANGED <<regime, copy, fresh, asks>>
  BY DEF Model!LoadReturns, NamesOK
<1>2. n # 0 /\ n \in 0..MaxAsks
  BY <1>1 DEF Model!ModelLifecycleAssumption, Model!Copies
<1>3. model = 0 /\ \A d \in Callers : d # c => call[d].at # "load"
  BY <1>1 DEF LockOK
<1> HIDE DEF n
<1>4. /\ call' \in [Callers -> Caller]
      /\ \/ call'[c].at = "idle"
         \/ call'[c].at = "use" /\ call'[c].copy = n
      /\ \A d \in Callers : d # c => call'[d] = call[d]
  BY <1>1, <1>2, GotFacts
<1>5. Model!TypeOK' /\ NamesOK' /\ LockOK'
  BY <1>1, <1>2, <1>3, <1>4 DEF Model!TypeOK, NamesOK, LockOK, Caller, Model!Copies
<1>6. QuickOK'
  <2>1. regime = "quick" => \A d \in Callers : call[d].at # "use"
    BY <1>3 DEF QuickOK
  <2>2. QED BY <1>1, <1>2, <1>4, <2>1 DEF QuickOK
<1>7. QED BY <1>5, <1>6

\* A call that ends, or whose caller is cancelled, leaves the lock, whatever becomes
\* of what it was loading.
LEMMA LeaveStep ==
    ASSUME Model!ModelLifecycleAssumption, ModelInv, NEW c \in Callers, Model!Leave(c),
           copy' \in [Model!Copies -> {"none", "queued", "loading", "ready", "failed"}],
           UNCHANGED <<regime, model, fresh, asks>>
    PROVE  ModelInv'
<1> USE DEF ModelInv
<1>1. /\ call' \in [Callers -> Caller]
      /\ call'[c].at = "idle"
      /\ \A d \in Callers : d # c => call'[d] = call[d]
  BY LeaveFacts
<1>2. Model!TypeOK' /\ NamesOK' /\ LockOK'
  BY <1>1 DEF Model!TypeOK, NamesOK, LockOK, Caller, Model!Copies
<1>3. QuickOK'
  BY <1>1 DEF QuickOK
<1>4. QED BY <1>2, <1>3

LEMMA CallerLeavesStep ==
    ASSUME Model!ModelLifecycleAssumption, ModelInv, NEW c \in Callers, Model!CallerLeaves(c)
    PROVE  ModelInv'
<1>1. copy' \in [Model!Copies -> {"none", "queued", "loading", "ready", "failed"}]
  BY DEF Model!CallerLeaves, ModelInv, Model!TypeOK
<1>2. QED BY <1>1, LeaveStep DEF Model!CallerLeaves

LEMMA LoadTimesOutStep ==
    ASSUME Model!ModelLifecycleAssumption, ModelInv, NEW c \in Callers, Model!LoadTimesOut(c)
    PROVE  ModelInv'
<1>1. copy' \in [Model!Copies -> {"none", "queued", "loading", "ready", "failed"}]
  BY CancelledFacts DEF Model!LoadTimesOut, ModelInv
<1>2. QED BY <1>1, LeaveStep DEF Model!LoadTimesOut

LEMMA PoolResetStep ==
    ASSUME Model!ModelLifecycleAssumption, ModelInv, Model!PoolReset
    PROVE  ModelInv'
<1> USE DEF ModelInv
<1>1. copy' = Model!Cancelled /\ UNCHANGED <<regime, model, fresh, call, asks>>
  BY DEF Model!PoolReset
<1>2. /\ copy' \in [Model!Copies -> {"none", "queued", "loading", "ready", "failed"}]
      /\ \A n \in Model!Copies : copy'[n] \in {"queued", "loading"} => copy[n] = "loading"
  BY <1>1, CancelledFacts
<1>3. QED BY <1>1, <1>2 DEF Model!TypeOK, NamesOK, LockOK, QuickOK, Model!Copies

LEMMA LoadThreadStep ==
    ASSUME Model!ModelLifecycleAssumption, ModelInv, NEW n \in Model!Copies, Model!LoadThread(n)
    PROVE  ModelInv'
<1> USE DEF ModelInv
<1>1. /\ copy[n] \in {"queued", "loading"}
      /\ copy' \in [Model!Copies -> {"none", "queued", "loading", "ready", "failed"}]
      /\ \A m \in Model!Copies : m # n => copy'[m] = copy[m]
      /\ UNCHANGED <<regime, model, fresh, call, asks>>
  BY DEF Model!LoadThread, Model!Load, Model!TypeOK
<1>2. QED BY <1>1 DEF Model!TypeOK, NamesOK, LockOK, QuickOK, Model!Copies

\* The timeout and the unloads touch only the time and the model.
LEMMA UnloadStep ==
    ASSUME Model!ModelLifecycleAssumption, ModelInv,
           Model!Tick \/ Model!IdleChecks \/ Model!Unload
    PROVE  ModelInv'
<1> USE DEF ModelInv
<1>1. CASE Model!Tick
  BY <1>1 DEF Model!Tick, Model!TypeOK, NamesOK, LockOK, QuickOK, Model!Copies
<1>2. CASE Model!IdleChecks
  BY <1>2 DEF Model!ModelLifecycleAssumption, Model!IdleChecks, Model!TypeOK,
                   NamesOK, LockOK, QuickOK, Model!Copies
<1>3. CASE Model!Unload
  BY <1>3 DEF Model!ModelLifecycleAssumption, Model!Unload, Model!TypeOK,
                   NamesOK, LockOK, QuickOK, Model!Copies
<1>4. QED BY <1>1, <1>2, <1>3

LEMMA InvStep ==
    ASSUME Model!ModelLifecycleAssumption, ModelInv, [Model!Next]_(Model!vars)
    PROVE  ModelInv'
<1>1. ASSUME NEW c \in Callers, NEW uses \in BOOLEAN, Model!Ask(c, uses) PROVE ModelInv'
  BY <1>1, AskStep
<1>2. ASSUME NEW c \in Callers, Model!TakeLock(c) PROVE ModelInv'
  BY <1>2, TakeLockStep
<1>3. ASSUME NEW c \in Callers, Model!LoadReturns(c) PROVE ModelInv'
  BY <1>3, LoadReturnsStep
<1>4. ASSUME NEW c \in Callers, Model!LoadFails(c) \/ Model!UseEnds(c) PROVE ModelInv'
  BY <1>4, LeaveStep DEF Model!LoadFails, Model!UseEnds, ModelInv, Model!TypeOK
<1>5. ASSUME NEW c \in Callers, Model!LoadTimesOut(c) PROVE ModelInv'
  BY <1>5, LoadTimesOutStep
<1>6. ASSUME NEW n \in Model!Copies, Model!LoadThread(n) PROVE ModelInv'
  BY <1>6, LoadThreadStep
<1>7. CASE UNCHANGED Model!vars
  BY <1>7 DEF Model!vars, ModelInv, Model!TypeOK, NamesOK, LockOK, QuickOK, Model!Copies
<1>8. ASSUME NEW c \in Callers, Model!CallerLeaves(c) PROVE ModelInv'
  BY <1>8, CallerLeavesStep
<1>9. QED
  BY <1>1, <1>2, <1>3, <1>4, <1>5, <1>6, <1>7, <1>8, PoolResetStep, UnloadStep
     DEF Model!Next, Model!CallStep

LEMMA InvGivesOneCopy == ASSUME Model!ModelLifecycleAssumption, ModelInv PROVE Model!OneCopy
<1> SUFFICES ASSUME regime = "quick", NEW m \in Model!Copies, NEW n \in Model!Copies,
                    Model!Resident(m), ~Model!Abandoned(m),
                    Model!Resident(n), ~Model!Abandoned(n)
             PROVE  m = n
  BY DEF Model!OneCopy
<1> USE DEF ModelInv
<1>1. 0 \notin Model!Copies
  BY DEF Model!ModelLifecycleAssumption, Model!Copies
<1>2. \A k \in Model!Copies : Model!Resident(k) /\ ~Model!Abandoned(k) =>
        \/ k = model
        \/ \E c \in Callers : call[c].at = "load" /\ call[c].copy = k
  BY DEF Model!Resident, Model!Abandoned, QuickOK
<1>3. CASE model # 0
  BY <1>2, <1>3 DEF LockOK
<1>4. CASE model = 0
  BY <1>1, <1>2, <1>4 DEF LockOK
<1>5. QED BY <1>3, <1>4

\* While loads and uses are over within the idle timeout, neither concurrent
\* calls nor the preload, failed loads nor the idle worker put the model into
\* memory a second time: only a load whose caller was cancelled while it ran may be
\* in memory beside another copy.
THEOREM ModelLoadedOnce ==
    ASSUME Model!ModelLifecycleAssumption PROVE Model!Spec => []Model!OneCopy
<1>1. ModelInv /\ [Model!Next]_(Model!vars) => ModelInv'
  BY InvStep
<1>2. QED BY InvInit, <1>1, InvGivesOneCopy, PTL DEF Model!Spec

-----------------------------------------------------------------------------
(***************************************************************************)
(* The installation of a model, an instance with a state of its own.       *)
(***************************************************************************)
CONSTANTS
    Installs, Segments, InstallRegimes, MaxAttempts, MaxFiles, MaxStarts, MaxCrashes, MaxDeletes

VARIABLES
    alone, hashed, ranges, dir, file, files, part, manifest, blob, install,
    cancelled, cooldown, victims, starts, crashes, deletes

Cache == INSTANCE ModelInstall WITH Regimes <- InstallRegimes

\* The premise of Intact.
Sheltered ==
    IF alone THEN hashed \/ (ranges /\ deletes = 0)
             ELSE hashed /\ ranges /\ deletes = 0 /\ \E i, j \in Installs : Installs = {i, j}

\* The types the argument needs.
Shape ==
    /\ MaxFiles \in Nat
    /\ dir \in BOOLEAN
    /\ files \in Nat /\ files <= MaxFiles
    /\ part \in 0..files /\ blob \in 0..files
    /\ file \in [Cache!Files -> [Segments -> Cache!Content]]
    /\ manifest \subseteq Segments
    /\ install \in [Installs -> Cache!Install]
    /\ \A i \in Installs : Cache!At(i) # "fetch" => install[i].open = {}
    /\ deletes \in Nat /\ (victims # {} => deletes # 0)

\* Names denote different files, and none without a directory.
PathsOK ==
    /\ part # 0 => part # blob /\ dir
    /\ manifest # {} => dir

AloneOK == alone => \A i, j \in Installs : Cache!At(i) # "idle" /\ Cache!At(j) # "idle" => i = j

\* With ranges nothing is ever streamed into the part.
NoStream == ranges => \A i \in Installs : Cache!At(i) # "stream"

BlobOK == Sheltered => blob = 0 \/ file[blob] = Cache!Whole

\* What is to be renamed was verified, and is still what it was.
RenameOK ==
    Sheltered => \A i \in Installs :
      Cache!At(i) = "rename" => part = 0 \/ file[part] = Cache!Whole

\* Of two installs, one that finds its part renamed by the other will not find
\* it made anew: the other has ended, or will see the blob.
OverlapOK ==
    Sheltered /\ ~alone =>
      \A i \in Installs : Cache!At(i) = "rename" /\ part = 0 =>
        /\ blob # 0
        /\ \A j \in Installs \ {i} : Cache!At(j) \notin {"probe", "load", "allocate"}

\* With ranges alone, the manifest tells the truth about the part, and so does
\* what an install read from it, as long as the directory is there.
ManifestOK ==
    alone /\ ranges /\ deletes = 0 =>
      /\ part # 0 => \A s \in manifest : file[part][s] = "full"
      /\ part = 0 /\ manifest # {} => blob # 0
      /\ \A i \in Installs :
           Cache!At(i) \in {"probe", "load", "allocate", "fetch", "verify", "rename"} => blob = 0
      /\ \A i \in Installs : Cache!At(i) \in {"allocate", "fetch", "verify"} /\ dir =>
           /\ Cache!At(i) = "fetch" => part # 0
           /\ Cache!At(i) = "fetch" => \A o \in install[i].open : o[2] = part
           /\ \A s \in install[i].done : part # 0 /\ file[part][s] = "full"
      /\ \A i \in Installs : Cache!At(i) = "verify" => install[i].done = Segments

CacheInv ==
    /\ Shape /\ PathsOK /\ AloneOK /\ NoStream
    /\ BlobOK /\ RenameOK /\ OverlapOK /\ ManifestOK
----------------------------------------------------------------------------
(* Types.                                                                  *)

LEMMA IdleType ==
    ASSUME MaxFiles \in Nat
    PROVE  Cache!Idle \in Cache!Install /\ Cache!Idle.at = "idle" /\ Cache!Idle.open = {}
BY DEF Cache!Idle, Cache!Install, Cache!Places

LEMMA InitShape == ASSUME Cache!ModelInstallAssumption, Cache!Init PROVE Shape
<1>0. MaxFiles \in Nat
  BY DEF Cache!ModelInstallAssumption
<1>1. Cache!Empty \in [Segments -> Cache!Content]
  BY DEF Cache!Empty, Cache!Content
<1>3. dir \in BOOLEAN /\ file \in [Cache!Files -> [Segments -> Cache!Content]]
  BY <1>0, <1>1 DEF Cache!Init
<1>4. install \in [Installs -> Cache!Install] /\ \A i \in Installs : install[i].open = {}
  BY <1>0, IdleType DEF Cache!Init
<1>5. files \in Nat /\ files <= MaxFiles /\ part \in 0..files /\ blob \in 0..files
  BY <1>0 DEF Cache!Init
<1>6. manifest \subseteq Segments /\ deletes \in Nat /\ victims = {}
  BY <1>0 DEF Cache!Init
<1>7. QED BY <1>0, <1>3, <1>4, <1>5, <1>6 DEF Shape

\* A step of one install changes no other.
LEMMA OneInstall ==
    ASSUME Shape, NEW i \in Installs, NEW r \in Cache!Install,
           install' = [install EXCEPT ![i] = r]
    PROVE  /\ install' \in [Installs -> Cache!Install]
           /\ install'[i] = r
           /\ \A j \in Installs : j # i => install'[j] = install[j]
BY DEF Shape

\* What an install that goes elsewhere takes along.
LEMMA GoesFacts ==
    ASSUME Shape, NEW i \in Installs, NEW at \in Cache!Places, Cache!Goes(i, at)
    PROVE  /\ install' \in [Installs -> Cache!Install]
           /\ install'[i].at = at
           /\ install'[i].done = install[i].done /\ install'[i].open = install[i].open
           /\ install'[i].file = install[i].file /\ install'[i].attempt = install[i].attempt
           /\ \A j \in Installs : j # i => install'[j] = install[j]
BY DEF Shape, Cache!Goes, Cache!Install

\* What an install that takes something down on the way takes along.
LEMMA TakesAttempt ==
    ASSUME Shape, NEW i \in Installs, NEW at \in Cache!Places, NEW n \in Nat,
           install' = [install EXCEPT ![i].at = at, ![i].attempt = n]
    PROVE  /\ install' \in [Installs -> Cache!Install]
           /\ install'[i].at = at /\ install'[i].open = install[i].open
           /\ \A j \in Installs : j # i => install'[j] = install[j]
<1>1. install \in [Installs -> Cache!Install]
  BY DEF Shape
<1>2. QED BY <1>1 DEF Cache!Install

LEMMA TakesFile ==
    ASSUME Shape, NEW i \in Installs, NEW at \in Cache!Places, NEW f \in 0..MaxFiles,
           install' = [install EXCEPT ![i].at = at, ![i].file = f]
    PROVE  /\ install' \in [Installs -> Cache!Install]
           /\ install'[i].at = at /\ install'[i].open = install[i].open
           /\ \A j \in Installs : j # i => install'[j] = install[j]
<1>1. install \in [Installs -> Cache!Install]
  BY DEF Shape
<1>2. QED BY <1>1 DEF Cache!Install

LEMMA TakesDone ==
    ASSUME Shape, NEW i \in Installs, NEW at \in Cache!Places, NEW done \in SUBSET Segments,
           install' = [install EXCEPT ![i].at = at, ![i].done = done]
    PROVE  /\ install' \in [Installs -> Cache!Install]
           /\ install'[i].at = at /\ install'[i].done = done
           /\ install'[i].open = install[i].open
           /\ \A j \in Installs : j # i => install'[j] = install[j]
<1>1. install \in [Installs -> Cache!Install]
  BY DEF Shape
<1>2. QED BY <1>1 DEF Cache!Install

LEMMA TakesOpen ==
    ASSUME Shape, NEW i \in Installs, NEW open \in SUBSET (Segments \X Cache!Files),
           install' = [install EXCEPT ![i].open = open]
    PROVE  /\ install' \in [Installs -> Cache!Install]
           /\ install'[i].at = install[i].at /\ install'[i].done = install[i].done
           /\ install'[i].open = open
           /\ \A j \in Installs : j # i => install'[j] = install[j]
<1>1. install \in [Installs -> Cache!Install]
  BY DEF Shape
<1>2. QED BY <1>1 DEF Cache!Install

LEMMA EndsFacts ==
    ASSUME Shape, NEW i \in Installs, install' = [install EXCEPT ![i] = Cache!Idle]
    PROVE  /\ install' \in [Installs -> Cache!Install]
           /\ install'[i].at = "idle" /\ install'[i].open = {}
           /\ \A j \in Installs : j # i => install'[j] = install[j]
BY IdleType DEF Shape

LEMMA FallsBackFacts ==
    ASSUME Shape, NEW i \in Installs, Cache!FallsBack(i)
    PROVE  /\ install' \in [Installs -> Cache!Install]
           /\ install'[i].at = "snapshot" /\ install'[i].open = {}
           /\ \A j \in Installs : j # i => install'[j] = install[j]
<1>1. MaxFiles \in Nat
  BY DEF CacheInv, Shape
<1>2. install[i] \in Cache!Install
  BY DEF Shape
<1> DEFINE r == [at |-> "snapshot", attempt |-> install[i].attempt, file |-> 0,
                 done |-> {}, open |-> {}]
<1>3. install' = [install EXCEPT ![i] = r]
  BY DEF Shape, Cache!FallsBack
<1>4. r \in Cache!Install /\ r.at = "snapshot" /\ r.open = {}
  BY <1>1, <1>2 DEF Cache!Install, Cache!Places
<1> HIDE DEF r
<1>5. QED BY <1>3, <1>4, OneInstall

----------------------------------------------------------------------------
(* Steps that leave the files alone.                                       *)

Fixed == UNCHANGED <<alone, hashed, ranges, victims, deletes>>

\* Install i, and no other, is somewhere else.
Travels(i) ==
    /\ install' \in [Installs -> Cache!Install]
    /\ install'[i].at # "fetch" => install'[i].open = {}
    /\ \A j \in Installs : j # i => install'[j] = install[j]

LEMMA StaysAlone ==
    ASSUME AloneOK, NEW i \in Installs, Travels(i), Cache!At(i) # "idle", alone' = alone
    PROVE  AloneOK'
BY DEF AloneOK, Travels, Cache!At

\* A step that does not touch the files and goes nowhere in the download.  The
\* directory may have been made by an install that is under way.
LEMMA QuietStep ==
    ASSUME CacheInv, NEW i \in Installs, Travels(i), Fixed, AloneOK',
           UNCHANGED <<file, files, part, manifest, blob>>,
           dir' = dir \/ (dir' = TRUE /\ Cache!At(i) # "idle"),
           install'[i].at \in {"idle", "begin", "try", "blob", "snapshot", "validate", "retry"}
    PROVE  CacheInv'
<1> USE DEF Fixed, Travels, CacheInv
<1>1. Shape'
  BY DEF Shape, Cache!At
<1>2. PathsOK'
  BY DEF PathsOK
<1>3. NoStream'
  BY DEF NoStream, Cache!At
<1>4. BlobOK'
  BY DEF BlobOK, Sheltered
<1>5. RenameOK'
  BY DEF RenameOK, Sheltered, Cache!At
<1>6. OverlapOK'
  BY DEF OverlapOK, Sheltered, Cache!At
<1>7. ManifestOK'
  <2>1. SUFFICES ASSUME alone, ranges, deletes = 0 PROVE ManifestOK'
    BY DEF ManifestOK
  <2>2. ASSUME NEW j \in Installs, dir',
               install'[j].at \in {"allocate", "fetch", "verify"}
        PROVE  j # i /\ dir
    <3>1. j # i
      BY <2>2
    <3>2. Cache!At(i) = "idle" \/ dir' = dir
      BY <3>1, <2>1, <2>2 DEF AloneOK, Cache!At
    <3>3. QED BY <3>1, <3>2, <2>2
  <2>3. QED BY <2>1, <2>2 DEF ManifestOK, Cache!At
<1>8. QED BY <1>1, <1>2, <1>3, <1>4, <1>5, <1>6, <1>7
----------------------------------------------------------------------------
(* Steps of a download.                                                    *)

LEMMA WholeIsFull ==
    ASSUME Shape, NEW f \in Cache!Files
    PROVE  file[f] = Cache!Whole <=> \A s \in Segments : file[f][s] = "full"
BY DEF Shape, Cache!Whole

\* What install i may rely on when it is at the place at: it found no blob, and
\* what it takes for finished is.
Truthful(i) ==
    /\ install[i].at \in {"probe", "load", "allocate", "fetch", "verify", "rename"} => blob = 0
    /\ install[i].at \in {"allocate", "fetch", "verify"} /\ dir =>
         /\ install[i].at = "fetch" => part # 0
         /\ install[i].at = "fetch" => \A o \in install[i].open : o[2] = part
         /\ \A s \in install[i].done : part # 0 /\ file[part][s] = "full"
    /\ install[i].at = "verify" => install[i].done = Segments

ManifestTrue ==
    /\ part # 0 => \A s \in manifest : file[part][s] = "full"
    /\ part = 0 /\ manifest # {} => blob # 0

\* No finished segment is lost.
Fills ==
    /\ file' \in [Cache!Files -> [Segments -> Cache!Content]]
    /\ \A f \in Cache!Files, s \in Segments : file[f][s] = "full" => file'[f][s] = "full"

\* Names stay, no finished segment is lost, and what install i does is right
\* for the place it reaches.
LEMMA DownloadStep ==
    ASSUME CacheInv, NEW i \in Installs, Travels(i), Fixed, Cache!At(i) # "idle", Fills,
           UNCHANGED <<dir, files, part, blob>>,
           manifest' \subseteq Segments, manifest' = manifest \/ dir \/ manifest' = {},
           ranges => install'[i].at # "stream",
           install'[i].at = "rename" =>
             part # 0 /\ (Sheltered => file'[part] = Cache!Whole),
           install'[i].at \in {"probe", "load", "allocate"} =>
             blob = 0 \/ Cache!At(i) \in {"probe", "load", "allocate"},
           alone /\ ranges /\ deletes = 0 => ManifestTrue' /\ Truthful(i)'
    PROVE  CacheInv'
<1> USE DEF Fixed, Travels, CacheInv
<1>0. \A f \in Cache!Files : file[f] = Cache!Whole => file'[f] = Cache!Whole
  <2>1. TAKE f \in Cache!Files
  <2>2. HAVE file[f] = Cache!Whole
  <2>3. \A s \in Segments : file[f][s] = "full"
    BY <2>2, WholeIsFull
  <2>4. \A s \in Segments : file'[f][s] = "full"
    BY <2>3 DEF Fills
  <2>5. file'[f] \in [Segments -> Cache!Content]
    BY DEF Fills
  <2>6. QED BY <2>4, <2>5 DEF Cache!Whole
<1>1. Shape'
  BY DEF Shape, Fills, Cache!At
<1>2. PathsOK'
  BY DEF PathsOK
<1>3. NoStream'
  BY DEF NoStream, Cache!At
<1>4. (part # 0 => part \in Cache!Files) /\ (blob # 0 => blob \in Cache!Files)
  BY DEF Shape, Cache!Files
<1>5. BlobOK'
  BY <1>0, <1>4 DEF BlobOK, Sheltered
<1>6. RenameOK'
  BY <1>0, <1>4 DEF RenameOK, Sheltered, Cache!At
<1>7. OverlapOK'
  BY DEF OverlapOK, Sheltered, Cache!At
<1>8. AloneOK'
  BY StaysAlone
<1>9. ManifestOK'
  <2>1. SUFFICES ASSUME alone, ranges, deletes = 0 PROVE ManifestTrue' /\ \A j \in Installs : Truthful(j)'
    BY DEF ManifestOK, ManifestTrue, Truthful, Cache!At
  <2>2. ASSUME NEW j \in Installs, j # i PROVE Truthful(j)'
    <3>1. Cache!At(j) = "idle"
      BY <2>1, <2>2 DEF AloneOK
    <3>2. QED BY <3>1, <2>2 DEF Truthful, Cache!At
  <2>3. QED BY <2>1, <2>2
<1>10. QED BY <1>1, <1>2, <1>3, <1>5, <1>6, <1>7, <1>8, <1>9
----------------------------------------------------------------------------
(* The steps of install_model.                                             *)

LEMMA StepStart ==
    ASSUME CacheInv, NEW i \in Installs, Cache!Start(i)
    PROVE  CacheInv'
<1> USE DEF Cache!Start, Cache!disk, Cache!request
<1>1. Travels(i) /\ install'[i].at = "begin"
  BY GoesFacts DEF CacheInv, Travels, Cache!Places, Shape, Cache!At
<1>2. Fixed /\ UNCHANGED <<dir, file, files, part, manifest, blob>>
  BY DEF Fixed
<1>3. AloneOK'
  BY <1>1, <1>2 DEF AloneOK, Travels, Cache!Running, Cache!At, Fixed
<1>4. QED BY <1>1, <1>2, <1>3, QuietStep

\* A step of an install under way that touches no file.
LEMMA QuietGoing ==
    ASSUME CacheInv, NEW i \in Installs, Travels(i), Fixed, Cache!At(i) # "idle",
           UNCHANGED <<file, files, part, manifest, blob>>, dir' = dir \/ dir' = TRUE,
           install'[i].at \in {"idle", "begin", "try", "blob", "snapshot", "validate", "retry"}
    PROVE  CacheInv'
<1>1. AloneOK'
  BY StaysAlone DEF CacheInv, Fixed
<1>2. QED BY <1>1, QuietStep

LEMMA StepBegin ==
    ASSUME CacheInv, NEW i \in Installs, Cache!Begin(i)
    PROVE  CacheInv'
<1>1. Travels(i) /\ install'[i].at \in {"idle", "try"}
  BY GoesFacts, EndsFacts DEF Cache!Begin, CacheInv, Travels, Cache!Places, Shape, Cache!At
<1>2. QED BY <1>1, QuietGoing DEF Cache!Begin, Cache!disk, Cache!world, Fixed

LEMMA StepCancelled ==
    ASSUME CacheInv, NEW i \in Installs, Cache!Cancelled(i)
    PROVE  CacheInv'
<1>1. Travels(i) /\ install'[i].at = "idle"
  BY EndsFacts DEF Cache!Cancelled, Cache!Ends, CacheInv, Travels
<1>2. QED BY <1>1, QuietGoing DEF Cache!Cancelled, Cache!disk, Cache!world, Fixed

LEMMA StepTry ==
    ASSUME CacheInv, NEW i \in Installs, Cache!Try(i)
    PROVE  CacheInv'
<1>1. PICK at \in {"blob", "snapshot"} :
         /\ install' = [install EXCEPT ![i].at = at, ![i].attempt = @ + 1]
         /\ dir' = (dir \/ at = "blob")
  BY DEF Cache!Try
<1>2. Travels(i) /\ install'[i].at \in {"blob", "snapshot"}
  <2>1. at \in Cache!Places
    BY DEF Cache!Places
  <2>2. install[i].attempt + 1 \in Nat
    BY DEF CacheInv, Shape, Cache!Install
  <2> DEFINE n == install[i].attempt + 1
  <2>3. install' = [install EXCEPT ![i].at = at, ![i].attempt = n]
    BY <1>1
  <2> HIDE DEF n
  <2>4. n \in Nat
    BY <2>2 DEF n
  <2>5. QED BY <2>1, <2>3, <2>4, TakesAttempt DEF CacheInv, Travels, Shape, Cache!At, Cache!Try
<1>3. dir' = dir \/ dir' = TRUE
  BY <1>1 DEF CacheInv, Shape
<1>4. QED BY <1>2, <1>3, QuietGoing DEF Cache!Try, Cache!disk, Cache!world, Fixed

LEMMA StepValidate ==
    ASSUME CacheInv, NEW i \in Installs, Cache!Validate(i)
    PROVE  CacheInv'
<1>1. Travels(i) /\ install'[i].at \in {"idle", "retry"}
  BY GoesFacts, EndsFacts
     DEF Cache!Validate, Cache!Ends, CacheInv, Travels, Cache!Places, Shape, Cache!At
<1>2. QED BY <1>1, QuietGoing DEF Cache!Validate, Cache!disk, Cache!world, Fixed

LEMMA StepRetry ==
    ASSUME CacheInv, NEW i \in Installs, Cache!Retry(i)
    PROVE  CacheInv'
<1>1. Travels(i) /\ install'[i].at \in {"idle", "try"}
  BY GoesFacts, EndsFacts
     DEF Cache!Retry, Cache!Ends, CacheInv, Travels, Cache!Places, Shape, Cache!At
<1>2. QED BY <1>1, QuietGoing DEF Cache!Retry, Cache!disk, Cache!world, Fixed

LEMMA StepFails ==
    ASSUME CacheInv, NEW i \in Installs, Cache!Fails(i)
    PROVE  CacheInv'
<1>1. Travels(i) /\ install'[i].at = "snapshot"
  BY FallsBackFacts DEF Cache!Fails, CacheInv, Travels
<1>2. QED BY <1>1, QuietGoing DEF Cache!Fails, Cache!disk, Cache!world, Fixed

\* What snapshot_download adds to the cache is a new file, and whole.
LEMMA StepSnapshot ==
    ASSUME CacheInv, NEW i \in Installs, Cache!Snapshot(i)
    PROVE  CacheInv'
<1>1. Cache!At(i) = "snapshot" /\ Fixed
  BY DEF Cache!Snapshot, Cache!world, Fixed
<1>2. CASE UNCHANGED Cache!disk
  <2>1. \/ Cache!Goes(i, "validate") \/ Cache!Goes(i, "retry")
        \/ install' = [install EXCEPT ![i] = Cache!Idle]
    BY DEF Cache!Snapshot, Cache!Ends
  <2>2. Travels(i) /\ install'[i].at \in {"idle", "validate", "retry"}
    BY <1>1, <2>1, GoesFacts, EndsFacts DEF CacheInv, Travels, Cache!Places, Shape, Cache!At
  <2>3. QED BY <1>1, <1>2, <2>2, QuietGoing DEF Cache!disk
<1>3. CASE ~UNCHANGED Cache!disk
  <2>1. /\ blob = 0 /\ files < MaxFiles
        /\ dir' = TRUE /\ files' = files + 1 /\ blob' = files + 1
        /\ file' = [file EXCEPT ![files + 1] = Cache!Whole]
        /\ Cache!Goes(i, "validate")
        /\ UNCHANGED <<part, manifest>>
    BY <1>3 DEF Cache!Snapshot
  <2>2. Travels(i) /\ install'[i].at = "validate"
    BY <1>1, <2>1, GoesFacts DEF CacheInv, Travels, Cache!Places, Shape, Cache!At
  <2>3. MaxFiles \in Nat /\ files + 1 \in Cache!Files
    BY <2>1 DEF CacheInv, Shape, Cache!Files
  <2>4. Cache!Whole \in [Segments -> Cache!Content]
    BY DEF Cache!Whole, Cache!Content
  <2>5. file' \in [Cache!Files -> [Segments -> Cache!Content]] /\ file'[files + 1] = Cache!Whole
    BY <2>1, <2>3, <2>4 DEF CacheInv, Shape
  <2>6. part # 0 => file'[part] = file[part] /\ part # files + 1
    BY <2>1 DEF CacheInv, Shape
  <2>7. Shape'
    BY <1>1, <2>1, <2>2, <2>3, <2>5 DEF CacheInv, Shape, Travels, Fixed, Cache!At
  <2>8. PathsOK'
    BY <2>1, <2>6 DEF CacheInv, PathsOK
  <2>9. AloneOK'
    BY <1>1, <2>2, StaysAlone DEF CacheInv, Fixed
  <2>10. NoStream'
    BY <1>1, <2>2 DEF CacheInv, NoStream, Cache!At, Fixed, Travels
  <2>11. BlobOK'
    BY <2>1, <2>5 DEF BlobOK
  <2>12. RenameOK'
    BY <1>1, <2>1, <2>2, <2>6 DEF CacheInv, RenameOK, Sheltered, Cache!At, Travels, Fixed
  <2>13. OverlapOK'
    BY <1>1, <2>1, <2>2 DEF CacheInv, OverlapOK, Sheltered, Cache!At, Travels, Fixed
  <2>14. ManifestOK'
    <3>1. SUFFICES ASSUME alone, ranges, deletes = 0 PROVE ManifestOK'
      BY <1>1 DEF ManifestOK, Fixed
    <3>2. \A j \in Installs : install'[j].at \in {"idle", "validate"}
      BY <3>1, <1>1, <2>2 DEF CacheInv, AloneOK, Travels, Cache!At
    <3>3. part # 0 => \A s \in manifest : file'[part][s] = "full"
      BY <3>1, <2>6 DEF CacheInv, ManifestOK
    <3>4. blob' # 0
      BY <2>1 DEF CacheInv, Shape
    <3>5. QED BY <2>1, <3>2, <3>3, <3>4 DEF ManifestOK, Cache!At
  <2>15. QED BY <2>7, <2>8, <2>9, <2>10, <2>11, <2>12, <2>13, <2>14 DEF CacheInv
<1>4. QED BY <1>2, <1>3

----------------------------------------------------------------------------
(* The steps of segmented_download that leave the names alone.             *)

LEMMA KeepsFills ==
    ASSUME Shape, UNCHANGED file
    PROVE  Fills
BY DEF Shape, Fills

\* What is finished for an install and in the manifest when nothing changes.
LEMMA TrueBefore ==
    ASSUME CacheInv, NEW i \in Installs, alone, ranges, deletes = 0
    PROVE  ManifestTrue /\ Truthful(i)
BY DEF CacheInv, ManifestOK, ManifestTrue, Truthful, Cache!At

LEMMA StepBlob ==
    ASSUME CacheInv, NEW i \in Installs, Cache!Blob(i)
    PROVE  CacheInv'
<1>1. Cache!At(i) = "blob" /\ Fixed /\ UNCHANGED <<dir, file, files, part, manifest, blob>>
  BY DEF Cache!Blob, Cache!disk, Cache!world, Fixed
<1>2. CASE blob # 0
  <2>1. Travels(i) /\ install'[i].at = "validate"
    BY <1>1, <1>2, GoesFacts DEF Cache!Blob, CacheInv, Travels, Cache!Places, Shape, Cache!At
  <2>2. QED BY <1>1, <2>1, QuietGoing
<1>3. CASE blob = 0
  <2>1. Travels(i) /\ install'[i].at = "probe"
    BY <1>1, <1>3, GoesFacts DEF Cache!Blob, CacheInv, Travels, Cache!Places, Shape, Cache!At
  <2>2. Fills
    BY <1>1, KeepsFills DEF CacheInv
  <2>3. alone /\ ranges /\ deletes = 0 => ManifestTrue' /\ Truthful(i)'
    BY <1>1, <1>3, <2>1, TrueBefore DEF ManifestTrue, Truthful
  <2>4. manifest' \subseteq Segments
    BY <1>1 DEF CacheInv, Shape
  <2>5. QED BY <1>1, <1>3, <2>1, <2>2, <2>3, <2>4, DownloadStep
<1>4. QED BY <1>2, <1>3

LEMMA StepLoad ==
    ASSUME CacheInv, NEW i \in Installs, Cache!Load(i)
    PROVE  CacheInv'
<1>1. Cache!At(i) = "load" /\ Fixed /\ UNCHANGED <<dir, file, files, part, manifest, blob>>
  BY DEF Cache!Load, Cache!disk, Cache!world, Fixed
<1>2. manifest \in SUBSET Segments
  BY DEF CacheInv, Shape
<1>3. Travels(i) /\ install'[i].at = "allocate" /\ install'[i].done = manifest
  <2>1. "allocate" \in Cache!Places
    BY DEF Cache!Places
  <2>2. install' = [install EXCEPT ![i].at = "allocate", ![i].done = manifest]
    BY DEF Cache!Load
  <2>3. /\ install' \in [Installs -> Cache!Install]
        /\ install'[i].at = "allocate" /\ install'[i].done = manifest
        /\ install'[i].open = install[i].open
        /\ \A j \in Installs : j # i => install'[j] = install[j]
    BY <2>1, <2>2, <1>2, TakesDone DEF CacheInv
  <2>4. QED BY <1>1, <2>3 DEF CacheInv, Travels, Shape, Cache!At
<1>4. Fills
  BY <1>1, KeepsFills DEF CacheInv
<1>5. ASSUME alone, ranges, deletes = 0 PROVE ManifestTrue' /\ Truthful(i)'
  <2>1. ManifestTrue /\ blob = 0
    BY <1>1, <1>5, TrueBefore DEF Truthful, Cache!At
  <2>2. QED BY <1>1, <1>3, <2>1 DEF ManifestTrue, Truthful
<1>6. QED BY <1>1, <1>2, <1>3, <1>4, <1>5, DownloadStep

LEMMA StepStream ==
    ASSUME CacheInv, NEW i \in Installs, Cache!Stream(i)
    PROVE  CacheInv'
<1>1. Cache!At(i) = "stream" /\ Fixed /\ UNCHANGED <<dir, files, part, manifest, blob>>
  BY DEF Cache!Stream, Cache!world, Fixed
<1>2. ~ranges
  BY <1>1 DEF CacheInv, NoStream
<1>3. Travels(i) /\ install'[i].at \in {"stream", "verify"}
  <2>1. CASE Cache!Goes(i, "verify")
    BY <1>1, <2>1, GoesFacts DEF CacheInv, Travels, Cache!Places, Shape, Cache!At
  <2>2. CASE UNCHANGED install
    BY <1>1, <2>2 DEF CacheInv, Travels, Shape, Cache!At
  <2>3. QED BY <2>1, <2>2 DEF Cache!Stream
<1>4. Fills
  <2>1. CASE UNCHANGED file
    BY <2>1, KeepsFills DEF CacheInv
  <2>2. ASSUME NEW s \in Segments, file' = [file EXCEPT ![install[i].file][s] = "full"]
        PROVE  Fills
    BY <2>2 DEF CacheInv, Shape, Fills, Cache!Content
  <2>3. QED BY <2>1, <2>2 DEF Cache!Stream
<1>5. manifest' \subseteq Segments
  BY <1>1 DEF CacheInv, Shape
<1>6. QED BY <1>1, <1>2, <1>3, <1>4, <1>5, DownloadStep

LEMMA StepFetchOpens ==
    ASSUME CacheInv, NEW i \in Installs, NEW s \in Segments, Cache!FetchOpens(i, s)
    PROVE  CacheInv'
<1>1. /\ Cache!At(i) = "fetch" /\ part # 0 /\ Fixed
      /\ UNCHANGED <<dir, files, part, manifest, blob>>
  BY DEF Cache!FetchOpens, Cache!world, Fixed
<1>2. part \in Cache!Files
  BY <1>1 DEF CacheInv, Shape, Cache!Files
<1>3. Travels(i) /\ install'[i].at = "fetch" /\ install'[i].done = install[i].done
                 /\ install'[i].open = install[i].open \cup {<<s, part>>}
  <2> DEFINE open == install[i].open \cup {<<s, part>>}
  <2>1. open \in SUBSET (Segments \X Cache!Files)
    BY <1>2 DEF CacheInv, Shape, Cache!Install
  <2>2. install' = [install EXCEPT ![i].open = open]
    BY DEF Cache!FetchOpens
  <2> HIDE DEF open
  <2>3. /\ install' \in [Installs -> Cache!Install]
        /\ install'[i].at = install[i].at /\ install'[i].done = install[i].done
        /\ install'[i].open = open
        /\ \A j \in Installs : j # i => install'[j] = install[j]
    BY <2>1, <2>2, TakesOpen DEF CacheInv
  <2>4. QED BY <1>1, <2>3 DEF Travels, Cache!At, open
<1>4. Fills
  <2>1. file' = [file EXCEPT ![part][s] = IF @ = "full" THEN @ ELSE "some"]
    BY DEF Cache!FetchOpens
  <2>2. QED BY <2>1, <1>2 DEF CacheInv, Shape, Fills, Cache!Content
<1>5. ASSUME alone, ranges, deletes = 0 PROVE ManifestTrue' /\ Truthful(i)'
  <2>1. ManifestTrue /\ Truthful(i)
    BY <1>5, TrueBefore
  <2>2. manifest \subseteq Segments /\ install[i].done \subseteq Segments
    BY DEF CacheInv, Shape, Cache!Install
  <2>3. dir => \A o \in install'[i].open : o[2] = part
    BY <1>1, <1>3, <2>1 DEF Truthful, Cache!At
  <2>4. QED BY <1>1, <1>2, <1>3, <1>4, <2>1, <2>2, <2>3 DEF ManifestTrue, Truthful, Cache!At, Fills
<1>6. manifest' \subseteq Segments
  BY <1>1 DEF CacheInv, Shape
<1>7. QED BY <1>1, <1>3, <1>4, <1>5, <1>6, DownloadStep

LEMMA StepFetchEnds ==
    ASSUME CacheInv, NEW i \in Installs, NEW o \in install[i].open, Cache!FetchEnds(i, o)
    PROVE  CacheInv'
<1>0. PICK s \in Segments, f \in Cache!Files : o = <<s, f>>
  BY DEF CacheInv, Shape, Cache!Install
<1> DEFINE done == install[i].done \cup {s}
           open == install[i].open \ {o}
<1>1. /\ Cache!At(i) = "fetch" /\ Fixed
      /\ UNCHANGED <<dir, files, part, blob>>
      /\ file' = [file EXCEPT ![f][s] = "full"]
      /\ manifest' = manifest \/ (dir /\ manifest' = done)
  BY <1>0 DEF Cache!FetchEnds, Cache!world, Fixed
<1>2. done \in SUBSET Segments /\ open \in SUBSET (Segments \X Cache!Files)
  BY DEF CacheInv, Shape, Cache!Install
<1>3. Travels(i) /\ install'[i].at = "fetch" /\ install'[i].done = done
                 /\ install'[i].open = open
  <2>1. install' = [install EXCEPT ![i].done = done, ![i].open = open]
    BY <1>0 DEF Cache!FetchEnds
  <2> HIDE DEF done, open
  <2>2. /\ install' \in [Installs -> Cache!Install]
        /\ install'[i].at = install[i].at /\ install'[i].open = open
        /\ install'[i].done = done
        /\ \A j \in Installs : j # i => install'[j] = install[j]
    <3>1. install \in [Installs -> Cache!Install]
      BY DEF CacheInv, Shape
    <3>2. QED BY <2>1, <1>2, <3>1 DEF Cache!Install
  <2>3. QED BY <1>1, <2>2 DEF Travels, Cache!At
<1>4. Fills
  BY <1>1 DEF CacheInv, Shape, Fills, Cache!Content
<1>5. ASSUME alone, ranges, deletes = 0 PROVE ManifestTrue' /\ Truthful(i)'
  <2>1. ManifestTrue /\ Truthful(i)
    BY <1>5, TrueBefore
  <2>2. manifest \subseteq Segments /\ (part # 0 => part \in Cache!Files)
    BY DEF CacheInv, Shape, Cache!Files
  <2>3. ASSUME dir PROVE part # 0 /\ \A q \in done : file'[part][q] = "full"
    <3>1. part # 0 /\ f = part /\ \A q \in install[i].done : file[part][q] = "full"
      BY <1>0, <1>1, <2>1, <2>3 DEF Truthful, Cache!At
    <3>2. file'[part][s] = "full"
      BY <1>1, <2>2, <3>1 DEF CacheInv, Shape
    <3>3. install[i].done \subseteq Segments
      BY DEF CacheInv, Shape, Cache!Install
    <3>4. QED BY <1>4, <2>2, <3>1, <3>2, <3>3 DEF Fills
  <2>4. ManifestTrue'
    BY <1>1, <1>4, <2>1, <2>2, <2>3 DEF ManifestTrue, Fills
  <2>5. dir => part # 0 /\ \A q \in install'[i].open : q[2] = part
    BY <1>1, <1>3, <2>1 DEF Truthful, Cache!At
  <2>6. blob = 0
    BY <1>1, <2>1 DEF Truthful, Cache!At
  <2> HIDE DEF done
  <2>7. Truthful(i)'
    BY <1>1, <1>3, <2>3, <2>5, <2>6 DEF Truthful
  <2>8. QED BY <2>4, <2>7
<1>6. manifest' \subseteq Segments
  BY <1>1, <1>2 DEF CacheInv, Shape
<1>7. QED BY <1>1, <1>3, <1>4, <1>5, <1>6, DownloadStep

LEMMA StepFetched ==
    ASSUME CacheInv, NEW i \in Installs, Cache!Fetched(i)
    PROVE  CacheInv'
<1>1. /\ Cache!At(i) = "fetch" /\ install[i].done = Segments /\ install[i].open = {} /\ Fixed
      /\ UNCHANGED <<dir, file, files, part, manifest, blob>>
  BY DEF Cache!Fetched, Cache!disk, Cache!world, Fixed
<1>2. Travels(i) /\ install'[i].at = "verify" /\ install'[i].done = Segments
  BY <1>1, GoesFacts DEF Cache!Fetched, CacheInv, Travels, Cache!Places
<1>3. Fills
  BY <1>1, KeepsFills DEF CacheInv
<1>4. ASSUME alone, ranges, deletes = 0 PROVE ManifestTrue' /\ Truthful(i)'
  <2>1. ManifestTrue /\ Truthful(i)
    BY <1>4, TrueBefore
  <2>2. QED BY <1>1, <1>2, <2>1 DEF ManifestTrue, Truthful, Cache!At
<1>5. manifest' \subseteq Segments
  BY <1>1 DEF CacheInv, Shape
<1>6. QED BY <1>1, <1>2, <1>3, <1>4, <1>5, DownloadStep

\* With ranges alone every segment is finished, and otherwise the hash is right.
LEMMA StepVerify ==
    ASSUME CacheInv, NEW i \in Installs, Cache!Verify(i)
    PROVE  CacheInv'
<1>1. /\ Cache!At(i) = "verify" /\ part # 0 /\ Fixed
      /\ UNCHANGED <<dir, file, files, part, manifest, blob>>
      /\ hashed => file[part] = Cache!Whole
  BY DEF Cache!Verify, Cache!Sound, Cache!disk, Cache!world, Fixed
<1>2. Travels(i) /\ install'[i].at = "rename"
  BY <1>1, GoesFacts DEF Cache!Verify, CacheInv, Travels, Cache!Places, Shape, Cache!At
<1>3. Fills
  BY <1>1, KeepsFills DEF CacheInv
<1>4. ASSUME alone, ranges, deletes = 0 PROVE ManifestTrue' /\ Truthful(i)' /\ file[part] = Cache!Whole
  <2>1. ManifestTrue /\ Truthful(i)
    BY <1>4, TrueBefore
  <2>2. part \in Cache!Files /\ dir
    BY <1>1 DEF CacheInv, Shape, PathsOK, Cache!Files
  <2>3. \A s \in Segments : file[part][s] = "full"
    BY <1>1, <2>1, <2>2 DEF Truthful, Cache!At
  <2>4. file[part] = Cache!Whole
    BY <2>2, <2>3, WholeIsFull DEF CacheInv
  <2>5. QED BY <1>1, <1>2, <2>1, <2>4 DEF ManifestTrue, Truthful, Cache!At
<1>5. Sheltered => file[part] = Cache!Whole
  BY <1>1, <1>4 DEF Sheltered
<1>6. manifest' \subseteq Segments
  BY <1>1 DEF CacheInv, Shape
<1>7. QED BY <1>1, <1>2, <1>3, <1>4, <1>5, <1>6, DownloadStep

LEMMA StepClean ==
    ASSUME CacheInv, NEW i \in Installs, Cache!Clean(i)
    PROVE  CacheInv'
<1>1. /\ Cache!At(i) = "clean" /\ Fixed /\ manifest' = {}
      /\ UNCHANGED <<dir, file, files, part, blob>>
  BY DEF Cache!Clean, Cache!world, Fixed
<1>2. Travels(i) /\ install'[i].at = "validate"
  BY <1>1, GoesFacts DEF Cache!Clean, CacheInv, Travels, Cache!Places, Shape, Cache!At
<1>3. Fills
  BY <1>1, KeepsFills DEF CacheInv
<1>4. ManifestTrue' /\ Truthful(i)'
  BY <1>1, <1>2 DEF ManifestTrue, Truthful
<1>5. QED BY <1>1, <1>2, <1>3, <1>4, DownloadStep

----------------------------------------------------------------------------
(* The steps that change what the names denote.                            *)

\* A part made anew harms nobody: an install that overlaps and lost its part
\* to a rename would exclude this one.
LEMMA FreshPart ==
    ASSUME CacheInv, NEW i \in Installs, Travels(i), Fixed,
           NEW holds \in [Segments -> Cache!Content],
           Cache!NewPart(holds), part = 0, UNCHANGED <<dir, manifest, blob>>,
           Cache!At(i) \in {"probe", "allocate"}, install'[i].at \in {"stream", "fetch"},
           install'[i].at = "stream" => ~ranges,
           alone /\ ranges /\ deletes = 0 => manifest = {} /\ Truthful(i)'
    PROVE  CacheInv'
<1> USE DEF Fixed, Travels, CacheInv
<1>1. MaxFiles \in Nat
  BY DEF CacheInv, Shape
<1>2. /\ dir /\ files < MaxFiles /\ files' = files + 1 /\ part' = files + 1
      /\ file' = [file EXCEPT ![files + 1] = holds]
  BY DEF Cache!NewPart
<1>3. /\ file' \in [Cache!Files -> [Segments -> Cache!Content]]
      /\ part' # 0 /\ part' # blob /\ (blob # 0 => file'[blob] = file[blob])
  BY <1>1, <1>2 DEF Shape, Cache!Files
<1>4. Shape'
  BY <1>1, <1>2, <1>3 DEF Shape, Cache!At
<1>5. PathsOK'
  BY <1>2, <1>3 DEF PathsOK
<1>6. AloneOK'
  BY StaysAlone
<1>7. NoStream'
  BY DEF NoStream, Cache!At
<1>8. BlobOK'
  BY <1>3 DEF BlobOK, Sheltered
<1>9. RenameOK'
  <2>1. SUFFICES ASSUME Sheltered, NEW j \in Installs, install'[j].at = "rename"
                 PROVE  FALSE
    BY DEF RenameOK, Sheltered, Cache!At
  <2>2. j # i /\ Cache!At(j) = "rename"
    BY <2>1 DEF Cache!At
  <2>3. CASE alone
    BY <2>2, <2>3 DEF AloneOK
  <2>4. CASE ~alone
    BY <2>1, <2>2, <2>4 DEF OverlapOK
  <2>5. QED BY <2>3, <2>4
<1>10. OverlapOK'
  BY <1>3 DEF OverlapOK
<1>11. ManifestOK'
  <2>1. SUFFICES ASSUME alone, ranges, deletes = 0 PROVE ManifestTrue' /\ \A j \in Installs : Truthful(j)'
    BY DEF ManifestOK, ManifestTrue, Truthful, Cache!At
  <2>2. ASSUME NEW j \in Installs, j # i PROVE Truthful(j)'
    <3>1. Cache!At(j) = "idle"
      BY <2>1, <2>2 DEF AloneOK
    <3>2. QED BY <3>1, <2>2 DEF Truthful, Cache!At
  <2>3. ManifestTrue'
    BY <2>1, <1>3 DEF ManifestTrue
  <2>4. QED BY <2>1, <2>2, <2>3
<1>12. QED BY <1>4, <1>5, <1>6, <1>7, <1>8, <1>9, <1>10, <1>11

\* A stream into a part that is there empties it.  Without ranges only an
\* install that runs alone is sheltered, and no other is about to rename.
LEMMA EmptiedPart ==
    ASSUME CacheInv, NEW i \in Installs, Travels(i), Fixed, ~ranges, part # 0,
           file' = [file EXCEPT ![part] = Cache!Empty],
           UNCHANGED <<dir, files, part, manifest, blob>>,
           Cache!At(i) = "probe", install'[i].at = "stream"
    PROVE  CacheInv'
<1> USE DEF Fixed, Travels, CacheInv
<1>1. Cache!Empty \in [Segments -> Cache!Content]
  BY DEF Cache!Empty, Cache!Content
<1>2. /\ file' \in [Cache!Files -> [Segments -> Cache!Content]]
      /\ (blob # 0 => file'[blob] = file[blob])
  <2>1. /\ file \in [Cache!Files -> [Segments -> Cache!Content]]
        /\ (blob # 0 => blob \in Cache!Files /\ part # blob)
    BY DEF Shape, PathsOK, Cache!Files
  <2>2. QED BY <1>1, <2>1
<1>3. Shape'
  BY <1>2 DEF Shape, Cache!At
<1>4. PathsOK'
  BY DEF PathsOK
<1>5. AloneOK'
  BY StaysAlone
<1>6. NoStream' /\ OverlapOK' /\ ManifestOK'
  BY DEF NoStream, OverlapOK, ManifestOK, Sheltered
<1>7. BlobOK'
  BY <1>2 DEF BlobOK, Sheltered
<1>8. RenameOK'
  <2>1. SUFFICES ASSUME Sheltered, NEW j \in Installs, install'[j].at = "rename"
                 PROVE  FALSE
    BY DEF RenameOK, Sheltered, Cache!At
  <2>2. j # i /\ Cache!At(j) = "rename" /\ alone
    BY <2>1 DEF Cache!At, Sheltered
  <2>3. QED BY <2>2 DEF AloneOK
<1>9. QED BY <1>3, <1>4, <1>5, <1>6, <1>7, <1>8

LEMMA StepProbe ==
    ASSUME CacheInv, NEW i \in Installs, Cache!Probe(i)
    PROVE  CacheInv'
<1>1. Cache!At(i) = "probe" /\ Fixed
  BY DEF Cache!Probe, Cache!world, Fixed
<1>2. CASE Cache!Goes(i, "load") /\ UNCHANGED Cache!disk
  <2>1. UNCHANGED <<dir, file, files, part, manifest, blob>>
    BY <1>2 DEF Cache!disk
  <2>2. Travels(i) /\ install'[i].at = "load"
    BY <1>1, <1>2, GoesFacts DEF CacheInv, Travels, Cache!Places, Shape, Cache!At
  <2>3. Fills
    BY <2>1, KeepsFills DEF CacheInv
  <2>4. ASSUME alone, ranges, deletes = 0 PROVE ManifestTrue' /\ Truthful(i)'
    <3>1. ManifestTrue /\ Truthful(i)
      BY <2>4, TrueBefore
    <3>2. QED BY <1>1, <2>1, <2>2, <3>1 DEF ManifestTrue, Truthful, Cache!At
  <2>5. manifest' \subseteq Segments
    BY <2>1 DEF CacheInv, Shape
  <2>6. QED BY <1>1, <2>1, <2>2, <2>3, <2>4, <2>5, DownloadStep
<1>3. CASE ~(Cache!Goes(i, "load") /\ UNCHANGED Cache!disk)
  <2>1. /\ ~ranges /\ UNCHANGED <<dir, manifest, blob>>
        /\ IF part = 0 THEN Cache!NewPart(Cache!Empty)
                       ELSE /\ file' = [file EXCEPT ![part] = Cache!Empty]
                            /\ UNCHANGED <<files, part>>
        /\ install' = [install EXCEPT ![i].at = "stream", ![i].file = part']
    BY <1>3 DEF Cache!Probe
  <2>2. MaxFiles \in Nat
    BY DEF CacheInv, Shape
  <2>3. part' \in 0..MaxFiles
    BY <2>1, <2>2 DEF CacheInv, Shape, Cache!NewPart
  <2>4. Travels(i) /\ install'[i].at = "stream"
    <3>1. "stream" \in Cache!Places
      BY DEF Cache!Places
    <3> DEFINE f == part'
    <3>2. install' = [install EXCEPT ![i].at = "stream", ![i].file = f] /\ f \in 0..MaxFiles
      BY <2>1, <2>3
    <3> HIDE DEF f
    <3>3. /\ install' \in [Installs -> Cache!Install]
          /\ install'[i].at = "stream" /\ install'[i].open = install[i].open
          /\ \A j \in Installs : j # i => install'[j] = install[j]
      BY <3>1, <3>2, TakesFile DEF CacheInv
    <3>4. QED BY <1>1, <3>3 DEF CacheInv, Travels, Shape, Cache!At
  <2>5. Cache!Empty \in [Segments -> Cache!Content]
    BY DEF Cache!Empty, Cache!Content
  <2>6. CASE part = 0
    BY <1>1, <2>1, <2>4, <2>5, <2>6, FreshPart
  <2>7. CASE part # 0
    BY <1>1, <2>1, <2>4, <2>7, EmptiedPart
  <2>8. QED BY <2>6, <2>7
<1>4. QED BY <1>2, <1>3

LEMMA StepAllocate ==
    ASSUME CacheInv, NEW i \in Installs, Cache!Allocate(i)
    PROVE  CacheInv'
<1>1. Cache!At(i) = "allocate" /\ Fixed /\ UNCHANGED <<dir, manifest, blob>>
  BY DEF Cache!Allocate, Cache!world, Fixed
<1>2. /\ Travels(i) /\ install'[i].at = "fetch" /\ install'[i].open = {}
      /\ install'[i].done = install[i].done
  BY <1>1, GoesFacts DEF Cache!Allocate, CacheInv, Travels, Cache!Places, Shape, Cache!At
<1>3. \A f \in [Segments -> Cache!Content] : Cache!Filled(f) \in [Segments -> Cache!Content]
  BY DEF Cache!Filled, Cache!Content
<1>4. Cache!Empty \in [Segments -> Cache!Content]
  BY DEF Cache!Empty, Cache!Content
<1>5. CASE part = 0
  <2>1. Cache!NewPart(Cache!Filled(Cache!Empty)) /\ dir
    BY <1>5 DEF Cache!Allocate, Cache!NewPart
  <2>2. ASSUME alone, ranges, deletes = 0 PROVE manifest = {} /\ Truthful(i)'
    <3>1. ManifestTrue /\ Truthful(i)
      BY <2>2, TrueBefore
    <3>2. manifest = {} /\ install[i].done = {} /\ blob = 0
      BY <1>1, <1>5, <2>1, <3>1 DEF ManifestTrue, Truthful, Cache!At
    <3>3. part' # 0
      BY <2>1 DEF Cache!NewPart, CacheInv, Shape
    <3>4. QED BY <1>1, <1>2, <3>2, <3>3 DEF Truthful
  <2>3. QED BY <1>1, <1>2, <1>3, <1>4, <1>5, <2>1, <2>2, FreshPart
<1>6. CASE part # 0
  <2>1. file' = [file EXCEPT ![part] = Cache!Filled(@)] /\ UNCHANGED <<files, part>>
    BY <1>6 DEF Cache!Allocate
  <2>2. part \in Cache!Files
    BY <1>6 DEF CacheInv, Shape, Cache!Files
  <2>3. Fills
    <3>1. \A f \in [Segments -> Cache!Content], s \in Segments :
            f[s] = "full" => Cache!Filled(f)[s] = "full"
      BY DEF Cache!Filled
    <3>2. QED BY <2>1, <2>2, <3>1, <1>3 DEF CacheInv, Shape, Fills
  <2>4. ASSUME alone, ranges, deletes = 0 PROVE ManifestTrue' /\ Truthful(i)'
    <3>1. ManifestTrue /\ Truthful(i)
      BY <2>4, TrueBefore
    <3>2. manifest \subseteq Segments /\ install[i].done \subseteq Segments
      BY DEF CacheInv, Shape, Cache!Install
    <3>3. QED BY <1>1, <1>2, <1>6, <2>1, <2>2, <2>3, <3>1, <3>2
                 DEF ManifestTrue, Truthful, Cache!At, Fills
  <2>5. manifest' \subseteq Segments
    BY <1>1 DEF CacheInv, Shape
  <2>6. QED BY <1>1, <1>2, <2>1, <2>3, <2>4, <2>5, DownloadStep
<1>7. QED BY <1>5, <1>6

\* The part becomes the blob.  If an install that overlaps waits to rename the
\* same part, it is the only other one, and this one is done with the part.
LEMMA StepRename ==
    ASSUME CacheInv, NEW i \in Installs, Cache!Rename(i)
    PROVE  CacheInv'
<1> USE DEF Fixed, Travels, CacheInv
<1>1. /\ Cache!At(i) = "rename" /\ part # 0 /\ blob' = part /\ part' = 0 /\ Fixed
      /\ UNCHANGED <<dir, file, files, manifest>>
  BY DEF Cache!Rename, Cache!world
<1>2. Travels(i) /\ install'[i].at = "clean"
  BY <1>1, GoesFacts DEF Cache!Rename, Cache!Places, Shape, Cache!At
<1>3. Shape'
  BY <1>1, <1>2 DEF Shape, Cache!At
<1>4. PathsOK'
  BY <1>1 DEF PathsOK
<1>5. AloneOK'
  BY <1>1, <1>2, StaysAlone
<1>6. NoStream'
  BY <1>1, <1>2 DEF NoStream, Cache!At
<1>7. BlobOK'
  BY <1>1 DEF BlobOK, RenameOK, Sheltered
<1>8. RenameOK'
  BY <1>1 DEF RenameOK
<1>9. OverlapOK'
  <2>1. SUFFICES ASSUME Sheltered, ~alone, NEW j \in Installs, install'[j].at = "rename",
                        NEW k \in Installs \ {j}
                 PROVE  blob' # 0 /\ install'[k].at \notin {"probe", "load", "allocate"}
    BY <1>1 DEF OverlapOK, Sheltered, Cache!At
  <2>2. j # i
    BY <1>2, <2>1
  <2>3. k = i
    BY <2>1, <2>2 DEF Sheltered
  <2>4. QED BY <1>1, <1>2, <2>3
<1>10. ManifestOK'
  <2>1. SUFFICES ASSUME alone, ranges, deletes = 0 PROVE ManifestOK'
    BY <1>1 DEF ManifestOK
  <2>2. \A j \in Installs : install'[j].at \in {"idle", "clean"}
    BY <2>1, <1>1, <1>2 DEF AloneOK, Cache!At
  <2>3. QED BY <1>1, <2>2 DEF ManifestOK, Cache!At
<1>11. QED BY <1>3, <1>4, <1>5, <1>6, <1>7, <1>8, <1>9, <1>10
----------------------------------------------------------------------------
(* Cancels, deletions, and the death of the process.                       *)

\* A deletion only takes names away, and after one less is claimed.
LEMMA FewerNames ==
    ASSUME CacheInv, deletes' \in Nat, deletes' # 0, dir' \in BOOLEAN,
           part' \in {0, part}, blob' \in {0, blob}, manifest' \in {{}, manifest},
           dir' = dir \/ (part' = 0 /\ manifest' = {}),
           UNCHANGED <<file, files, install, alone, hashed, ranges>>
    PROVE  CacheInv'
<1> USE DEF CacheInv
<1>1. /\ deletes' # 0
      /\ UNCHANGED <<file, files, install, alone, hashed, ranges>>
  OBVIOUS
<1>2. Shape'
  BY DEF Shape, Cache!At
<1>3. PathsOK'
  BY DEF PathsOK
<1>4. BlobOK' /\ RenameOK'
  <2>1. Sheltered' => Sheltered
    BY <1>1 DEF Sheltered
  <2>2. BlobOK'
    BY <2>1 DEF BlobOK
  <2>3. RenameOK'
    BY <2>1 DEF RenameOK, Cache!At
  <2>4. QED BY <2>2, <2>3
<1>5. AloneOK' /\ NoStream'
  BY <1>1 DEF AloneOK, NoStream, Cache!At
<1>6. OverlapOK' /\ ManifestOK'
  BY <1>1 DEF OverlapOK, ManifestOK, Sheltered
<1>7. QED BY <1>2, <1>3, <1>4, <1>5, <1>6

LEMMA StepDelete ==
    ASSUME CacheInv, Cache!Delete
    PROVE  CacheInv'
<1>1. deletes' = deletes + 1 /\ UNCHANGED <<Cache!disk, install, alone, hashed, ranges>>
  BY DEF Cache!Delete
<1>2. deletes' \in Nat /\ deletes' # 0
  BY <1>1 DEF CacheInv, Shape
<1>3. dir' \in BOOLEAN
  BY <1>1 DEF CacheInv, Shape, Cache!disk
<1>4. QED BY <1>1, <1>2, <1>3, FewerNames DEF Cache!disk

LEMMA StepRemoves ==
    ASSUME CacheInv, NEW n \in Cache!Names, Cache!Removes(n)
    PROVE  CacheInv'
<1>1. /\ n \in victims /\ (n = "dir" => Cache!Present = {})
      /\ part' = IF n = "part" THEN 0 ELSE part
      /\ manifest' = IF n = "manifest" THEN {} ELSE manifest
      /\ blob' = IF n = "blob" THEN 0 ELSE blob
      /\ dir' = (dir /\ n # "dir")
      /\ UNCHANGED <<file, files, install, alone, hashed, ranges, deletes>>
  BY DEF Cache!Removes
<1>2. deletes' \in Nat /\ deletes' # 0 /\ dir' \in BOOLEAN
  BY <1>1 DEF CacheInv, Shape
<1>3. n = "dir" => part = 0 /\ manifest = {}
  BY <1>1 DEF Cache!Present, Cache!Names
<1>4. part' \in {0, part} /\ blob' \in {0, blob} /\ manifest' \in {{}, manifest}
  BY <1>1
<1>5. dir' = dir \/ (part' = 0 /\ manifest' = {})
  BY <1>1, <1>3 DEF CacheInv, Shape
<1>6. QED BY <1>1, <1>2, <1>4, <1>5, FewerNames

LEMMA StepCrash ==
    ASSUME CacheInv, Cache!Crash
    PROVE  CacheInv'
<1> USE DEF CacheInv
<1>1. /\ install' = [i \in Installs |-> Cache!Idle]
      /\ victims' = {}
      /\ UNCHANGED <<dir, file, files, part, manifest, blob, alone, hashed, ranges, deletes>>
  BY DEF Cache!Crash, Cache!disk
<1>2. \A i \in Installs : Cache!At(i)' = "idle"
  BY <1>1, IdleType DEF CacheInv, Shape, Cache!At
<1>3. Shape'
  BY <1>1, IdleType DEF Shape, Cache!At
<1>4. PathsOK' /\ AloneOK' /\ NoStream' /\ BlobOK' /\ RenameOK' /\ OverlapOK'
  BY <1>1, <1>2 DEF PathsOK, AloneOK, NoStream, BlobOK, RenameOK, OverlapOK, Sheltered
<1>5. ManifestOK'
  BY <1>1, <1>2 DEF ManifestOK
<1>6. QED BY <1>3, <1>4, <1>5

\* Flags for other installs, the end of a cooldown, stuttering.
LEMMA StepElsewhere ==
    ASSUME CacheInv, UNCHANGED <<Cache!disk, install, alone, hashed, ranges, victims, deletes>>
    PROVE  CacheInv'
BY DEF CacheInv, Cache!disk, Shape, Cache!At, PathsOK, AloneOK, NoStream, BlobOK, RenameOK,
       OverlapOK, ManifestOK, Sheltered
----------------------------------------------------------------------------
LEMMA InitCacheInv == ASSUME Cache!ModelInstallAssumption, Cache!Init PROVE CacheInv
<1>1. Shape
  BY InitShape
<1>2. \A i \in Installs : Cache!At(i) = "idle"
  BY IdleType DEF Cache!Init, Cache!At
<1>3. part = 0 /\ blob = 0 /\ manifest = {}
  BY DEF Cache!Init
<1>4. QED BY <1>1, <1>2, <1>3 DEF CacheInv, PathsOK, AloneOK, NoStream, BlobOK, RenameOK,
                                 OverlapOK, ManifestOK

LEMMA StepCacheInv == CacheInv /\ [Cache!Next]_(Cache!vars) => CacheInv'
<1> SUFFICES ASSUME CacheInv, [Cache!Next]_(Cache!vars) PROVE CacheInv'
  OBVIOUS
<1>1. ASSUME NEW i \in Installs, Cache!Start(i) \/ Cache!Step(i) PROVE CacheInv'
  BY <1>1, StepStart, StepBegin, StepCancelled, StepTry, StepSnapshot, StepValidate, StepRetry,
     StepBlob, StepProbe, StepStream, StepLoad, StepAllocate, StepFetchOpens, StepFetchEnds,
     StepFetched, StepVerify, StepRename, StepClean, StepFails DEF Cache!Step
<1>2. CASE Cache!Cools \/ Cache!Cancel \/ UNCHANGED Cache!vars
  BY <1>2, StepElsewhere DEF Cache!Cools, Cache!Cancel, Cache!vars, Cache!world
<1>3. QED BY <1>1, <1>2, StepDelete, StepRemoves, StepCrash DEF Cache!Next

\* What the cache holds is the whole file: for installs that do not overlap, when
\* its hash is known, whatever a deletion takes from under them; or else when the
\* server always accepts ranges and the model is not deleted; for two that may overlap,
\* when both are so and the model is not deleted.
THEOREM CacheIntact ==
    ASSUME Cache!ModelInstallAssumption PROVE Cache!Spec => []Cache!Intact
<1>1. CacheInv => Cache!Intact
  BY DEF CacheInv, BlobOK, Cache!Intact, Sheltered
<1>2. QED BY InitCacheInv, StepCacheInv, <1>1, PTL DEF Cache!Spec
=============================================================================
