--------------------------- MODULE SparkADMM_proofs ---------------------------
(***************************************************************************)
(* Proofs about SparkADMM: its type invariant; that partitions rebuilt     *)
(* after a loss are the partitions that were lost, and that the two        *)
(* residuals of stopLearning are about the same iteration (the lineage);   *)
(* that solve implements the synchronous consensus ADMM, whatever the      *)
(* order of the tasks and whatever partitions are lost (the safety half of *)
(* ImplementsADMM).                                                        *)
(***************************************************************************)
EXTENDS SparkADMM, TLAPS

LEMMA OptionFact == \A v : Some(v) # None /\ Get(Some(v)) = v
BY DEF None, Some, Get

LEMMA StageFact ==
  /\ DataStage \in Stage /\ UStage(0) \in Stage
  /\ \A i \in Gen : /\ XStage(i) \in Stage /\ UStage(i) \in Stage
                    /\ UStage(i - 1) \in Stage
                    /\ XStage(i) - 1 = UStage(i - 1)
                    /\ UStage(i) - 1 = XStage(i)
                    /\ XStage(i) # DataStage /\ UStage(i) # DataStage
                    /\ XStage(i) # UStage(0) /\ UStage(i) # UStage(0)
  /\ UStage(0) # DataStage /\ UStage(0) - 1 = DataStage
  /\ \A i, j \in Gen : /\ XStage(i) # UStage(j)
                       /\ XStage(i) = XStage(j) => i = j
                       /\ UStage(i) = UStage(j) => i = j
  /\ \A i, j \in Gen : XStage(i) # UStage(j - 1)
BY ADMMAssumption DEF Stage, DataStage, XStage, UStage, Gen

LEMMA StageCases ==
  \A p \in Stage : \/ p = DataStage \/ p = UStage(0)
                   \/ \E i \in Gen : p = XStage(i) \/ p = UStage(i)
<1> SUFFICES ASSUME NEW p \in Stage, p # DataStage, p # UStage(0)
             PROVE  \E i \in Gen : p = XStage(i) \/ p = UStage(i)
  OBVIOUS
<1>1. p \in Int /\ p >= 2 /\ p <= 2 * NIters + 3 /\ NIters \in Nat
  BY ADMMAssumption DEF Stage, DataStage, UStage
<1>2. /\ p \div 2 \in Gen
      /\ p = 2 * (p \div 2) \/ p = 2 * (p \div 2) + 1
  BY <1>1 DEF Gen
<1> QED  BY <1>2 DEF XStage, UStage

(* A function on an initial segment of Nat is a sequence. *)
LEMMA SegmentIsSeq ==
  ASSUME NEW n \in Nat, NEW q, q = [i \in 1..n |-> q[i]]
  PROVE  q \in Seq({q[i] : i \in 1..n}) /\ Len(q) = n
<1>1. q \in [1..n -> {q[i] : i \in 1..n}]
  OBVIOUS
<1> QED  BY <1>1

LEMMA ExceptSegment ==
  ASSUME NEW n \in Nat, NEW q, q = [i \in 1..n |-> q[i]], NEW j, NEW v, NEW w
  PROVE  LET p == [q EXCEPT ![j].loss = v, ![j].card = w]
             r == [q EXCEPT ![j].dEps = v, ![j].dRes = w]
         IN  /\ p = [i \in 1..n |-> p[i]]
             /\ r = [i \in 1..n |-> r[i]]
OBVIOUS

LEMMA AppendSegment ==
  ASSUME NEW n \in Nat, NEW q, q = [i \in 1..n |-> q[i]], NEW e
  PROVE  Append(q, e) = [i \in 1..(n + 1) |-> Append(q, e)[i]]
<1> DEFINE T == {q[i] : i \in 1..n} \cup {e}
<1>1. q \in Seq({q[i] : i \in 1..n}) /\ Len(q) = n
  BY SegmentIsSeq
<1>2. q \in Seq(T) /\ e \in T
  BY <1>1
<1> QED  BY <1>1, <1>2

-----------------------------------------------------------------------------
(* Every reachable state has the shape of TypeOK. *)

LEMMA RecordDualShape ==
  ASSUME iter \in Nat, iters = [i \in 1..(iter + 1) |-> iters[i]],
         NEW e, RecordDual(e)
  PROVE  iters' = [i \in 1..(iter + 1) |-> iters'[i]]
<1>1. PICK v, w : \/ iters' = iters
                  \/ iters' = [iters EXCEPT ![Len(iters)].dEps = v,
                                           ![Len(iters)].dRes = w]
  BY Zenon DEF RecordDual
<1>2. iter + 1 \in Nat
  OBVIOUS
<1> QED  BY <1>1, <1>2, ExceptSegment

LEMMA ReduceLossShape ==
  ASSUME iter \in Nat, iters = [i \in 1..(iter + 1) |-> iters[i]], ReduceLoss
  PROVE  iters' = [i \in 1..(iter' + 1) |-> iters'[i]]
<1> DEFINE v == Loss(Total(Reported), Get(curZ))
           w == NonZeros(Get(curZ))
           q == [iters EXCEPT ![Len(iters)].loss = v, ![Len(iters)].card = w]
<1>1. iters' = Append(q, InnerTracker) /\ iter' = iter + 1 /\ iter + 1 \in Nat
  BY DEF ReduceLoss
<1> HIDE DEF v, w
<1>2. q = [i \in 1..(iter + 1) |-> q[i]]
  BY <1>1, ExceptSegment
<1> HIDE DEF q
<1> QED  BY <1>1, <1>2, AppendSegment

LEMMA SubmitShape ==
  ASSUME NEW j, Submit(j)
  PROVE  report' = [s \in Slice |-> report'[s]] /\ job' = j
BY DEF Submit

LEMMA TypeInit == Init => TypeOK
<1> SUFFICES ASSUME Init PROVE TypeOK
  OBVIOUS
<1>1. NIters \in Nat /\ MaxLosses \in Nat
  BY ADMMAssumption, SparkAssumption
<1>2. iters = [i \in 1..(iter + 1) |-> iters[i]]
  BY DEF Init, InnerTracker
<1> QED  BY <1>1, <1>2 DEF Init, TypeOK, Job, UpdateJobs

LEMMA TypeStep == TypeOK /\ [Next]_vars => TypeOK'
<1> SUFFICES ASSUME TypeOK, [Next]_vars PROVE TypeOK'
  OBVIOUS
<1> USE SparkAssumption DEF TypeOK, data, cache
<1>a. NIters \in Nat
  BY ADMMAssumption
<1>1. ASSUME NEW s \in Slice, NEW p \in Stage, NEW v, Store(s, p, v)
      PROVE  TypeOK'
  <2>1. part' = [part EXCEPT ![s] = [part[s] EXCEPT ![p] = Some(v)]]
    BY <1>1 DEF Store
  <2>2. part[s] = [q \in Stage |-> part[s][q]]
    OBVIOUS
  <2>3. ASSUME NEW t \in Slice PROVE part'[t] = [q \in Stage |-> part'[t][q]]
    BY <2>1, <2>2
  <2>4. part' = [t \in Slice |-> part'[t]]
    <3>1. part = [t \in Slice |-> [q \in Stage |-> part[t][q]]]
      OBVIOUS
    <3> QED  BY ONLY <2>1, <3>1
  <2>5. part' = [t \in Slice |-> [q \in Stage |-> part'[t][q]]]
    BY <2>3, <2>4
  <2> QED  BY <1>1, <2>5 DEF Store
<1>2. ASSUME NEW s \in Slice, MakeDataEnv(s) PROVE TypeOK'
  BY <1>1, <1>2, StageFact DEF MakeDataEnv
<1>3. ASSUME NEW s \in Slice, InitLearningEnv(s) PROVE TypeOK'
  BY <1>1, <1>3, StageFact DEF InitLearningEnv
<1>4. ASSUME NEW s \in Slice, NEW i \in Gen, XUpdate(s, i) PROVE TypeOK'
  BY <1>1, <1>4, StageFact DEF XUpdate
<1>5. ASSUME NEW s \in Slice, NEW i \in Gen, UUpdate(s, i) PROVE TypeOK'
  BY <1>1, <1>5, StageFact DEF UUpdate
<1>6. ASSUME NEW s \in Slice, RunTask(s) PROVE TypeOK'
  BY <1>6 DEF RunTask
<1>7. ASSUME NEW s \in Slice, LosePartitions(s) PROVE TypeOK'
  BY <1>7, <1>a DEF LosePartitions
<1>8. CASE ReduceZ
  BY <1>8, <1>a DEF ReduceZ, Submit, JobDone, Job, UpdateJobs
<1>9. CASE ReduceLoss
  <2>3. iters' = [i \in 1..(iter' + 1) |-> iters'[i]]
    BY <1>9, <1>a, ReduceLossShape
  <2>4. iter <= NIters /\ job = "loss" /\ job' = "pRes" /\ iter' = iter + 1
    BY <1>9 DEF ReduceLoss, Submit, JobDone, UpdateJobs
  <2>5. iter' \in 0..(NIters + 1) /\ iter' >= 1
    BY <2>4, <1>a
  <2> QED  BY <1>9, <1>a, <2>3, <2>4, <2>5
           DEF ReduceLoss, Submit, JobDone, Job, UpdateJobs, StopJobs
<1>10. CASE ReducePRes
  BY <1>10, <1>a DEF ReducePRes, Submit, JobDone, Job, UpdateJobs, StopJobs
<1>11. CASE ReduceXNorm
  BY <1>11, <1>a DEF ReduceXNorm, Submit, JobDone, Job, UpdateJobs, StopJobs
<1>12. CASE ReduceSize
  BY <1>12, <1>a DEF ReduceSize, Submit, JobDone, Job, UpdateJobs, StopJobs
<1>13. CASE ReduceUNorm
  <2>1. PICK e : RecordDual(e)
    BY <1>13 DEF ReduceUNorm
  <2>2. iters' = [i \in 1..(iter + 1) |-> iters'[i]]
    BY <2>1, <1>a, RecordDualShape
  <2>3. job' \in {"take", "z"} /\ (job' = "z" => iter <= NIters) /\ job = "uNorm"
    <3>1. PICK d : Submit(IF stopLearning(d) \/ iter > NIters
                          THEN "take" ELSE "z")
      BY <1>13 DEF ReduceUNorm
    <3>2. job' = "take" \/ (job' = "z" /\ ~(iter > NIters))
      BY <3>1, Zenon DEF Submit
    <3> QED  BY <1>13, <1>a, <3>2 DEF ReduceUNorm, JobDone
  <2>4. iter >= 1
    BY <2>3 DEF UpdateJobs
  <2> QED  BY <1>13, <2>2, <2>3, <2>4, <1>a
           DEF ReduceUNorm, Submit, Job, UpdateJobs, StopJobs
<1>14. CASE Take
  BY <1>14, <1>a DEF Take, Submit, JobDone, Job, UpdateJobs, StopJobs
<1>15. CASE UNCHANGED vars
  BY <1>15 DEF vars
<1> QED  BY <1>2, <1>3, <1>4, <1>5, <1>6, <1>7, <1>8, <1>9, <1>10, <1>11,
            <1>12, <1>13, <1>14, <1>15 DEF Next, Driver, Worker

(* In every behaviour, for any slices, samples, limits and losses, the     *)
(* driver's counter, its job and its list of records stay in step.         *)
THEOREM TypeCorrect == SafetySpec => []TypeOK
BY TypeInit, TypeStep, PTL DEF SafetySpec

-----------------------------------------------------------------------------
(* The lineage. *)

(* No computed partition is overwritten by another value. *)
Keep == \A s \in Slice, p \in Stage :
          part[s][p] # None => part'[s][p] = part[s][p]

LEMMA LineageInit == Init => LineageInv
<1> SUFFICES ASSUME Init PROVE LineageInv
  OBVIOUS
<1>1. Stashed = 0
  BY DEF Init, Stashed
<1>2. Lineage /\ CacheFilled
  BY StageFact DEF Init, Lineage, CacheFilled, DataOk, InitOk, XOk, UOk
<1>3. Closures
  BY <1>1 DEF Init, Closures, Gen
<1> QED  BY <1>2, <1>3 DEF LineageInv

-----------------------------------------------------------------------------
(* What the four computing actions store. *)

LEMMA StoreEffect ==
  ASSUME TypeOK, NEW s \in Slice, NEW p \in Stage, NEW v, Store(s, p, v)
  PROVE  /\ part'[s][p] = Some(v)
         /\ \A t \in Slice, q \in Stage :
              (t # s \/ q # p) => part'[t][q] = part[t][q]
         /\ mem'[s] = mem[s] \cup {p}
         /\ \A t \in Slice : t # s => mem'[t] = mem[t]
<1>1. /\ part' = [part EXCEPT ![s] = [part[s] EXCEPT ![p] = Some(v)]]
      /\ mem' = [mem EXCEPT ![s] = @ \cup {p}]
  BY DEF Store
<1>2. s \in DOMAIN part /\ DOMAIN part = Slice
  <2>1. part = [t \in Slice |-> [q \in Stage |-> part[t][q]]]
    BY DEF TypeOK
  <2> QED  BY ONLY <2>1, s \in Slice
<1>3. part[s] = [q \in Stage |-> part[s][q]]
  <2>1. part = [t \in Slice |-> [q \in Stage |-> part[t][q]]]
    BY DEF TypeOK
  <2> QED  BY ONLY <2>1, s \in Slice
<1>4. mem \in [Slice -> SUBSET Stage]
  BY DEF TypeOK
<1>5. part'[s] = [part[s] EXCEPT ![p] = Some(v)]
      /\ \A t \in Slice : t # s => part'[t] = part[t]
  BY ONLY <1>1, <1>2
<1>6. part'[s][p] = Some(v) /\ \A q \in Stage : q # p => part'[s][q] = part[s][q]
  BY ONLY <1>3, <1>5, p \in Stage
<1> QED  BY <1>1, <1>4, <1>5, <1>6

LEMMA DataStored ==
  ASSUME ~Redraws, TypeOK, LineageInv, NEW s \in Slice, MakeDataEnv(s)
  PROVE  /\ Store(s, DataStage, input[s])
         /\ part[s][DataStage] # None => part[s][DataStage] = Some(input[s])
BY DEF MakeDataEnv, SamplesOf, LineageInv, Lineage, DataOk

LEMMA InitStored ==
  ASSUME TypeOK, LineageInv, NEW s \in Slice, InitLearningEnv(s)
  PROVE  LET v == initLearningEnv(Held(s, DataStage)) IN
         /\ Store(s, UStage(0), v)
         /\ part[s][DataStage] # None
         /\ part[s][UStage(0)] # None => part[s][UStage(0)] = Some(v)
<1>1. UStage(0) # DataStage /\ UStage(0) - 1 = DataStage
  BY StageFact
<1>2. DataStage \in mem[s]
  BY <1>1 DEF InitLearningEnv, Computes
<1> QED  BY <1>2 DEF InitLearningEnv, LineageInv, Lineage, CacheFilled, InitOk

LEMMA XStored ==
  ASSUME TypeOK, LineageInv, NEW s \in Slice, NEW i \in Gen, XUpdate(s, i)
  PROVE  LET v == xUpdateEnv(Held(s, UStage(i - 1))) IN
         /\ Store(s, XStage(i), v)
         /\ part[s][UStage(i - 1)] # None
         /\ part[s][XStage(i)] # None => part[s][XStage(i)] = Some(v)
<1>1. XStage(i) # DataStage /\ XStage(i) - 1 = UStage(i - 1)
  BY StageFact
<1>2. UStage(i - 1) \in mem[s]
  BY <1>1 DEF XUpdate, Computes
<1> QED  BY <1>2 DEF XUpdate, LineageInv, Lineage, CacheFilled, XOk

LEMMA UStored ==
  ASSUME TypeOK, LineageInv, NEW s \in Slice, NEW i \in Gen, UUpdate(s, i)
  PROVE  LET v == uUpdateEnv(zUpdateEnv(Held(s, XStage(i)), capturedZ(i))) IN
         /\ Store(s, UStage(i), v)
         /\ part[s][XStage(i)] # None
         /\ i <= Stashed
         /\ part[s][UStage(i)] # None => part[s][UStage(i)] = Some(v)
<1>1. UStage(i) # DataStage /\ UStage(i) - 1 = XStage(i)
  BY StageFact
<1>2. XStage(i) \in mem[s] /\ UStage(i) <= Target
  BY <1>1 DEF UUpdate, Computes
<1>3. i <= Stashed
  <2>1. i \in Nat /\ iter \in Nat
    BY ADMMAssumption DEF Gen, TypeOK
  <2>2. 2 * i + 1 <= (IF job \in UpdateJobs THEN 2 * (iter + 1) ELSE 2 * iter + 1)
    BY <1>2 DEF Target, Generation, UStage, XStage
  <2>3. i <= iter
    BY <2>1, <2>2
  <2> QED  BY <2>1, <2>3 DEF Stashed
<1> QED  BY <1>2, <1>3 DEF UUpdate, LineageInv, Lineage, CacheFilled, UOk

-----------------------------------------------------------------------------
(* The conjuncts of Lineage survive a step that keeps what was computed    *)
(* and the z's of the past.                                                *)

OlderZs == \A i \in Gen : i <= Stashed => i <= Stashed' /\ closureZ'[i] = closureZ[i]

LEMMA OkKept ==
  ASSUME Keep, OlderZs, input' = input, NEW s \in Slice
  PROVE  /\ part'[s][DataStage] = part[s][DataStage] /\ DataOk(s) => DataOk(s)'
         /\ part'[s][UStage(0)] = part[s][UStage(0)] /\ InitOk(s) => InitOk(s)'
         /\ \A i \in Gen :
              part'[s][XStage(i)] = part[s][XStage(i)] /\ XOk(s, i) => XOk(s, i)'
         /\ \A i \in Gen :
              part'[s][UStage(i)] = part[s][UStage(i)] /\ UOk(s, i) => UOk(s, i)'
<1>1. part'[s][DataStage] = part[s][DataStage] /\ DataOk(s) => DataOk(s)'
  BY DEF DataOk
<1>2. part'[s][UStage(0)] = part[s][UStage(0)] /\ InitOk(s) => InitOk(s)'
  BY StageFact DEF InitOk, Keep, Held
<1>3. ASSUME NEW i \in Gen, part'[s][XStage(i)] = part[s][XStage(i)], XOk(s, i)
      PROVE  XOk(s, i)'
  BY <1>3, StageFact DEF XOk, Keep, Held
<1>4. ASSUME NEW i \in Gen, part'[s][UStage(i)] = part[s][UStage(i)], UOk(s, i)
      PROVE  UOk(s, i)'
  BY <1>4, StageFact DEF UOk, Keep, Held, OlderZs, capturedZ
<1> QED  BY <1>1, <1>2, <1>3, <1>4

LEMMA DriverKeepsLineage ==
  ASSUME Lineage, UNCHANGED <<input, part>>, OlderZs
  PROVE  Lineage'
<1>1. Keep
  BY DEF Keep
<1> QED  BY <1>1, OkKept, StageFact DEF Lineage

(* A step that stores at p the value its lineage prescribes. *)
LEMMA StoreKeeps ==
  ASSUME TypeOK, LineageInv, NEW s \in Slice, NEW p \in Stage, NEW v,
         Store(s, p, v), part[s][p] # None => part[s][p] = Some(v)
  PROVE  /\ Keep /\ OlderZs /\ Closures' /\ CacheFilled'
         /\ \A t \in Slice :
              /\ (t # s \/ p # DataStage) => DataOk(t)'
              /\ (t # s \/ p # UStage(0)) => InitOk(t)'
              /\ \A i \in Gen : (t # s \/ p # XStage(i)) => XOk(t, i)'
              /\ \A i \in Gen : (t # s \/ p # UStage(i)) => UOk(t, i)'
<1>1. Keep
  BY StoreEffect DEF Keep
<1>2. UNCHANGED <<input, job, iter, closureZ, curZ, prevZ>>
  BY DEF Store, cache
<1>3. OlderZs /\ Closures'
  <2>1. Stashed' = Stashed
    BY <1>2 DEF Stashed
  <2> QED  BY <1>2, <2>1 DEF OlderZs, LineageInv, Closures, capturedZ
<1>4. CacheFilled'
  <2>1. mem \in [Slice -> SUBSET Stage]
    BY DEF TypeOK
  <2> QED  BY <1>1, <2>1, StoreEffect, OptionFact DEF LineageInv, CacheFilled, Keep
<1>5. ASSUME NEW t \in Slice
      PROVE  /\ (t # s \/ p # DataStage) => DataOk(t)'
             /\ (t # s \/ p # UStage(0)) => InitOk(t)'
             /\ \A i \in Gen : (t # s \/ p # XStage(i)) => XOk(t, i)'
             /\ \A i \in Gen : (t # s \/ p # UStage(i)) => UOk(t, i)'
  BY <1>1, <1>2, <1>3, OkKept, StoreEffect, StageFact DEF LineageInv, Lineage
<1> QED  BY <1>1, <1>3, <1>4, <1>5


-----------------------------------------------------------------------------
(* One step at a time. *)

LEMMA WorkerKeeps ==
  ASSUME ~Redraws, TypeOK, LineageInv, NEW s \in Slice, Worker(s)
  PROVE  LineageInv' /\ Keep
<1>1. CASE MakeDataEnv(s)
  <2>1. DataOk(s)'
    BY <1>1, DataStored, StoreEffect, StageFact DEF DataOk, Store
  <2> QED  BY <1>1, <2>1, DataStored, StoreKeeps, StageFact
           DEF LineageInv, Lineage
<1>2. CASE InitLearningEnv(s)
  <2> DEFINE v == initLearningEnv(Held(s, DataStage))
  <2>1. Store(s, UStage(0), v) /\ part[s][DataStage] # None
    BY <1>2, InitStored
  <2>2. InitOk(s)'
    BY <2>1, StoreEffect, StageFact DEF InitOk, Held
  <2> QED  BY <1>2, <2>2, InitStored, StoreKeeps, StageFact
           DEF LineageInv, Lineage
<1>3. ASSUME NEW i \in Gen, XUpdate(s, i) PROVE LineageInv' /\ Keep
  <2> DEFINE v == xUpdateEnv(Held(s, UStage(i - 1)))
  <2>1. Store(s, XStage(i), v) /\ part[s][UStage(i - 1)] # None
    BY <1>3, XStored
  <2>2. XOk(s, i)'
    BY <2>1, StoreEffect, StageFact DEF XOk, Held
  <2> QED  BY <1>3, <2>2, XStored, StoreKeeps, StageFact
           DEF LineageInv, Lineage
<1>4. ASSUME NEW i \in Gen, UUpdate(s, i) PROVE LineageInv' /\ Keep
  <2> DEFINE v == uUpdateEnv(zUpdateEnv(Held(s, XStage(i)), capturedZ(i)))
  <2>1. Store(s, UStage(i), v) /\ part[s][XStage(i)] # None /\ i <= Stashed
    BY <1>4, UStored
  <2>2. UNCHANGED closureZ /\ Stashed' = Stashed
    BY <2>1 DEF Store, cache, Stashed
  <2>3. UOk(s, i)'
    BY <2>1, <2>2, StoreEffect, StageFact DEF UOk, Held, capturedZ
  <2> QED  BY <1>4, <2>3, UStored, StoreKeeps, StageFact
           DEF LineageInv, Lineage
<1>5. CASE RunTask(s)
  <2>1. UNCHANGED <<input, part, mem, job, iter, closureZ, curZ, prevZ>>
    BY <1>5 DEF RunTask, data, cache
  <2>2. Stashed' = Stashed
    BY <2>1 DEF Stashed
  <2>3. Lineage' /\ CacheFilled' /\ Closures' /\ Keep
    BY <2>1, <2>2, DriverKeepsLineage
    DEF LineageInv, OlderZs, CacheFilled, Closures, capturedZ, Keep
  <2> QED  BY <2>3 DEF LineageInv
<1> QED  BY <1>1, <1>2, <1>3, <1>4, <1>5 DEF Worker

LEMMA LossKeeps ==
  ASSUME TypeOK, LineageInv, NEW s \in Slice, LosePartitions(s)
  PROVE  LineageInv' /\ Keep
<1>1. UNCHANGED <<input, part, job, iter, closureZ, curZ, prevZ>>
  BY DEF LosePartitions, cache
<1>2. Stashed' = Stashed
  BY <1>1 DEF Stashed
<1>3. Lineage' /\ Closures' /\ Keep
  BY <1>1, <1>2, DriverKeepsLineage
  DEF LineageInv, OlderZs, Closures, capturedZ, Keep
<1>4. \A t \in Slice : mem'[t] \subseteq mem[t]
  BY DEF LosePartitions, TypeOK
<1>5. CacheFilled'
  BY <1>1, <1>4 DEF LineageInv, CacheFilled
<1> QED  BY <1>3, <1>5 DEF LineageInv

(* The driver steps that leave Cache alone. *)
LEMMA CacheUntouched ==
  ASSUME LineageInv, UNCHANGED <<data, cache>>, Stashed' = Stashed
  PROVE  LineageInv' /\ Keep
<1>1. Lineage' /\ CacheFilled' /\ Closures' /\ Keep
  BY DriverKeepsLineage
  DEF LineageInv, OlderZs, CacheFilled, Closures, capturedZ, Keep, data, cache
<1> QED  BY <1>1 DEF LineageInv

LEMMA DriverKeeps ==
  ASSUME TypeOK, LineageInv, Driver
  PROVE  LineageInv' /\ Keep
<1>a. iter \in Nat
  BY ADMMAssumption DEF TypeOK
<1>1. CASE ReduceZ
  <2>1. /\ job = "z" /\ job' = "loss" /\ iter' = iter /\ iter <= NIters
        /\ UNCHANGED <<input, part, mem>>
    BY <1>1 DEF ReduceZ, JobDone, Submit, TypeOK, UpdateJobs, data
  <2>2. Stashed = iter /\ Stashed' = iter + 1 /\ Generation = iter + 1
    BY <2>1 DEF Stashed, Generation, UpdateJobs
  <2>3. PICK z : /\ prevZ' = curZ /\ curZ' = Some(z)
                 /\ closureZ' = [closureZ EXCEPT ![iter + 1] = Some(z)]
    BY <1>1, <2>2 DEF ReduceZ, stashZ
  <2>4. iter + 1 \in Gen
    BY <1>a, <2>1, ADMMAssumption DEF Gen
  <2>5. \A i \in Gen : closureZ'[i] = IF i = iter + 1 THEN Some(z) ELSE closureZ[i]
    BY <2>3, <2>4 DEF TypeOK
  <2>6. OlderZs
    BY <1>a, <2>2, <2>5 DEF OlderZs, Gen
  <2>7. Closures'
    <3>1. \A i \in Gen : closureZ[i] = IF i <= iter THEN Some(Get(closureZ[i]))
                                       ELSE None
      BY <2>2 DEF LineageInv, Closures, capturedZ
    <3>2. ASSUME NEW i \in Gen
          PROVE  closureZ'[i] = IF i <= iter + 1 THEN Some(Get(closureZ'[i]))
                                ELSE None
      BY <1>a, <2>5, <3>1, OptionFact DEF Gen
    <3>3. curZ' = closureZ'[iter + 1]
      BY <2>3, <2>4, <2>5
    <3>4. prevZ' = IF iter = 0 THEN None ELSE closureZ[iter]
      BY <2>2, <2>3 DEF LineageInv, Closures
    <3>5. iter # 0 => closureZ'[iter] = closureZ[iter]
      BY <1>a, <2>1, <2>5, ADMMAssumption DEF Gen
    <3> QED  BY <1>a, <2>2, <3>2, <3>3, <3>4, <3>5 DEF Closures, capturedZ
  <2>8. Lineage' /\ CacheFilled' /\ Keep
    BY <2>1, <2>6, DriverKeepsLineage DEF LineageInv, CacheFilled, Keep
  <2> QED  BY <2>7, <2>8 DEF LineageInv
<1>2. CASE ReduceLoss
  BY <1>2, CacheUntouched DEF ReduceLoss, Submit, JobDone, Stashed
<1>3. CASE ReducePRes
  BY <1>3, CacheUntouched DEF ReducePRes, Submit, JobDone, Stashed
<1>4. CASE ReduceXNorm
  BY <1>4, CacheUntouched DEF ReduceXNorm, Submit, JobDone, Stashed
<1>5. CASE ReduceSize
  BY <1>5, CacheUntouched DEF ReduceSize, Submit, JobDone, Stashed
<1>6. CASE ReduceUNorm
  <2>1. UNCHANGED <<data, cache, iter>> /\ job = "uNorm" /\ job' \in {"take", "z"}
    BY <1>6 DEF ReduceUNorm, Submit, JobDone
  <2> QED  BY <2>1, CacheUntouched DEF Stashed
<1>7. CASE Take
  BY <1>7, CacheUntouched DEF Take, Submit, JobDone, Stashed
<1> QED  BY <1>1, <1>2, <1>3, <1>4, <1>5, <1>6, <1>7 DEF Driver

LEMMA LineageStep ==
  ASSUME ~Redraws, TypeOK, LineageInv, [Next]_vars
  PROVE  LineageInv' /\ Keep
<1>1. CASE UNCHANGED vars
  BY <1>1, CacheUntouched DEF vars, data, cache, Stashed
<1> QED  BY <1>1, WorkerKeeps, LossKeeps, DriverKeeps DEF Next

-----------------------------------------------------------------------------
(* When evaluating the RDD of samples always yields the same samples,      *)
(* every partition ever computed is what its lineage prescribes, for any   *)
(* number of slices, updates and losses, in any order of the tasks.        *)
THEOREM LineageCorrect ==
  ASSUME ~Redraws PROVE SafetySpec => []LineageInv
<1>1. TypeOK /\ LineageInv /\ [Next]_vars => LineageInv'
  BY LineageStep
<1> QED  BY <1>1, LineageInit, TypeCorrect, PTL DEF SafetySpec

(* Then no partition is ever rebuilt with another value than the one that  *)
(* was lost.                                                               *)
THEOREM RebuildIsSame ==
  ASSUME ~Redraws PROVE SafetySpec => RebuildSame
<1> DEFINE A == \A s \in Slice, p \in Stage :
                  part[s][p] # None => part'[s][p] = part[s][p]
<1>1. TypeOK /\ LineageInv /\ [Next]_vars => [A]_vars
  BY LineageStep DEF Keep
<1>2. SafetySpec => [][A]_vars
  BY <1>1, LineageCorrect, TypeCorrect, PTL DEF SafetySpec
<1> QED  BY <1>2 DEF RebuildSame

(* And the primal and the dual residual of every stop test are about the   *)
(* same z and the z before it.                                             *)
THEOREM ResidualsAlwaysMatch ==
  ASSUME ~Redraws PROVE SafetySpec => []ResidualsMatch
<1>1. TypeOK /\ LineageInv => ResidualsMatch
  <2> SUFFICES ASSUME TypeOK, LineageInv, job \in StopJobs, NEW s \in Slice
               PROVE
      /\ part[s][UStage(iter)] # None => curZ = Some(Held(s, UStage(iter)).z)
      /\ (part[s][UStage(iter - 1)] # None /\ iter > 1) =>
           prevZ = Some(Held(s, UStage(iter - 1)).z)
      /\ iter = 1 => prevZ = None
    BY DEF ResidualsMatch
  <2>1. Stashed = iter /\ iter \in Gen
    BY ADMMAssumption DEF Stashed, StopJobs, UpdateJobs, TypeOK, Gen
  <2>2. ASSUME NEW i \in Gen, part[s][UStage(i)] # None
        PROVE  closureZ[i] = Some(Held(s, UStage(i)).z)
    <3>1. Held(s, UStage(i)).z = capturedZ(i)
      <4>1. Held(s, UStage(i))
              = uUpdateEnv(zUpdateEnv(Held(s, XStage(i)), capturedZ(i)))
        BY <2>2, OptionFact DEF LineageInv, Lineage, UOk, Held
      <4>2. \A e, v : uUpdateEnv(zUpdateEnv(e, v)).z = v
        BY DEF uUpdateEnv, zUpdateEnv, LearningEnv
      <4> QED  BY <4>1, <4>2
    <3>2. closureZ[i] = Some(capturedZ(i))
      BY <2>2 DEF LineageInv, Lineage, UOk, Closures
    <3> QED  BY <3>1, <3>2
  <2>3. curZ = closureZ[iter] /\ prevZ = IF iter = 1 THEN None ELSE closureZ[iter - 1]
    BY <2>1 DEF LineageInv, Closures, Gen
  <2>4. iter > 1 => iter - 1 \in Gen
    BY <2>1, ADMMAssumption DEF Gen
  <2> QED  BY <2>1, <2>2, <2>3, <2>4 DEF Gen
<1> QED  BY <1>1, LineageCorrect, TypeCorrect, PTL

-----------------------------------------------------------------------------
(* The refinement. *)

(* The arithmetic of the instance of ConsensusADMM is the one of ADMMMath:  *)
(* the constants are replaced by themselves.                               *)
LEMMA SumSame == \A f : ADMM!SumFunction(f) = SumFunction(f)
BY Zenon DEF SumFunction, SumFunctionOnSet, FoldFunctionOnSet, MapThenFoldSet,
     ADMM!SumFunction, ADMM!SumFunctionOnSet, ADMM!FoldFunctionOnSet,
     ADMM!MapThenFoldSet

LEMMA CardinalitySame == \A S : ADMM!Cardinality(S) = Cardinality(S)
BY Zenon DEF Cardinality, ADMM!Cardinality

LEMMA MathSame ==
  /\ ADMM!Zero = Zero
  /\ \A a, b : ADMM!VAdd(a, b) = VAdd(a, b) /\ ADMM!VSub(a, b) = VSub(a, b)
  /\ \A d, x, u, z : ADMM!descent(d, x, u, z) = descent(d, x, u, z)
  /\ \A f : ADMM!Total(f) = Total(f)
  /\ \A f : ADMM!ZUpdate(ADMM!VTotal(f)) = ZUpdate(VTotal(f))
  /\ \A n : ADMM!AvNbSamples(n) = AvNbSamples(n)
  /\ \A a, b, c : ADMM!EpsPrimal(a, b, c) = EpsPrimal(a, b, c)
  /\ \A a, b : ADMM!EpsDual(a, b) = EpsDual(a, b)
  /\ \A a, b : ADMM!DualResidual(a, b) = DualResidual(a, b)
<1>1. ADMM!Zero = Zero
  BY DEF ADMM!Zero, Zero
<1>2. \A a, b : ADMM!VAdd(a, b) = VAdd(a, b) /\ ADMM!VSub(a, b) = VSub(a, b)
  BY DEF ADMM!VAdd, VAdd, ADMM!VSub, VSub
<1>3. \A d, x, u, z : ADMM!descent(d, x, u, z) = descent(d, x, u, z)
  BY DEF ADMM!descent, descent
<1>4. \A f : ADMM!Total(f) = Total(f)
  BY SumSame DEF ADMM!Total, Total
<1>5. ADMM!NSlices = NSlices
  BY CardinalitySame DEF ADMM!NSlices, NSlices
<1>6. \A f : ADMM!VTotal(f) = VTotal(f)
  BY SumSame DEF ADMM!VTotal, VTotal
<1>7. \A k, p : ADMM!shrinkage(k, p) = shrinkage(k, p)
  BY DEF ADMM!shrinkage, shrinkage
<1>8. \A f : ADMM!ZUpdate(f) = ZUpdate(f)
  BY <1>5, <1>7 DEF ADMM!ZUpdate, ZUpdate
<1>9. \A n : ADMM!AvNbSamples(n) = AvNbSamples(n)
  BY <1>5 DEF ADMM!AvNbSamples, AvNbSamples
<1>10. \A a, b, c : ADMM!EpsPrimal(a, b, c) = EpsPrimal(a, b, c)
  BY DEF ADMM!EpsPrimal, EpsPrimal
<1>11. \A a, b : ADMM!EpsDual(a, b) = EpsDual(a, b)
  BY DEF ADMM!EpsDual, EpsDual
<1>12. \A a, b : ADMM!DualResidual(a, b) = DualResidual(a, b)
  BY <1>2 DEF ADMM!DualResidual, DualResidual
<1> QED  BY <1>1, <1>2, <1>3, <1>4, <1>6, <1>8, <1>9, <1>10, <1>11, <1>12

(* What LineageInv says of the environments of one update. *)
LEMMA EnvFact ==
  ASSUME LineageInv, NEW s \in Slice, NEW i \in Gen
  PROVE  /\ part[s][XStage(i)] # None =>
              LET e == Held(s, XStage(i))
                  p == Held(s, UStage(i - 1))
              IN  /\ part[s][UStage(i - 1)] # None
                  /\ e.data = p.data
                  /\ e.x = descent(p.data, p.x, p.u, p.z)
                  /\ e.u = p.u
         /\ part[s][UStage(i)] # None =>
              LET e == Held(s, UStage(i))
                  p == Held(s, XStage(i))
              IN  /\ part[s][XStage(i)] # None
                  /\ i <= Stashed
                  /\ e.data = p.data
                  /\ e.x = p.x
                  /\ e.z = capturedZ(i)
                  /\ e.u = VSub(VAdd(p.u, p.x), capturedZ(i))
<1>1. ASSUME part[s][XStage(i)] # None
      PROVE  /\ part[s][UStage(i - 1)] # None
             /\ Held(s, XStage(i)) = xUpdateEnv(Held(s, UStage(i - 1)))
  BY <1>1, OptionFact DEF LineageInv, Lineage, XOk, Held
<1>2. ASSUME part[s][UStage(i)] # None
      PROVE  /\ part[s][XStage(i)] # None /\ i <= Stashed
             /\ Held(s, UStage(i))
                  = uUpdateEnv(zUpdateEnv(Held(s, XStage(i)), capturedZ(i)))
  BY <1>2, OptionFact DEF LineageInv, Lineage, UOk, Held
<1>3. \A e : /\ xUpdateEnv(e).data = e.data
             /\ xUpdateEnv(e).x = descent(e.data, e.x, e.u, e.z)
             /\ xUpdateEnv(e).u = e.u
  BY DEF xUpdateEnv, LearningEnv
<1>4. \A e, v : LET f == uUpdateEnv(zUpdateEnv(e, v)) IN
        /\ f.data = e.data /\ f.x = e.x /\ f.z = v
        /\ f.u = VSub(VAdd(e.u, e.x), v)
  BY DEF uUpdateEnv, zUpdateEnv, LearningEnv
<1> QED  BY <1>1, <1>2, <1>3, <1>4

LEMMA InitialEnvFact ==
  ASSUME LineageInv, NEW s \in Slice, part[s][UStage(0)] # None
  PROVE  LET e == Held(s, UStage(0)) IN
         e.data = input[s] /\ e.x = Zero /\ e.u = Zero /\ e.z = Zero
<1>1. Held(s, UStage(0)) = initLearningEnv(Held(s, DataStage))
      /\ Held(s, DataStage) = input[s]
  BY OptionFact DEF LineageInv, Lineage, InitOk, DataOk, Held
<1>2. \A d : LET e == initLearningEnv(d) IN
        e.data = d /\ e.x = Zero /\ e.u = Zero /\ e.z = Zero
  BY DEF initLearningEnv, LearningEnv
<1> QED  BY <1>1, <1>2

LEMMA CounterFact ==
  ASSUME TypeOK
  PROVE  /\ iter \in Nat /\ Stashed \in Nat /\ Updates \in Nat /\ NIters \in Nat
         /\ Updates <= Stashed /\ iter <= NIters + 1
         /\ job \in UpdateJobs => Updates = iter /\ iter <= NIters
         /\ job = "pRes" => Updates = iter - 1 /\ iter \in Gen /\ Stashed = iter
         /\ job \notin UpdateJobs \cup {"pRes"} =>
              Updates = iter /\ iter \in Gen /\ Stashed = iter
BY ADMMAssumption DEF TypeOK, Stashed, Updates, UpdateJobs, Gen

LEMMA RefinementInit == Init => RefinementInv
<1> SUFFICES ASSUME Init PROVE RefinementInv
  OBVIOUS
<1>1. Updates = 0 /\ Stashed = 0 /\ job = "z"
  BY DEF Init, Updates, Stashed
<1>2. DataOf /\ ReportOk
  BY StageFact DEF Init, DataOf, ReportOk
<1>3. ZOk /\ LocalsOk /\ DecisionOk
  BY <1>1 DEF Init, ZOk, LocalsOk, DecisionOk, Gen
<1> QED  BY <1>1, <1>2, <1>3 DEF RefinementInv, Gen

-----------------------------------------------------------------------------
(* What every step leaves alone. *)

LEMMA PastKept ==
  ASSUME ~Redraws, TypeOK, LineageInv, [Next]_vars
  PROVE  TypeOK' /\ LineageInv' /\ Keep /\ OlderZs /\ input' = input
<1>1. TypeOK' /\ LineageInv' /\ Keep
  BY TypeStep, LineageStep
<1>2. CASE ReduceZ
  <2>1. job = "z" /\ job' = "loss" /\ iter' = iter /\ input' = input
    BY <1>2 DEF ReduceZ, JobDone, Submit, data
  <2>2. Stashed = iter /\ Stashed' = iter + 1 /\ Generation = iter + 1
        /\ iter \in Nat
    BY <2>1, CounterFact DEF Stashed, Generation, UpdateJobs
  <2>3. PICK z : closureZ' = [closureZ EXCEPT ![iter + 1] = Some(z)]
    BY <1>2, <2>2 DEF ReduceZ
  <2>4. \A i \in Gen : i # iter + 1 => closureZ'[i] = closureZ[i]
    BY <2>3 DEF TypeOK
  <2> QED  BY <1>1, <2>1, <2>2, <2>4 DEF OlderZs, Gen
<1>3. CASE ~ReduceZ
  <2>1. UNCHANGED <<input, closureZ>> /\ Stashed <= Stashed'
    <3>1. CASE UNCHANGED vars
      BY <3>1, CounterFact DEF vars, Stashed
    <3>2. ASSUME NEW s \in Slice, Worker(s) \/ LosePartitions(s)
          PROVE  UNCHANGED <<input, closureZ>> /\ Stashed <= Stashed'
      <4>1. UNCHANGED <<input, closureZ, job, iter>>
        BY <3>2 DEF Worker, MakeDataEnv, InitLearningEnv, XUpdate, UUpdate,
                    RunTask, LosePartitions, Store, cache, data
      <4> QED  BY <4>1, CounterFact DEF Stashed
    <3>3. CASE ReduceLoss
      BY <3>3, CounterFact DEF ReduceLoss, JobDone, Submit, Stashed, data, cache
    <3>4. CASE ReducePRes \/ ReduceXNorm \/ ReduceSize
      BY <3>4, CounterFact DEF ReducePRes, ReduceXNorm, ReduceSize, JobDone,
                               Submit, Stashed, data, cache
    <3>5. CASE ReduceUNorm
      <4>1. UNCHANGED <<input, closureZ, iter>> /\ job = "uNorm"
            /\ job' \in {"take", "z"}
        BY <3>5 DEF ReduceUNorm, JobDone, Submit, data, cache
      <4> QED  BY <4>1, CounterFact DEF Stashed
    <3>6. CASE Take
      BY <3>6, CounterFact DEF Take, JobDone, Submit, Stashed, data, cache
    <3> QED  BY <1>3, <3>1, <3>2, <3>3, <3>4, <3>5, <3>6 DEF Next, Driver
  <2>2. Stashed \in Nat /\ Stashed' \in Nat
    BY <1>1, CounterFact, <2>1 DEF Stashed, TypeOK
  <2> QED  BY <1>1, <2>1, <2>2 DEF OlderZs, Gen
<1> QED  BY <1>2, <1>3

(* A step that makes no update of the algorithm leaves its state alone. *)
LEMMA Stutters ==
  ASSUME TypeOK, RefinementInv, Keep, OlderZs, input' = input,
         Updates' = Updates
  PROVE  /\ UNCHANGED <<input, Updates, [s \in Slice |-> xAt(s, Updates)],
                        [s \in Slice |-> uAt(s, Updates)],
                        zAt(Updates), zAt(Updates - 1)>>
         /\ result' = result => UNCHANGED ADMM!vars
         /\ StopNow' <=> StopNow
<1> DEFINE X == [s \in Slice |-> xAt(s, Updates)]
           U == [s \in Slice |-> uAt(s, Updates)]
           Z == zAt(Updates)
           Y == zAt(Updates - 1)
<1>1. Updates \in Nat /\ Stashed \in Nat /\ Updates <= Stashed
  BY CounterFact
<1>2. ASSUME NEW s \in Slice
      PROVE  xAt(s, Updates)' = xAt(s, Updates) /\ uAt(s, Updates)' = uAt(s, Updates)
  <2>1. CASE Updates \in Gen
    <3>1. part[s][UStage(Updates)] # None /\ UStage(Updates) \in Stage
      BY <2>1, StageFact, <1>1 DEF RefinementInv, Computed, Gen
    <3>2. Held(s, UStage(Updates))' = Held(s, UStage(Updates))
      BY <3>1 DEF Keep, Held
    <3> QED  BY <3>2 DEF xAt, uAt
  <2>2. CASE Updates \notin Gen
    BY <2>2 DEF xAt, uAt
  <2> QED  BY <2>1, <2>2
<1>3. X' = X /\ U' = U
  BY <1>2
<1>4. Z' = Z /\ Y' = Y
  <2>1. \A i \in Gen : i <= Stashed => closureZ'[i] = closureZ[i]
    BY DEF OlderZs
  <2>2. /\ Updates \in Gen => closureZ'[Updates] = closureZ[Updates]
        /\ Updates - 1 \in Gen => closureZ'[Updates - 1] = closureZ[Updates - 1]
    BY <1>1, <2>1 DEF Gen
  <2> QED  BY <2>2 DEF zAt
<1>5. result' = result => UNCHANGED ADMM!vars
  BY <1>3, <1>4 DEF ADMM!vars
<1>6. ADMM!PrimalResidual' = ADMM!PrimalResidual
  BY <1>3, <1>4 DEF ADMM!PrimalResidual
<1>7. ADMM!Converged' <=> ADMM!Converged
  BY <1>3, <1>4, <1>6 DEF ADMM!Converged
<1>8. ADMM!Exhausted' <=> ADMM!Exhausted
  BY DEF ADMM!Exhausted
<1> QED  BY <1>3, <1>4, <1>5, <1>7, <1>8 DEF StopNow


LEMMA HeldKept ==
  ASSUME Keep, NEW p \in Stage
  PROVE  /\ Computed(p) => Computed(p)'
         /\ \A s \in Slice : part[s][p] # None => Held(s, p)' = Held(s, p)
BY DEF Keep, Computed, Held

LEMMA ZsKept ==
  ASSUME TypeOK, RefinementInv, Keep, OlderZs
  PROVE  \A i \in Gen : i <= Stashed =>
           /\ Computed(XStage(i))'
           /\ capturedZ(i)' = ZUpdate(VTotal([s \in Slice |->
                VAdd(Held(s, XStage(i)).x, Held(s, XStage(i)).u)]))'
<1> SUFFICES ASSUME NEW i \in Gen, i <= Stashed
             PROVE  /\ Computed(XStage(i))'
                    /\ capturedZ(i)' = ZUpdate(VTotal([s \in Slice |->
                         VAdd(Held(s, XStage(i)).x, Held(s, XStage(i)).u)]))'
  OBVIOUS
<1> DEFINE F == [s \in Slice |-> VAdd(Held(s, XStage(i)).x, Held(s, XStage(i)).u)]
<1>1. Computed(XStage(i)) /\ capturedZ(i) = ZUpdate(VTotal(F))
  BY DEF RefinementInv, ZOk
<1>2. Computed(XStage(i))' /\ \A s \in Slice : Held(s, XStage(i))' = Held(s, XStage(i))
  BY <1>1, HeldKept, StageFact DEF Computed
<1>3. F' = F
  BY <1>2
<1>4. capturedZ(i)' = capturedZ(i)
  BY DEF OlderZs, capturedZ
<1> HIDE DEF F
<1>5. capturedZ(i)' = ZUpdate(VTotal(F))'
  BY <1>1, <1>3, <1>4
<1> QED  BY <1>2, <1>5 DEF F

(* A step of a worker, or a loss: the driver waits. *)
LEMMA QuietStep ==
  ASSUME TypeOK, LineageInv, RefinementInv, Keep, OlderZs,
         UNCHANGED <<input, job, iter, closureZ, locals, result>>
  PROVE  /\ \A i \in Gen : i <= Updates' => Computed(UStage(i))'
         /\ ZOk' /\ LocalsOk' /\ DecisionOk'
         /\ UNCHANGED ADMM!vars
<1>1. Updates' = Updates /\ Stashed' = Stashed
  BY DEF Updates, Stashed
<1>2. \A i \in Gen : i <= Updates' => Computed(UStage(i))'
  BY <1>1, HeldKept, StageFact DEF RefinementInv
<1>3. ZOk'
  BY <1>1, ZsKept DEF ZOk
<1>4. LocalsOk'
  <2> SUFFICES ASSUME job \in {"xNorm", "size", "uNorm"} PROVE LocalsOk'
    BY DEF LocalsOk
  <2>1. Computed(UStage(iter)) /\ UStage(iter) \in Stage /\ iter \in Gen
    BY CounterFact, StageFact DEF RefinementInv, UpdateJobs
  <2>2. \A s \in Slice : Held(s, UStage(iter))' = Held(s, UStage(iter))
    BY <2>1, HeldKept DEF Computed
  <2> DEFINE P == [s \in Slice |-> Norm(VSub(Held(s, UStage(iter)).x,
                                             Held(s, UStage(iter)).z))]
             X == [s \in Slice |-> Norm(Held(s, UStage(iter)).x)]
  <2>3. P' = P /\ X' = X
    BY <2>2
  <2>4. /\ job \in {"xNorm", "size", "uNorm"} => locals.pRes = Total(P)
        /\ job \in {"size", "uNorm"} => locals.xNorm = Total(X)
        /\ job = "uNorm" => locals.avNb = ADMM!AvSize
    BY DEF RefinementInv, LocalsOk
  <2> HIDE DEF P, X
  <2>5. /\ job' \in {"xNorm", "size", "uNorm"} => locals'.pRes = Total(P')
        /\ job' \in {"size", "uNorm"} => locals'.xNorm = Total(X')
        /\ job' = "uNorm" => locals'.avNb = ADMM!AvSize
    BY <2>3, <2>4
  <2> QED  BY <2>5 DEF LocalsOk, P, X
<1>5. UNCHANGED ADMM!vars /\ (StopNow' <=> StopNow)
  BY <1>1, Stutters
<1>6. DecisionOk'
  BY <1>1, <1>5 DEF RefinementInv, DecisionOk
<1> QED  BY <1>2, <1>3, <1>4, <1>5, <1>6

LEMMA ReportsKept ==
  ASSUME TypeOK, RefinementInv, Keep, UNCHANGED <<job, iter, closureZ, report>>
  PROVE  ReportOk'
<1>1. Target' = Target
  BY DEF Target, Generation
<1>2. Target \in Stage
  BY CounterFact, ADMMAssumption, StageFact DEF Target, Generation, UpdateJobs, Gen
<1> SUFFICES ASSUME NEW s \in Slice, report[s] # None
             PROVE  /\ part'[s][Target] # None
                    /\ report[s] = Some(Contribution(Held(s, Target))')
  BY <1>1 DEF ReportOk
<1>3. part[s][Target] # None /\ report[s] = Some(Contribution(Held(s, Target)))
  BY DEF RefinementInv, ReportOk
<1>4. part'[s][Target] # None /\ Held(s, Target)' = Held(s, Target)
  BY <1>1, <1>2, <1>3, HeldKept DEF Keep
<1>5. Contribution(Held(s, Target))' = Contribution(Held(s, Target))
  BY <1>1, <1>4 DEF Contribution, Generation, capturedZ
<1> QED  BY <1>3, <1>4, <1>5

(* The data of an environment are those of the environment it comes from. *)
LEMMA StoreData ==
  ASSUME TypeOK, RefinementInv, Keep, NEW s \in Slice, NEW p \in Stage, NEW v,
         Store(s, p, v),
         (\E i \in Gen : p = XStage(i) \/ p = UStage(i)) => v.data = input[s]
  PROVE  DataOf'
<1>1. input' = input
  BY DEF Store
<1>2. Held(s, p)' = v
  BY StoreEffect, OptionFact DEF Held
<1>3. ASSUME NEW t \in Slice, NEW q \in Stage, t # s \/ q # p
      PROVE  part'[t][q] = part[t][q] /\ Held(t, q)' = Held(t, q)
  BY <1>3, StoreEffect DEF Held
<1> SUFFICES ASSUME NEW t \in Slice, NEW i \in Gen
    PROVE  /\ part'[t][XStage(i)] # None => Held(t, XStage(i))'.data = input[t]
           /\ part'[t][UStage(i)] # None => Held(t, UStage(i))'.data = input[t]
  BY <1>1 DEF DataOf
<1>4. XStage(i) \in Stage /\ UStage(i) \in Stage
  BY StageFact
<1>5. part'[t][XStage(i)] # None => Held(t, XStage(i))'.data = input[t]
  BY <1>2, <1>3, <1>4 DEF RefinementInv, DataOf
<1>6. part'[t][UStage(i)] # None => Held(t, UStage(i))'.data = input[t]
  BY <1>2, <1>3, <1>4 DEF RefinementInv, DataOf
<1> QED  BY <1>5, <1>6


LEMMA WorkerRefines ==
  ASSUME ~Redraws, TypeOK, LineageInv, RefinementInv, NEW s \in Slice,
         Worker(s) \/ LosePartitions(s)
  PROVE  RefinementInv' /\ UNCHANGED ADMM!vars
<1>1. TypeOK' /\ LineageInv' /\ Keep /\ OlderZs
  BY PastKept DEF Next
<1>2. UNCHANGED <<input, job, iter, closureZ, locals, result>>
  BY DEF Worker, MakeDataEnv, InitLearningEnv, XUpdate, UUpdate,
         RunTask, LosePartitions, Store, cache, data
<1>3. /\ \A i \in Gen : i <= Updates' => Computed(UStage(i))'
      /\ ZOk' /\ LocalsOk' /\ DecisionOk'
      /\ UNCHANGED ADMM!vars
  BY <1>1, <1>2, QuietStep
<1>4. ASSUME NEW p \in Stage, NEW v, Store(s, p, v),
             (\E i \in Gen : p = XStage(i) \/ p = UStage(i)) => v.data = input[s]
      PROVE  DataOf' /\ ReportOk'
  BY <1>1, <1>4, StoreData, ReportsKept DEF Store, cache
<1>5. ASSUME MakeDataEnv(s) PROVE DataOf' /\ ReportOk'
  <2>1. Store(s, DataStage, input[s]) /\ DataStage \in Stage
    BY <1>5, DataStored, StageFact
  <2>2. ~\E i \in Gen : DataStage = XStage(i) \/ DataStage = UStage(i)
    BY StageFact
  <2> QED  BY <1>4, <2>1, <2>2
<1>6. ASSUME InitLearningEnv(s) PROVE DataOf' /\ ReportOk'
  <2>1. Store(s, UStage(0), initLearningEnv(Held(s, DataStage)))
        /\ UStage(0) \in Stage
    BY <1>6, InitStored, StageFact
  <2>2. ~\E i \in Gen : UStage(0) = XStage(i) \/ UStage(0) = UStage(i)
    BY StageFact
  <2> QED  BY <1>4, <2>1, <2>2
<1>7. ASSUME NEW i \in Gen, XUpdate(s, i) PROVE DataOf' /\ ReportOk'
  <2> DEFINE e == Held(s, UStage(i - 1))
  <2>1. Store(s, XStage(i), xUpdateEnv(e)) /\ part[s][UStage(i - 1)] # None
    BY <1>7, XStored
  <2>2. e.data = input[s]
    <3>1. CASE i = 1
      BY <2>1, <3>1, InitialEnvFact
    <3>2. CASE i # 1
      <4>1. i - 1 \in Gen
        BY <3>2, ADMMAssumption DEF Gen
      <4> QED  BY <2>1, <4>1 DEF RefinementInv, DataOf
    <3> QED  BY <3>1, <3>2
  <2>3. xUpdateEnv(e).data = e.data
    BY DEF xUpdateEnv, LearningEnv
  <2> QED  BY <1>4, <2>1, <2>2, <2>3, StageFact
<1>8. ASSUME NEW i \in Gen, UUpdate(s, i) PROVE DataOf' /\ ReportOk'
  <2> DEFINE e == Held(s, XStage(i))
             v == uUpdateEnv(zUpdateEnv(e, capturedZ(i)))
  <2>1. Store(s, UStage(i), v) /\ part[s][XStage(i)] # None
    BY <1>8, UStored
  <2>2. e.data = input[s]
    BY <2>1 DEF RefinementInv, DataOf
  <2>3. v.data = e.data
    BY DEF uUpdateEnv, zUpdateEnv, LearningEnv
  <2> QED  BY <1>4, <2>1, <2>2, <2>3, StageFact
<1>9. ASSUME RunTask(s) PROVE DataOf' /\ ReportOk'
  <2>1. UNCHANGED <<input, part>>
    BY <1>9 DEF RunTask, data
  <2>2. DataOf'
    BY <2>1 DEF RefinementInv, DataOf, Held
  <2>3. report' = [report EXCEPT ![s] = Some(Contribution(Held(s, Target)))]
        /\ Target \in mem[s]
    BY <1>9 DEF RunTask
  <2>4. part[s][Target] # None
    BY <2>3 DEF LineageInv, CacheFilled
  <2>5. \A t \in Slice : report'[t] # None =>
          /\ part[t][Target] # None
          /\ report'[t] = Some(Contribution(Held(t, Target)))
    <3>1. \A t \in Slice :
            report'[t] = IF t = s THEN Some(Contribution(Held(s, Target)))
                                  ELSE report[t]
      BY <2>3 DEF TypeOK
    <3> QED  BY <2>4, <3>1 DEF RefinementInv, ReportOk
  <2>6. Target' = Target
        /\ \A t \in Slice : Held(t, Target)' = Held(t, Target)
    BY <1>2, <2>1 DEF Target, Generation, Held
  <2>7. \A t \in Slice : Contribution(Held(t, Target))' = Contribution(Held(t, Target))
    BY <1>2, <2>6 DEF Contribution, Generation, capturedZ
  <2>8. ASSUME NEW t \in Slice, report'[t] # None
        PROVE  /\ part'[t][Target'] # None
               /\ report'[t] = Some(Contribution(Held(t, Target))')
    BY <2>1, <2>5, <2>6, <2>7, <2>8 DEF Some
  <2>9. ReportOk'
    BY <2>8 DEF ReportOk
  <2> QED  BY <2>2, <2>9
<1>10. ASSUME LosePartitions(s) PROVE DataOf' /\ ReportOk'
  <2>1. UNCHANGED <<input, part, report>>
    BY <1>10 DEF LosePartitions
  <2>2. ReportOk'
    BY <1>1, <1>2, <2>1, ReportsKept
  <2>3. DataOf'
    BY <2>1 DEF RefinementInv, DataOf, Held
  <2> QED  BY <2>2, <2>3
<1>11. DataOf' /\ ReportOk'
  BY <1>5, <1>6, <1>7, <1>8, <1>9, <1>10 DEF Worker
<1> QED  BY <1>3, <1>11 DEF RefinementInv


-----------------------------------------------------------------------------
(* The driver. *)

LEMMA NewJob ==
  ASSUME RefinementInv, UNCHANGED data, report' = [s \in Slice |-> None]
  PROVE  DataOf' /\ ReportOk'
BY DEF RefinementInv, DataOf, ReportOk, Held, data

(* When a job over all slices is done, the driver has every contribution. *)
LEMMA AllReported ==
  ASSUME TypeOK, RefinementInv, NEW j \in UpdateJobs \cup StopJobs, JobDone(j)
  PROVE  /\ Computed(Target)
         /\ \A s \in Slice : Reported[s] = Contribution(Held(s, Target))
<1>1. Tasks = Slice /\ \A s \in Slice : report[s] # None
  BY DEF JobDone, Tasks, UpdateJobs, StopJobs
<1> QED  BY <1>1, OptionFact DEF RefinementInv, ReportOk, Computed, Reported

(* A step after which the driver still waits in the same update. *)
LEMMA SameUpdate ==
  ASSUME TypeOK, RefinementInv, Keep, OlderZs, UNCHANGED data,
         Updates' = Updates
  PROVE  /\ \A i \in Gen : i <= Updates' => Computed(UStage(i))'
         /\ Stashed' = Stashed => ZOk'
         /\ result' = result => UNCHANGED ADMM!vars
         /\ StopNow' <=> StopNow
<1>1. input' = input
  BY DEF data
<1>2. \A i \in Gen : i <= Updates' => Computed(UStage(i))'
  BY HeldKept, StageFact DEF RefinementInv
<1>3. Stashed' = Stashed => ZOk'
  BY ZsKept DEF ZOk
<1> QED  BY <1>1, <1>2, <1>3, Stutters

LEMMA ReduceZRefines ==
  ASSUME TypeOK, LineageInv, RefinementInv, Keep, OlderZs, ReduceZ
  PROVE  RefinementInv' /\ UNCHANGED ADMM!vars
<1>1. /\ JobDone("z") /\ job = "z" /\ job' = "loss" /\ iter' = iter
      /\ result' = result /\ UNCHANGED data /\ report' = [s \in Slice |-> None]
      /\ closureZ' = [closureZ EXCEPT ![Generation]
                                        = Some(ZUpdate(VTotal(Reported)))]
  BY DEF ReduceZ, JobDone, Submit
<1>2. /\ Stashed = iter /\ Stashed' = iter + 1 /\ Generation = iter + 1
      /\ iter \in Nat /\ iter + 1 \in Gen /\ Updates' = Updates
      /\ Target = XStage(iter + 1)
  <2>1. iter \in Nat /\ iter <= NIters /\ NIters \in Nat
    BY <1>1, CounterFact DEF UpdateJobs
  <2> QED  BY <1>1, <2>1 DEF Stashed, Generation, UpdateJobs, Gen, Updates, Target
<1>3. ZOk'
  <2> SUFFICES ASSUME NEW i \in Gen, i <= iter + 1
      PROVE  /\ Computed(XStage(i))'
             /\ capturedZ(i)' = ZUpdate(VTotal([s \in Slice |->
                    VAdd(Held(s, XStage(i)).x, Held(s, XStage(i)).u)]))'
    BY <1>2 DEF ZOk
  <2>1. CASE i <= iter
    BY <1>2, <2>1, ZsKept
  <2>2. CASE i = iter + 1
    <3> DEFINE F == [s \in Slice |-> VAdd(Held(s, XStage(i)).x,
                                          Held(s, XStage(i)).u)]
    <3>1. Computed(XStage(i))
          /\ \A s \in Slice : Reported[s] = F[s]
      BY <1>1, <1>2, <2>2, AllReported DEF Contribution, UpdateJobs
    <3>2. Reported = F
      BY <3>1 DEF Reported
    <3>3. Computed(XStage(i))' /\ F' = F
      BY <1>1, <3>1 DEF Computed, Held, data
    <3>4. closureZ'[i] = Some(ZUpdate(VTotal(F)))
      BY <1>1, <1>2, <2>2, <3>2 DEF TypeOK
    <3> HIDE DEF F
    <3>5. capturedZ(i)' = ZUpdate(VTotal(F))'
      BY <3>3, <3>4, OptionFact DEF capturedZ
    <3> QED  BY <3>3, <3>5 DEF F
  <2> QED  BY <1>2, <2>1, <2>2 DEF Gen
<1>4. LocalsOk'
  BY <1>1 DEF LocalsOk
<1>5. DecisionOk'
  BY <1>1, <1>2, SameUpdate DEF RefinementInv, DecisionOk, UpdateJobs
<1> QED  BY <1>1, <1>2, <1>3, <1>4, <1>5, SameUpdate, NewJob DEF RefinementInv

LEMMA ReduceLossRefines ==
  ASSUME TypeOK, LineageInv, RefinementInv, Keep, OlderZs, ReduceLoss
  PROVE  RefinementInv' /\ UNCHANGED ADMM!vars
<1>1. /\ job = "loss" /\ job' = "pRes" /\ iter' = iter + 1
      /\ result' = result /\ UNCHANGED data /\ report' = [s \in Slice |-> None]
  BY DEF ReduceLoss, JobDone, Submit
<1>2. Stashed' = Stashed /\ Updates' = Updates
  BY <1>1, CounterFact DEF Stashed, Updates
<1>3. LocalsOk'
  BY <1>1 DEF LocalsOk
<1>4. DecisionOk'
  BY <1>1, <1>2, SameUpdate DEF RefinementInv, DecisionOk, UpdateJobs
<1> QED  BY <1>1, <1>2, <1>3, <1>4, SameUpdate, NewJob DEF RefinementInv


(* The environments of one update, in terms of the algorithm's state       *)
(* before it.                                                              *)
LEMMA UpdateFact ==
  ASSUME TypeOK, LineageInv, RefinementInv, job = "pRes",
         Computed(UStage(iter)), NEW s \in Slice
  PROVE  LET k == iter - 1
             e == Held(s, UStage(iter))
         IN  /\ e.x = descent(input[s], xAt(s, k), uAt(s, k), zAt(k))
             /\ e.u = VSub(VAdd(uAt(s, k), e.x), zAt(iter))
             /\ e.z = zAt(iter)
             /\ Held(s, XStage(iter)).x = e.x
             /\ Held(s, XStage(iter)).u = uAt(s, k)
<1> DEFINE m == Held(s, XStage(iter))
           p == Held(s, UStage(iter - 1))
<1>1. iter \in Gen /\ iter \in Nat
  BY CounterFact
<1>2. part[s][UStage(iter)] # None
  BY DEF Computed
<1>3. /\ part[s][XStage(iter)] # None
      /\ Held(s, UStage(iter)).x = m.x
      /\ Held(s, UStage(iter)).z = capturedZ(iter)
      /\ Held(s, UStage(iter)).u = VSub(VAdd(m.u, m.x), capturedZ(iter))
  BY <1>1, <1>2, EnvFact
<1>4. /\ part[s][UStage(iter - 1)] # None
      /\ m.x = descent(p.data, p.x, p.u, p.z)
      /\ m.u = p.u
  BY <1>1, <1>3, EnvFact
<1>5. /\ p.data = input[s] /\ p.x = xAt(s, iter - 1)
      /\ p.u = uAt(s, iter - 1) /\ p.z = zAt(iter - 1)
  <2>1. CASE iter = 1
    <3>1. 0 \notin Gen /\ iter - 1 = 0
      BY <2>1 DEF Gen
    <3> QED  BY <1>4, <3>1, InitialEnvFact DEF xAt, uAt, zAt
  <2>2. CASE iter # 1
    <3>1. iter - 1 \in Gen
      BY <1>1, <2>2, ADMMAssumption DEF Gen
    <3>2. p.z = capturedZ(iter - 1)
      BY <1>4, <3>1, EnvFact
    <3>3. p.data = input[s]
      BY <1>4, <3>1 DEF RefinementInv, DataOf
    <3> QED  BY <3>1, <3>2, <3>3 DEF xAt, uAt, zAt, capturedZ
  <2> QED  BY <2>1, <2>2
<1>6. capturedZ(iter) = zAt(iter)
  BY <1>1 DEF capturedZ, zAt
<1> HIDE DEF m, p
<1>7. /\ m.x = descent(input[s], xAt(s, iter - 1), uAt(s, iter - 1), zAt(iter - 1))
      /\ m.u = uAt(s, iter - 1)
  BY <1>4, <1>5
<1> QED  BY <1>3, <1>6, <1>7 DEF m

LEMMA ReducePResRefines ==
  ASSUME TypeOK, LineageInv, RefinementInv, Keep, OlderZs, ReducePRes
  PROVE  RefinementInv' /\ ADMM!Update
<1>1. /\ JobDone("pRes") /\ job = "pRes" /\ job' = "xNorm"
      /\ UNCHANGED <<iter, result, closureZ, input, part>> /\ UNCHANGED data
      /\ report' = [s \in Slice |-> None]
      /\ locals' = [locals EXCEPT !.pRes = Total(Reported)]
  BY DEF ReducePRes, JobDone, Submit, data, cache
<1>2. /\ iter \in Nat /\ iter \in Gen /\ Updates = iter - 1 /\ Updates' = iter
      /\ Stashed = iter /\ Stashed' = iter /\ Target = UStage(iter)
      /\ Updates \in Nat /\ iter - 1 + 1 = iter
  BY <1>1, CounterFact DEF Updates, Stashed, Target, Generation, UpdateJobs
<1>3. /\ Computed(UStage(iter))
      /\ \A s \in Slice : Reported[s] = Contribution(Held(s, UStage(iter)))
  BY <1>1, <1>2, AllReported DEF StopJobs
<1>4. \A s \in Slice, q \in Stage : Held(s, q)' = Held(s, q)
  BY <1>1 DEF Held
<1>5. RefinementInv'
  <2>1. \A i \in Gen : i <= Updates' => Computed(UStage(i))'
    BY <1>1, <1>2, <1>3 DEF RefinementInv, Computed, Gen
  <2>2. ZOk'
    BY <1>2, ZsKept DEF ZOk
  <2>3. LocalsOk'
    <3> DEFINE P == [s \in Slice |-> Norm(VSub(Held(s, UStage(iter)).x,
                                               Held(s, UStage(iter)).z))]
    <3>1. \A s \in Slice : Reported[s] = P[s]
      BY <1>1, <1>3 DEF Contribution
    <3>2. Reported = P
      BY <3>1 DEF Reported
    <3>3. P' = P
      BY <1>1 DEF Held
    <3>4. locals'.pRes = Total(P)
      BY <1>1, <3>2 DEF TypeOK
    <3> HIDE DEF P
    <3>5. locals'.pRes = Total(P)'
      BY <3>3, <3>4
    <3> QED  BY <1>1, <3>5 DEF LocalsOk, P
  <2>4. DecisionOk'
    BY <1>1 DEF RefinementInv, DecisionOk, UpdateJobs
  <2> QED  BY <1>1, <2>1, <2>2, <2>3, <2>4, NewJob DEF RefinementInv
<1>6. ADMM!Update
  <2> DEFINE X == [s \in Slice |-> xAt(s, Updates)]
             U == [s \in Slice |-> uAt(s, Updates)]
             Z == zAt(Updates)
  <2>1. ASSUME NEW s \in Slice
        PROVE  /\ X'[s] = descent(input[s], X[s], U[s], Z)
               /\ U'[s] = VSub(VAdd(U[s], X'[s]), Z')
               /\ Held(s, XStage(iter)).x = X'[s]
               /\ Held(s, XStage(iter)).u = U[s]
    <3>1. UStage(iter) \in Stage
      BY <1>2, StageFact
    <3>2. /\ X'[s] = Held(s, UStage(iter)).x /\ U'[s] = Held(s, UStage(iter)).u
          /\ Z' = zAt(iter)
      BY <1>1, <1>2, <1>4, <3>1 DEF xAt, uAt, zAt
    <3>3. X[s] = xAt(s, iter - 1) /\ U[s] = uAt(s, iter - 1) /\ Z = zAt(iter - 1)
      BY <1>2
    <3> HIDE DEF X, U, Z
    <3> QED  BY <1>1, <1>3, <3>2, <3>3, UpdateFact
  <2>2. X' = [s \in Slice |-> descent(input[s], X[s], U[s], Z)]
    BY <2>1
  <2>3. U' = [s \in Slice |-> VSub(VAdd(U[s], X'[s]), Z')]
    BY <2>1
  <2>4. Z' = ZUpdate(VTotal([s \in Slice |-> VAdd(X'[s], U[s])]))
    <3> DEFINE F == [s \in Slice |-> VAdd(Held(s, XStage(iter)).x,
                                          Held(s, XStage(iter)).u)]
               G == [s \in Slice |-> VAdd(X'[s], U[s])]
    <3>1. zAt(iter) = ZUpdate(VTotal(F))
      BY <1>2 DEF RefinementInv, ZOk, zAt, capturedZ
    <3>2. Z' = zAt(iter)
      BY <1>1, <1>2 DEF zAt
    <3>3. F = G
      BY <2>1
    <3> HIDE DEF F, G
    <3>4. Z' = ZUpdate(VTotal(G))
      BY <3>1, <3>2, <3>3
    <3> QED  BY <3>4 DEF G
  <2>5. zAt(Updates - 1)' = Z
    BY <1>1, <1>2 DEF zAt
  <2>6. Updates' = Updates + 1
    BY <1>2
  <2>7. result = <<>> /\ (Updates >= 1 => ~StopNow)
    BY <1>1 DEF RefinementInv, DecisionOk, UpdateJobs, None
  <2>8. X' = [s \in Slice |-> ADMM!descent(input[s], X[s], U[s], Z)]
    BY <2>2, MathSame
  <2>9. U' = [s \in Slice |-> ADMM!VSub(ADMM!VAdd(U[s], X'[s]), Z')]
    BY <2>3, MathSame
  <2>10. Z' = ADMM!ZUpdate(ADMM!VTotal([s \in Slice |-> ADMM!VAdd(X'[s], U[s])]))
    BY <2>4, MathSame
  <2> QED  BY <1>1, <2>5, <2>6, <2>7, <2>8, <2>9, <2>10
           DEF ADMM!Update, StopNow
<1> QED  BY <1>5, <1>6


(* The environments of the current update carry the current z. *)
LEMMA CurrentFact ==
  ASSUME TypeOK, LineageInv, RefinementInv,
         job \notin UpdateJobs \cup {"pRes"}
  PROVE  /\ iter \in Gen /\ Updates = iter /\ Stashed = iter
         /\ Target = UStage(iter) /\ Computed(UStage(iter))
         /\ \A s \in Slice :
              /\ xAt(s, Updates) = Held(s, UStage(iter)).x
              /\ uAt(s, Updates) = Held(s, UStage(iter)).u
              /\ zAt(Updates) = Held(s, UStage(iter)).z
         /\ curZ = Some(zAt(iter))
         /\ prevZ = IF iter = 1 THEN None ELSE Some(zAt(iter - 1))
<1>1. iter \in Gen /\ Updates = iter /\ Stashed = iter /\ iter \in Nat
  BY CounterFact
<1>2. Target = UStage(iter)
  BY DEF Target, Generation
<1>3. Computed(UStage(iter))
  BY <1>1 DEF RefinementInv
<1>4. \A s \in Slice : Held(s, UStage(iter)).z = capturedZ(iter)
  BY <1>1, <1>3, EnvFact DEF Computed
<1>5. iter - 1 \in Gen \/ iter = 1
  BY <1>1, ADMMAssumption DEF Gen
<1>6. /\ closureZ[iter] = Some(capturedZ(iter))
      /\ iter # 1 => closureZ[iter - 1] = Some(capturedZ(iter - 1))
      /\ curZ = closureZ[iter]
      /\ prevZ = IF iter = 1 THEN None ELSE closureZ[iter - 1]
  <2>1. \A i \in Gen : i <= iter => closureZ[i] = Some(capturedZ(i))
    BY <1>1 DEF LineageInv, Closures
  <2>2. curZ = (IF iter = 0 THEN None ELSE closureZ[iter])
        /\ prevZ = (IF iter <= 1 THEN None ELSE closureZ[iter - 1])
    BY <1>1 DEF LineageInv, Closures
  <2> QED  BY <1>1, <1>5, <2>1, <2>2 DEF Gen
<1>7. \A i \in Gen : zAt(i) = capturedZ(i)
  BY DEF zAt, capturedZ
<1> QED  BY <1>1, <1>2, <1>3, <1>4, <1>5, <1>6, <1>7 DEF xAt, uAt

LEMMA ReduceXNormRefines ==
  ASSUME TypeOK, LineageInv, RefinementInv, Keep, OlderZs, ReduceXNorm
  PROVE  RefinementInv' /\ UNCHANGED ADMM!vars
<1>1. /\ JobDone("xNorm") /\ job = "xNorm" /\ job' = "size"
      /\ UNCHANGED <<iter, result, part>> /\ UNCHANGED data
      /\ report' = [s \in Slice |-> None]
      /\ locals' = [locals EXCEPT !.xNorm = Total(Reported)]
  BY DEF ReduceXNorm, JobDone, Submit, data
<1>2. Updates' = Updates /\ Stashed' = Stashed /\ Target = UStage(iter)
  BY <1>1 DEF Updates, Stashed, Target, Generation, UpdateJobs
<1>3. LocalsOk'
  <2> DEFINE P == [s \in Slice |-> Norm(VSub(Held(s, UStage(iter)).x,
                                             Held(s, UStage(iter)).z))]
             X == [s \in Slice |-> Norm(Held(s, UStage(iter)).x)]
  <2>1. \A s \in Slice : Reported[s] = X[s]
    BY <1>1, <1>2, AllReported DEF Contribution, StopJobs
  <2>2. Reported = X
    BY <2>1 DEF Reported
  <2>3. P' = P /\ X' = X
    BY <1>1 DEF Held
  <2>4. locals.pRes = Total(P)
    BY <1>1 DEF RefinementInv, LocalsOk
  <2>5. locals'.pRes = locals.pRes /\ locals'.xNorm = Total(X)
    BY <1>1, <2>2 DEF TypeOK
  <2> HIDE DEF P, X
  <2>6. locals'.pRes = Total(P)' /\ locals'.xNorm = Total(X)'
    BY <2>3, <2>4, <2>5
  <2> QED  BY <1>1, <2>6 DEF LocalsOk, P, X
<1>4. DecisionOk'
  BY <1>1 DEF RefinementInv, DecisionOk, UpdateJobs
<1> QED  BY <1>1, <1>2, <1>3, <1>4, SameUpdate, NewJob DEF RefinementInv

LEMMA ReduceSizeRefines ==
  ASSUME TypeOK, LineageInv, RefinementInv, Keep, OlderZs, ReduceSize
  PROVE  RefinementInv' /\ UNCHANGED ADMM!vars
<1>1. /\ JobDone("size") /\ job = "size" /\ job' = "uNorm"
      /\ UNCHANGED <<iter, result, part>> /\ UNCHANGED data
      /\ report' = [s \in Slice |-> None]
      /\ locals' = [locals EXCEPT !.avNb = AvNbSamples(Total(Reported))]
  BY DEF ReduceSize, JobDone, Submit, data
<1>2. Updates' = Updates /\ Stashed' = Stashed /\ Target = UStage(iter)
  BY <1>1 DEF Updates, Stashed, Target, Generation, UpdateJobs
<1>3. LocalsOk'
  <2> DEFINE P == [s \in Slice |-> Norm(VSub(Held(s, UStage(iter)).x,
                                             Held(s, UStage(iter)).z))]
             X == [s \in Slice |-> Norm(Held(s, UStage(iter)).x)]
             N == [s \in Slice |-> Cardinality(Coord)]
  <2>1. ASSUME NEW s \in Slice PROVE Reported[s] = Cardinality(Coord)
    <3>1. /\ Reported[s] = Cardinality(DOMAIN Held(s, UStage(iter)).x)
          /\ part[s][UStage(iter)] # None
      BY <1>1, <1>2, AllReported DEF Contribution, StopJobs, Computed
    <3>2. iter \in Gen
      BY <1>1, CounterFact DEF UpdateJobs
    <3>3. DOMAIN Held(s, UStage(iter)).x = Coord
      BY <3>1, <3>2, EnvFact DEF descent
    <3> QED  BY <3>1, <3>3
  <2>2. Reported = N
    BY <2>1 DEF Reported
  <2>3. N = [s \in Slice |-> ADMM!Cardinality(Coord)]
    BY CardinalitySame
  <2>4. ADMM!AvSize = AvNbSamples(Total(N))
    BY <2>3, MathSame DEF ADMM!AvSize
  <2>5. P' = P /\ X' = X
    BY <1>1 DEF Held
  <2>6. locals.pRes = Total(P) /\ locals.xNorm = Total(X)
    BY <1>1 DEF RefinementInv, LocalsOk
  <2> HIDE DEF N, P, X
  <2>7. /\ locals'.pRes = locals.pRes /\ locals'.xNorm = locals.xNorm
        /\ locals'.avNb = ADMM!AvSize
    BY <1>1, <2>2, <2>4 DEF TypeOK
  <2>8. locals'.pRes = Total(P)' /\ locals'.xNorm = Total(X)'
    BY <2>5, <2>6, <2>7
  <2> QED  BY <1>1, <2>7, <2>8 DEF LocalsOk, P, X
<1>4. DecisionOk'
  BY <1>1 DEF RefinementInv, DecisionOk, UpdateJobs
<1> QED  BY <1>1, <1>2, <1>3, <1>4, SameUpdate, NewJob DEF RefinementInv


(* What stopLearning and the limit decide is what the algorithm decides. *)
LEMMA SameDecision ==
  ASSUME TypeOK, LineageInv, RefinementInv, JobDone("uNorm")
  PROVE  (stopLearning(EpsDual(locals.avNb, Total(Reported))) \/ iter > NIters)
           <=> StopNow
<1> DEFINE z == zAt(iter)
           y == zAt(iter - 1)
           P == [s \in Slice |-> Norm(VSub(Held(s, UStage(iter)).x,
                                           Held(s, UStage(iter)).z))]
           X == [s \in Slice |-> Norm(Held(s, UStage(iter)).x)]
           U == [s \in Slice |-> Norm(Held(s, UStage(iter)).u)]
<1>1. job = "uNorm" /\ iter \in Nat /\ iter \in Gen
  BY CounterFact DEF JobDone, UpdateJobs
<1>2. /\ Updates = iter /\ Target = UStage(iter) /\ Computed(UStage(iter))
      /\ \A s \in Slice :
           /\ xAt(s, Updates) = Held(s, UStage(iter)).x
           /\ uAt(s, Updates) = Held(s, UStage(iter)).u
           /\ zAt(Updates) = Held(s, UStage(iter)).z
      /\ curZ = Some(z) /\ prevZ = IF iter = 1 THEN None ELSE Some(y)
  BY <1>1, CurrentFact DEF UpdateJobs
<1>3. Reported = U
  <2>1. \A s \in Slice : Reported[s] = U[s]
    BY <1>1, <1>2, AllReported DEF Contribution, StopJobs
  <2> QED  BY <2>1 DEF Reported
<1>4. /\ locals.pRes = Total(P) /\ locals.xNorm = Total(X)
      /\ locals.avNb = ADMM!AvSize
  BY <1>1 DEF RefinementInv, LocalsOk
<1>5. ADMM!PrimalResidual = Total(P)
  <2> DEFINE Q == [s \in Slice |->
                     Norm(ADMM!VSub([t \in Slice |-> xAt(t, Updates)][s],
                                    zAt(Updates)))]
  <2>1. Q = P
    BY <1>2, MathSame
  <2>2. ADMM!PrimalResidual = ADMM!Total(Q)
    BY DEF ADMM!PrimalResidual
  <2> HIDE DEF Q, P
  <2> QED  BY <2>1, <2>2, MathSame
<1>6. [s \in Slice |-> Norm([t \in Slice |-> xAt(t, Updates)][s])] = X
      /\ [s \in Slice |-> Norm([t \in Slice |-> uAt(t, Updates)][s])] = U
  BY <1>2
<1>7. ADMM!Converged <=> /\ iter >= 2
                         /\ EpsPrimal(ADMM!AvSize, Total(X), Norm(z)) > Total(P)
                         /\ EpsDual(ADMM!AvSize, Total(U)) > DualResidual(z, y)
  <2>1. ADMM!Converged <=>
          /\ iter >= 2
          /\ ADMM!EpsPrimal(ADMM!AvSize, ADMM!Total(X), Norm(z))
               > ADMM!PrimalResidual
          /\ ADMM!EpsDual(ADMM!AvSize, ADMM!Total(U)) > ADMM!DualResidual(z, y)
    BY <1>2, <1>6 DEF ADMM!Converged
  <2> HIDE DEF X, P, U, z, y
  <2> QED  BY <1>5, <2>1, MathSame
<1>8. stopLearning(EpsDual(locals.avNb, Total(Reported))) <=>
        /\ prevZ # None
        /\ EpsDual(ADMM!AvSize, Total(U)) > DualResidual(Get(curZ), Get(prevZ))
        /\ EpsPrimal(ADMM!AvSize, Total(X), Norm(Get(curZ))) > Total(P)
  <2> HIDE DEF X, P, U
  <2> QED  BY <1>3, <1>4 DEF stopLearning, primalTest, epsPrimal, dualResidual
<1>9. /\ prevZ # None <=> iter >= 2
      /\ Get(curZ) = z
      /\ prevZ # None => Get(prevZ) = y
  BY <1>1, <1>2, OptionFact DEF Gen
<1>10. ADMM!Exhausted <=> iter > NIters
  BY <1>2 DEF ADMM!Exhausted
<1> HIDE DEF X, P, U, z, y
<1> QED  BY <1>7, <1>8, <1>9, <1>10 DEF StopNow

LEMMA ReduceUNormRefines ==
  ASSUME TypeOK, LineageInv, RefinementInv, Keep, OlderZs, ReduceUNorm
  PROVE  RefinementInv' /\ UNCHANGED ADMM!vars
<1>1. /\ JobDone("uNorm") /\ job = "uNorm"
      /\ UNCHANGED <<iter, result>> /\ UNCHANGED data
      /\ report' = [s \in Slice |-> None]
      /\ job' = IF stopLearning(EpsDual(locals.avNb, Total(Reported)))
                   \/ iter > NIters THEN "take" ELSE "z"
  BY DEF ReduceUNorm, JobDone, Submit
<1>2. (job' = "take" /\ StopNow) \/ (job' = "z" /\ ~StopNow)
  BY <1>1, SameDecision
<1>3. Updates' = Updates /\ Stashed' = Stashed
  BY <1>1, <1>2 DEF Updates, Stashed
<1>4. StopNow' <=> StopNow
  BY <1>3, <1>1, SameUpdate
<1>5. DecisionOk'
  BY <1>1, <1>2, <1>4 DEF RefinementInv, DecisionOk, UpdateJobs
<1>6. LocalsOk'
  BY <1>2 DEF LocalsOk
<1> QED  BY <1>1, <1>3, <1>5, <1>6, SameUpdate, NewJob DEF RefinementInv

LEMMA TakeRefines ==
  ASSUME TypeOK, LineageInv, RefinementInv, Keep, OlderZs, Take
  PROVE  RefinementInv' /\ ADMM!Return
<1>1. /\ JobDone("take") /\ job = "take" /\ job' = "done"
      /\ UNCHANGED iter /\ UNCHANGED data
      /\ report' = [s \in Slice |-> None]
      /\ result' = report[FirstSlice]
  BY DEF Take, JobDone, Submit
<1>2. /\ iter \in Gen /\ Updates = iter /\ Target = UStage(iter)
      /\ zAt(Updates) = Held(FirstSlice, UStage(iter)).z
  BY <1>1, CurrentFact, SparkAssumption DEF UpdateJobs
<1>3. Updates' = Updates /\ Stashed' = Stashed
  BY <1>1 DEF Updates, Stashed
<1>4. RefinementInv'
  <2>1. LocalsOk' /\ DecisionOk'
    BY <1>1 DEF LocalsOk, DecisionOk, UpdateJobs
  <2> QED  BY <1>1, <1>3, <2>1, SameUpdate, NewJob DEF RefinementInv
<1>5. result' = Some(zAt(Updates))
  <2>1. report[FirstSlice] # None /\ FirstSlice \in Slice
    BY <1>1, SparkAssumption DEF JobDone, Tasks
  <2>2. report[FirstSlice] = Some(Contribution(Held(FirstSlice, UStage(iter))))
    BY <1>2, <2>1 DEF RefinementInv, ReportOk
  <2>3. Contribution(Held(FirstSlice, UStage(iter)))
          = Held(FirstSlice, UStage(iter)).z
    BY <1>1 DEF Contribution
  <2> QED  BY <1>1, <1>2, <2>2, <2>3
<1>6. UNCHANGED <<input, Updates, [s \in Slice |-> xAt(s, Updates)],
                  [s \in Slice |-> uAt(s, Updates)],
                  zAt(Updates), zAt(Updates - 1)>>
  BY <1>1, <1>3, Stutters DEF data
<1>7. result = None /\ StopNow /\ Updates >= 1
  BY <1>1, <1>2 DEF RefinementInv, DecisionOk, Gen
<1>8. ADMM!Return
  BY <1>5, <1>6, <1>7 DEF ADMM!Return, StopNow, Some, None
<1> QED  BY <1>4, <1>8

-----------------------------------------------------------------------------
LEMMA RefinementStep ==
  ASSUME ~Redraws, TypeOK, LineageInv, RefinementInv, [Next]_vars
  PROVE  RefinementInv' /\ [ADMM!Next]_(ADMM!vars)
<1>1. Keep /\ OlderZs
  BY PastKept
<1>2. CASE UNCHANGED vars
  <2>1. UNCHANGED <<input, job, iter, closureZ, locals, result, part, report>>
    BY <1>2 DEF vars
  <2>2. DataOf'
    BY <2>1 DEF RefinementInv, DataOf, Held
  <2> QED  BY <1>1, <2>1, <2>2, QuietStep, ReportsKept DEF RefinementInv
<1>3. ASSUME NEW s \in Slice, Worker(s) \/ LosePartitions(s)
      PROVE  RefinementInv' /\ UNCHANGED ADMM!vars
  BY <1>3, WorkerRefines
<1>4. CASE ReduceZ
  BY <1>1, <1>4, ReduceZRefines
<1>5. CASE ReduceLoss
  BY <1>1, <1>5, ReduceLossRefines
<1>6. CASE ReducePRes
  BY <1>1, <1>6, ReducePResRefines DEF ADMM!Next
<1>7. CASE ReduceXNorm
  BY <1>1, <1>7, ReduceXNormRefines
<1>8. CASE ReduceSize
  BY <1>1, <1>8, ReduceSizeRefines
<1>9. CASE ReduceUNorm
  BY <1>1, <1>9, ReduceUNormRefines
<1>10. CASE Take
  BY <1>1, <1>10, TakeRefines DEF ADMM!Next
<1> QED  BY <1>2, <1>3, <1>4, <1>5, <1>6, <1>7, <1>8, <1>9, <1>10
         DEF Next, Driver

LEMMA InitRefines == Init => ADMM!Init
<1> SUFFICES ASSUME Init PROVE ADMM!Init
  OBVIOUS
<1>1. Updates = 0 /\ 0 \notin Gen /\ 0 - 1 \notin Gen
  BY DEF Init, Updates, Gen
<1>2. /\ \A s \in Slice : xAt(s, Updates) = Zero /\ uAt(s, Updates) = Zero
      /\ zAt(Updates) = Zero /\ zAt(Updates - 1) = Zero
  BY <1>1 DEF xAt, uAt, zAt
<1> QED  BY <1>1, <1>2, MathSame DEF Init, ADMM!Init, None

(* The reports of the tasks and the variables of stopLearning are, at every *)
(* job, the figures of the environments of the current update.             *)
THEOREM RefinementInvariant ==
  ASSUME ~Redraws PROVE SafetySpec => []RefinementInv
<1>1. TypeOK /\ LineageInv /\ RefinementInv /\ [Next]_vars => RefinementInv'
  BY RefinementStep
<1> QED  BY <1>1, RefinementInit, TypeCorrect, LineageCorrect, PTL
         DEF SafetySpec

(* When evaluating the RDD of samples always yields the same samples, solve *)
(* computes what the synchronous consensus ADMM computes, and returns its z *)
(* when it stops, for any number of slices, any limit, any descent, any     *)
(* order of the tasks and any losses of cached partitions.                  *)
THEOREM SolveImplementsADMM ==
  ASSUME ~Redraws PROVE SafetySpec => ImplementsADMMSafety
<1>1. TypeOK /\ LineageInv /\ RefinementInv /\ [Next]_vars
        => [ADMM!Next]_(ADMM!vars)
  BY RefinementStep
<1> QED  BY <1>1, InitRefines, TypeCorrect, LineageCorrect,
            RefinementInvariant, PTL
         DEF SafetySpec, ImplementsADMMSafety, ADMM!SafetySpec

-----------------------------------------------------------------------------
(* The records. *)

(* `stopLearning` writes -1 for a residual it did not compute, which no norm *)
(* of a difference of two z can be: algebra.norm2 adds up squares.          *)
NormOfNat == \A v : Norm(v) \in Nat

Fields == {"loss", "card", "pRes", "pEps", "dRes", "dEps"}
LossOf(i) == Loss(Total([s \in Slice |-> LossTerm(input[s], capturedZ(i))]), capturedZ(i))
PrimalOf(i) == Total([s \in Slice |-> Norm(VSub(Held(s, UStage(i)).x, capturedZ(i)))])

(* What updateSet, and what stopLearning, wrote to record i. *)
LossOk(i) == iters[i].loss = LossOf(i) /\ iters[i].card = NonZeros(capturedZ(i))
PrimalOk(i) == iters[i].pRes = PrimalOf(i - 1)
DualOk(i) ==
  /\ iters[i].dRes # -1 <=> i > 2 /\ (Accelerated \/ iters[i].pEps > iters[i].pRes)
  /\ iters[i].dRes # -1 =>
       iters[i].dRes = DualResidual(capturedZ(i - 1), capturedZ(i - 2))

(* The record that iterate opened last is filled job by job. *)
OpenOk(i) ==
  /\ iters[i].loss = -1 /\ iters[i].card = -1
  /\ i > 1 /\ job # "pRes" => PrimalOk(i)
  /\ job \in StopJobs => iters[i].dRes = -1
  /\ job = "uNorm" => iters[i].pEps = epsPrimal(locals.avNb)
  /\ i > 1 /\ job \notin StopJobs => DualOk(i)

RecordsInv ==
  /\ \A i \in 1..(iter + 1) : DOMAIN iters[i] = Fields
  /\ iters[1].dRes = -1
  /\ \A i \in 1..iter : LossOk(i) /\ (i > 1 => PrimalOk(i) /\ DualOk(i))
  /\ \A i \in 1..(iter + 1) : i > iter => OpenOk(i)

LEMMA RecordsFollow ==
  ASSUME TypeOK, RecordsInv
  PROVE  RecordsAreTrue
<1>1. iter \in Nat /\ Len(iters) = iter + 1
  BY SegmentIsSeq DEF TypeOK
<1> SUFFICES ASSUME NEW i \in 1..(iter + 1)
    PROVE  LET z(j) == Get(closureZ[j])
               r == iters[i]
               env(s, j) == Held(s, UStage(j))
               tested == i > 1 /\ (i <= iter \/ job \in {"take", "done"})
               primal(j) == Total([s \in Slice |-> Norm(VSub(env(s, j).x, z(j)))])
           IN  /\ i <= iter =>
                    /\ r.loss = Loss(Total([s \in Slice |-> LossTerm(input[s], z(i))]),
                                     z(i))
                    /\ r.card = NonZeros(z(i))
               /\ tested => r.pRes = primal(i - 1)
               /\ tested => (r.dRes # -1 <=> i > 2 /\ (Accelerated \/ r.pEps > r.pRes))
               /\ r.dRes # -1 => r.dRes = DualResidual(z(i - 1), z(i - 2))
               /\ i > iter => r.loss = -1 /\ r.card = -1
  BY <1>1 DEF RecordsAreTrue
<1>2. CASE i <= iter
  <2>1. i \in 1..iter /\ ~(i > iter) /\ (~(i > 1) => i = 1)
    BY <1>1, <1>2
  <2>2. LossOk(i) /\ (i > 1 => PrimalOk(i) /\ DualOk(i))
    BY <2>1 DEF RecordsInv
  <2>3. i = 1 => iters[i].dRes = -1
    BY DEF RecordsInv
  <2> QED  BY <2>1, <2>2, <2>3
           DEF LossOk, PrimalOk, DualOk, LossOf, PrimalOf, capturedZ
<1>3. CASE ~(i <= iter)
  <2>1. i = iter + 1 /\ (~(i > 1) => i = 1)
    BY <1>1, <1>3
  <2>2. OpenOk(i)
    BY <1>1, <1>3 DEF RecordsInv
  <2>3. i = 1 => iters[i].dRes = -1
    BY DEF RecordsInv
  <2>4. job \in {"take", "done"} => job \notin StopJobs /\ job # "pRes"
    BY DEF StopJobs
  <2>5. i > 1 => iters[i].dRes = -1 \/ DualOk(i)
    BY <2>2 DEF OpenOk
  <2>6. i > 1 /\ job \in {"take", "done"} => PrimalOk(i) /\ DualOk(i)
    BY <2>2, <2>4 DEF OpenOk
  <2>7. iters[i].loss = -1 /\ iters[i].card = -1
    BY <2>2 DEF OpenOk
  <2> QED  BY <1>3, <2>1, <2>3, <2>5, <2>6, <2>7 DEF PrimalOk, DualOk, PrimalOf, capturedZ
<1> QED  BY <1>2, <1>3

LEMMA RecordsInit == Init => RecordsInv
<1> SUFFICES ASSUME Init PROVE RecordsInv
  OBVIOUS
<1>1. iter = 0 /\ job = "z" /\ iters = <<InnerTracker>>
  BY DEF Init
<1>2. /\ DOMAIN iters[1] = Fields
      /\ iters[1].loss = -1 /\ iters[1].card = -1 /\ iters[1].dRes = -1
  BY <1>1 DEF InnerTracker, Fields
<1>3. OpenOk(1)
  BY <1>1, <1>2 DEF OpenOk, StopJobs
<1>4. 1..(iter + 1) = {1} /\ 1..iter = {} /\ iter + 1 = 1
  BY <1>1
<1> QED  BY <1>2, <1>3, <1>4 DEF RecordsInv

-----------------------------------------------------------------------------
(* What the records were computed from stays. *)
LEMMA FiguresKept ==
  ASSUME ~Redraws, TypeOK, LineageInv, RefinementInv, [Next]_vars
  PROVE  /\ \A i \in Gen : i <= Stashed =>
              capturedZ(i)' = capturedZ(i) /\ LossOf(i)' = LossOf(i)
         /\ \A i \in Gen : i <= Updates => PrimalOf(i)' = PrimalOf(i)
<1>1. Keep /\ OlderZs /\ input' = input
  BY PastKept
<1>2. \A i \in Gen : i <= Stashed => capturedZ(i)' = capturedZ(i)
  BY <1>1 DEF OlderZs, capturedZ
<1>3. ASSUME NEW i \in Gen, i <= Stashed PROVE LossOf(i)' = LossOf(i)
  <2>1. capturedZ(i)' = capturedZ(i)
    BY <1>2, <1>3
  <2> QED  BY <1>1, <2>1 DEF LossOf
<1>4. ASSUME NEW i \in Gen, i <= Updates PROVE PrimalOf(i)' = PrimalOf(i)
  <2>1. capturedZ(i)' = capturedZ(i)
    BY <1>2, <1>4, CounterFact, ADMMAssumption DEF Gen
  <2>2. Computed(UStage(i)) /\ UStage(i) \in Stage
    BY <1>4, StageFact DEF RefinementInv
  <2>3. \A s \in Slice : Held(s, UStage(i))' = Held(s, UStage(i))
    BY <1>1, <2>2, HeldKept DEF Computed
  <2> QED  BY <2>1, <2>3 DEF PrimalOf
<1> QED  BY <1>2, <1>3, <1>4

LEMMA RecordKept ==
  ASSUME ~Redraws, TypeOK, LineageInv, RefinementInv, [Next]_vars,
         NEW i \in 1..(iter + 1)
  PROVE  /\ i <= iter /\ iters'[i].loss = iters[i].loss /\ iters'[i].card = iters[i].card
              => (LossOk(i) => LossOk(i)')
         /\ i > 1 /\ i - 1 <= Updates /\ iters'[i].pRes = iters[i].pRes
              => (PrimalOk(i) => PrimalOk(i)')
         /\ i > 1 /\ iters'[i].pRes = iters[i].pRes /\ iters'[i].pEps = iters[i].pEps
                  /\ iters'[i].dRes = iters[i].dRes
              => (DualOk(i) => DualOk(i)')
<1>1. /\ iter \in Nat /\ iter <= NIters + 1 /\ NIters \in Nat /\ iter <= Stashed
      /\ Stashed \in Nat
  BY CounterFact DEF Stashed
<1>2. i <= iter => i \in Gen /\ i <= Stashed
  BY <1>1 DEF Gen
<1>3. i > 1 => i - 1 \in Gen /\ i - 1 <= Stashed
  BY <1>1 DEF Gen
<1>4. i > 2 => i - 2 \in Gen /\ i - 2 <= Stashed
  BY <1>1 DEF Gen
<1>5. \A j \in Gen : /\ j <= Stashed => capturedZ(j)' = capturedZ(j) /\ LossOf(j)' = LossOf(j)
                     /\ j <= Updates => PrimalOf(j)' = PrimalOf(j)
  BY FiguresKept
<1>6. i <= iter => capturedZ(i)' = capturedZ(i) /\ LossOf(i)' = LossOf(i)
  BY <1>2, <1>5
<1>7. i > 1 /\ i - 1 <= Updates => PrimalOf(i - 1)' = PrimalOf(i - 1)
  BY <1>3, <1>5
<1>8. i > 2 => /\ capturedZ(i - 1)' = capturedZ(i - 1)
               /\ capturedZ(i - 2)' = capturedZ(i - 2)
  BY <1>1, <1>3, <1>4, <1>5
<1>9. ASSUME i <= iter, iters'[i].loss = iters[i].loss, iters'[i].card = iters[i].card,
             LossOk(i)
      PROVE  LossOk(i)'
  BY <1>6, <1>9 DEF LossOk
<1>10. ASSUME i > 1, i - 1 <= Updates, iters'[i].pRes = iters[i].pRes, PrimalOk(i)
       PROVE  PrimalOk(i)'
  BY <1>7, <1>10 DEF PrimalOk
<1>11. ASSUME i > 1, iters'[i].pRes = iters[i].pRes, iters'[i].pEps = iters[i].pEps,
              iters'[i].dRes = iters[i].dRes, DualOk(i)
       PROVE  DualOk(i)'
  BY <1>8, <1>11 DEF DualOk
<1> QED  BY <1>9, <1>10, <1>11

Records(q, n) == q = [i \in 1..n |-> q[i]] /\ \A i \in 1..n : DOMAIN q[i] = Fields

LEMMA RecordsFact ==
  ASSUME TypeOK, RecordsInv
  PROVE  /\ Records(iters, iter + 1) /\ Len(iters) = iter + 1
         /\ iter \in Nat /\ iter + 1 \in Nat /\ iter + 1 \in 1..(iter + 1)
<1>1. iter \in Nat /\ Len(iters) = iter + 1
  BY SegmentIsSeq DEF TypeOK
<1> QED  BY <1>1 DEF RecordsInv, TypeOK, Records

(* A step that writes nothing to the records. *)
LEMMA RecordsWait ==
  ASSUME ~Redraws, TypeOK, LineageInv, RefinementInv, RecordsInv, [Next]_vars,
         iters' = iters, iter' = iter,
         job = "pRes" <=> job' = "pRes",
         job \in StopJobs <=> job' \in StopJobs,
         job' = "uNorm" => job = "uNorm" /\ locals' = locals /\ curZ' = curZ
  PROVE  RecordsInv'
<1>0. PICK o \in Nat : o = iter + 1
  BY RecordsFact
<1>1. /\ iter \in Nat /\ o \in 1..(iter + 1) /\ o > iter /\ o - 1 = iter
      /\ job # "pRes" => iter <= Updates
  BY <1>0, CounterFact DEF Updates
<1>2. OpenOk(o)
  BY <1>1 DEF RecordsInv
<1>3. o > 1 /\ job # "pRes" => PrimalOk(o)'
  BY <1>1, <1>2, RecordKept DEF OpenOk
<1>4. o > 1 /\ job \notin StopJobs => DualOk(o)'
  BY <1>1, <1>2, RecordKept DEF OpenOk
<1>5. job' = "uNorm" => epsPrimal(locals.avNb)' = epsPrimal(locals.avNb)
  BY DEF epsPrimal
<1>6. OpenOk(o)'
  BY <1>2, <1>3, <1>4, <1>5 DEF OpenOk
<1>7. ASSUME NEW i \in 1..iter PROVE LossOk(i)' /\ (i > 1 => PrimalOk(i)' /\ DualOk(i)')
  <2>1. i \in 1..(iter + 1) /\ i <= iter /\ i - 1 <= Updates
    BY <1>1, CounterFact DEF Updates
  <2>2. LossOk(i) /\ (i > 1 => PrimalOk(i) /\ DualOk(i))
    BY DEF RecordsInv
  <2> QED  BY <2>1, <2>2, RecordKept
<1>8. \A i \in 1..(iter' + 1) : i > iter' => i = o
  BY <1>0, <1>1
<1>9. \A i \in 1..(iter' + 1) : i > iter' => OpenOk(i)'
  BY <1>6, <1>8
<1> QED  BY <1>7, <1>9 DEF RecordsInv

-----------------------------------------------------------------------------
(* The driver writes to record j and to no other. *)

Others(p, q, n, j) == /\ \A i \in 1..n : DOMAIN p[i] = Fields /\ (i # j => p[i] = q[i])

(* A job of stopLearning ends, and only the open record is written. *)
LEMMA ClosedKept ==
  ASSUME ~Redraws, TypeOK, LineageInv, RefinementInv, RecordsInv, [Next]_vars,
         iter' = iter, job \in StopJobs, iter >= 1, NEW o \in Nat, o = iter + 1,
         Others(iters', iters, o, o), OpenOk(o)'
  PROVE  RecordsInv'
<1>1. iter \in Nat /\ 1 \in 1..o /\ 1 # o
  BY CounterFact
<1>2. ASSUME NEW i \in 1..iter
      PROVE  LossOk(i)' /\ (i > 1 => PrimalOk(i)' /\ DualOk(i)')
  <2>1. i \in 1..(iter + 1) /\ i <= iter /\ i # o /\ i - 1 <= Updates /\ i \in 1..o
    BY <1>1, CounterFact DEF Updates
  <2>2. iters'[i] = iters[i]
    BY <2>1 DEF Others
  <2>3. LossOk(i) /\ (i > 1 => PrimalOk(i) /\ DualOk(i))
    BY DEF RecordsInv
  <2> QED  BY <2>1, <2>2, <2>3, RecordKept
<1>3. \A i \in 1..(iter' + 1) : DOMAIN iters'[i] = Fields
  BY DEF Others
<1>4. iters'[1].dRes = -1
  BY <1>1 DEF Others, RecordsInv
<1>5. \A i \in 1..(iter' + 1) : i > iter' => i = o
  BY <1>1
<1>6. \A i \in 1..(iter' + 1) : i > iter' => OpenOk(i)'
  BY <1>5
<1> QED  BY <1>2, <1>3, <1>4, <1>6 DEF RecordsInv

LEMMA ReducePResRecords ==
  ASSUME ~Redraws, TypeOK, LineageInv, RefinementInv, RecordsInv, ReducePRes
  PROVE  RecordsInv'
<1>0. PICK o \in Nat : o = iter + 1
  BY RecordsFact
<1>1. /\ JobDone("pRes") /\ job = "pRes" /\ job' = "xNorm" /\ iter' = iter
      /\ locals' = [locals EXCEPT !.pRes = Total(Reported)]
      /\ iters' = [iters EXCEPT ![Len(iters)].pRes = Total(Reported)]
      /\ [Next]_vars
  BY DEF ReducePRes, JobDone, Submit, Next, Driver
<1>2. Records(iters, o) /\ Len(iters) = o /\ o \in Nat /\ o \in 1..o /\ iter >= 1
      /\ iter \in Gen /\ o - 1 = iter /\ iter \in Nat
  BY <1>0, <1>1, RecordsFact, CounterFact DEF Gen
<1>3. /\ Others(iters', iters, o, o) /\ iters'[o].pRes = Total(Reported)
      /\ \A f \in Fields \ {"pRes"} : iters'[o][f] = iters[o][f]
  <2>1. iters' = [iters EXCEPT ![o].pRes = Total(Reported)]
    BY <1>1, <1>2
  <2> QED  BY <1>2, <2>1 DEF Records, Others, Fields
<1>4. PrimalOf(o - 1) = Total(Reported)
  <2> DEFINE Q == [s \in Slice |-> Norm(VSub(Held(s, UStage(iter)).x, capturedZ(iter)))]
  <2>1. Target = UStage(iter)
    BY <1>1 DEF Target, Generation, UpdateJobs
  <2>2. /\ Computed(UStage(iter))
        /\ \A s \in Slice : Reported[s] = Norm(VSub(Held(s, UStage(iter)).x,
                                                   Held(s, UStage(iter)).z))
    BY <1>1, <2>1, AllReported DEF StopJobs, Contribution
  <2>3. \A s \in Slice : Held(s, UStage(iter)).z = capturedZ(iter)
    BY <1>2, <2>2, EnvFact DEF Computed
  <2>4. Reported = Q
    BY <2>2, <2>3 DEF Reported
  <2>5. PrimalOf(iter) = Total(Q)
    BY DEF PrimalOf
  <2> HIDE DEF Q
  <2> QED  BY <1>2, <2>4, <2>5
<1>5. PrimalOf(o - 1)' = PrimalOf(o - 1)
  <2>1. part' = part /\ closureZ' = closureZ
    BY DEF ReducePRes, data, cache
  <2> QED  BY <2>1 DEF PrimalOf, Held, capturedZ
<1>6. PrimalOf(o - 1)' = Total(Reported)
  BY <1>4, <1>5
<1>7. OpenOk(o)'
  <2>1. PrimalOk(o)'
    BY <1>1, <1>2, <1>3, <1>6 DEF PrimalOk
  <2>2. iters'[o].loss = -1 /\ iters'[o].card = -1 /\ iters'[o].dRes = -1
    <3>1. OpenOk(o)
      BY <1>2 DEF RecordsInv
    <3> QED  BY <1>1, <1>3, <3>1 DEF OpenOk, StopJobs, Fields
  <2> QED  BY <1>1, <2>1, <2>2 DEF OpenOk, StopJobs
<1>8. job \in StopJobs
  BY <1>1 DEF StopJobs
<1> QED  BY <1>0, <1>1, <1>2, <1>3, <1>7, <1>8, ClosedKept

LEMMA ReduceSizeRecords ==
  ASSUME ~Redraws, TypeOK, LineageInv, RefinementInv, RecordsInv, ReduceSize
  PROVE  RecordsInv'
<1>0. PICK o \in Nat : o = iter + 1
  BY RecordsFact
<1>1. /\ job = "size" /\ job' = "uNorm" /\ iter' = iter /\ curZ' = curZ
      /\ locals' = [locals EXCEPT !.avNb = AvNbSamples(Total(Reported))]
      /\ iters' = [iters EXCEPT ![Len(iters)].pEps = epsPrimal(AvNbSamples(Total(Reported)))]
      /\ [Next]_vars
  BY DEF ReduceSize, JobDone, Submit, Next, Driver, cache
<1>2. Records(iters, o) /\ Len(iters) = o /\ o \in Nat /\ o \in 1..o /\ iter >= 1
      /\ iter \in Gen /\ o - 1 = iter /\ iter \in Nat /\ Updates = iter
  BY <1>0, <1>1, RecordsFact, CounterFact DEF Gen, UpdateJobs
<1>3. /\ Others(iters', iters, o, o)
      /\ iters'[o].pEps = epsPrimal(AvNbSamples(Total(Reported)))
      /\ \A f \in Fields \ {"pEps"} : iters'[o][f] = iters[o][f]
  <2>1. iters' = [iters EXCEPT ![o].pEps = epsPrimal(AvNbSamples(Total(Reported)))]
    BY <1>1, <1>2
  <2> QED  BY <1>2, <2>1 DEF Records, Others, Fields
<1>4. OpenOk(o) /\ o \in 1..(iter + 1)
  BY <1>0, <1>2 DEF RecordsInv
<1>5. epsPrimal(locals.avNb)' = epsPrimal(AvNbSamples(Total(Reported)))
  <2>1. locals'.avNb = AvNbSamples(Total(Reported)) /\ locals'.xNorm = locals.xNorm
    BY <1>1 DEF TypeOK
  <2> QED  BY <1>1, <2>1 DEF epsPrimal
<1>6. o > 1
  BY <1>2
<1>7. iters'[o].pRes = iters[o].pRes
  BY <1>3 DEF Fields
<1>8. PrimalOk(o)'
  <2>1. PrimalOk(o)
    BY <1>1, <1>4, <1>6 DEF OpenOk
  <2>2. o - 1 <= Updates
    BY <1>2
  <2> QED  BY <1>1, <1>4, <1>6, <1>7, <2>1, <2>2, RecordKept
<1>9. OpenOk(o)'
  <2>1. iters'[o].loss = -1 /\ iters'[o].card = -1 /\ iters'[o].dRes = -1
    BY <1>1, <1>3, <1>4 DEF OpenOk, StopJobs, Fields
  <2> QED  BY <1>1, <1>3, <1>5, <1>8, <2>1 DEF OpenOk, StopJobs
<1>10. job \in StopJobs
  BY <1>1 DEF StopJobs
<1> QED  BY <1>0, <1>1, <1>2, <1>3, <1>9, <1>10, ClosedKept

LEMMA ReduceUNormRecords ==
  ASSUME NormOfNat, ~Redraws, TypeOK, LineageInv, RefinementInv, RecordsInv, ReduceUNorm
  PROVE  RecordsInv'
<1>0. PICK o \in Nat : o = iter + 1
  BY RecordsFact
<1> DEFINE old == iters[o]
           new == iters'[o]
<1>1. /\ job = "uNorm" /\ job' \in {"take", "z"} /\ iter' = iter /\ [Next]_vars
  BY DEF ReduceUNorm, JobDone, Submit, Next, Driver
<1>2. PICK e : RecordDual(e)
  BY DEF ReduceUNorm
<1>3. Records(iters, o) /\ Len(iters) = o /\ o \in Nat /\ o \in 1..o /\ iter >= 1
      /\ iter \in Gen /\ o - 1 = iter /\ o - 2 = iter - 1 /\ iter \in Nat /\ Updates = iter
      /\ o > 1 /\ o \in 1..(iter + 1) /\ (o > 2 <=> iter # 1) /\ o - 1 <= Updates
  BY <1>0, <1>1, RecordsFact, CounterFact DEF Gen, UpdateJobs
<1>4. OpenOk(o)
  BY <1>0, <1>3 DEF RecordsInv
<1>5. /\ curZ = Some(capturedZ(iter))
      /\ prevZ = IF iter = 1 THEN None ELSE Some(capturedZ(iter - 1))
  <2>1. job \notin UpdateJobs \cup {"pRes"}
    BY <1>1 DEF UpdateJobs
  <2>2. /\ curZ = Some(zAt(iter))
        /\ prevZ = IF iter = 1 THEN None ELSE Some(zAt(iter - 1))
    BY <2>1, CurrentFact
  <2>3. iter # 1 => iter - 1 \in Gen
    BY <1>3, ADMMAssumption DEF Gen
  <2> QED  BY <1>3, <2>2, <2>3 DEF zAt, capturedZ
<1> DEFINE dual == DualResidual(capturedZ(iter), capturedZ(iter - 1))
<1>6. (prevZ = None <=> iter = 1) /\ (iter # 1 => dualResidual = dual)
  BY <1>5, OptionFact DEF dualResidual
<1>7. dual # -1
  <2>1. \A n, m \in Nat : n * m # -1
    OBVIOUS
  <2> QED  BY <2>1, ADMMAssumption DEF DualResidual, NormOfNat
<1>8. primalTest <=> old.pEps > old.pRes
  <2>1. old.pEps = epsPrimal(locals.avNb) /\ PrimalOk(o)
    BY <1>1, <1>3, <1>4 DEF OpenOk
  <2>2. locals.pRes = PrimalOf(iter)
    <3> DEFINE P == [s \in Slice |-> Norm(VSub(Held(s, UStage(iter)).x,
                                               Held(s, UStage(iter)).z))]
               Q == [s \in Slice |-> Norm(VSub(Held(s, UStage(iter)).x, capturedZ(iter)))]
    <3>1. Computed(UStage(iter))
      BY <1>3 DEF RefinementInv
    <3>2. \A s \in Slice : Held(s, UStage(iter)).z = capturedZ(iter)
      BY <1>3, <3>1, EnvFact DEF Computed
    <3>3. P = Q
      BY <3>2
    <3>4. locals.pRes = Total(P)
      BY <1>1 DEF RefinementInv, LocalsOk
    <3>5. PrimalOf(iter) = Total(Q)
      BY DEF PrimalOf
    <3> HIDE DEF P, Q
    <3> QED  BY <3>3, <3>4, <3>5
  <2>3. old.pRes = PrimalOf(iter)
    BY <1>3, <2>1 DEF PrimalOk
  <2> QED  BY <2>1, <2>2, <2>3 DEF primalTest
<1> HIDE DEF dual
<1>9. /\ Others(iters', iters, o, o)
      /\ \A f \in Fields \ {"dEps", "dRes"} : new[f] = old[f]
      /\ new.dRes = IF iter # 1 /\ (Accelerated \/ primalTest) THEN dual ELSE old.dRes
  <2>1. CASE Accelerated
    <3> DEFINE w == IF prevZ = None THEN iters[o].dRes ELSE dualResidual
    <3>1. iters' = [iters EXCEPT ![o].dEps = e, ![o].dRes = w]
      BY <1>2, <1>3, <2>1 DEF RecordDual, Records
    <3>2. w = IF iter # 1 THEN dual ELSE old.dRes
      BY <1>6
    <3> HIDE DEF w
    <3>3. /\ Others(iters', iters, o, o) /\ iters'[o].dRes = w
          /\ \A f \in Fields \ {"dEps", "dRes"} : iters'[o][f] = iters[o][f]
      BY <1>3, <3>1 DEF Records, Others, Fields
    <3> QED  BY <2>1, <3>2, <3>3
  <2>2. CASE ~Accelerated /\ primalTest /\ prevZ # None
    <3>1. iters' = [iters EXCEPT ![o].dEps = e, ![o].dRes = dualResidual]
      BY <1>2, <1>3, <2>2 DEF RecordDual
    <3>2. /\ Others(iters', iters, o, o) /\ iters'[o].dRes = dualResidual
          /\ \A f \in Fields \ {"dEps", "dRes"} : iters'[o][f] = iters[o][f]
      BY <1>3, <3>1 DEF Records, Others, Fields
    <3> QED  BY <1>6, <2>2, <3>2
  <2>3. CASE ~Accelerated /\ ~(primalTest /\ prevZ # None)
    <3>1. iters' = iters
      BY <1>2, <2>3 DEF RecordDual
    <3>2. Others(iters', iters, o, o)
      BY <1>3, <3>1 DEF Others, Records
    <3> QED  BY <1>6, <2>3, <3>1, <3>2
  <2> QED  BY <2>1, <2>2, <2>3
<1>10. /\ old.loss = -1 /\ old.card = -1 /\ old.dRes = -1 /\ PrimalOk(o)
  BY <1>1, <1>3, <1>4 DEF OpenOk, StopJobs
<1>11. /\ new.loss = old.loss /\ new.card = old.card /\ new.pRes = old.pRes
       /\ new.pEps = old.pEps
  BY <1>9 DEF Fields
<1>12. PrimalOk(o)'
  BY <1>1, <1>3, <1>10, <1>11, RecordKept
<1>13. /\ new.dRes # -1 <=> o > 2 /\ (Accelerated \/ new.pEps > new.pRes)
       /\ new.dRes # -1 => new.dRes = DualResidual(capturedZ(o - 1), capturedZ(o - 2))
  <2> HIDE DEF old, new
  <2> QED  BY <1>3, <1>7, <1>8, <1>9, <1>10, <1>11 DEF dual
<1>14. DualOk(o)'
  <2>1. capturedZ(o - 1)' = capturedZ(o - 1)
        /\ (o > 2 => capturedZ(o - 2)' = capturedZ(o - 2))
    <3>1. o - 1 \in Gen /\ (o > 2 => o - 2 \in Gen)
      BY <1>0, <1>3, ADMMAssumption DEF Gen
    <3>2. o - 1 <= Stashed /\ o - 2 <= Stashed
      BY <1>0, <1>3, CounterFact DEF Stashed
    <3> QED  BY <1>1, <3>1, <3>2, FiguresKept
  <2>2. /\ iters'[o].dRes # -1 <=> o > 2 /\ (Accelerated \/ iters'[o].pEps > iters'[o].pRes)
        /\ iters'[o].dRes # -1 =>
             iters'[o].dRes = DualResidual(capturedZ(o - 1)', capturedZ(o - 2)')
    BY <1>13, <2>1
  <2> QED  BY <2>2 DEF DualOk
<1>15. OpenOk(o)'
  BY <1>1, <1>10, <1>11, <1>12, <1>14 DEF OpenOk, StopJobs
<1>16. job \in StopJobs
  BY <1>1 DEF StopJobs
<1> QED  BY <1>0, <1>1, <1>3, <1>9, <1>15, <1>16, ClosedKept

LEMMA ReduceLossRecords ==
  ASSUME ~Redraws, TypeOK, LineageInv, RefinementInv, RecordsInv, ReduceLoss
  PROVE  RecordsInv'
<1>0. PICK o \in Nat : o = iter + 1
  BY RecordsFact
<1> DEFINE v == Loss(Total(Reported), Get(curZ))
           w == NonZeros(Get(curZ))
           q == [iters EXCEPT ![o].loss = v, ![o].card = w]
<1>1. /\ JobDone("loss") /\ job = "loss" /\ job' = "pRes" /\ iter' = iter + 1
      /\ iters' = Append([iters EXCEPT ![Len(iters)].loss = v, ![Len(iters)].card = w],
                         InnerTracker)
      /\ [Next]_vars
  BY DEF ReduceLoss, JobDone, Submit, Next, Driver
<1>2. Records(iters, o) /\ Len(iters) = o /\ o \in Nat /\ o \in 1..o
      /\ o \in Gen /\ o - 1 = iter /\ iter \in Nat /\ Updates = iter /\ Stashed = o
      /\ Target = XStage(o) /\ Generation = o
  BY <1>0, <1>1, RecordsFact, CounterFact
     DEF Gen, UpdateJobs, Stashed, Target, Generation
<1>3. curZ = Some(capturedZ(o))
  BY <1>2 DEF LineageInv, Closures
<1> HIDE DEF v, w
<1>4. /\ Others(q, iters, o, o) /\ q[o].loss = v /\ q[o].card = w
      /\ \A f \in Fields \ {"loss", "card"} : q[o][f] = iters[o][f]
      /\ Records(q, o)
  BY <1>2 DEF q, Records, Others, Fields
<1>5. v = LossOf(o) /\ w = NonZeros(capturedZ(o))
  <2> DEFINE L == [s \in Slice |-> LossTerm(input[s], capturedZ(o))]
  <2>1. /\ Computed(XStage(o))
        /\ \A s \in Slice : Reported[s] = LossTerm(Held(s, XStage(o)).data, capturedZ(o))
    BY <1>1, <1>2, AllReported DEF UpdateJobs, Contribution
  <2>2. \A s \in Slice : Held(s, XStage(o)).data = input[s]
    BY <1>2, <2>1 DEF RefinementInv, DataOf, Computed
  <2>3. Reported = L
    BY <2>1, <2>2 DEF Reported
  <2>4. Get(curZ) = capturedZ(o)
    BY <1>3, OptionFact
  <2> HIDE DEF L
  <2>5. v = Loss(Total(L), capturedZ(o)) /\ w = NonZeros(capturedZ(o))
    BY <2>3, <2>4 DEF v, w
  <2> QED  BY <2>5 DEF LossOf, L
<1>6. /\ \A i \in 1..o : iters'[i] = q[i]
      /\ iters'[o + 1] = InnerTracker
  <2>1. iters' = Append(q, InnerTracker)
    BY <1>1, <1>2
  <2> DEFINE T == {q[i] : i \in 1..o} \cup {InnerTracker}
  <2> HIDE DEF q
  <2>2. q \in Seq({q[i] : i \in 1..o}) /\ Len(q) = o
    BY <1>2, <1>4, SegmentIsSeq DEF Records
  <2>3. q \in Seq(T) /\ InnerTracker \in T
    BY <2>2
  <2> HIDE DEF T
  <2> QED  BY <1>2, <2>1, <2>2, <2>3
<1>7. \A i \in 1..(iter' + 1) : DOMAIN iters'[i] = Fields
  <2>1. DOMAIN InnerTracker = Fields
    BY DEF InnerTracker, Fields
  <2>2. \A i \in 1..(iter' + 1) : i \in 1..o \/ i = o + 1
    BY <1>1, <1>2
  <2> HIDE DEF q
  <2> QED  BY <1>4, <1>6, <2>1, <2>2 DEF Records
<1>8. iters'[1].dRes = -1
  <2>1. 1 \in 1..o
    BY <1>2
  <2>2. q[1].dRes = iters[1].dRes
    BY <1>4, <2>1 DEF Others, Fields
  <2> HIDE DEF q
  <2> QED  BY <1>6, <2>1, <2>2 DEF RecordsInv
<1>9. ASSUME NEW i \in 1..iter'
      PROVE  LossOk(i)' /\ (i > 1 => PrimalOk(i)' /\ DualOk(i)')
  <2> HIDE DEF q
  <2>1. CASE i = o
    <3>1. iters'[o].loss = v /\ iters'[o].card = w
      BY <1>2, <1>4, <1>6
    <3>2. capturedZ(o)' = capturedZ(o) /\ LossOf(o)' = LossOf(o)
      BY <1>1, <1>2, FiguresKept
    <3>3. LossOk(i)'
      BY <1>5, <2>1, <3>1, <3>2 DEF LossOk
    <3>4. /\ iters'[o].pRes = iters[o].pRes /\ iters'[o].pEps = iters[o].pEps
          /\ iters'[o].dRes = iters[o].dRes
      BY <1>2, <1>4, <1>6 DEF Fields
    <3>5. o > 1 => PrimalOk(o) /\ DualOk(o)
      BY <1>0, <1>1, <1>2 DEF RecordsInv, OpenOk, StopJobs
    <3>6. o \in 1..(iter + 1) /\ o - 1 <= Updates
      BY <1>2
    <3> QED  BY <1>1, <2>1, <3>3, <3>4, <3>5, <3>6, RecordKept
  <2>2. CASE i # o
    <3>1. i \in 1..iter /\ i \in 1..(iter + 1) /\ i <= iter /\ i - 1 <= Updates /\ i \in 1..o
      BY <1>1, <1>2, <2>2
    <3>2. iters'[i] = iters[i]
      BY <1>4, <1>6, <2>2, <3>1 DEF Others
    <3>3. LossOk(i) /\ (i > 1 => PrimalOk(i) /\ DualOk(i))
      BY <3>1 DEF RecordsInv
    <3> QED  BY <1>1, <3>1, <3>2, <3>3, RecordKept
  <2> QED  BY <2>1, <2>2
<1>10. ASSUME NEW i \in 1..(iter' + 1), i > iter' PROVE OpenOk(i)'
  <2>1. i = o + 1
    BY <1>0, <1>1, <1>2, <1>10
  <2>2. iters'[i].loss = -1 /\ iters'[i].card = -1 /\ iters'[i].dRes = -1
    BY <1>6, <2>1 DEF InnerTracker
  <2>3. job' # "uNorm"
    BY <1>1
  <2> QED  BY <1>1, <2>2, <2>3 DEF OpenOk, StopJobs
<1> QED  BY <1>7, <1>8, <1>9, <1>10 DEF RecordsInv

-----------------------------------------------------------------------------
LEMMA RecordsStep ==
  ASSUME NormOfNat, ~Redraws, TypeOK, LineageInv, RefinementInv, RecordsInv, [Next]_vars
  PROVE  RecordsInv'
<1>1. CASE UNCHANGED vars
  BY <1>1, RecordsWait DEF vars
<1>2. ASSUME NEW s \in Slice, Worker(s) \/ LosePartitions(s) PROVE RecordsInv'
  <2>1. UNCHANGED <<iters, iter, job, locals, curZ>>
    BY <1>2 DEF Worker, MakeDataEnv, InitLearningEnv, XUpdate, UUpdate,
                RunTask, LosePartitions, Store, cache, data
  <2> QED  BY <2>1, RecordsWait
<1>3. CASE ReduceZ
  <2>1. iters' = iters /\ iter' = iter /\ job = "z" /\ job' = "loss"
    BY <1>3 DEF ReduceZ, JobDone, Submit
  <2> QED  BY <2>1, RecordsWait DEF StopJobs
<1>4. CASE ReduceXNorm
  <2>1. iters' = iters /\ iter' = iter /\ job = "xNorm" /\ job' = "size"
    BY <1>4 DEF ReduceXNorm, JobDone, Submit
  <2> QED  BY <2>1, RecordsWait DEF StopJobs
<1>5. CASE Take
  <2>1. iters' = iters /\ iter' = iter /\ job = "take" /\ job' = "done"
    BY <1>5 DEF Take, JobDone, Submit
  <2> QED  BY <2>1, RecordsWait DEF StopJobs
<1>6. CASE ReduceLoss
  BY <1>6, ReduceLossRecords
<1>7. CASE ReducePRes
  BY <1>7, ReducePResRecords
<1>8. CASE ReduceSize
  BY <1>8, ReduceSizeRecords
<1>9. CASE ReduceUNorm
  BY <1>9, ReduceUNormRecords
<1> QED  BY <1>1, <1>2, <1>3, <1>4, <1>5, <1>6, <1>7, <1>8, <1>9 DEF Next, Driver

(* The trace that stats writes and admm.py reads: record i has the loss and *)
(* the number of nonzeros of the i-th z, the residuals of the z before it, *)
(* and -1 for a dual residual exactly where the solver took none.          *)
THEOREM RecordsAlwaysTrue ==
  ASSUME ~Redraws, NormOfNat PROVE SafetySpec => []RecordsAreTrue
<1>1. TypeOK /\ LineageInv /\ RefinementInv /\ RecordsInv /\ [Next]_vars => RecordsInv'
  BY RecordsStep
<1>2. TypeOK /\ RecordsInv => RecordsAreTrue
  BY RecordsFollow
<1> QED  BY <1>1, <1>2, RecordsInit, TypeCorrect, LineageCorrect,
            RefinementInvariant, PTL
         DEF SafetySpec

=============================================================================
