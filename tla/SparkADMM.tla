------------------------------ MODULE SparkADMM ------------------------------
(***************************************************************************)
(* `SLRSparkImmutable.solve` as it runs: a driver that submits one Spark   *)
(* job after the other, and workers that compute the partitions a job      *)
(* needs, cache them, and compute them again from their lineage when the   *)
(* cache has dropped them.                                                 *)
(*                                                                         *)
(* The lineage of a slice is a chain of stages:                            *)
(*   0          the DataEnv built from the samples                         *)
(*   1          the initial LearningEnv                                    *)
(*   2i, 2i+1   xLS and uLS of the i-th call of updateSet                  *)
(* The driver's variables live in one thread; Init is the state after the  *)
(* first `stats.resetIter`, and each driver action is the code between the *)
(* end of a job and the submission of the next one.                        *)
(***************************************************************************)
EXTENDS ADMMMath, Sequences

CONSTANTS
  FirstSlice,  \* partition 0, the one `take(1)` looks at
  Accelerated, \* TRUE: SLRSparkImmutable, FALSE: SLRSparkImmutableOld
  Redraws,     \* TRUE: the samples are drawn anew each time they are computed
  MaxLosses    \* how many times cached partitions may be lost

ASSUME SparkAssumption ==
  /\ FirstSlice \in Slice
  /\ Accelerated \in BOOLEAN /\ Redraws \in BOOLEAN
  /\ MaxLosses \in Nat

VARIABLES
  input,    \* the samples behind each partition of the RDD
  part,     \* slice -> stage -> the value last computed, kept as a record of
            \* it after the cache lost the partition
  mem,      \* slice -> the stages whose partition is cached
  losses,   \* how many times cached partitions were lost
  job,      \* the job the driver waits for
  report,   \* slice -> what its task of this job returned
  iter,     \* `iter` of iterate
  closureZ, \* i -> the z the closures of the i-th updateSet captured
  curZ, prevZ, \* Cache.curZ and Cache.prevZ
  locals,   \* primalResidual, xNorm and avNbSamples of stopLearning
  iters,    \* stats.iters, one record per resetIter
  result    \* the z of the environment that take(1) returns

data  == <<input, part, mem, losses>>
cache == <<closureZ, curZ, prevZ>>
vars  == <<input, part, mem, losses, job, report, iter, closureZ, curZ, prevZ,
           locals, iters, result>>

-----------------------------------------------------------------------------
(* An Option is a sequence of length at most one. *)
None == <<>>
Some(v) == <<v>>
Get(o) == o[1]

(* The operators named Mutant... are plausible slips in the definition that *)
(* follows; no specification uses them.                                     *)

Gen == 1..(NIters + 1)
DataStage == 0
XStage(i) == 2 * i
UStage(i) == 2 * i + 1
Stage == 0..UStage(NIters + 1)

UpdateJobs == {"z", "loss"}
StopJobs == {"pRes", "xNorm", "size", "uNorm"}
Job == UpdateJobs \cup StopJobs \cup {"take", "done"}

(* The generation of updateSet the current job belongs to, the stage of    *)
(* the partitions it maps over, and the slices it runs a task for.         *)
Generation == IF job \in UpdateJobs THEN iter + 1 ELSE iter
Target == IF job \in UpdateJobs THEN XStage(Generation) ELSE UStage(Generation)
Tasks == CASE job = "take" -> {FirstSlice}
           [] job = "done" -> {}
           [] OTHER -> Slice

(* LearningEnv, with the DataEnv it is an inner class of. *)
LearningEnv(d, x, u, z) == [data |-> d, x |-> x, u |-> u, z |-> z]
initLearningEnv(d) == LearningEnv(d, Zero, Zero, Zero)
xUpdateEnv(e) == LearningEnv(e.data, descent(e.data, e.x, e.u, e.z), e.u, e.z)
MutantZUpdateEnv(e, newZ) == e
zUpdateEnv(e, newZ) == LearningEnv(e.data, e.x, e.u, newZ)
uUpdateEnv(e) == LearningEnv(e.data, e.x, VSub(VAdd(e.u, e.x), e.z), e.z)

(* -1 marks what a record of stats.iters was not given. *)
InnerTracker == [loss |-> -1, card |-> -1, pRes |-> -1, pEps |-> -1,
                 dRes |-> -1, dEps |-> -1]

Init ==
  /\ input \in [Slice -> Sample]
  /\ part = [s \in Slice |-> [p \in Stage |-> None]]
  /\ mem = [s \in Slice |-> {}]
  /\ losses = 0
  /\ job = "z"
  /\ report = [s \in Slice |-> None]
  /\ iter = 0
  /\ closureZ = [i \in Gen |-> None]
  /\ curZ = None /\ prevZ = None
  /\ locals = [pRes |-> 0, xNorm |-> 0, avNb |-> 0]
  /\ iters = <<InnerTracker>>
  /\ result = None

-----------------------------------------------------------------------------
(* The workers.  A task that misses the cache walks the lineage up to the  *)
(* last cached ancestor and computes the stages between, caching each.     *)

Computes(s, p) ==
  /\ s \in Tasks /\ report[s] = None
  /\ p <= Target
  /\ p # DataStage => p - 1 \in mem[s]
  /\ \A q \in p..Target : q \notin mem[s]

Store(s, p, v) ==
  /\ part' = [part EXCEPT ![s][p] = Some(v)]
  /\ mem' = [mem EXCEPT ![s] = @ \cup {p}]
  /\ UNCHANGED <<input, losses, job, report, iter, cache, locals, iters,
                 result>>

Held(s, p) == Get(part[s][p])

(* What evaluating the RDD of samples yields: what is on disk, or a draw.  *)
SamplesOf(s) == IF Redraws THEN Sample ELSE {input[s]}

MakeDataEnv(s) ==
  /\ Computes(s, DataStage)
  /\ \E d \in SamplesOf(s) : Store(s, DataStage, d)

InitLearningEnv(s) ==
  /\ Computes(s, UStage(0))
  /\ Store(s, UStage(0), initLearningEnv(Held(s, DataStage)))

XUpdate(s, i) ==
  /\ Computes(s, XStage(i))
  /\ Store(s, XStage(i), xUpdateEnv(Held(s, UStage(i - 1))))

(* The z that the closures of the i-th updateSet carry to the workers. *)
MutantCapturedZ(i) == Get(curZ)
capturedZ(i) == Get(closureZ[i])

UUpdate(s, i) ==
  /\ Computes(s, UStage(i))
  /\ Store(s, UStage(i),
           uUpdateEnv(zUpdateEnv(Held(s, XStage(i)), capturedZ(i))))

(* The function the current job maps over the partitions. *)
Contribution(e) ==
  CASE job = "z"     -> VAdd(e.x, e.u)
    [] job = "loss"  -> LossTerm(e.data, capturedZ(Generation))
    [] job = "pRes"  -> Norm(VSub(e.x, e.z))
    [] job = "xNorm" -> Norm(e.x)
    [] job = "size"  -> Cardinality(DOMAIN e.x)
    [] job = "uNorm" -> Norm(e.u)
    [] OTHER         -> e.z

RunTask(s) ==
  /\ s \in Tasks /\ report[s] = None
  /\ Target \in mem[s]
  /\ report' = [report EXCEPT ![s] = Some(Contribution(Held(s, Target)))]
  /\ UNCHANGED <<data, job, iter, cache, locals, iters, result>>

(* The cache evicts some partitions of a slice, or the worker that holds   *)
(* them is lost.                                                           *)
LosePartitions(s) ==
  /\ losses < MaxLosses
  /\ \E lost \in SUBSET mem[s] :
       /\ lost # {}
       /\ mem' = [mem EXCEPT ![s] = @ \ lost]
  /\ losses' = losses + 1
  /\ UNCHANGED <<input, part, job, report, iter, cache, locals, iters, result>>

-----------------------------------------------------------------------------
(* The driver. *)

JobDone(j) == job = j /\ \A s \in Tasks : report[s] # None
Reported == [s \in Slice |-> Get(report[s])]
Submit(j) == job' = j /\ report' = [s \in Slice |-> None]

MutantStashZ(newZ) == curZ' = Some(newZ) /\ prevZ' = curZ'
stashZ(newZ) == prevZ' = curZ /\ curZ' = Some(newZ)

(* updateSet: the reduce of x + u, the new z, Cache.stashZ. *)
ReduceZ ==
  /\ JobDone("z")
  /\ LET z == ZUpdate(VTotal(Reported)) IN
       /\ stashZ(z)
       /\ closureZ' = [closureZ EXCEPT ![Generation] = Some(z)]
  /\ Submit("loss")
  /\ UNCHANGED <<data, iter, locals, iters, result>>

MutantReduceLoss ==
  /\ JobDone("loss")
  /\ iters' = Append([iters EXCEPT
                        ![Len(iters)].loss = Loss(Total(Reported), Get(curZ)),
                        ![Len(iters)].card = NonZeros(Get(curZ))],
                     InnerTracker)
  /\ Submit("pRes")
  /\ UNCHANGED <<data, iter, cache, locals, result>>

(* updateSet records loss and card and returns the lazy uLS; iterate counts *)
(* it, opens the next record, and stopLearning submits its first job.       *)
ReduceLoss ==
  /\ JobDone("loss")
  /\ iter' = iter + 1
  /\ iters' = Append([iters EXCEPT
                        ![Len(iters)].loss = Loss(Total(Reported), Get(curZ)),
                        ![Len(iters)].card = NonZeros(Get(curZ))],
                     InnerTracker)
  /\ Submit("pRes")
  /\ UNCHANGED <<data, cache, locals, result>>

MutantReducePRes ==
  /\ JobDone("pRes")
  /\ locals' = [locals EXCEPT !.pRes = Total(Reported)]
  /\ iters' = [iters EXCEPT ![Len(iters) - 1].pRes = Total(Reported)]
  /\ Submit("xNorm")
  /\ UNCHANGED <<data, iter, cache, result>>

ReducePRes ==
  /\ JobDone("pRes")
  /\ locals' = [locals EXCEPT !.pRes = Total(Reported)]
  /\ iters' = [iters EXCEPT ![Len(iters)].pRes = Total(Reported)]
  /\ Submit("xNorm")
  /\ UNCHANGED <<data, iter, cache, result>>

ReduceXNorm ==
  /\ JobDone("xNorm")
  /\ locals' = [locals EXCEPT !.xNorm = Total(Reported)]
  /\ Submit("size")
  /\ UNCHANGED <<data, iter, cache, iters, result>>

epsPrimal(avNb) == EpsPrimal(avNb, locals.xNorm, Norm(Get(curZ)))

MutantReduceSize ==
  /\ JobDone("size")
  /\ LET avNb == Total(Reported) IN
       /\ locals' = [locals EXCEPT !.avNb = avNb]
       /\ iters' = [iters EXCEPT ![Len(iters)].pEps = epsPrimal(avNb)]
  /\ Submit("uNorm")
  /\ UNCHANGED <<data, iter, cache, result>>

ReduceSize ==
  /\ JobDone("size")
  /\ LET avNb == AvNbSamples(Total(Reported)) IN
       /\ locals' = [locals EXCEPT !.avNb = avNb]
       /\ iters' = [iters EXCEPT ![Len(iters)].pEps = epsPrimal(avNb)]
  /\ Submit("uNorm")
  /\ UNCHANGED <<data, iter, cache, result>>

primalTest == epsPrimal(locals.avNb) > locals.pRes
dualResidual == DualResidual(Get(curZ), Get(prevZ))

MutantRecordDual(epsDual) ==
  iters' = [iters EXCEPT ![Len(iters)].dEps = epsDual,
                         ![Len(iters)].dRes = IF prevZ = None THEN @
                                              ELSE dualResidual]

(* The dual figures of the current record.  The old solver looks at them   *)
(* only when the primal test passes.                                       *)
RecordDual(epsDual) ==
  iters' = IF Accelerated
           THEN [iters EXCEPT
                   ![Len(iters)].dEps = epsDual,
                   ![Len(iters)].dRes = IF prevZ = None THEN @
                                        ELSE dualResidual]
           ELSE IF primalTest /\ prevZ # None
           THEN [iters EXCEPT ![Len(iters)].dEps = epsDual,
                              ![Len(iters)].dRes = dualResidual]
           ELSE iters

MutantStopLearning(epsDual) ==
  prevZ # None /\ (epsDual > dualResidual \/ primalTest)

stopLearning(epsDual) ==
  prevZ # None /\ epsDual > dualResidual /\ primalTest

(* stopLearning decides, and iterate returns or calls updateSet again. *)
ReduceUNorm ==
  /\ JobDone("uNorm")
  /\ LET epsDual == EpsDual(locals.avNb, Total(Reported)) IN
       /\ RecordDual(epsDual)
       /\ Submit(IF stopLearning(epsDual) \/ iter > NIters
                 THEN "take" ELSE "z")
  /\ UNCHANGED <<data, iter, cache, locals, result>>

Take ==
  /\ JobDone("take")
  /\ result' = report[FirstSlice]
  /\ Submit("done")
  /\ UNCHANGED <<data, iter, cache, locals, iters>>

-----------------------------------------------------------------------------
Driver == \/ ReduceZ \/ ReduceLoss
          \/ ReducePRes \/ ReduceXNorm \/ ReduceSize \/ ReduceUNorm
          \/ Take

Worker(s) == \/ MakeDataEnv(s) \/ InitLearningEnv(s)
             \/ \E i \in Gen : XUpdate(s, i) \/ UUpdate(s, i)
             \/ RunTask(s)

Next == Driver \/ \E s \in Slice : Worker(s) \/ LosePartitions(s)

SafetySpec == Init /\ [][Next]_vars

(* The driver goes on when a job ends, and Spark's scheduler never leaves  *)
(* a task of the running job aside; partitions need never be lost.         *)
Spec == SafetySpec /\ WF_vars(Driver) /\ \A s \in Slice : WF_vars(Worker(s))

-----------------------------------------------------------------------------
(* The shape of the state: the driver's counter and its list of records    *)
(* advance together, and only stages of the lineage are ever cached.       *)
TypeOK ==
  /\ input \in [Slice -> Sample]
  /\ part = [s \in Slice |-> [p \in Stage |-> part[s][p]]]
  /\ mem \in [Slice -> SUBSET Stage]
  /\ losses \in 0..MaxLosses
  /\ job \in Job
  /\ report = [s \in Slice |-> report[s]]
  /\ iter \in 0..(NIters + 1)
  /\ job \in UpdateJobs => iter <= NIters
  /\ job \notin UpdateJobs => iter >= 1
  /\ closureZ = [i \in Gen |-> closureZ[i]]
  /\ locals = [pRes |-> locals.pRes, xNorm |-> locals.xNorm,
               avNb |-> locals.avNb]
  /\ iters = [i \in 1..(iter + 1) |-> iters[i]]

(* A partition that is computed again after the cache lost it is the       *)
(* partition that was lost, so that a job may mix partitions that were     *)
(* cached with partitions that were rebuilt.  It needs the closures of     *)
(* updateSet to keep the z of their own generation, the updates to leave   *)
(* their argument alone, and the samples to be the same every time.        *)
RebuildSame ==
  [][\A s \in Slice, p \in Stage :
       part[s][p] # None => part'[s][p] = part[s][p]]_vars

(* While stopLearning runs, the environments it maps over carry the z of   *)
(* Cache.curZ, and Cache.prevZ is the z of the environments they were      *)
(* computed from: the primal residual (from the environments) and the dual *)
(* residual (from the Cache) are about the same iteration.                 *)
ResidualsMatch ==
  job \in StopJobs =>
    \A s \in Slice :
      /\ part[s][UStage(iter)] # None => curZ = Some(Held(s, UStage(iter)).z)
      /\ (part[s][UStage(iter - 1)] # None /\ iter > 1) =>
           prevZ = Some(Held(s, UStage(iter - 1)).z)
      /\ iter = 1 => prevZ = None

(* What the record of iteration i says: the loss and the cardinality are   *)
(* those of the i-th z, and the residuals are those of the z before it,    *)
(* since iterate opens a record before it runs the stop test; the last     *)
(* record of a run that returned has residuals only.  admm.py and the      *)
(* MATLAB plots read the records with that shift, and take -1 for absent.  *)
RecordsAreTrue ==
  \A i \in 1..Len(iters) :
    LET z(j) == Get(closureZ[j])
        r == iters[i]
        env(s, j) == Held(s, UStage(j))
        tested == i > 1 /\ (i <= iter \/ job \in {"take", "done"})
        primal(j) == Total([s \in Slice |-> Norm(VSub(env(s, j).x, z(j)))])
    IN  /\ i <= iter =>
             /\ r.loss = Loss(Total([s \in Slice |-> LossTerm(input[s], z(i))]),
                              z(i))
             /\ r.card = NonZeros(z(i))
        /\ tested => r.pRes = primal(i - 1)
        /\ tested => (r.dRes # -1 <=> i > 2 /\ (Accelerated \/ r.pEps > r.pRes))
        /\ r.dRes # -1 => r.dRes = DualResidual(z(i - 1), z(i - 2))
        /\ i > iter => r.loss = -1 /\ r.card = -1

-----------------------------------------------------------------------------
(* The inductive invariant behind the properties above: every partition    *)
(* ever computed is the one its lineage prescribes, what is cached was     *)
(* computed, and the driver's three copies of z agree.                     *)

(* How many times Cache.stashZ was called. *)
Stashed == IF job = "loss" THEN iter + 1 ELSE iter

DataOk(s) ==
  part[s][DataStage] # None => part[s][DataStage] = Some(input[s])
InitOk(s) ==
  part[s][UStage(0)] # None =>
    /\ part[s][DataStage] # None
    /\ part[s][UStage(0)] = Some(initLearningEnv(Held(s, DataStage)))
XOk(s, i) ==
  part[s][XStage(i)] # None =>
    /\ part[s][UStage(i - 1)] # None
    /\ part[s][XStage(i)] = Some(xUpdateEnv(Held(s, UStage(i - 1))))
UOk(s, i) ==
  part[s][UStage(i)] # None =>
    /\ part[s][XStage(i)] # None
    /\ i <= Stashed
    /\ part[s][UStage(i)]
         = Some(uUpdateEnv(zUpdateEnv(Held(s, XStage(i)), capturedZ(i))))

Lineage == \A s \in Slice : /\ DataOk(s) /\ InitOk(s)
                            /\ \A i \in Gen : XOk(s, i) /\ UOk(s, i)
CacheFilled == \A s \in Slice : \A p \in mem[s] : part[s][p] # None
Closures ==
  /\ \A i \in Gen : closureZ[i] = IF i <= Stashed THEN Some(capturedZ(i))
                                  ELSE None
  /\ curZ = IF Stashed = 0 THEN None ELSE closureZ[Stashed]
  /\ prevZ = IF Stashed <= 1 THEN None ELSE closureZ[Stashed - 1]

(* Each partition is a function of the samples and of the z's of the       *)
(* updates before it, in the lineage of updateSet's maps.                  *)
LineageInv == Lineage /\ CacheFilled /\ Closures

-----------------------------------------------------------------------------
(* The solver implements the synchronous algorithm.  An update of the      *)
(* algorithm is done once the first job of stopLearning has computed the   *)
(* whole of uLS; until then the driver, although it knows the new z, shows *)
(* the state before.                                                       *)
Updates == IF job = "pRes" THEN iter - 1 ELSE iter
zAt(i) == IF i \in Gen THEN Get(closureZ[i]) ELSE Zero
xAt(s, i) == IF i \in Gen THEN Held(s, UStage(i)).x ELSE Zero
uAt(s, i) == IF i \in Gen THEN Held(s, UStage(i)).u ELSE Zero

ADMM == INSTANCE ConsensusADMM WITH
  k    <- Updates,
  x    <- [s \in Slice |-> xAt(s, Updates)],
  u    <- [s \in Slice |-> uAt(s, Updates)],
  z    <- zAt(Updates),
  zOld <- zAt(Updates - 1),
  sol  <- result

(* The inductive invariant behind the refinement: what the tasks of a job  *)
(* report and what stopLearning keeps between its jobs are the figures of  *)
(* the current environments, and the driver is in an update exactly when   *)
(* the algorithm, too, goes on.                                            *)
Computed(p) == \A s \in Slice : part[s][p] # None

DataOf == \A s \in Slice, i \in Gen :
  /\ part[s][XStage(i)] # None => Held(s, XStage(i)).data = input[s]
  /\ part[s][UStage(i)] # None => Held(s, UStage(i)).data = input[s]

ReportOk == \A s \in Slice :
  report[s] # None => /\ part[s][Target] # None
                      /\ report[s] = Some(Contribution(Held(s, Target)))

ZOk == \A i \in Gen : i <= Stashed =>
  /\ Computed(XStage(i))
  /\ capturedZ(i) = ZUpdate(VTotal([s \in Slice |->
                       VAdd(Held(s, XStage(i)).x, Held(s, XStage(i)).u)]))

(* The figures of stopLearning, from the environments it maps over. *)
LocalsOk ==
  /\ job \in {"xNorm", "size", "uNorm"} =>
       locals.pRes = Total([s \in Slice |-> Norm(VSub(Held(s, UStage(iter)).x,
                                                     Held(s, UStage(iter)).z))])
  /\ job \in {"size", "uNorm"} =>
       locals.xNorm = Total([s \in Slice |-> Norm(Held(s, UStage(iter)).x)])
  /\ job = "uNorm" => locals.avNb = ADMM!AvSize

StopNow == ADMM!Converged \/ ADMM!Exhausted
DecisionOk ==
  /\ (job \in UpdateJobs \cup {"pRes"} /\ Updates >= 1) => ~StopNow
  /\ job = "take" => StopNow
  /\ result # None => job = "done"

RefinementInv ==
  /\ \A i \in Gen : i <= Updates => Computed(UStage(i))
  /\ DataOf /\ ReportOk /\ ZOk /\ LocalsOk /\ DecisionOk

ImplementsADMM == ADMM!Spec
ImplementsADMMSafety == ADMM!SafetySpec

=============================================================================
