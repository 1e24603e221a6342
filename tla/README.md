# A verification of SparkOpt

SparkOpt solves sparse logistic regression by the consensus form of ADMM on
Spark, and carries the scripts that rent an EC2 cluster for it. This directory
holds TLA+ modules translated from the code, the TLC configurations that check
them on small instances, and proofs of the most important theorems for every
value of the constants. Paths below are relative to the repository; `admm/`
stands for `src/main/scala/admm/`.

## 1. Inventory

### The system's parts

| Part | Where | State it keeps | Operations |
|---|---|---|---|
| Consensus ADMM solver | `admm/opt/SLRSparkImmutable.scala`, `solve` | the driver's `Cache` (current and previous z), `iter`, `stats`; on the workers, the cached partitions of the `LearningEnv`s (x, u, z and the samples) | `updateSet`, `stopLearning`, `iterate`; `xUpdateEnv`, `zUpdateEnv`, `uUpdateEnv` |
| The solver before it was accelerated | `admm/opt/SLRSparkImmutableOld.scala` | the same | the same, with another order of tests in `stopLearning` and another `descent` |
| Local descent | `descent`, `backtracking` in both solvers | the x of one slice | a step along the gradient, its length by backtracking |
| Vector functions | `admm/util/ADMMFunctions.scala`, `ListHelper.scala` | none | `shrinkage`, `mean`, random vectors and matrices; `chunk` |
| Statistics | `admm/stats/StatTracker.scala` | a list of records, one per iteration, each with its figures and -1 for what is absent | `newIter`, `endIter`, `resetIter`, JSON |
| Cross validation | `admm/opt/SolveValidation.scala`, `admm/trials/KFoldTrial.scala` | random ids of the slices, the fold of each id, solutions and weights | `rddWithIds`, `kFoldCrossV`, the comparison with one solve |
| Success rate | `admm/stats/SuccessRate.scala` | none | counts of wrongly predicted positives and negatives, per slice and summed |
| Data | `admm/data/*.scala` | none (RDDs) | synthetic samples, Reuters files, standardised matrix files, cut in slices |
| Trials | `admm/trials/*.scala`, `admm/test/TestAlgorithm.scala` | an `SLRConfig`, an output file | `Launcher` picks a trial by its number, keyword arguments fill the configuration |
| Cluster life cycle | `scripts/mesos_ec2.py` | none of its own: EC2 instances, their states and their security groups | launch, destroy, stop, start, login, get-master |
| Cluster set-up | `scripts/deploy.amazon64/root/mesos-ec2/*` | files and daemons on the nodes | `setup`, `setup-slave`, `start-mesos`, `stop-mesos`, `copy-dir`, `redeploy-mesos`, `mesos-daemon` |
| Laptop driver | `scripts/admm.py`, `trials.py` | the address of the master, once looked up | copy code, launch a trial, fetch and plot its output |
| boto | `scripts/boto-2.0b2`, of which `boto/connection.py` | a pool of connections per host and scheme | `make_request` and `_mexe`: send, try again, follow a redirection |

### How they interact

The driver program is sequential. It builds RDDs lazily and submits *jobs* to
Spark (`reduce`, `count`, `take`); Spark runs one task per partition on the
workers, in any order, computing what the cache does not hold from the lineage
of the RDD. What the driver and the tasks share is the value of the closures:
a closure carries the values its variables had when the job was submitted. A
trial calls a data source, then the solver, then `SuccessRate`, and writes the
statistics. The laptop scripts reach the cluster through ssh and rsync and the
cloud through boto.

### Hard behaviours

* **Laziness and the cache.** `uLS` is not computed when `updateSet` returns.
  The first job of `stopLearning` computes it, and a partition dropped by the
  cache is computed again in any later job, from samples on, through every
  generation of x, z and u before it.
* **Two sources in one test.** `stopLearning` takes x, u and z from the
  partitions, and z and the previous z from the driver's `Cache`.
* **Random functions inside a map.** `generate_data` and `rddWithIds` draw at
  random inside the map that defines the RDD: what is rebuilt differs from what
  was lost.
* **Off-by-one by design.** `nIters + 1` updates are made; the figures of one
  update are in two records.
* **A cloud without transactions.** `mesos_ec2.py` checks, then acts, on a
  state other invocations change, and may be interrupted between two calls.

* **Scripts that look at no status.** `setup` starts its jobs in the background
  and goes on whatever they did; `admm.py` joins commands with semicolons and
  sees the last one's failure only.
* **What earlier runs left.** HDFS directories, daemons, known addresses and local
  outputs survive a run, a stop or a process, and the next run meets them.
* **A connection lent before it is free.** boto puts a connection back into its
  pool before the answer on it has been read, and into the queue of its own scheme
  even when a redirection had left that scheme.

Every such place is listed, at its line, under `hazards` in `PROJECT.json`,
with the properties that would catch it going wrong.

### What makes each part correct

* Solver: it computes the iterates of the synchronous consensus algorithm,
  whatever the order of tasks and whatever partitions are lost; it stops on
  Boyd's criteria, evaluated for one and the same iteration, or on the limit;
  it returns; its statistics are those of the iterates they are attributed to.
* Algorithm: the duals of the slices cancel.
* Cross validation: a sample is never used to train and to validate the same
  solution, each is used to validate once, and the weights are success rates.
* Cluster: scripts that follow one another never leave two clusters of a name; a
  completed destroy is final; racing launches leave complete groups; each takes
  its own instances, and ends.
* Set-up: a daemon starts only on a node that has what it needs; after any number
  of runs, stops and starts one daemon runs per node, and the slaves' blocks
  belong to the name directory of the master.
* Data: the slices part the documents, a row of a matrix holds its document's
  values, and the success rate counts every document once.
* Laptop driver: the figures a call returns are of its own run of the current
  code; a call that ends the cluster has ended it.
* boto: a request is repeated only because something went wrong with it, and ends;
  what is idle in the pool is accounted for by requests.

## 2. Modules

| Module | What it is |
|---|---|
| `ADMMMath` | the vectors and formulas of `updateSet` and `stopLearning` |
| `ConsensusADMM` | the abstract specification of `solve`: one step per update of all slices |
| `SparkADMM` | `solve` as it runs: driver, jobs, tasks, lineage, cache, losses, statistics |
| `MCConsensusADMM`, `MCSparkADMM` | their instances for TLC |
| `SparkADMM_proofs` | all its safety properties: lineage and cache, the refinement of `ConsensusADMM`, the records |
| `ConsensusADMM_proofs` | the duals cancel; what the folds of the community modules satisfy when they sum integers |
| `KFold` | cross validation: the trial, `kFoldCrossV`, and the random ids they filter by |
| `MCKFold` | its instance for TLC |
| `KFold_proofs` | all its properties, for any slices, folds, ids and losses |
| `Ec2Cluster` | the life of a cluster under concurrent, interruptible runs of `mesos_ec2.py` |
| `MCEc2Cluster` | its instances for TLC |
| `Ec2Cluster_proofs` | all its safety properties, for any invocations, nodes, rules and failures |
| `MesosSetup` | `setup`, run again on what earlier runs, stops and interruptions left |
| `MCMesosSetup` | its instance for TLC |
| `MesosSetup_proofs` | all its safety properties, for any nodes, runs, passes and faults |
| `Datasets` | from documents in files to slices, matrices and a success rate |
| `MCDatasets` | its instance for TLC |
| `Datasets_proofs` | all its properties, for any files, windows, slices and orders |
| `AdmmDriver` | the laptop's session: the functions of `trials.py` and the commands of `admm.py` |
| `MCAdmmDriver` | its instance for TLC |
| `AdmmDriver_proofs` | all its properties, for any functions in order and any failures |
| `BotoRequest` | the requests of boto that share a pool of connections |
| `BotoRequest_proofs` | only unread answers make a request fail; the pool grows only with the requests at once and with redirections across schemes |
| `MCBotoRequest` | its instance for TLC |

### ADMMMath

A double is an integer count of some small unit, division rounds down, and the
sum over the slices is a fold over a finite set: a model of numbers in which the
order of a `reduce` does not matter. What one slice computes from its samples
(`Descent`, `LossTerm`) and the norm are operator constants, so the theorems
hold for any local solver and any norm. `Kappa > 0` is assumed: with `lam = 0`
the shrinkage of a zero is `max(0, 1 - 0/0) * 0`, which is not a number.

### ConsensusADMM

Variables x, u (per slice), z and the previous z, the number k of updates, the
returned vector. `Update` is one `updateSet` for all slices at once, `Return`
the end of `iterate`. `Converged` is `stopLearning`, `Exhausted` is
`iter > maxIter`.

### SparkADMM

The lineage of a slice is a chain of stages: 0 the `DataEnv`, 1 the initial
`LearningEnv`, and 2i, 2i+1 the environments `xLS` and `uLS` of the i-th
`updateSet`. `part[s][p]` is the value last computed for stage p of slice s and
`mem[s]` the stages whose partition is cached. `part` keeps a value the cache
lost, as a record of it, but no task reads a stage outside `mem`.

| Action | Code |
|---|---|
| `MakeDataEnv`, `InitLearningEnv` | the maps of `learningEnvs` |
| `XUpdate`, `UUpdate` | `_.xUpdateEnv`; `_.zUpdateEnv(z)` with the z the closure captured, then `_.uUpdateEnv` |
| `RunTask` | the mapped function of the current job, one answer per slice |
| `LosePartitions` | the cache evicts partitions of a slice, or its worker is lost |
| `ReduceZ` | the new z, `Cache.stashZ`, submission of the loss job |
| `ReduceLoss` | `stats.cur.loss` and `card`, `iter += 1`, `stats.resetIter`, first job of `stopLearning` |
| `ReducePRes`, `ReduceXNorm`, `ReduceSize`, `ReduceUNorm` | the jobs of `stopLearning` and what is recorded after each; the last decides |
| `Take` | `take(1)(0).z` |

A task that misses the cache walks back to the last cached ancestor and computes
the stages between, one action each, so that losses and the tasks of other
slices interleave with it. `Accelerated = FALSE` is `SLRSparkImmutableOld`,
which records the dual figures only when the primal test passes. `Redraws` says
whether the samples are drawn when they are computed, as `generate_data` does,
or read from files.

Abstracted: the `count` job before the first update (the number of slices is a
constant); the trackers of times and of gradient norms, which the workers
update in copies the driver never sees; printing. `sc.parallelize` may put
several slices in one partition: they are then lost together, which the model
does in several steps. An update of one partition is one step, so a loss in
the middle of a descent is a loss before it.

### KFold

`drawn[s]` is the sequence of the ids drawn for slice s, the last one in force.
A *datum* `<<s, i>>` stands for the samples drawn together with the i-th id: id
and samples come from the same map (`rddWithIds`), so a lost partition has both
anew. `outer` is the trial's `kMap(0)`, the ids of the training slices; `n` what
`rdd.count()` found; `folds` the `kMap` of `kFoldCrossV`; `trained` the data seen
by the solve that runs; `slns` the solutions with the data they were scored on.

| Action | Code |
|---|---|
| `SplitIds` | the `assert` and `take(k)` of `KFoldTrial`, with the filters made from it |
| `Count`, `Chunk` | the first jobs of `kFoldCrossV`: `rdd.count()`, then the list of ids cut by `ListHelper.chunk` |
| `SolveFold`, `TakeFold`, `ScoreFold` | `solve` on the training slices of a fold, the two jobs of `successRate` on its validation slices, the weight |
| `SolveReg` | the solve on all training slices, `zEstReg` |
| `TakeK`, `ScoreK`, `TakeReg`, `ScoreReg` | the success rates of the two solutions, the line of the output, the next k |
| `Fail` | `Raises`: the failed assertion, a chunk size of zero, a missing fold, a job over an RDD that has no elements |
| `LosePartition` | a cached partition is lost, and drawn again by the next job |

Abstracted: a solve is `SolveJobs` jobs over its training set (what they compute
is `SparkADMM`'s subject); a loss and the rebuilding that the next job does are
one step, since no value is read in between; the jobs whose results are only
printed, or collected and never read, are left out, and so is the buffer of the
`FileWriter`. Ids are model values: of `Random.nextInt`'s results only the
coincidences matter.

### Ec2Cluster

One cluster name, the groups and instances EC2 keeps under it, and a set of
invocations of `mesos_ec2.py`, each run once. `groups`, `rules`, `inst`, `reqs`
are EC2's; the rest is per invocation: the action of its command line, `pc`,
`at` (the role, in a phase that goes by roles), `todo` (the calls left in a
loop), `nodes` (the three lists of nodes, told apart by role) and `host`, the
address of `master_nodes[0]` as last seen. An address is an instance and the
number of its starts, since a stop and a start change it. The loops over the nodes
of a role take them in an order of EC2's, which is not specified (`SetToSeq`).

| Action | Code |
|---|---|
| `LookUpGroup`, `CreateGroup` | `get_or_make_group`, which lists, then creates |
| `Authorize` | one `authorize` call of a group that had no rule when it was looked up |
| `CheckRunning` | the search for active instances, which refuses the launch |
| `LaunchSlaves`, `LaunchMasters`, `LaunchZoo` | `image.run`, one reservation each |
| `RequestSlaves`, `GetGranted` | the spot requests, the end of the polling loop |
| `WaitForInstances`, `DeployFiles`, `SetUp` | `wait_for_cluster` role by role, the rsync loop, the ssh commands |
| `FindExisting` | `get_existing_cluster`, for resume, destroy, stop and start |
| `CallInstance` | one `terminate()`, `stop()` or `start()` of the loops |
| `Fail` | an interruption, or any call that raises |
| `Settle`, `Die`, `GrantSpot` | EC2 itself |

External assumptions: EC2 refuses a group or a rule that exists, a stop of an
instance that is pending or gone, and a start of one that is stopping or gone;
the script has no handler for any of these. All answers of EC2 are current.
`login` and `get-master` change nothing and are left out, as are the question
that `stop` asks, the choice of a zone and the look-up of the image (whose
failure is a `Fail` before anything is launched). The bare `except` of the rsync
loop also swallows an interruption, except in its `sleep`, where `Fail` strikes.
A call of `image.run` starts one reservation: that boto may send it again after an
answer was lost, and start two, is not in this model. A request is active until its
instance is gone, so a launch may wait for ever for one that was granted.

### MesosSetup

The first master runs `setup`: a list of phases, each of which starts one job
per node of a set (`Targets`), then waits. `at` is the phase, `jobs` the nodes
whose job has not ended. What is left on the nodes is `has` (the items copied or
prepared, with the round, that is the run of the script, that did it), `daemons`,
and for each of the two HDFS the namespace of the name directory (`name`), of the
running name node (`served`), of the data directories (`data`) and of the running
data nodes (`joined`).

| Action | Code |
|---|---|
| `Begin` | `setup_cluster` runs the script; `setup-slave` on the master itself |
| `Wait` | the `wait` between two phases, and the jobs of the next one |
| `Try`, `EndPass` | the loop that waits for slow nodes, over `TODO` and `NEW_TODO` |
| `Job` | one background job ends: rsync, `setup-slave`, `redeploy-mesos`, `start-dfs.sh`, `mesos-daemon` |
| `FormatEphemeral`, `BeginFormat`, `FormatPersistent` | the formatting, with the question Hadoop asks, and the start of the name nodes |
| `Answer`, `Hang`, `Interrupt` | a node comes up or stops answering; the terminal is closed |
| `Restart` | `mesos_ec2.py stop` and `start`: all nodes, or the masters only |

Abstracted: the contents of the files; the start of the daemons of Hadoop's
second master and of MapReduce, which hold no state the script meets again. A
copy is one step: what a cut rsync leaves is as good as nothing, and the next
run's rsync completes it. The formatting of the ephemeral HDFS is one step too; that of
the persistent one, which is never repeated, may be cut short.
External assumptions: Hadoop 0.20 refuses a data directory of another namespace,
starts no second daemon of a kind, and asks before it formats what exists; what is
under `/mnt` is lost in a stop. Observed, beyond the finding of section 3: the
loop tries a node up to 15 times where its comment says 3, and a file system whose
formatting was interrupted is never formatted again, so that its name node will
not start (`HalfFormatted`; `ReadySlavesServe` says nothing of it).

### Datasets

One behaviour is one file, read by one source under one configuration: `groups`
are the slices, `rows[k]` the order in which Spark gave the members of slice k to
the code that fills its matrix, `margin` the sign of the solution at each
document, `counts` and `total` what `SuccessRate` finds.

| Action | Code |
|---|---|
| `Read` | the file; `bMap` collected by the driver; `generate_data` |
| `Group` | the filters, `groupBy` or `groupByKey`, and `rdd.count()` |
| `Build`, `Rebuild` | `samples` and `outputs` of a slice, which is built anew when it was lost or not cached |
| `Solve` | `solve`, of which only the signs at the documents are kept |
| `Count`, `Reduce` | the sums of a slice, cut to integers, and their sums |

Abstracted: all values of a file are alike, so that a document is its set of
features. A matrix is what Colt makes of it: a map from row * columns + column,
which `setQuick` fills without a look at the bounds, and this is why a value in a
column beyond the last one appears in the next row (`Stored`, `RowOf`). The
solution is any that gives each document a sign; one that is not a number gives
the sign 0. The label is that of `outputs(0)`, which `SuccessRate` looks at even
when the solver was given another topic. `ADMMFunctions`' random sparse vectors are
left out: what a sample of `generate_data` holds is random.

### AdmmDriver

The user calls functions of `trials.py` one after another; a function is its
sequence of commands (`body`), of which `todo` are left. `address` is the global
of `admm.py`; `remote[h]` the code, the HDFS names and the output on the master h;
`files` the outputs fetched to the laptop.

| Action | Code |
|---|---|
| `Call`, `NewProcess`, `Compile` | the user |
| `MesosEc2`, `DeclineStop` | `launch_cluster`, `start_cluster`, `stop_cluster`, `destroy_cluster` |
| `make_master` | `get_address`, and the address kept |
| `code_sync`, `init_sync` | `rsync_remote` and `copy-dir`, joined by semicolons |
| `Store` | `store_hdfs`: wget, put, rm in one ssh |
| `Run`, `Fetch`, `Read` | the launcher, the output fetched, `load_output` |
| `LaunchLocal` | `sbt run-main` on the laptop |

A command that fails raises (`Raises`), one hidden by a later command does not
and is recorded in `masked`. The cluster is `Ec2Cluster` reduced to its states;
another cluster of the account may have a master too, and `get_address` takes any
group with "master" in its name. Left out: plotting;
`features_trial`, whose run is commented out; `local_test`, which is `simple_test`
with other plots. `run_samples` has one of its three numbers of features.
Observed: `start_stop_trial` and the second half of `instance_size_test` keep the
address that the cluster had before it was stopped or destroyed, and raise with
the new cluster running; the `local` form of `simple_hdfs_test` writes one file
and reads another; `put` refuses a name of an earlier run, unseen. The properties
say what holds nevertheless, and name these cases. `simple_hdfs_remote_test` and
`remote_test` call functions with arguments that they do not take, and raise at
once; they are not modelled.

### BotoRequest

Requests that share one `AWSAuthConnection`. A connection is what a later request
can notice of it: the request whose answer is unread on it, or `Free`. `pool`
has a queue of idle connections for each host and scheme, `conn[r]` is the one that r
holds, `secure[r]` the scheme it was asked for in, `i[r]` the retries. A redirection
asks the queue of the scheme it names; an answer always puts the connection into the
queue of the connection object's own scheme.

| Action | Code |
|---|---|
| `Begin` | `get_http_connection`, at the top of `_mexe` |
| `Send`, `Lost` | the request goes out, or the socket fails |
| `Refused` | `getresponse` raises, since another answer is unread |
| `Busy`, `Moved`, `Return` | a 5xx or 408, a redirection, any other answer |
| `Read` | the caller reads the body |

Left out: `KeyboardInterrupt`, `sender`, proxies, which of two exceptions is
raised, the sleep between retries, the scheme a connection really speaks (nothing looks at
it again), and the eviction of the least used queue (of 20).

## 3. Runs

| Run | Module, configuration | Question |
|---|---|---|
| `consensus` | `MCConsensusADMM`, `Consensus.cfg` | does the algorithm keep the duals balanced, make at most `nIters + 1` updates and return, for data on both sides of zero? |
| `spark` | `MCSparkADMM`, `Spark.cfg` | when tasks interleave and partitions are lost: does `solve` implement the algorithm, fairness and with it the return included? Is what is rebuilt what was lost, are the stop test and the statistics about the right iteration, do the invariants of the proofs hold? |
| `spark_old` | `MCSparkADMM`, `SparkOld.cfg` | does the old solver decide the same, over runs long enough to converge? |
| `kfold` | `MCKFold`, `KFold.cfg` | is no sample both trained on and scored, is each validated once, and does no k fail without a loss, when ids coincide and a partition is lost between any two jobs? |
| `kfold_weights` | `MCKFold`, `KFoldWeights.cfg` | a violation: a weight is not a success rate |
| `ec2` | `MCEc2Cluster`, `Ec2.cfg` | with up to two scripts at a time, any one failing anywhere: are there instances of two launches when scripts follow one another, is a completed destroy final, do racing launches leave complete groups, does each take its own (spot) slaves? |
| `ec2_ends` | `MCEc2Cluster`, `Ec2Ends.cfg` | does every script end, or else retry for ever against a master it cannot reach; and does each but `--resume` end when it is alone? |
| `setup` | `MCMesosSetup`, `Setup.cfg` | run twice, with a fault and a stop between: does a slave start only when it is equipped, does one daemon run per node, do slaves that answer serve, do their blocks belong to the master's name directory, does the script end? |
| `setup_zoo` | `MCMesosSetup`, `SetupZoo.cfg` | a violation: the ZooKeeper quorum is started on nodes that were never set up |
| `datasets` | `MCDatasets`, `Datasets.cfg` | do slices part the documents, do rows hold their documents whatever their order, does the success rate count every document once? |
| `driver` | `MCAdmmDriver`, `Driver.cfg` | are the figures a call returns its own, and is the cluster gone after a call that ends it, whatever earlier calls left and whichever command fails? |
| `boto` | `MCBotoRequest`, `Boto.cfg` | can only an unread answer make a request fail, by what does the pool outgrow the requests at once, does every request end, unless it is redirected for ever? |

**Bounds.** The solver's instances have two slices (the smallest number with an
interleaving and with two different data), two coordinates (the intercept and a
shrunk one) and two possible data per slice; two slices whose data is "near"
converge after two updates, so that both ways of returning are taken; the other
assignments exhaust the limit. `NIters` is 2 where tasks interleave: the third
update sees no kind of state the second does not (a current z, a previous z, a
generation before); `spark_old` has 8. `MaxLosses` bounds how often partitions
are lost, each time any subset of a slice's cache; one loss can hit either
slice in any phase, and the proofs of section 4 cover any number.
`consensus` has three slices and four data on both sides of zero,
with sums that do not divide evenly.

`kfold` has four slices, the fewest with two values of k above one and a slice
left to validate, and k from 2 to 3, so that what one k leaves behind meets the
next; with k = 3 each fold has one slice, with k = 2 as well, and coinciding ids
make `TrainSet` larger than k and the folds uneven. Five ids are one per draw:
every pattern of coincidences of four slices and one redraw. One loss, at any
point of the trial, may hit a slice of any role.

The cluster has two or three invocations: a launch, one that interferes, one
that meets what they left. `ec2` has one slave and one master per launch, and
two rules in one group so that it is found with none, some or all of them; it
leaves out resume, which calls nothing that changes the cloud. `ec2_ends` has two
masters, and one ZooKeeper node in place of three, which no property tells apart.
One failure, in the first, leaves a state that later invocations must cope with;
in the second the overlap of two scripts does what a failure would.

`setup` has two masters, a slave and a ZooKeeper node, one node for each set that
some phase goes through; it runs twice, so that the second run meets every state
the first can leave: ended, cut short anywhere, or ended and stopped, with a
stop of all nodes or of the masters only. Two passes over slow nodes stand for 15.
`datasets` has files of up to three documents and three features with windows of
two or three, in one to three slices: documents and features below, in and beyond
the window, a document without features, an uneven division, more slices than
documents. `driver` has three calls, the least in which a call meets the output
of one call and the address of another; two versions of the code, two launches,
another cluster, one failure. `boto` has two requests, two hosts and room for
one idle connection in a queue (20 in the code): the second request meets a full
queue, filled by a crowd or by redirections to the other scheme, or a connection
with the first one's answer; two retries (5 in the code), so that one is followed by
another. More requests are the theorems' subject.

**Deadlock.** `CHECK_DEADLOCK FALSE` is set where the program ends: after
`solve`, a trial or the last script has ended there is nothing left to do.

**Fairness.** `WF_vars(Driver)`: the driver's thread goes on when a job has
ended. `WF_vars(Worker(s))`: Spark's scheduler runs every task of the current
job. Nothing is assumed about losses but that there are finitely many, which
`MaxLosses` states: were partitions lost for ever, no run would end, and the
code cannot promise more. `Ec2Cluster`
has weak fairness of each script's own steps, which is a process that runs, and
of `Settle`, EC2 completing what it accepted; no script has to be started and no
spot request granted. `MesosSetup` has weak fairness of the script's steps, its
jobs included: ssh and rsync give up on a node that does not answer.
`BotoRequest` has it of a request under way: a socket answers or fails in the
end; a service that redirects for ever is not excluded, and `Ends` says so. `ConsensusADMM` has `WF_vars(Next)`, and
`ImplementsADMM` shows that the weaker assumptions above imply it.

**Findings.** See `findings` in `PROJECT.json`.


* `kfold_weights`: the paper (`etc/admmpaper/admmpaper.lyx`) weights the solutions
  of the folds "with their success rate". `total - wrongPositives +
  wrongNegatives`, written without parentheses, adds the second count.
* `setup_zoo`: `setup` loops over `$ZOO`, which nothing assigns; the list of the
  ZooKeeper nodes is in `$ZOOS`. So these nodes get no id and no files, and the
  quorum that `setup` starts on them a few lines later has nothing to run.

## 4. Proofs

Checked by TLAPS for any finite set of slices, any coordinates, any iteration limit,
any descent, loss and norm, and any number of losses:

* `TypeCorrect` : `SafetySpec => []TypeOK`. The driver's `iter`, its job and the
  length of `stats.iters` stay in step; only stages of the lineage are cached.
* `LineageCorrect`, `RebuildIsSame`, `ResidualsAlwaysMatch`, under `~Redraws`:
  `[]LineageInv`, `RebuildSame`, `[]ResidualsMatch`.
* `RefinementInvariant`, `SolveImplementsADMM`, under `~Redraws`:
  `[]RefinementInv`, and `SafetySpec => ADMM!SafetySpec`.
* `RecordsAlwaysTrue`, under `~Redraws` and `NormOfNat`: `[]RecordsAreTrue`, of both
  versions of the solver.
* `VectorsTyped`, `DualsCancel`, under `DescentOnVectors`: `SafetySpec => []TypeOK`
  and `SafetySpec => []DualsBalanced` of `ConsensusADMM`, and so, by the
  refinement, of the iterates of `solve`.
* `CrossTyped`, `SamplesAreHeldOut`, `EachValidatedOnce`, `CrossNeverFails` :
  `SafetySpec => []TypeOK`, `[]HoldOut`, `[]ValidatedOnce`, `[]NoFailure` of `KFold`,
  for any numbers of slices and folds, any ids and any number of losses.
* `DataTyped`, `SlicesAlwaysPart`, `RowsAlwaysDocuments`,
  `CountsAlwaysOfDocuments` : all invariants of `Datasets`, for any files, windows,
  configurations, orders of documents and slices built again.
* `SetupTypeCorrect`, `OneDaemonPerNode`, `BlocksAlwaysBelong`, `SlavesEquipped`,
  `ReadyOnesServe` : `SafetySpec => []TypeOK`, `[]NoStrayDaemon`, `[]BlocksBelong`,
  `[]EquippedBeforeStart`, `[]ReadySlavesServe` of `MesosSetup`, for any masters,
  slaves and ZooKeeper nodes, any number of runs, of passes and of faults.
* `BotoTypeCorrect`, `OnlyUnreadBodies`, `PoolIsAccountedFor` : `Spec => []TypeOK`,
  `[]OnlyUnreadBodiesBlock`, `[]PoolNeedsCrowdOrStrays` of `BotoRequest`, for any finite
  set of requests, any hosts, any number of retries and any size of the pool.
* `Typed`, `OwnSlaves`, `OneAtATime`, `StaysDestroyed`, `GroupsSettled` :
  `SafetySpec => []TypeOK`, `[]SlavesAreMine`, `[]OneCluster`, `[]DestroyedForGood`,
  `[]GroupsSettle` of `Ec2Cluster`, for any finite set of invocations, of which any
  number run at once, any numbers of masters, slaves, ZooKeeper nodes and rules,
  any failures, and loops in any order that EC2 lists their instances in.

* `TypesOk`, `NothingLeftRunning`, `ResultsAreOwn` : `Spec => []TypeOK`,
  `[]LeavesNothingRunning`, `[]ReturnsOwnResults` of `AdmmDriver`, for any functions
  whose commands are in order and any numbers of calls, edits, launches, failures.

**The argument for the solver.** "What is rebuilt is what was lost" is not inductive. It
becomes so as `LineageInv`: every stage ever computed is the function of its
predecessor that `updateSet`'s map prescribes, what is cached was computed, and
`curZ`, `prevZ` and the z captured by each generation's closures agree with how
often `stashZ` was called. A recomputed stage then equals the recorded one
because its predecessor is the recorded one and the captured z never changes.
`ResidualsMatch` follows from the same invariant.

The refinement needs more: `RefinementInv` says that what a task reported is its
contribution as computed from the recorded environments, that every z is
`ZUpdate` of the sum over the x-stages of its generation, that the figures
`stopLearning` keeps between its jobs are those of the current environments,
and that the driver is in an update exactly when neither `Converged` nor
`Exhausted` holds. The refinement mapping shows the new z only when the first
job of `stopLearning` has ended: that job forces the whole of `uLS`, and until
then some slice's u does not exist. So `ReducePRes` is the abstract `Update`,
`Take` is the abstract `Return`, and every other action stutters.

A record is opened when `iterate` has counted an update and is filled job by job,
so `RecordsInv` says for each job of the next test which of its fields hold what,
and of the closed records all that `RecordsAreTrue` says. It holds with losses
because what a record was computed from, the environments of an older generation
and the captured z, is by `LineageInv` what it was. Whether the dual residual is
in a record is read off the mark -1, so `NormOfNat` is needed: a norm is never
negative.

`DualsBalanced` bounds a sum over the slices, by a bound that does not depend on
the history: in one `Update` the new u is u + x - z, whose sum is the sum of u + x
less `NSlices` times the new z (`NewDrift`), and z is that sum's mean, rounded and
shrunk (`ZUpdateNear`). So only `TypeOK` has to be carried along. That a sum over a
finite set is an integer and is linear is proved from a smallest set for which it
would fail: the folds of the community modules are functions on the subsets of the
set summed over, and these are well-founded under inclusion.

**The argument for the cross validation.** `HoldOut` speaks of solutions and
scores of the past, and the filters are applied to the ids of the present. The
inductive invariant `HoldOutInv` says that every datum recorded was drawn, and
that the id drawn *with it* passes the filter it was recorded under: in `outer`
for what was trained on, in no list of the current fold while its solve and its
score are under way. `drawn` only grows, so the id of a datum never changes, and
a datum cannot satisfy a filter and its complement.

`ValidatedOnce` supposes distinct ids, and what they give is that the training
slices are among the first k: an id in `outer` was drawn for one of these
(`SplitInv`), and for no other slice. So `kFoldCrossV` counts at most k slices; as it
has a chunk size of zero with fewer, it goes on with k, and every fold is one
slice (`Separate`). A slice drawn again passes no filter any more. `FoldsInv`
follows the data: what is trained on has its id in some fold, and a fold that is
over has validated a datum, with the fold's id, which only one datum has. Hence it
is the same one. `SolutionsInv` counts the solutions, and says that a fold's two
sets share out the training set while nothing is lost. For `NoFailure`, `SoundInv`
adds that without a loss the training slices are all of the first k: each fold has
its slice to validate, the others to train on, and the last slice is left for the
trial. That `IdList` names each slice once is shown by counting (`PlaceFact`): the
places of the slices are as many as the slices, and no two are the same.

**The arguments for the data.** `TypeInv` adds to `TypeOK` what each stage has:
after `Group` the slices are a function of the file (`Slices`), after `Solve` every
slice has its rows. `SlicesPart` and `RowsAreDocuments` follow by arithmetic: a
number has one quotient and remainder, so a document one slice and a place of a
matrix one row and column. What a slice counts is a
figure of its set of documents (`Tally`): an order is a bijection from the
rows to it, and cardinalities and sums do not change under one. `CountsInv` carries
the tallies along, and the sums over the slices are sums over the documents
because the slices part them (`SumOfCards`, `SumOfCuts`).

**The arguments for the set-up.** `TypeOK` is inductive once `TypeInv` adds that a
script that runs was started and that `confFor` is a function. A node has two
daemons if one is started where one runs. What rules it out is the order of the
phases: `OneDaemon` says, for each of the last four, which nodes its jobs can
still be on (`LastJobs`) and which have no daemon (`Cleared`: a node whose stop
was carried out and whose start was not); a node that did not answer its stop is
in `missed`, and the property does not speak of it. An interruption leaves at most
one daemon per node, and the next run stops it first. For the blocks,
`FormatsOnce` adds to `BlocksBelong` that the running name node serves what the
name directory holds, and that while the format is under way the directory is
new. A half-made directory has no namespace, so in that phase nothing is served
and no slave has blocks, and the fresh namespace contradicts none.

`EquippedBeforeStart` and `ReadySlavesServe` are about what all phases before have
done, so their invariants speak of a node and of the place of the script: `Beyond(n,
j)` says that the script has left the job of phase j on n behind. `Given` says that
a node that missed no job has each item whose phase is behind it; the wait between
two phases is all that makes `Beyond` of a phase imply `Beyond` of those before, and
setup-slave's need of the files is met by that. `StartedOK` adds who has a daemon of
this run: no slave before the last phase, and every master beyond its own.
`ServeInv` goes through HDFS the same way. `Told`: beyond phase 5 a slave has
the address of the master that runs, so its data nodes reach the name node.
`Formatted`: beyond a format there is a name node, unless the directory was half
made by an earlier, interrupted run. `EphemeralOK` and `FormatsOnce` make a slave's
own directory acceptable to that name node, the ephemeral one because master and
slave lost theirs together (`Ages`: no slave was restarted more often than the
master). `JoinedOK` says what a running data node has joined; while no name node
runs it needs that none can come up later (`name` half made, no format under way),
for the data node would then be one of nobody's.

**The arguments for the requests.** A request meets another's
unread answer only on a connection it took from the pool, so `UnreadOnly` extends
`OnlyUnreadBodiesBlock` to the pool: every connection in it, or held, is free or has
the unread answer of a request that has returned. `PoolNeedsCrowdOrStrays`
follows from `Accounted`: the idle connections of a host's own queue and the
requests under way on one from there are together never more than the most requests
the host had at once and the strays, for a request takes an idle connection before
it opens one. A redirection to the other scheme finds that scheme's queue empty, so
the request is on a new connection, and adds one to the queue when it returns; the
same request is then one stray more.

**The arguments for the cluster.** All five rest on `TypeInv`: `TypeOK`, which
actions an invocation can have at each place of its program, whose indices its
calls are, and that no instance is granted to two requests. `SlavesAreMine` is
then inductive: image.run adds nodes of one role, and a request once granted
never changes.
For `OneCluster`, `AloneInv` adds that, while no two scripts have overlapped, at
most one is busy, and that a launch past its check sees no live instance of the
roles it has still to launch; so what it adds has no live namesake from before.
For `DestroyedForGood`, `DestroyInv` covers the time before the end: each live
instance is still among the calls of the destroy, or was launched after all the
nodes that it found; nothing brings an instance back that was told to terminate.

`GroupsSettle` is about what is left when racing launches have failed one by one,
so its invariant, `GroupsInv`, must name a launch that will not fail. A group's
rules are always the first so many of its list, the groups are created in the
order of the code, and each launch's calls go through groups and rules in that
order too (`InOrder`), which makes the race a relay. Until the first
rule is there, some launch has seen every group that exists (`GuideOK`), and so
cannot lose the race for one. From then on, for a group whose turn has
come and whose list is not complete, some launch's *next* call is for its next
rule (`WorkersOK`): that call is accepted, and its launch goes on to the rule after it,
or to the first rule of the next group, for which it has the calls since it saw
that group without rules (`Claims`). A call that is refused is for a rule that
exists, and so never that launch's.

**The arguments for the session.** Both invariants speak of the place of the last
command done (`Place`) and of the *latest* place before it at which a kind of command
was. `StaysOff`: while the latest command to the cluster is a stop or a destroy, it
does not run. `OwnInv` follows an output from where it arises to where it is read: a
function that has sent a command to the master has kept its address
(`AddressFound`); on the master at that address the code is of this call once it
was synced (`CodeSynced`), the files once they were put (`DataStored`), the output
since the latest run (`RunIsOwn`); a file on the laptop has what its latest fetch or
local run found or made (`FilesCame`), and `result` what the latest reading found in
its file (`ReadCame`). Each but the first has an exception per command that may
fail unseen (`masked`). An output left by an earlier call has an older number, so
this also says that none is read. That a function which returns has done what these
speak of is a matter of the order of its commands, and `FunctionsAssumption` states
the order that those of `trials.py` have: `LeavesOff`, none starts the cluster
after its last stop or destroy; `ReadsOwn`, the file read last was written before,
by a fetch after a run after a sync, and after a store of all that the run
reads if the function stores anything.

**Assumptions.** `Ec2Assumption`, `SetupAssumption`, `BotoAssumption`, `KFoldAssumption`,
`DatasetsAssumption`, `DriverAssumption`, `FunctionsAssumption`,
`ADMMAssumption` and `SparkAssumption`, evaluated by TLC in the
runs; `NormOfNat` and `DescentOnVectors` (`descent` answers vectors of numbers with
one) where they are stated; and `~Redraws` where it is stated: with `Redraws` the
model, like `generate_data`, rebuilds other samples, and `RebuildSame` fails.

**Only model-checked.** Liveness (`Returns`, `Ends`, `EndsOrRetries`, `EndsAlone`,
the fairness part of `ImplementsADMM`), and that the bodies of
`trials.py` are in the order that `FunctionsAssumption` asks for: TLC evaluates it on
the bodies of the run, and `FlagsAssumption` on the two functions with flags for
every choice of these.

## 5. Not modelled

* The numerical convergence of ADMM and of `descent`: real analysis.
* Floating point: the order of additions in `reduce` changes the last digits, so
  the program is deterministic only up to rounding.
* The numbers of `descent` and `backtracking`; so
  what happens where doubles cease to be numbers is not modelled either: `exp` may
  overflow, `ak / bk` is 0/0 at a zero gradient and infinite when only `bk` is zero,
  and one such slice spoils z. `Datasets` takes any solution, with the sign 0
  where it is not a number. The random vectors of `ADMMFunctions`.
* The trackers of times and norms in `StatTracker`: workers update copies of them
  that the driver never sees.
* The trials and `Launcher`: they fill an `SLRConfig` from a list of arguments by
  reflection and print. What they run is modelled with the data sources, the
  solver and the cross validation.
* The rest of `scripts/boto-2.0b2`. It is a vendored library with clients for some
  twenty services, five sixths of the lines of the repository; the scripts use
  its EC2 client, whose calls `Ec2Cluster` has as atomic operations of the cloud
  and whose requests `BotoRequest` follows. The other services are never called.
* `lib/` and `etc/` (jars, figures and the paper), and the templates for
  Hypertable, haproxy and Torque.

## 6. Plan

The order is that of importance: the solver first, then what is built on it.

1. Done: `ADMMMath`, `ConsensusADMM`, `SparkADMM`, the refinement and its proof.
2. Done: `KFold`, with its proofs.
3. Done: `Ec2Cluster`, the spot requests included, with its proofs.
4. Done: `MesosSetup`, which details the step `SetUp` of `Ec2Cluster`, with its
   proofs.
5. Done: `Datasets`, from files to success rates, with its proofs.
6. Done: `AdmmDriver`, with the state of the cluster reduced to three values, with its
   proofs.
7. Done: `BotoRequest`, with its proofs.
8. `Descent`: the control of `descent` and `backtracking` over integers, each
   accepted step being a decrease; both versions of the code. `Trials`: the
   configuration that a list of arguments yields.

Composition: `SparkADMM` implements `ConsensusADMM`; `KFold` uses `solve` as a
sequence of jobs, `Datasets` as one step; `AdmmDriver` uses `Ec2Cluster`'s
operations as one step each.

Every safety property that a run checks has a theorem; what is left to TLC is
listed at the end of section 4.
