----------------------------- MODULE AdmmDriver -----------------------------
(***************************************************************************)
(* The laptop: `admm.py` and the functions of `trials.py`, called one      *)
(* after another in a Python process.  A function drives `mesos-ec2`,      *)
(* copies code and data, runs the launcher, fetches its output and reads   *)
(* it.  check_call raises when a shell command fails; commands joined with *)
(* semicolons are one command, and only the last of them counts.           *)
(* The cluster itself is Ec2Cluster's, its set-up MesosSetup's.            *)
(***************************************************************************)
EXTENDS Integers, Sequences, FiniteSets, SequencesExt

CONSTANTS
  Functions,    \* the bodies of trials.py that the user calls
  OTHERS,       \* whether another cluster of the account has a master
  MaxCalls, MaxEdits, MaxLaunches, MaxFaults

ASSUME DriverAssumption ==
  /\ OTHERS \in BOOLEAN
  /\ {MaxCalls, MaxLaunches, MaxFaults} \subseteq Nat /\ MaxEdits \in Nat \ {0}

Name == {"A.data", "b.data", "smalldata"}     \* in HDFS

(* The bodies, as sequences of commands. *)
Cmd(op) == [op |-> op]
store_hdfs(url, name) == [op |-> "store_hdfs", url |-> url, name |-> name]
fetch(fn) == [op |-> "fetch", file |-> fn]       \* rsync_remote(.., False)
get_stat(fn) == [op |-> "get_stat", file |-> fn]
launch_local(fn) == [op |-> "launch_local", file |-> fn]
run_spark(names) == [op |-> "run_spark", reads |-> names]
post_init(small_data) == (IF small_data THEN <<store_hdfs("rcv1", "smalldata")>> ELSE <<>>)
                         \o <<Cmd("init_sync")>>

launch_trial(names) == <<Cmd("make_master"), Cmd("code_sync"), run_spark(names)>>
StoreData == <<store_hdfs("large", "A.data"), store_hdfs("large", "b.data")>>
Optional(flag, body) == IF flag THEN body ELSE <<>>

simple_hdfs_test(local, launch, start, stop, destroy, localfn) ==
  FlattenSeq(<<
    Optional(launch, <<Cmd("launch_cluster")>> \o post_init(FALSE) \o StoreData),
    Optional(start, <<Cmd("start_cluster")>> \o StoreData),
    IF local THEN <<launch_local("jazz")>>
    ELSE launch_trial({"A.data", "b.data"}) \o <<fetch(localfn)>>,
    Optional(stop, <<Cmd("stop_cluster")>>),
    Optional(destroy, <<Cmd("destroy_cluster")>>),
    <<get_stat(localfn)>> >>)

reuters_hdfs_test(local, launch, stop, destroy) ==
  FlattenSeq(<<
    Optional(launch, <<Cmd("launch_cluster")>> \o post_init(TRUE)),
    IF local THEN <<launch_local("jazz")>>
    ELSE launch_trial({"smalldata"}) \o <<fetch("reuters")>>,
    Optional(stop, <<Cmd("stop_cluster")>>),
    Optional(destroy, <<Cmd("destroy_cluster")>>),
    <<get_stat("reuters")>> >>)

broke == post_init(FALSE) \o <<store_hdfs("small", "A.data"), store_hdfs("small", "b.data")>>
         \o simple_hdfs_test(FALSE, FALSE, FALSE, FALSE, TRUE, "broke")
instance_size_test == simple_hdfs_test(FALSE, FALSE, FALSE, FALSE, TRUE, "medium")
                      \o simple_hdfs_test(FALSE, TRUE, FALSE, FALSE, TRUE, "large")
start_stop_trial == <<Cmd("start_cluster")>> \o launch_trial({}) \o <<Cmd("stop_cluster")>>
sparsity_trial == <<Cmd("launch_cluster")>> \o post_init(FALSE) \o launch_trial({})
                  \o <<fetch("sync"), Cmd("destroy_cluster")>>
run_samples == post_init(FALSE) \o <<Cmd("make_master"), run_spark({}), fetch("sync"),
                 Cmd("stop_cluster")>>
simple_test == <<launch_local("jazz"), get_stat("jazz")>>

-----------------------------------------------------------------------------
File == {"jazz", "standard", "reuters", "medium", "large", "broke", "sync"}
Url == {"large", "small", "rcv1"}
Power == {"launch_cluster", "start_cluster", "stop_cluster", "destroy_cluster"}
Syncs == {"code_sync", "init_sync"}
Command == [op : Power \cup Syncs \cup {"make_master"}]
           \cup [op : {"store_hdfs"}, url : Url, name : Name]
           \cup [op : {"fetch", "get_stat", "launch_local"}, file : File]
           \cup [op : {"run_spark"}, reads : SUBSET Name]

(* The places of a body where a command of ops is, the last of them before  *)
(* place i, and the places where a local file is written.                   *)
At(b, ops) == {i \in DOMAIN b : b[i].op \in ops}
Latest(j, places, i) == j \in places /\ j < i /\ \A k \in places : k < i => k <= j
Writes(b, f) == {i \in At(b, {"fetch", "launch_local"}) : b[i].file = f}
StoredBefore(b, r) ==
  \A n \in b[r].reads : \E s \in At(b, {"store_hdfs"}) : s < r /\ b[s].name = n

(* How trials.py orders the commands of a function: after one that stops or *)
(* destroys the cluster none starts it again; the file read last is written *)
(* before, by a fetch after a run after a sync, and after a store of all    *)
(* the run reads if the function stores anything, or by a local run of a    *)
(* function that stores nothing, unless a local run writes another file.    *)
Final(b, ops) == {i \in At(b, ops) : Latest(i, At(b, ops), Len(b) + 1)}
LeavesOff(b) ==
  LET offs == {"stop_cluster", "destroy_cluster"}
  IN  At(b, offs) # {} => \E i \in Final(b, Power) : b[i].op \in offs
Fetched(b, j) ==
  /\ b[j].op = "fetch"
  /\ \E r \in At(b, {"run_spark"}) :
       /\ Latest(r, At(b, {"run_spark"}), j)
       /\ \E s \in At(b, Syncs) : s < r
       /\ At(b, {"store_hdfs"}) # {} => StoredBefore(b, r)
ReadsOwn(b) ==
  At(b, {"get_stat"}) # {} =>
    \/ \E i \in Final(b, {"get_stat"}) :
         \E j \in Writes(b, b[i].file) :
           /\ Latest(j, Writes(b, b[i].file), i)
           /\ Fetched(b, j) \/ (b[j].op = "launch_local" /\ At(b, {"store_hdfs"}) = {})
    \/ \E i \in At(b, {"launch_local"}), j \in At(b, {"get_stat"}) : b[i].file # b[j].file

ASSUME FunctionsAssumption ==
  /\ Functions \subseteq Seq(Command) \ {<<>>}
  /\ \A b \in Functions : LeavesOff(b) /\ ReadsOwn(b)

Other == 0                       \* the master of another cluster
Host == 0..MaxLaunches           \* a master, by the launch that made it
NoOutput == [call |-> 0, code |-> 0, data |-> {}]

VARIABLES
  calls,      \* how many functions were called
  todo,       \* the commands left of the function that runs
  outcome,    \* of the last function: none, running, returned, raised
  address,    \* the global of admm.py: a host and how often it had started
  host,       \* our master, 0 before the first launch
  state,      \* of our cluster: none, running, stopped
  starts,     \* how often it was started, since each start has a new address
  remote,     \* host -> its code, the files in its HDFS, the launcher's output
  target,     \* the version of the code compiled on the laptop
  files,      \* local file -> the output in it
  result,     \* what the last get_stat read
  body,       \* the function called last (history)
  began,      \* target when it was called (history)
  masked,     \* the commands of the function whose failure nothing saw (history)
  faults

cloud == <<host, state, starts>>
laptop == <<target, files>>
history == <<body, began, masked>>
vars == <<calls, todo, outcome, address, cloud, remote, laptop, result, history, faults>>

NoAddress == <<>>
Running == outcome = "running"
Op(op) == Running /\ Head(todo).op = op

Init ==
  /\ calls = 0 /\ todo = <<>> /\ outcome = "none" /\ address = NoAddress
  /\ host = 0 /\ state = "none" /\ starts = 0
  /\ remote = [h \in Host |-> [code |-> 0, hdfs |-> [n \in Name |-> "none"], out |-> NoOutput]]
  /\ target = 1 /\ files = [f \in File |-> NoOutput] /\ result = NoOutput
  /\ body = <<>> /\ began = 0 /\ masked = {} /\ faults = 0

MutantRaises(ok) == FALSE
Raises(ok) == ~ok   \* subprocess.check_call

MutantDone(ok) ==
  /\ todo' = Tail(todo)
  /\ outcome' = IF Raises(ok) THEN "raised" ELSE IF Len(todo) = 1 THEN "returned" ELSE outcome
  /\ UNCHANGED calls
(* The command ends, and the function goes on, returns or raises. *)
Done(ok) ==
  /\ todo' = IF Raises(ok) THEN <<>> ELSE Tail(todo)
  /\ outcome' = IF Raises(ok) THEN "raised" ELSE IF Len(todo) = 1 THEN "returned" ELSE outcome
  /\ UNCHANGED calls

(* A command may fail for its own reasons. *)
Try(ok, could) ==
  \/ ok = could /\ UNCHANGED faults
  \/ could /\ ~ok /\ faults < MaxFaults /\ faults' = faults + 1

-----------------------------------------------------------------------------
Call(b) ==
  /\ ~Running /\ calls < MaxCalls
  /\ calls' = calls + 1 /\ todo' = b /\ outcome' = "running"
  /\ body' = b /\ began' = target /\ masked' = {}
  /\ UNCHANGED <<address, cloud, remote, laptop, result, faults>>

NewProcess ==
  /\ ~Running /\ address # NoAddress /\ address' = NoAddress
  /\ UNCHANGED <<calls, todo, outcome, cloud, remote, laptop, result, history, faults>>

Compile ==
  /\ target < MaxEdits /\ target' = target + 1
  /\ UNCHANGED <<calls, todo, outcome, address, cloud, remote, files, result, history, faults>>

(* mesos-ec2: launch refuses while there is a cluster, the others while    *)
(* there is none; a command that fails may have done its work already.     *)
MesosEc2(op) ==
  LET could == IF op = "launch_cluster" THEN state = "none" /\ host < MaxLaunches
               ELSE state # "none"
  IN  /\ Op(op)
      /\ \E ok, works \in BOOLEAN :
           /\ Try(ok, could) /\ (ok => works) /\ (works => could)
           /\ Done(ok)
           /\ host' = IF works /\ op = "launch_cluster" THEN host + 1 ELSE host
           /\ state' = IF ~works THEN state
                       ELSE CASE op \in {"launch_cluster", "start_cluster"} -> "running"
                              [] op = "stop_cluster" -> "stopped"
                              [] op = "destroy_cluster" -> "none"
           /\ starts' = CASE ~works -> starts
                          [] works /\ op = "launch_cluster" -> 1
                          [] works /\ op = "start_cluster" /\ state = "stopped" -> starts + 1
                          [] OTHER -> starts
      /\ UNCHANGED <<address, remote, laptop, result, history>>

(* mesos-ec2 stop asks whether to stop, and succeeds either way. *)
DeclineStop ==
  /\ Op("stop_cluster") /\ faults < MaxFaults
  /\ faults' = faults + 1 /\ masked' = masked \cup {"stop_cluster"}
  /\ Done(TRUE)
  /\ UNCHANGED <<address, cloud, remote, laptop, result, body, began>>

(* get_address: the address found before, or the first instance with a     *)
(* public name whose group's name has "master" in it.                      *)
Found == (IF state = "running" THEN {<<host, starts>>} ELSE {})
         \cup (IF OTHERS THEN {<<Other, 1>>} ELSE {})
get_address(a) ==
  IF address # NoAddress THEN a = address
  ELSE IF Found # {} THEN a \in Found ELSE a = NoAddress

(* Where a command to address a arrives. *)
Reached(a) == a # NoAddress /\ a \in Found
Addresses == {NoAddress, address} \cup Found

(* Commands joined with semicolons: each works or not, the last one counts. *)
run_cmd(cmds, a, works, refused) ==
  LET fails == {i \in DOMAIN cmds : ~works[i]}
  IN  /\ IF Reached(a) THEN faults + Cardinality(fails) <= MaxFaults
                            /\ faults' = faults + Cardinality(fails)
         ELSE fails = DOMAIN cmds /\ UNCHANGED faults
      /\ Done(a # NoAddress /\ works[Len(cmds)])
      /\ masked' = masked \cup {cmds[i] : i \in (fails \ {Len(cmds)}) \cup refused}

make_master ==
  /\ Op("make_master")
  /\ \E a \in Addresses : get_address(a) /\ address' = a /\ Done(a # NoAddress)
  /\ UNCHANGED <<cloud, remote, laptop, result, history, faults>>

Sync(op, cmds) ==
  /\ Op(op)
  /\ \E a \in Addresses, works \in [DOMAIN cmds -> BOOLEAN] :
       /\ get_address(a) /\ address' = a
       /\ run_cmd(cmds, a, works, {})
       /\ remote' = IF Reached(a) /\ works[1]
                    THEN [remote EXCEPT ![a[1]].code = target] ELSE remote
  /\ UNCHANGED <<cloud, laptop, result, body, began>>

MutantCodeSync ==
  /\ Op("code_sync")
  /\ \E a \in Addresses : get_address(a) /\ address' = a /\ Done(a # NoAddress)
  /\ UNCHANGED <<cloud, remote, laptop, result, history, faults>>
code_sync == Sync("code_sync", <<"sync_target", "copy_dir">>)
init_sync == Sync("init_sync", <<"sync_target", "sync_jars", "copy_dir">>)

(* One ssh that runs wget, hadoop fs -put and rm; put does not replace. *)
Store ==
  /\ Op("store_hdfs")
  /\ LET c == Head(todo)
         cmds == <<"put", "rm">>
     IN  \E a \in Addresses, works \in [1..2 -> BOOLEAN] :
           /\ get_address(a) /\ address' = a
           /\ LET exists == Reached(a) /\ remote[a[1]].hdfs[c.name] # "none"
              IN  run_cmd(cmds, a, works, IF exists THEN {1} ELSE {})
           /\ remote' = IF Reached(a) /\ works[1] /\ remote[a[1]].hdfs[c.name] = "none"
                        THEN [remote EXCEPT ![a[1]].hdfs[c.name] = c.url] ELSE remote
  /\ UNCHANGED <<cloud, laptop, result, body, began>>

(* ssh .. /root/spark/run: the launcher writes its output on the master. *)
Run ==
  /\ Op("run_spark")
  /\ \E a \in Addresses, ok \in BOOLEAN :
       /\ get_address(a) /\ address' = a
       /\ LET there == remote[a[1]]
              data == {there.hdfs[name] : name \in Head(todo).reads}
              could == Reached(a) /\ there.code # 0 /\ "none" \notin data
          IN  /\ Try(ok, could) /\ Done(ok)
              /\ remote' = IF ok THEN [remote EXCEPT ![a[1]].out =
                             [call |-> calls, code |-> there.code, data |-> data]] ELSE remote
  /\ UNCHANGED <<cloud, laptop, result, history>>

Fetch ==
  /\ Op("fetch")
  /\ \E a \in Addresses, ok \in BOOLEAN :
       /\ get_address(a) /\ address' = a
       /\ Try(ok, Reached(a) /\ remote[a[1]].out # NoOutput) /\ Done(ok)
       /\ files' = IF ok THEN [files EXCEPT ![Head(todo).file] = remote[a[1]].out] ELSE files
  /\ UNCHANGED <<cloud, remote, target, result, history>>

(* pushd; sbt run-main ..; popd *)
LaunchLocal ==
  /\ Op("launch_local")
  /\ \/ /\ files' = [files EXCEPT ![Head(todo).file] =
                       [call |-> calls, code |-> target, data |-> {"local"}]]
        /\ UNCHANGED <<faults, masked>>
     \/ /\ faults < MaxFaults /\ faults' = faults + 1 /\ masked' = masked \cup {"sbt"}
        /\ UNCHANGED files
  /\ Done(TRUE)
  /\ UNCHANGED <<address, cloud, remote, target, result, body, began>>

Read ==
  /\ Op("get_stat")
  /\ LET out == files[Head(todo).file]
     IN  Done(out # NoOutput) /\ result' = IF out # NoOutput THEN out ELSE result
  /\ UNCHANGED <<address, cloud, remote, laptop, history, faults>>

Next ==
  \/ \E b \in Functions : Call(b)
  \/ NewProcess \/ Compile
  \/ \E op \in Power : MesosEc2(op)
  \/ DeclineStop \/ make_master \/ code_sync \/ init_sync \/ Store \/ Run \/ Fetch
  \/ LaunchLocal \/ Read

Spec == Init /\ [][Next]_vars
-----------------------------------------------------------------------------
Output == [call : 0..MaxCalls, code : 0..MaxEdits, data : SUBSET (Url \cup {"local"})]
TypeOK ==
  /\ calls \in 0..MaxCalls /\ outcome \in {"none", "running", "returned", "raised"}
  /\ IsSuffix(todo, body) /\ (Running <=> todo # <<>>) /\ (body = <<>> \/ body \in Functions)
  /\ address \in {NoAddress} \cup (Host \X Nat)
  /\ host \in Host /\ state \in {"none", "running", "stopped"} /\ starts \in Nat
  /\ (state # "none" => host # 0 /\ starts # 0)
  /\ remote \in [Host -> [code : 0..MaxEdits, hdfs : [Name -> Url \cup {"none"}],
                          out : Output]]
  /\ files \in [File -> Output] /\ result \in Output
  /\ began \in 0..target /\ target \in 1..MaxEdits /\ faults \in 0..MaxFaults

Has(op) == \E i \in DOMAIN body : body[i].op = op
Stores == {body[i].url : i \in {j \in DOMAIN body : body[j].op = "store_hdfs"}}

(* What a function that ran on the cluster reads at its end was computed   *)
(* for this call, from code compiled no earlier than the call and from     *)
(* data the function named, however many outputs of earlier calls lie on   *)
(* the laptop and on the masters; only a first rsync or a put may have     *)
(* failed unseen.  Of a local function that holds if sbt did not fail and  *)
(* the file read is the one written.                                       *)
ReturnsOwnResults ==
  outcome = "returned" /\ Has("get_stat") =>
    \/ /\ result.call = calls
       /\ result.code >= began \/ "sync_target" \in masked
       /\ Has("store_hdfs") => result.data \subseteq Stores \/ "put" \in masked
    \/ /\ Has("launch_local")
       /\ \/ "sbt" \in masked
          \/ \E i, j \in DOMAIN body : /\ body[i].op = "launch_local"
                                       /\ body[j].op = "get_stat"
                                       /\ body[i].file # body[j].file

(* A function that stops or destroys the cluster and returns has left no   *)
(* instance running, unless the user did not confirm the stop.             *)
LeavesNothingRunning ==
  outcome = "returned" /\ (Has("stop_cluster") \/ Has("destroy_cluster")) =>
    state # "running" \/ "stop_cluster" \in masked

=============================================================================
