----------------------------- MODULE MesosSetup -----------------------------
(***************************************************************************)
(* `mesos-ec2/setup`, the script that `mesos_ec2.py` runs on the first     *)
(* master after a launch, a resumed launch or a start.  It goes through    *)
(* phases; in most of them it starts one background job per node, an ssh   *)
(* or an rsync, and waits for all of them.  No job's failure is looked at. *)
(* Nodes may be slow to answer, and stop answering at any time; the script *)
(* may be interrupted, and run again on what it left behind.               *)
(***************************************************************************)
EXTENDS Integers, Sequences, FiniteSets

CONSTANTS
  ACTIVE_MASTER,   \* the first line of the file masters: runs the script
  OTHER_MASTERS,   \* the other lines
  SLAVES, ZOOS,    \* the lines of the files slaves and zoo
  MaxTries,        \* passes over the nodes that do not answer, 15 in the code
  MaxRounds,       \* how often the script is run
  MaxFaults        \* nodes that stop answering, and interruptions

MASTERS == {ACTIVE_MASTER} \cup OTHER_MASTERS
Node == MASTERS \cup SLAVES \cup ZOOS
ZOO == {}          \* $ZOO, a variable that the script never assigns
Others == SLAVES \cup ZOO \cup OTHER_MASTERS   \* $SLAVES $ZOO $OTHER_MASTERS
FileSystem == {"ephemeral", "persistent"}

ASSUME SetupAssumption ==
  /\ IsFiniteSet(Node)
  /\ ACTIVE_MASTER \notin OTHER_MASTERS
  /\ MASTERS \cap SLAVES = {} /\ MASTERS \cap ZOOS = {} /\ SLAVES \cap ZOOS = {}
  /\ MaxTries \in Nat \ {0} /\ MaxRounds \in Nat \ {0} /\ MaxFaults \in Nat

(* setup, with copy-dir, redeploy-mesos, stop-mesos and start-mesos in     *)
(* their places.                                                           *)
Phases ==
  << "ids", "try", "files", "prepare", "conf", "spark", "mesos masters", "mesos slaves",
     "nfs", "format ephemeral", "start ephemeral", "format persistent",
     "start persistent", "quorum", "stop slaves", "stop masters", "start masters",
     "start slaves" >>

(* What a job leaves on its node, for the phases that copy or prepare. *)
Item == {"ids", "files", "prepare", "conf", "spark", "mesos", "nfs"}
ItemOf(ph) == IF ph \in {"mesos masters", "mesos slaves"} THEN "mesos" ELSE ph

MutantTargets(ph) ==
  CASE ph = "ids" -> ZOO
    [] ph \in {"files", "prepare", "conf"} -> Others
    [] ph = "mesos masters" -> IF OTHER_MASTERS # {} THEN MASTERS ELSE {}
    [] ph \in {"spark", "mesos slaves", "nfs", "start slaves",
               "start ephemeral", "start persistent"} -> SLAVES
    [] ph = "quorum" -> ZOOS
    [] ph = "stop masters" -> MASTERS
    [] ph = "start masters" -> IF ZOOS # {} THEN MASTERS ELSE {ACTIVE_MASTER}
    [] OTHER -> {}

(* The nodes a phase starts a job for. *)
Targets(ph) ==
  CASE ph = "ids" -> ZOO
    [] ph \in {"files", "prepare", "conf"} -> Others
    [] ph = "mesos masters" -> IF OTHER_MASTERS # {} THEN MASTERS ELSE {}
    [] ph \in {"spark", "mesos slaves", "nfs", "stop slaves", "start slaves",
               "start ephemeral", "start persistent"} -> SLAVES
    [] ph = "quorum" -> ZOOS
    [] ph = "stop masters" -> MASTERS
    [] ph = "start masters" -> IF ZOOS # {} THEN MASTERS ELSE {ACTIVE_MASTER}
    [] OTHER -> {}

VARIABLES
  answers,   \* node -> whether sshd answers
  faults,
  round,     \* how often the script was started
  boot,      \* node -> how often it was stopped and started
  at,        \* the phase of the script, 0 when it does not run
  jobs,      \* the nodes whose background job has not ended
  TODO,      \* the nodes still to try in this pass
  NEW_TODO,  \* those that did not answer in this pass
  TRIES,
  has,       \* node -> item -> the round in which it got it
  confFor,   \* node -> the boot of the master whose address its HDFS conf has
  daemons,   \* node -> the rounds that started its running Mesos daemons
  name,      \* file system -> the namespace in the name directory
  served,    \* file system -> the namespace the running name node serves
  data,      \* file system -> slave -> the namespace in the data directory
  joined,    \* file system -> slave -> namespace and master's boot that its
             \* running data node took
  missed     \* masters and slaves with a failed job since their last start (history)

script == <<at, jobs, TODO, NEW_TODO, TRIES>>
disks == <<has, confFor, name, data>>
processes == <<daemons, served, joined>>
vars == <<answers, faults, round, boot, script, disks, processes, missed>>

Running == at > 0
Phase == IF Running THEN Phases[at] ELSE "none"
None == 0           \* no namespace
HalfFormatted == -1 \* a name directory without an image
NoNode == [namespace |-> None, boot |-> 0]

Init ==
  /\ answers = [n \in Node |-> n = ACTIVE_MASTER]
  /\ faults = 0 /\ round = 0 /\ boot = [n \in Node |-> 1]
  /\ at = 0 /\ jobs = {} /\ TODO = {} /\ NEW_TODO = {} /\ TRIES = 0
  /\ has = [n \in Node |-> [i \in Item |-> 0]] /\ confFor = [n \in Node |-> 0]
  /\ daemons = [n \in Node |-> <<>>]
  /\ name = [f \in FileSystem |-> None] /\ served = [f \in FileSystem |-> None]
  /\ data = [f \in FileSystem |-> [s \in SLAVES |-> None]]
  /\ joined = [f \in FileSystem |-> [s \in SLAVES |-> NoNode]]
  /\ missed = {}

-----------------------------------------------------------------------------
(* mesos_ec2.py deploys the files to the master and runs setup there, which *)
(* begins with setup-slave on the master itself.                            *)
Begin ==
  /\ ~Running /\ round < MaxRounds
  /\ round' = round + 1
  /\ has' = [has EXCEPT ![ACTIVE_MASTER] =
       [i \in Item |-> IF i \in {"files", "prepare", "conf", "spark"} THEN round' ELSE @[i]]]
  /\ confFor' = [confFor EXCEPT ![ACTIVE_MASTER] = boot[ACTIVE_MASTER]]
  /\ at' = 1 /\ jobs' = Targets(Phases[1])
  /\ UNCHANGED <<answers, faults, boot, TODO, NEW_TODO, TRIES, name, data, processes, missed>>

(* The barrier between two phases: wait, then the jobs of the next one. *)
Enter(i) ==
  /\ at' = IF i <= Len(Phases) THEN i ELSE 0
  /\ jobs' = IF i <= Len(Phases) THEN Targets(Phases[i]) ELSE {}

MutantWait ==
  /\ Running /\ Phase \notin {"try", "format ephemeral", "format persistent"}
  /\ Enter(at + 1)
  /\ TODO' = IF Phase = "ids" THEN Others ELSE TODO
  /\ NEW_TODO' = {} /\ TRIES' = 0
  /\ UNCHANGED <<answers, faults, round, boot, disks, processes, missed>>
Wait ==
  /\ Running /\ Phase \notin {"try", "format ephemeral", "format persistent"}
  /\ jobs = {}
  /\ Enter(at + 1)
  /\ TODO' = IF Phase = "ids" THEN Others ELSE TODO
  /\ NEW_TODO' = {} /\ TRIES' = 0
  /\ UNCHANGED <<answers, faults, round, boot, disks, processes, missed>>

(* The loop that waits for slow nodes.  An ssh that works leaves nothing   *)
(* but a known key; the order of the list makes no difference.             *)
Try(n) ==
  /\ Phase = "try" /\ n \in TODO
  /\ TODO' = TODO \ {n}
  /\ NEW_TODO' = IF answers[n] THEN NEW_TODO ELSE NEW_TODO \cup {n}
  /\ UNCHANGED <<answers, faults, round, boot, at, jobs, TRIES, disks, processes, missed>>

MutantAgain(tries) == TRUE
Again(tries) == tries < MaxTries
MutantEndPass ==
  /\ Phase = "try" /\ TODO = {}
  /\ NEW_TODO' = NEW_TODO
  /\ IF NEW_TODO # {} /\ Again(TRIES + 1)
     THEN TODO' = NEW_TODO /\ UNCHANGED <<at, jobs>>
     ELSE TODO' = {} /\ Enter(at + 1)
  /\ TRIES' = IF TRIES < MaxTries THEN TRIES + 1 ELSE TRIES
  /\ UNCHANGED <<answers, faults, round, boot, disks, processes, missed>>
EndPass ==
  /\ Phase = "try" /\ TODO = {}
  /\ NEW_TODO' = {}
  /\ IF NEW_TODO # {} /\ Again(TRIES + 1)
     THEN TODO' = NEW_TODO /\ UNCHANGED <<at, jobs>>
     ELSE TODO' = {} /\ Enter(at + 1)
  /\ TRIES' = IF TRIES < MaxTries THEN TRIES + 1 ELSE TRIES
  /\ UNCHANGED <<answers, faults, round, boot, disks, processes, missed>>

-----------------------------------------------------------------------------
(* What a job does on a node that answers, phase by phase. *)
Delivers(n) ==
  /\ \/ Phase \in Item \ {"prepare"}
     \/ Phase \in {"mesos masters", "mesos slaves"}
     \/ Phase = "prepare" /\ has[n]["files"] > 0
  /\ has' = [has EXCEPT ![n][ItemOf(Phase)] = round]
  /\ confFor' = [confFor EXCEPT ![n] = IF Phase = "conf" THEN boot[ACTIVE_MASTER] ELSE @]
  /\ UNCHANGED <<name, data, processes>>

(* Without the files there is no setup-slave to run. *)
CannotPrepare(n) ==
  /\ Phase = "prepare" /\ has[n]["files"] = 0
  /\ UNCHANGED <<disks, processes>>

StartPhase == [ephemeral |-> "start ephemeral", persistent |-> "start persistent"]

(* start-dfs.sh on a slave: a data node that runs already is left alone; a *)
(* new one takes the namespace of the name node its conf leads to, if its  *)
(* own directory is empty or of that namespace.                            *)
StartsDataNode(s, f) ==
  LET running == joined[f][s] # NoNode
      reached == confFor[s] = boot[ACTIVE_MASTER] /\ served[f] # None
      accepts == data[f][s] \in {None, served[f]}
  IN  /\ Phase = StartPhase[f]
      /\ IF ~running /\ confFor[s] > 0 /\ (reached => accepts)
         THEN joined' = [joined EXCEPT ![f][s] =
                [namespace |-> IF reached THEN served[f] ELSE None, boot |-> confFor[s]]]
         ELSE UNCHANGED joined
      /\ data' = IF ~running /\ reached /\ accepts
                 THEN [data EXCEPT ![f][s] = served[f]] ELSE data
      /\ UNCHANGED <<has, confFor, name, daemons, served>>

StopsDaemon(n) ==
  /\ Phase \in {"stop slaves", "stop masters"}
  /\ daemons' = [daemons EXCEPT ![n] = <<>>]
  /\ UNCHANGED <<disks, served, joined>>

(* mesos-daemon needs the directories that setup-slave makes for its log. *)
StartsDaemon(n) ==
  /\ Phase \in {"start masters", "start slaves"}
  /\ daemons' = IF has[n]["files"] > 0 /\ has[n]["prepare"] > 0
                THEN [daemons EXCEPT ![n] = Append(@, round)] ELSE daemons
  /\ UNCHANGED <<disks, served, joined>>

StartsZooKeeper(n) == Phase = "quorum" /\ UNCHANGED <<disks, processes>>

Job(n) ==
  /\ n \in jobs /\ jobs' = jobs \ {n}
  /\ IF answers[n]
     THEN /\ \/ Delivers(n) \/ CannotPrepare(n)
             \/ \E f \in FileSystem : StartsDataNode(n, f)
             \/ StopsDaemon(n) \/ StartsDaemon(n) \/ StartsZooKeeper(n)
          /\ UNCHANGED missed
     ELSE missed' = missed \cup ({n} \ ZOOS) /\ UNCHANGED <<disks, processes>>
  /\ UNCHANGED <<answers, faults, round, boot, at, TODO, NEW_TODO, TRIES>>

-----------------------------------------------------------------------------
(* The namespaces are told apart by the round and the file system's format. *)
Fresh == round

(* start-dfs.sh on the master: the name node, unless one runs. *)
NameNode(f, n) == IF served[f] = None /\ n[f] > 0 THEN [served EXCEPT ![f] = n[f]]
                  ELSE served

(* Hadoop asks before it formats a directory that exists already. *)
FormatEphemeral ==
  /\ Phase = "format ephemeral"
  /\ \/ name' = [name EXCEPT !["ephemeral"] = Fresh]
     \/ name["ephemeral"] # None /\ UNCHANGED name
  /\ served' = NameNode("ephemeral", name')
  /\ Enter(at + 1)
  /\ UNCHANGED <<answers, faults, round, boot, TODO, NEW_TODO, TRIES, has, confFor, data,
                 daemons, joined, missed>>

MutantMustFormat == TRUE
MustFormat == name["persistent"] = None  \* ! -e /vol/persistent-hdfs/dfs/name

BeginFormat ==
  /\ Phase = "format persistent" /\ jobs = {} /\ MustFormat
  /\ name' = [name EXCEPT !["persistent"] = HalfFormatted]
  /\ jobs' = {ACTIVE_MASTER}
  /\ UNCHANGED <<answers, faults, round, boot, at, TODO, NEW_TODO, TRIES, has, confFor, data,
                 processes, missed>>

FormatPersistent ==
  /\ Phase = "format persistent"
  /\ \/ jobs = {} /\ ~MustFormat /\ UNCHANGED name
     \/ jobs # {} /\ name' = [name EXCEPT !["persistent"] = Fresh]
  /\ served' = NameNode("persistent", name')
  /\ Enter(at + 1)
  /\ UNCHANGED <<answers, faults, round, boot, TODO, NEW_TODO, TRIES, has, confFor, data,
                 daemons, joined, missed>>

-----------------------------------------------------------------------------
(* Whether a node answers matters only to the calls that are made to it.   *)
Called(n) == n \in jobs \cup TODO

Answer(n) ==
  /\ Called(n) /\ ~answers[n] /\ answers' = [answers EXCEPT ![n] = TRUE]
  /\ UNCHANGED <<faults, round, boot, script, disks, processes, missed>>

Hang(n) ==
  /\ n # ACTIVE_MASTER /\ Called(n) /\ answers[n] /\ faults < MaxFaults
  /\ faults' = faults + 1
  /\ answers' = [answers EXCEPT ![n] = FALSE]
  /\ UNCHANGED <<round, boot, script, disks, processes, missed>>

(* The terminal of the script is closed: its jobs end with it. *)
Interrupt ==
  /\ Running /\ faults < MaxFaults
  /\ faults' = faults + 1
  /\ at' = 0 /\ jobs' = {} /\ TODO' = {} /\ NEW_TODO' = {} /\ TRIES' = 0
  /\ UNCHANGED <<answers, round, boot, disks, processes, missed>>

(* mesos_ec2.py stop and start: processes, NFS mounts and everything under *)
(* /mnt are gone, the address is new, and the node is slow to answer.      *)
MutantReboot(set) ==
  /\ ~Running /\ 0 < round /\ round < MaxRounds /\ boot[ACTIVE_MASTER] <= round
  /\ answers' = [n \in Node |-> answers[n] /\ (n \in set => n = ACTIVE_MASTER)]
  /\ boot' = [n \in Node |-> IF n \in set THEN boot[n] + 1 ELSE boot[n]]
  /\ has' = [n \in Node |-> [i \in Item |->
       IF n \in set /\ i \in {"ids", "prepare", "nfs"} THEN 0 ELSE has[n][i]]]
  /\ daemons' = [n \in Node |-> IF n \in set THEN <<>> ELSE daemons[n]]
  /\ name' = [name EXCEPT !["ephemeral"] = IF ACTIVE_MASTER \in set THEN None ELSE @]
  /\ served' = IF ACTIVE_MASTER \in set THEN [f \in FileSystem |-> None] ELSE served
  /\ joined' = [f \in FileSystem |-> [s \in SLAVES |->
       IF s \in set THEN NoNode ELSE joined[f][s]]]
  /\ missed' = missed \ set
  /\ UNCHANGED <<faults, round, script, confFor, data>>
Reboot(set) ==
  /\ ~Running /\ 0 < round /\ round < MaxRounds /\ boot[ACTIVE_MASTER] <= round
  /\ answers' = [n \in Node |-> answers[n] /\ (n \in set => n = ACTIVE_MASTER)]
  /\ boot' = [n \in Node |-> IF n \in set THEN boot[n] + 1 ELSE boot[n]]
  /\ has' = [n \in Node |-> [i \in Item |->
       IF n \in set /\ i \in {"ids", "prepare", "nfs"} THEN 0 ELSE has[n][i]]]
  /\ daemons' = [n \in Node |-> IF n \in set THEN <<>> ELSE daemons[n]]
  /\ name' = [name EXCEPT !["ephemeral"] = IF ACTIVE_MASTER \in set THEN None ELSE @]
  /\ served' = IF ACTIVE_MASTER \in set THEN [f \in FileSystem |-> None] ELSE served
  /\ data' = [data EXCEPT !["ephemeral"] =
       [s \in SLAVES |-> IF s \in set THEN None ELSE data["ephemeral"][s]]]
  /\ joined' = [f \in FileSystem |-> [s \in SLAVES |->
       IF s \in set THEN NoNode ELSE joined[f][s]]]
  /\ missed' = missed \ set
  /\ UNCHANGED <<faults, round, script, confFor>>

(* stop goes through the masters, then the slaves, and may end between the *)
(* two; the ZooKeeper nodes, the last, keep nothing that the script uses.  *)
Restart == \E set \in {MASTERS, Node} : Reboot(set)

Step == Wait \/ (\E n \in Node : Try(n) \/ Job(n)) \/ EndPass
        \/ FormatEphemeral \/ BeginFormat \/ FormatPersistent

Next ==
  \/ Begin \/ Step \/ Interrupt \/ Restart
  \/ \E n \in Node : Answer(n) \/ Hang(n)

SafetySpec == Init /\ [][Next]_vars

(* A script that runs goes on, and its jobs end: ssh gives up on a node    *)
(* that does not answer.                                                   *)
Spec == SafetySpec /\ WF_vars(Step)

-----------------------------------------------------------------------------
TypeOK ==
  /\ answers \in [Node -> BOOLEAN] /\ answers[ACTIVE_MASTER]
  /\ faults \in 0..MaxFaults /\ round \in 0..MaxRounds /\ boot \in [Node -> Nat \ {0}]
  /\ at \in 0..Len(Phases) /\ TRIES \in 0..MaxTries
  /\ jobs \subseteq Node /\ TODO \subseteq Others /\ NEW_TODO \subseteq Others \ TODO
  /\ has \in [Node -> [Item -> 0..round]]
  /\ \A n \in Node : confFor[n] \in 0..boot[ACTIVE_MASTER]
  /\ daemons \in [Node -> Seq(1..round)]
  /\ name \in [FileSystem -> {HalfFormatted} \cup 0..round]
  /\ served \in [FileSystem -> 0..round]
  /\ data \in [FileSystem -> [SLAVES -> 0..round]]
  /\ joined \in [FileSystem -> [SLAVES -> [namespace : 0..round, boot : Nat]]]
  /\ missed \subseteq MASTERS \cup SLAVES

Complete == Phase = "start slaves" /\ jobs = {}
Started(n) == \E i \in DOMAIN daemons[n] : daemons[n][i] = round

(* A Mesos slave is started on a node only when everything of this round   *)
(* is on it, and when the masters run: nothing but the waits between the   *)
(* phases sees to it, and no job checks what the ones before it have done. *)
EquippedBeforeStart ==
  \A s \in SLAVES : Started(s) =>
    /\ s \notin missed => \A i \in Item \ {"ids"} : has[s][i] = round
    /\ Running => \A m \in Targets("start masters") \ missed : Started(m)

(* However often the script is run again, after it ended or was cut short, *)
(* a node that answered all jobs has one Mesos daemon at most.             *)
NoStrayDaemon == \A n \in Node \ missed : Len(daemons[n]) <= 1

(* When the script ends, a slave that answered all jobs since it was last  *)
(* started has a Mesos slave of this round, and a data node of both file   *)
(* systems with the name nodes that run, if it was stopped as often as the *)
(* master: formatting one side, or keeping one side's directory, while the *)
(* other has blocks or a process of before would leave it out.             *)
ReadySlavesServe ==
  Complete => \A s \in SLAVES \ missed :
    /\ Started(s)
    /\ boot[s] = boot[ACTIVE_MASTER] =>
         \A f \in FileSystem : name[f] # HalfFormatted =>
           /\ served[f] # None
           /\ joined[f][s] = [namespace |-> served[f], boot |-> boot[ACTIVE_MASTER]]

(* What the slaves store of the persistent file system belongs to the name *)
(* directory of the master, after any number of set-ups, stops and starts. *)
BlocksBelong ==
  \A s \in SLAVES : data["persistent"][s] \in {None, name["persistent"]}

(* The script ends, whatever nodes never answer. *)
Ends == Running ~> ~Running

(* setup's list of nodes to try is to hold all nodes, and the ZooKeeper    *)
(* nodes are to get an id: the quorum is started on nodes that have both.  *)
ZooKeepersAreSetUp ==
  Phase = "quorum" => \A z \in ZOOS : has[z]["ids"] > 0 /\ has[z]["files"] > 0

=============================================================================
