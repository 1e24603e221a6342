----------------------------- MODULE Ec2Cluster -----------------------------
(***************************************************************************)
(* The life of one cluster under `scripts/mesos_ec2.py`: invocations of    *)
(* the script, each with the action of its command line, on the security   *)
(* groups and the instances that EC2 keeps.  An invocation keeps no state  *)
(* between runs.  It looks at the cloud, then acts in one call after       *)
(* another; other invocations and the cloud itself move in between, and it *)
(* may be interrupted, or have a call raise, anywhere.                     *)
(***************************************************************************)
EXTENDS Integers, Sequences, FiniteSets, SequencesExt

CONSTANTS
  Proc,         \* the invocations, each run once
  AtOnce,       \* how many of them run at the same time
  NumSlaves,    \* opts.slaves
  NumMasters,   \* opts.ft
  NumZoo,       \* ZooKeeper nodes of a fault-tolerant cluster, 3 in the code
  NumRules,     \* role -> the authorize calls for its group
  CommandLine,  \* the actions invocations may be given; "spot launch" is a
                \* launch with opts.spot_price
  MaxFailures   \* interruptions, failed calls and instances that die

Role == {"master", "slaves", "zoo"}
RoleOrder == <<"master", "slaves", "zoo">>

ASSUME Ec2Assumption ==
  /\ IsFiniteSet(Proc)
  /\ AtOnce \in Nat \ {0} /\ MaxFailures \in Nat
  /\ NumSlaves \in Nat \ {0} /\ NumMasters \in Nat \ {0}
  /\ NumZoo \in Nat \ {0} /\ NumRules \in [Role -> Nat \ {0}]
  /\ CommandLine \subseteq {"launch", "spot launch", "resume", "destroy", "stop", "start"}

VARIABLES
  groups,    \* the security groups that exist
  rules,     \* group -> the rules it has
  inst,      \* the instances in the order of their launch: role, reservation,
             \* state, how often they were started (a start changes the address)
  reqs,      \* the spot requests: who made them, the instance granted or 0
  failures,
  overlapped,  \* whether two invocations have run at the same time (history)
  action,    \* invocation -> the action of its command line
  pc,        \* invocation -> what it does next
  at,        \* invocation -> the role it is at, in a phase that goes by roles
  todo,      \* invocation -> the calls it still has to make in a loop
  nodes,     \* invocation -> master_nodes + slave_nodes + zoo_nodes
  host       \* invocation -> address of master_nodes[0], as it was last seen

past == <<failures, overlapped>>
cloud == <<groups, rules, inst, reqs>>
vars == <<groups, rules, inst, reqs, failures, overlapped, action, pc, at, todo,
          nodes, host>>

NoAddress == [inst |-> 0, boot |-> 0]
Ended == {"done", "refused", "failed"}
Launch == {"launch", "spot launch"}
Busy(p) == pc[p] \notin Ended \cup {"idle"}
NodesOf(p, role) == {i \in nodes[p] : inst[i].role = role}

(* is_active *)
MutantIsActive(i) == inst[i].state \in {"pending", "running"}
is_active(i) == inst[i].state \in {"pending", "running", "stopping", "stopped"}

Init ==
  /\ groups = {} /\ rules = [r \in Role |-> {}]
  /\ inst = <<>> /\ reqs = <<>> /\ failures = 0 /\ overlapped = FALSE
  /\ action = [p \in Proc |-> "none"] /\ pc = [p \in Proc |-> "idle"]
  /\ at = [p \in Proc |-> 1] /\ todo = [p \in Proc |-> <<>>]
  /\ nodes = [p \in Proc |-> {}] /\ host = [p \in Proc |-> NoAddress]

-----------------------------------------------------------------------------
(* main: someone starts the script. *)
Begin(p) ==
  /\ pc[p] = "idle"
  /\ Cardinality({q \in Proc : Busy(q)}) < AtOnce
  /\ overlapped' = (overlapped \/ \E q \in Proc : Busy(q))
  /\ \E a \in CommandLine :
       /\ action' = [action EXCEPT ![p] = a]
       /\ pc' = [pc EXCEPT ![p] = IF a \in Launch THEN "lookup" ELSE "find"]
  /\ UNCHANGED <<cloud, failures, at, todo, nodes, host>>

(* launch_cluster: get_or_make_group for each role; the rules of a group   *)
(* are those it had when it was looked up, and the authorize calls follow  *)
(* for each group that had none.                                           *)
Authorizations(role) == [i \in 1..NumRules[role] |-> <<role, i>>]

MutantGotGroup(p, isNew) ==
  LET role == RoleOrder[at[p]]
      calls == IF isNew THEN todo[p] \o Authorizations(role) ELSE todo[p]
  IN  /\ todo' = [todo EXCEPT ![p] = calls]
      /\ at' = [at EXCEPT ![p] = IF @ < 3 THEN @ + 1 ELSE 1]
      /\ pc' = [pc EXCEPT ![p] = IF at[p] < 3 THEN "lookup"
                            ELSE IF calls # <<>> THEN "authorize" ELSE "check"]
GotGroup(p, isNew) ==
  LET role == RoleOrder[at[p]]
      calls == IF isNew \/ rules[role] = {}
               THEN todo[p] \o Authorizations(role) ELSE todo[p]
  IN  /\ todo' = [todo EXCEPT ![p] = calls]
      /\ at' = [at EXCEPT ![p] = IF @ < 3 THEN @ + 1 ELSE 1]
      /\ pc' = [pc EXCEPT ![p] = IF at[p] < 3 THEN "lookup"
                            ELSE IF calls # <<>> THEN "authorize" ELSE "check"]

LookUpGroup(p) ==
  /\ pc[p] = "lookup"
  /\ IF RoleOrder[at[p]] \in groups
     THEN GotGroup(p, FALSE)
     ELSE pc' = [pc EXCEPT ![p] = "create"] /\ UNCHANGED <<at, todo>>
  /\ UNCHANGED <<cloud, past, action, nodes, host>>

(* EC2 refuses a second group of the same name. *)
CreateGroup(p) ==
  /\ pc[p] = "create"
  /\ IF RoleOrder[at[p]] \in groups
     THEN pc' = [pc EXCEPT ![p] = "failed"] /\ UNCHANGED <<groups, at, todo>>
     ELSE groups' = groups \cup {RoleOrder[at[p]]} /\ GotGroup(p, TRUE)
  /\ UNCHANGED <<rules, inst, reqs, past, action, nodes, host>>

(* EC2 refuses a rule that the group already has. *)
Authorize(p) ==
  /\ pc[p] = "authorize"
  /\ LET role == Head(todo[p])[1]
         rule == Head(todo[p])[2]
     IN  IF rule \in rules[role]
         THEN pc' = [pc EXCEPT ![p] = "failed"] /\ UNCHANGED <<rules, todo>>
         ELSE /\ rules' = [rules EXCEPT ![role] = @ \cup {rule}]
              /\ todo' = [todo EXCEPT ![p] = Tail(@)]
              /\ pc' = [pc EXCEPT ![p] =
                          IF Len(todo[p]) > 1 THEN "authorize" ELSE "check"]
  /\ UNCHANGED <<groups, inst, reqs, past, action, at, nodes, host>>

CheckRunning(p) ==
  /\ pc[p] = "check"
  /\ pc' = [pc EXCEPT ![p] = IF \E i \in DOMAIN inst : is_active(i)
                             THEN "refused" ELSE "slaves"]
  /\ UNCHANGED <<cloud, past, action, at, todo, nodes, host>>

(* image.run: one reservation of n pending instances. *)
MutantRun(p, role, n, next) ==
  /\ inst' = inst \o [i \in 1..n |-> [role |-> role, res |-> Len(inst) + 1,
                                      state |-> "pending", boot |-> 0]]
  /\ nodes' = [nodes EXCEPT ![p] = @ \cup Len(inst) .. Len(inst) + n - 1]
  /\ pc' = [pc EXCEPT ![p] = next]
  /\ UNCHANGED <<groups, rules, reqs, past, action, at, todo, host>>

run(p, role, n, next) ==
  /\ inst' = inst \o [i \in 1..n |-> [role |-> role, res |-> Len(inst) + 1,
                                      state |-> "pending", boot |-> 0]]
  /\ nodes' = [nodes EXCEPT ![p] = @ \cup Len(inst) + 1 .. Len(inst) + n]
  /\ pc' = [pc EXCEPT ![p] = next]
  /\ UNCHANGED <<groups, rules, reqs, past, action, at, todo, host>>

LaunchSlaves(p) ==
  pc[p] = "slaves" /\ action[p] = "launch" /\ run(p, "slaves", NumSlaves, "masters")

LaunchMasters(p) ==
  /\ pc[p] = "masters"
  /\ run(p, "master", NumMasters, IF NumMasters > 1 THEN "zoo" ELSE "wait")

MutantLaunchZoo(p) == pc[p] = "zoo" /\ run(p, "zoo", NumZoo, "deploy")
LaunchZoo(p) == pc[p] = "zoo" /\ run(p, "zoo", NumZoo, "wait")

RequestSlaves(p) ==
  /\ pc[p] = "slaves" /\ action[p] = "spot launch"
  /\ reqs' = reqs \o [i \in 1..NumSlaves |-> [owner |-> p, inst |-> 0]]
  /\ pc' = [pc EXCEPT ![p] = "granted"]
  /\ UNCHANGED <<groups, rules, inst, past, action, at, todo, nodes, host>>

(* The polling loop ends when all of my_req_ids are active. *)
MutantRequestsOf(p) == {r \in DOMAIN reqs : reqs[r].inst # 0}
RequestsOf(p) == {r \in DOMAIN reqs : reqs[r].owner = p}

(* A request is active until its instance is gone; the wait for one that   *)
(* was granted and terminated too soon is for ever.                        *)
Active(r) == reqs[r].inst # 0 /\ inst[reqs[r].inst].state # "terminated"
GetGranted(p) ==
  /\ pc[p] = "granted"
  /\ Cardinality({r \in RequestsOf(p) : Active(r)}) = NumSlaves
  /\ nodes' = [nodes EXCEPT ![p] = {reqs[r].inst : r \in RequestsOf(p)}]
  /\ pc' = [pc EXCEPT ![p] = "masters"]
  /\ UNCHANGED <<cloud, past, action, at, todo, host>>

-----------------------------------------------------------------------------
(* The address of an instance as the last answer of EC2 showed it. *)
Address(i) == IF inst[i].state = "running"
              THEN [inst |-> i, boot |-> inst[i].boot] ELSE NoAddress

MutantStillStarting(i) == inst[i].state # "running"
StillStarting(i) == inst[i].state = "pending"

(* wait_for_cluster: until no master is pending, then no slave, then no    *)
(* ZooKeeper node.                                                         *)
WaitForInstances(p) ==
  /\ pc[p] = "wait"
  /\ \A i \in NodesOf(p, RoleOrder[at[p]]) : ~StillStarting(i)
  /\ IF at[p] = 1
     THEN \E m \in NodesOf(p, "master") : host' = [host EXCEPT ![p] = Address(m)]
     ELSE UNCHANGED host
  /\ at' = [at EXCEPT ![p] = IF @ < 3 THEN @ + 1 ELSE 1]
  /\ pc' = [pc EXCEPT ![p] = IF at[p] < 3 THEN "wait" ELSE "deploy"]
  /\ UNCHANGED <<cloud, past, action, todo, nodes>>

Reachable(a) == a.inst # 0 /\ Address(a.inst) = a

(* deploy_files tries rsync again until it succeeds, whatever happened. *)
DeployFiles(p) ==
  /\ pc[p] = "deploy" /\ Reachable(host[p])
  /\ pc' = [pc EXCEPT ![p] = "setup"]
  /\ UNCHANGED <<cloud, past, action, at, todo, nodes, host>>

(* The rest of setup_cluster goes through ssh, which raises if it fails. *)
SetUp(p) ==
  /\ pc[p] = "setup"
  /\ pc' = [pc EXCEPT ![p] = IF Reachable(host[p]) THEN "done" ELSE "failed"]
  /\ UNCHANGED <<cloud, past, action, at, todo, nodes, host>>

-----------------------------------------------------------------------------
(* get_existing_cluster: all instances of a reservation that has an active *)
(* one.                                                                    *)
Existing == {i \in DOMAIN inst :
               \E j \in DOMAIN inst : inst[j].res = inst[i].res /\ is_active(j)}

Alive(i) == inst[i].state \notin {"shutting-down", "terminated"}

(* The calls of a loop over the nodes of a role, in the order that EC2      *)
(* happened to list them, and of the loops in turn.                        *)
LoopOver(role, set) == SetToSeq({i \in set : inst[i].role = role})

ExistingAlive == {i \in Existing : Alive(i)}

MutantCallsOf(a) ==
  CASE a = "destroy" -> LoopOver("master", Existing) \o LoopOver("zoo", Existing)
    [] a = "stop" ->
         LoopOver("master", ExistingAlive) \o LoopOver("slaves", ExistingAlive)
           \o LoopOver("zoo", ExistingAlive)
    [] a = "start" ->
         LoopOver("slaves", ExistingAlive) \o LoopOver("master", ExistingAlive)
           \o LoopOver("zoo", ExistingAlive)
    [] OTHER -> <<>>

CallsOf(a) ==
  CASE a = "destroy" ->
         LoopOver("master", Existing) \o LoopOver("slaves", Existing)
           \o LoopOver("zoo", Existing)
    [] a = "stop" ->
         LoopOver("master", ExistingAlive) \o LoopOver("slaves", ExistingAlive)
           \o LoopOver("zoo", ExistingAlive)
    [] a = "start" ->
         LoopOver("slaves", ExistingAlive) \o LoopOver("master", ExistingAlive)
           \o LoopOver("zoo", ExistingAlive)
    [] OTHER -> <<>>

FindExisting(p) ==
  /\ pc[p] = "find"
  /\ LET masters == {i \in Existing : inst[i].role = "master"}
         slaves  == {i \in Existing : inst[i].role = "slaves"}
     IN  IF masters = {} \/ slaves = {}
         THEN pc' = [pc EXCEPT ![p] = "refused"] /\ UNCHANGED <<todo, nodes, host>>
         ELSE /\ nodes' = [nodes EXCEPT ![p] = Existing]
              /\ todo' = [todo EXCEPT ![p] = CallsOf(action[p])]
              /\ \E m \in masters : host' = [host EXCEPT ![p] = Address(m)]
              /\ pc' = [pc EXCEPT ![p] =
                          IF action[p] = "resume" THEN "deploy" ELSE "calls"]
  /\ UNCHANGED <<cloud, past, action, at>>

(* EC2's answer to a call: the states it is accepted in, and the new one.  *)
Accepts(a, i) ==
  CASE a = "destroy" -> TRUE
    [] a = "stop"  -> inst[i].state \in {"running", "stopping", "stopped"}
    [] a = "start" -> inst[i].state \in {"pending", "running", "stopped"}

Answer(a, i) ==
  CASE a = "destroy" /\ inst[i].state # "terminated" ->
         [inst[i] EXCEPT !.state = "shutting-down"]
    [] a = "stop" /\ inst[i].state = "running" -> [inst[i] EXCEPT !.state = "stopping"]
    [] a = "start" /\ inst[i].state = "stopped" ->
         [inst[i] EXCEPT !.state = "pending", !.boot = @ + 1]
    [] OTHER -> inst[i]

(* inst.terminate(), inst.stop() or inst.start() on the next of the nodes. *)
AfterCalls(p) == IF action[p] = "start" THEN "wait" ELSE "done"
CallInstance(p) ==
  /\ pc[p] = "calls"
  /\ LET i == Head(todo[p]) IN
       IF Accepts(action[p], i)
       THEN /\ inst' = [inst EXCEPT ![i] = Answer(action[p], i)]
            /\ todo' = [todo EXCEPT ![p] = Tail(@)]
            /\ pc' = [pc EXCEPT ![p] =
                        IF Len(todo[p]) > 1 THEN "calls" ELSE AfterCalls(p)]
       ELSE pc' = [pc EXCEPT ![p] = "failed"] /\ UNCHANGED <<inst, todo>>
  /\ UNCHANGED <<groups, rules, reqs, past, action, at, nodes, host>>

-----------------------------------------------------------------------------
(* The user interrupts the script, or a call raises an exception. *)
Fail(p) ==
  /\ Busy(p) /\ failures < MaxFailures
  /\ failures' = failures + 1
  /\ pc' = [pc EXCEPT ![p] = "failed"]
  /\ UNCHANGED <<cloud, overlapped, action, at, todo, nodes, host>>

Becomes(i, state) ==
  /\ inst' = [inst EXCEPT ![i].state = state]
  /\ UNCHANGED <<groups, rules, reqs, overlapped, action, pc, at, todo, nodes, host>>

Settle(i) ==
  /\ \/ inst[i].state = "pending" /\ Becomes(i, "running")
     \/ inst[i].state = "stopping" /\ Becomes(i, "stopped")
     \/ inst[i].state = "shutting-down" /\ Becomes(i, "terminated")
  /\ UNCHANGED failures

(* An instance that fails to start, or is lost later. *)
Die(i) ==
  /\ inst[i].state \in {"pending", "running"} /\ failures < MaxFailures
  /\ failures' = failures + 1
  /\ Becomes(i, "terminated")

GrantSpot(r) ==
  /\ reqs[r].inst = 0
  /\ reqs' = [reqs EXCEPT ![r].inst = Len(inst) + 1]
  /\ inst' = Append(inst, [role |-> "slaves", res |-> Len(inst) + 1,
                           state |-> "pending", boot |-> 0])
  /\ UNCHANGED <<groups, rules, past, action, pc, at, todo, nodes, host>>

Step(p) ==
  \/ LookUpGroup(p) \/ CreateGroup(p) \/ Authorize(p) \/ CheckRunning(p)
  \/ LaunchSlaves(p) \/ RequestSlaves(p) \/ GetGranted(p)
  \/ LaunchMasters(p) \/ LaunchZoo(p)
  \/ WaitForInstances(p) \/ DeployFiles(p) \/ SetUp(p)
  \/ FindExisting(p) \/ CallInstance(p)

Next ==
  \/ \E p \in Proc : Begin(p) \/ Step(p) \/ Fail(p)
  \/ \E i \in DOMAIN inst : Settle(i) \/ Die(i)
  \/ \E r \in DOMAIN reqs : GrantSpot(r)

SafetySpec == Init /\ [][Next]_vars

(* A script that can go on does, and EC2 completes what it was told to do; *)
(* nobody has to start a script, and no spot request has to be granted.    *)
Spec == /\ SafetySpec
        /\ \A p \in Proc : WF_vars(Step(p))
        /\ WF_vars(\E i \in DOMAIN inst : Settle(i))

-----------------------------------------------------------------------------
(* The cloud's objects, and each invocation's place in its program. *)
TypeOK ==
  /\ groups \subseteq Role
  /\ rules \in [Role -> SUBSET Nat]
  /\ inst \in Seq([role : Role, res : Nat, boot : Nat,
                   state : {"pending", "running", "stopping", "stopped",
                            "shutting-down", "terminated"}])
  /\ reqs \in Seq([owner : Proc, inst : 0..Len(inst)])
  /\ failures \in 0..MaxFailures /\ overlapped \in BOOLEAN
  /\ action \in [Proc -> {"none"} \cup CommandLine]
  /\ pc \in [Proc -> Ended \cup {"idle", "lookup", "create", "authorize", "check",
       "slaves", "granted", "masters", "zoo", "wait", "deploy", "setup", "find", "calls"}]
  /\ at \in [Proc -> 1..3]
  /\ \A p \in Proc : nodes[p] \subseteq DOMAIN inst
  /\ \A p \in Proc : pc[p] \in {"authorize", "calls"} => todo[p] # <<>>
  /\ host \in [Proc -> [inst : Nat, boot : Nat]]

(* While invocations follow one another, interrupted or not, and none asked *)
(* for spot instances, the active instances of a role come from one launch: *)
(* launch_cluster refuses to add a cluster to one that runs, that is        *)
(* stopped, or that a failed launch or destroy has left behind.             *)
OneCluster ==
  (~overlapped /\ reqs = <<>>) =>
    \A i, j \in DOMAIN inst :
      (Alive(i) /\ Alive(j) /\ inst[i].role = inst[j].role) =>
        inst[i].res = inst[j].res

(* When destroy has come to its end, no instance launched before those it  *)
(* found, nor one of these, is alive or comes back, whatever a stop, start *)
(* or launch that runs at the same time does.                              *)
DestroyedForGood ==
  \A p \in Proc : (action[p] = "destroy" /\ pc[p] = "done") =>
    \A i \in DOMAIN inst : Alive(i) => \A j \in nodes[p] : j < i

(* Launches of one name race to create the groups and to give them rules,  *)
(* and lose the race with an exception.  Unless one is interrupted, when   *)
(* none is at it any more every group has all of its rules.                *)
GroupsSettle ==
  LET Launches == {p \in Proc : action[p] \in Launch}
  IN  ( /\ failures = 0 /\ Launches # {}
        /\ \A p \in Launches : pc[p] \notin {"lookup", "create", "authorize"} )
      => groups = Role /\ \A r \in Role : rules[r] = 1..NumRules[r]

(* A launch goes on to its masters with as many slaves as it asked for;    *)
(* those it asked spot requests for are granted to its own requests, when  *)
(* other launches request instances too or have left requests behind.      *)
SlavesAreMine ==
  \A p \in Proc :
    ( /\ action[p] \in Launch
      /\ pc[p] \in {"masters", "zoo", "wait", "deploy", "setup", "done"} ) =>
    /\ Cardinality(NodesOf(p, "slaves")) = NumSlaves
    /\ action[p] = "spot launch" =>
         \A i \in NodesOf(p, "slaves") :
           \E r \in DOMAIN reqs : reqs[r] = [owner |-> p, inst |-> i]

(* A script ends, by itself or by an exception, unless the master that it  *)
(* copies files to has gone or has moved to another address: then it tries *)
(* for ever.  (Only spot launches may wait for EC2 for ever.)              *)
EndsOrRetries ==
  \A p \in Proc : (action[p] \notin {"none", "spot launch"}) ~>
    (pc[p] \in Ended \/ (pc[p] = "deploy" /\ ~Reachable(host[p])))

(* Without failures and without another script, all but a resumed launch   *)
(* end: they wait for the master before they copy files to it.             *)
EndsAlone ==
  \A p \in Proc :
    (action[p] \notin {"none", "spot launch", "resume"} /\ pc[p] \notin Ended) ~>
      (pc[p] \in Ended \/ failures > 0 \/ overlapped)

=============================================================================
