-------------------------- MODULE Ec2Cluster_proofs --------------------------
(***************************************************************************)
(* Proofs about the life of a cluster, for any invocations, any numbers of *)
(* nodes and of rules, and any number of failures.                         *)
(***************************************************************************)
EXTENDS Ec2Cluster, FiniteSetTheorems, SequenceTheorems, TLAPS

Covers(q, T) == \A x \in T : \E k \in DOMAIN q : q[k] = x

(* Lemma: the loop over a set of nodes goes through all of them. *)
LEMMA OrderOfSet ==
  ASSUME NEW S, IsFiniteSet(S)
  PROVE  /\ SetToSeq(S) \in Seq(S)
         /\ Len(SetToSeq(S)) = Cardinality(S)
         /\ Covers(SetToSeq(S), S)
<1> DEFINE n == Cardinality(S)
<1>1. n \in Nat /\ ExistsBijection(1..n, S)
  BY FS_CardinalityType
<1>2. PICK f \in [1..n -> S] : IsInjective(f)
  BY <1>1, Zenon DEF ExistsBijection, Bijection, Injection
<1> DEFINE g == SetToSeq(S)
<1>3. g \in [1..n -> S] /\ IsInjective(g)
  BY <1>2, Zenon DEF SetToSeq
<1>4. IsFiniteSet(1..n) /\ Cardinality(1..n) = n
  BY <1>1, FS_Interval
<1>5. g \in Injection(1..n, S)
  BY <1>3, Zenon DEF Injection
<1>6. g \in Surjection(1..n, S)
  BY <1>4, <1>5, FS_Injection
<1> QED
  BY <1>1, <1>3, <1>6 DEF Surjection, Covers
-----------------------------------------------------------------------------
(* What TypeOK leaves out: the values of todo, and which actions an        *)
(* invocation can have at each place of its program.                       *)
Instance == [role : Role, res : Nat, boot : Nat,
             state : {"pending", "running", "stopping", "stopped", "shutting-down", "terminated"}]
Request == [owner : Proc, inst : Nat]
Place == Ended \cup {"idle", "lookup", "create", "authorize", "check", "slaves", "granted",
                     "masters", "zoo", "wait", "deploy", "setup", "find", "calls"}
Rule == Role \X Nat
Fresh == {"idle", "lookup", "create", "authorize", "check", "slaves"}

CloudOK ==
  /\ groups \subseteq Role /\ rules \in [Role -> SUBSET Nat]
  /\ inst \in Seq(Instance)
  /\ reqs \in Seq(Request)
  /\ \A r \in DOMAIN reqs : reqs[r].inst <= Len(inst)
  /\ failures \in 0..MaxFailures /\ overlapped \in BOOLEAN

ProgramOK ==
  /\ action \in [Proc -> {"none"} \cup CommandLine] /\ pc \in [Proc -> Place]
  /\ at \in [Proc -> 1..3] /\ host \in [Proc -> [inst : Nat, boot : Nat]]
  /\ nodes \in [Proc -> SUBSET Nat] /\ DOMAIN todo = Proc

PlaceOK(p) ==
  /\ (pc[p] = "idle") <=> (action[p] = "none")
  /\ pc[p] = "idle" => at[p] = 1 /\ todo[p] = <<>>
  /\ pc[p] \in Fresh \cup {"granted", "find"} => nodes[p] = {}
  /\ pc[p] \in {"lookup", "create", "authorize", "check", "slaves", "granted", "masters",
                "zoo"} => action[p] \in Launch
  /\ pc[p] \in {"find", "calls"} => action[p] \notin Launch
  /\ pc[p] = "calls" => action[p] # "resume"
  /\ pc[p] \in {"wait", "deploy", "setup"} => action[p] \notin {"destroy", "stop"}
  /\ pc[p] \in {"authorize", "calls"} => todo[p] # <<>>

DataOK(p) ==
  /\ nodes[p] \subseteq DOMAIN inst
  /\ action[p] \in Launch => todo[p] \in Seq(Rule)
  /\ action[p] \notin Launch => todo[p] \in Seq(DOMAIN inst)

(* A spot launch asks once for its slaves, and no instance is granted to   *)
(* two requests.                                                           *)
RequestsOK ==
  /\ \A p \in Proc :
       /\ pc[p] \in Fresh => RequestsOf(p) = {}
       /\ pc[p] = "granted" => Cardinality(RequestsOf(p)) = NumSlaves
  /\ \A r \in DOMAIN reqs : reqs[r].inst # 0 =>
       /\ inst[reqs[r].inst].role = "slaves"
       /\ \A q \in DOMAIN reqs : reqs[q].inst = reqs[r].inst => q = r

TypeInv ==
  CloudOK /\ ProgramOK /\ RequestsOK /\ \A p \in Proc : PlaceOK(p) /\ DataOK(p)

-----------------------------------------------------------------------------
(* Lemma: sequences of instances and of requests, and the values they hold. *)
LEMMA Sizes ==
  ASSUME CloudOK
  PROVE  /\ Len(inst) \in Nat /\ DOMAIN inst = 1..Len(inst)
         /\ \A i \in DOMAIN inst : inst[i] \in Instance
         /\ Len(reqs) \in Nat /\ DOMAIN reqs = 1..Len(reqs)
         /\ \A r \in DOMAIN reqs : reqs[r] \in Request
<1>1. inst \in Seq(Instance) /\ reqs \in Seq(Request)
  BY DEF CloudOK
<1>2. Len(inst) \in Nat /\ DOMAIN inst = 1..Len(inst) /\ \A i \in DOMAIN inst : inst[i] \in Instance
  BY <1>1
<1>3. /\ Len(reqs) \in Nat /\ DOMAIN reqs = 1..Len(reqs)
      /\ \A r \in DOMAIN reqs : reqs[r] \in Request
  BY <1>1
<1> QED
  BY <1>2, <1>3

(* Lemma: what is left of a sequence after its head. *)
LEMMA TailFacts ==
  ASSUME NEW S, NEW q \in Seq(S), q # <<>>
  PROVE  /\ Head(q) = q[1] /\ q[1] \in S /\ Tail(q) \in Seq(S)
         /\ Len(q) \in Nat \ {0} /\ 1 \in DOMAIN q
         /\ Len(Tail(q)) = Len(q) - 1
         /\ DOMAIN Tail(q) = 1..(Len(q) - 1) /\ DOMAIN q = 1..Len(q)
         /\ \A k \in 1..(Len(q) - 1) : Tail(q)[k] = q[k + 1]
         /\ Len(q) > 1 <=> Tail(q) # <<>>
<1>1. /\ Head(q) = q[1] /\ q[1] \in S /\ Tail(q) \in Seq(S)
      /\ Len(q) \in Nat \ {0} /\ 1 \in DOMAIN q
      /\ Len(Tail(q)) = Len(q) - 1
      /\ DOMAIN Tail(q) = 1..(Len(q) - 1) /\ DOMAIN q = 1..Len(q)
  OBVIOUS
<1>2. \A k \in 1..(Len(q) - 1) : Tail(q)[k] = q[k + 1]
  OBVIOUS
<1>3. Len(q) > 1 <=> Tail(q) # <<>>
  <2>1. Tail(q) = <<>> <=> Len(Tail(q)) = 0
    BY <1>1, EmptySeq
  <2> QED
    BY <1>1, <2>1
<1> QED
  BY <1>1, <1>2, <1>3

(* Lemma: three sequences in turn. *)
LEMMA InTurn ==
  ASSUME NEW S, NEW T, NEW q1 \in Seq(S), NEW q2 \in Seq(S), NEW q3 \in Seq(S),
         \A x \in T : \/ \E k \in DOMAIN q1 : q1[k] = x
                      \/ \E k \in DOMAIN q2 : q2[k] = x
                      \/ \E k \in DOMAIN q3 : q3[k] = x
  PROVE  /\ q1 \o q2 \o q3 \in Seq(S)
         /\ Covers(q1 \o q2 \o q3, T)
<1> DEFINE h == q1 \o q2
           q == h \o q3
<1>1. /\ h \in Seq(S) /\ Len(h) = Len(q1) + Len(q2)
      /\ \A i \in 1..Len(q1) + Len(q2) :
           h[i] = IF i <= Len(q1) THEN q1[i] ELSE q2[i - Len(q1)]
  BY ConcatProperties
<1> HIDE DEF h
<1>2. /\ q \in Seq(S) /\ Len(q) = Len(h) + Len(q3)
      /\ \A i \in 1..Len(h) + Len(q3) :
           q[i] = IF i <= Len(h) THEN h[i] ELSE q3[i - Len(h)]
  <2>1. h \in Seq(S)
    BY <1>1
  <2> QED
    BY <2>1, ConcatProperties, Zenon
<1> HIDE DEF q
<1>3. ASSUME NEW k \in DOMAIN q1 PROVE k \in DOMAIN q /\ q[k] = q1[k]
  BY <1>1, <1>2
<1>4. ASSUME NEW k \in DOMAIN q2
      PROVE  k + Len(q1) \in DOMAIN q /\ q[k + Len(q1)] = q2[k]
  <2>1. Len(q1) \in Nat /\ Len(q2) \in Nat /\ k \in 1..Len(q2)
    OBVIOUS
  <2>2. h[k + Len(q1)] = q2[k]
    BY <1>1, <2>1
  <2> QED
    BY <1>1, <1>2, <2>1, <2>2
<1>5. ASSUME NEW k \in DOMAIN q3
      PROVE  k + Len(h) \in DOMAIN q /\ q[k + Len(h)] = q3[k]
  BY <1>1, <1>2
<1>6. q1 \o q2 \o q3 = q
  BY DEF q, h
<1>7. ASSUME NEW x, \E k \in DOMAIN q1 : q1[k] = x PROVE \E k \in DOMAIN q : q[k] = x
  BY <1>3, <1>7
<1>8. ASSUME NEW x, \E k \in DOMAIN q2 : q2[k] = x PROVE \E k \in DOMAIN q : q[k] = x
  BY <1>4, <1>8
<1>9. ASSUME NEW x, \E k \in DOMAIN q3 : q3[k] = x PROVE \E k \in DOMAIN q : q[k] = x
  BY <1>5, <1>9
<1>10. Covers(q, T)
  BY <1>7, <1>8, <1>9 DEF Covers
<1> QED
  BY <1>2, <1>6, <1>10, Zenon

(* Lemma: an instance is active as long as it is not shut down.            *)
LEMMA ActiveOrGone ==
  ASSUME CloudOK, NEW i \in DOMAIN inst
  PROVE  is_active(i) <=> Alive(i)
  BY Sizes DEF is_active, Alive, Instance

(* Lemma: the calls of destroy, stop and start go to every node found that *)
(* is alive.                                                               *)
LEMMA CallsCover ==
  ASSUME CloudOK, NEW a \in {"destroy", "stop", "start"}
  PROVE  /\ CallsOf(a) \in Seq(DOMAIN inst)
         /\ \A i \in DOMAIN inst : Alive(i) =>
              \E c \in DOMAIN CallsOf(a) : CallsOf(a)[c] = i
<1> DEFINE Found == IF a = "destroy" THEN Existing ELSE ExistingAlive
           L(role) == LoopOver(role, Found)
<1>1. Found \subseteq DOMAIN inst /\ IsFiniteSet(DOMAIN inst)
  <2>1. Len(inst) \in Nat /\ DOMAIN inst = 1..Len(inst)
    BY Sizes, Zenon
  <2>2. IsFiniteSet(DOMAIN inst)
    BY <2>1, FS_Interval
  <2> QED
    BY <2>2 DEF Existing, ExistingAlive
<1>2. \A i \in DOMAIN inst : Alive(i) => i \in Found
  BY ActiveOrGone DEF Existing, ExistingAlive
<1> HIDE DEF Found
<1>3. ASSUME NEW role
      PROVE  /\ L(role) \in Seq(DOMAIN inst)
             /\ \A i \in Found : inst[i].role = role => \E k \in DOMAIN L(role) : L(role)[k] = i
  <2> DEFINE S == {i \in Found : inst[i].role = role}
  <2>1. S \subseteq DOMAIN inst /\ IsFiniteSet(S)
    BY <1>1, FS_Subset
  <2> HIDE DEF S
  <2>2. /\ SetToSeq(S) \in Seq(S)
        /\ Covers(SetToSeq(S), S)
    BY <2>1, OrderOfSet, Zenon
  <2>3. SetToSeq(S) \in Seq(DOMAIN inst)
    BY <2>1, <2>2, SeqMonotonic, Zenon
  <2>4. L(role) = SetToSeq(S)
    BY Zenon DEF LoopOver, S
  <2>5. \A i \in Found : inst[i].role = role => i \in S
    BY DEF S
  <2> QED
    BY <2>2, <2>3, <2>4, <2>5, Zenon DEF Covers
<1>4. \A i \in Found : inst[i].role \in {"master", "slaves", "zoo"}
  BY <1>1, Sizes DEF Instance, Role
<1>5. \/ CallsOf(a) = L("master") \o L("slaves") \o L("zoo")
      \/ CallsOf(a) = L("slaves") \o L("master") \o L("zoo")
  BY DEF CallsOf, Found
<1> DEFINE ms == L("master")
           ss == L("slaves")
           zs == L("zoo")
<1>6. ms \in Seq(DOMAIN inst) /\ ss \in Seq(DOMAIN inst) /\ zs \in Seq(DOMAIN inst)
  BY <1>3
<1>7. \A i \in Found :
       \/ \E k \in DOMAIN ms : ms[k] = i
       \/ \E k \in DOMAIN ss : ss[k] = i
       \/ \E k \in DOMAIN zs : zs[k] = i
  BY <1>3, <1>4
<1>7a. \A i \in Found :
       \/ \E k \in DOMAIN ss : ss[k] = i
       \/ \E k \in DOMAIN ms : ms[k] = i
       \/ \E k \in DOMAIN zs : zs[k] = i
  BY <1>7, Zenon
<1>8. CallsOf(a) = ms \o ss \o zs \/ CallsOf(a) = ss \o ms \o zs
  BY <1>5
<1> HIDE DEF ms, ss, zs
<1> DEFINE D == DOMAIN inst
<1>9. ms \in Seq(D) /\ ss \in Seq(D) /\ zs \in Seq(D)
  BY <1>6
<1> HIDE DEF D
<1>10. /\ ms \o ss \o zs \in Seq(D)
       /\ Covers(ms \o ss \o zs, Found)
  BY <1>7, <1>9, InTurn
<1>11. /\ ss \o ms \o zs \in Seq(D)
       /\ Covers(ss \o ms \o zs, Found)
  BY <1>7a, <1>9, InTurn
<1>12. CallsOf(a) \in Seq(D) /\ Covers(CallsOf(a), Found)
  BY <1>8, <1>10, <1>11, Zenon
<1> QED
  BY <1>2, <1>12 DEF D, Covers
-----------------------------------------------------------------------------
(* What a step leaves to the invocations that do not take it.              *)
Kept(q) ==
  /\ action'[q] = action[q] /\ pc'[q] = pc[q] /\ at'[q] = at[q]
  /\ todo'[q] = todo[q] /\ nodes'[q] = nodes[q]

(* The list of instances only grows, and what is gone does not come back.  *)
InstKept ==
  /\ Len(inst) <= Len(inst') /\ DOMAIN inst \subseteq DOMAIN inst'
  /\ \A i \in DOMAIN inst :
       /\ inst'[i].role = inst[i].role /\ inst'[i].res = inst[i].res
       /\ (Alive(i))' => Alive(i)

(* Lemma: an invocation moves only itself.                                 *)
LEMMA OthersKept ==
  ASSUME ProgramOK, NEW p \in Proc, Begin(p) \/ Step(p) \/ Fail(p),
         NEW q \in Proc, q # p
  PROVE  Kept(q)
<1>1. CASE Begin(p)
  BY <1>1 DEF Begin, ProgramOK, Kept
<1>2. CASE LookUpGroup(p)
  BY <1>2 DEF LookUpGroup, GotGroup, ProgramOK, Kept
<1>3. CASE CreateGroup(p)
  BY <1>3 DEF CreateGroup, GotGroup, ProgramOK, Kept
<1>4. CASE Authorize(p)
  BY <1>4 DEF Authorize, ProgramOK, Kept
<1>5. CASE CheckRunning(p)
  BY <1>5 DEF CheckRunning, ProgramOK, Kept
<1>6. CASE LaunchSlaves(p)
  BY <1>6 DEF LaunchSlaves, run, ProgramOK, Kept
<1>7. CASE RequestSlaves(p)
  BY <1>7 DEF RequestSlaves, ProgramOK, Kept
<1>8. CASE GetGranted(p)
  BY <1>8 DEF GetGranted, ProgramOK, Kept
<1>9. CASE LaunchMasters(p)
  BY <1>9 DEF LaunchMasters, run, ProgramOK, Kept
<1>10. CASE LaunchZoo(p)
  BY <1>10 DEF LaunchZoo, run, ProgramOK, Kept
<1>11. CASE WaitForInstances(p)
  BY <1>11 DEF WaitForInstances, ProgramOK, Kept
<1>12. CASE DeployFiles(p)
  BY <1>12 DEF DeployFiles, ProgramOK, Kept
<1>13. CASE SetUp(p)
  BY <1>13 DEF SetUp, ProgramOK, Kept
<1>14. CASE FindExisting(p)
  BY <1>14 DEF FindExisting, ProgramOK, Kept
<1>15. CASE CallInstance(p)
  BY <1>15 DEF CallInstance, ProgramOK, Kept
<1>16. CASE Fail(p)
  BY <1>16 DEF Fail, ProgramOK, Kept
<1> QED
  BY <1>1, <1>2, <1>3, <1>4, <1>5, <1>6, <1>7, <1>8, <1>9, <1>10, <1>11, <1>12,
     <1>13, <1>14, <1>15, <1>16 DEF Step

(* Lemma: the cloud moves no invocation.                                   *)
LEMMA CloudKept ==
  ASSUME NEW q \in Proc,
         \/ \E i \in DOMAIN inst : Settle(i) \/ Die(i)
         \/ \E r \in DOMAIN reqs : GrantSpot(r)
         \/ UNCHANGED vars
  PROVE  Kept(q)
  BY DEF Settle, Die, Becomes, GrantSpot, vars, past, Kept

(* Lemma: a step that changes one instance, and leaves it its role and     *)
(* reservation and does not bring it back, keeps the list.                 *)
LEMMA ChangeOne ==
  ASSUME CloudOK, NEW i \in DOMAIN inst, NEW x \in Instance,
         x.role = inst[i].role, x.res = inst[i].res,
         x.state \notin {"shutting-down", "terminated"} => Alive(i),
         inst' = [inst EXCEPT ![i] = x]
  PROVE  inst' \in Seq(Instance) /\ Len(inst') = Len(inst) /\ InstKept
<1>1. inst \in Seq(Instance) /\ DOMAIN inst = 1..Len(inst) /\ Len(inst) \in Nat
  BY Sizes DEF CloudOK
<1>2. /\ inst' \in Seq(Instance) /\ Len(inst') = Len(inst)
      /\ \A j \in 1..Len(inst) : inst'[j] = IF j = i THEN x ELSE inst[j]
  BY <1>1, ExceptSeq
<1>3. DOMAIN inst' = DOMAIN inst
  BY <1>1, <1>2
<1>4. \A j \in DOMAIN inst : (Alive(j))' => Alive(j)
  BY <1>1, <1>2 DEF Alive
<1>5. \A j \in DOMAIN inst : inst'[j].role = inst[j].role /\ inst'[j].res = inst[j].res
  BY <1>1, <1>2
<1>6. Len(inst) <= Len(inst')
  BY <1>1, <1>2
<1> QED
  BY <1>2, <1>3, <1>4, <1>5, <1>6 DEF InstKept

(* Lemma: new instances come after the ones there are.                     *)
LEMMA AddSome ==
  ASSUME CloudOK, NEW n \in Nat, NEW x \in Instance,
         inst' = inst \o [i \in 1..n |-> x]
  PROVE  /\ inst' \in Seq(Instance) /\ Len(inst') = Len(inst) + n /\ InstKept
         /\ DOMAIN inst' = 1..(Len(inst) + n)
         /\ \A i \in DOMAIN inst : inst'[i] = inst[i]
         /\ \A i \in (Len(inst) + 1)..(Len(inst) + n) : inst'[i] = x
<1>1. inst \in Seq(Instance) /\ DOMAIN inst = 1..Len(inst) /\ Len(inst) \in Nat
  BY Sizes DEF CloudOK
<1> DEFINE s == [i \in 1..n |-> x]
<1>2. s \in Seq(Instance) /\ Len(s) = n /\ \A i \in 1..n : s[i] = x
  OBVIOUS
<1> HIDE DEF s
<1>3. /\ inst' \in Seq(Instance) /\ Len(inst') = Len(inst) + n
      /\ \A i \in 1..Len(inst) + n : inst'[i] = IF i <= Len(inst) THEN inst[i]
                                                ELSE s[i - Len(inst)]
  <2>1. inst' = inst \o s
    BY DEF s
  <2> QED
    BY <1>1, <1>2, <2>1, ConcatProperties
<1>4. DOMAIN inst' = 1..(Len(inst) + n) /\ DOMAIN inst \subseteq DOMAIN inst'
      /\ Len(inst) <= Len(inst')
  BY <1>1, <1>3
<1>5. \A i \in DOMAIN inst : inst'[i] = inst[i]
  BY <1>1, <1>3
<1>6. \A i \in (Len(inst) + 1)..(Len(inst) + n) : inst'[i] = x
  <2> SUFFICES ASSUME NEW i \in (Len(inst) + 1)..(Len(inst) + n) PROVE inst'[i] = x
    OBVIOUS
  <2>1. i \in 1..Len(inst) + n /\ ~(i <= Len(inst)) /\ i - Len(inst) \in 1..n
    BY <1>1
  <2> QED
    BY <1>2, <1>3, <2>1
<1>7. InstKept
  BY <1>4, <1>5 DEF InstKept, Alive
<1> QED
  BY <1>3, <1>4, <1>5, <1>6, <1>7

(* Lemma: image.run starts so many instances of a role. *)
LEMMA RunFacts ==
  ASSUME CloudOK, NEW p, NEW role \in Role, NEW n \in Nat, NEW next, run(p, role, n, next)
  PROVE  /\ inst' \in Seq(Instance) /\ Len(inst') = Len(inst) + n /\ InstKept
         /\ DOMAIN inst' = 1..(Len(inst) + n)
         /\ \A i \in DOMAIN inst : inst'[i] = inst[i]
         /\ \A i \in (Len(inst) + 1)..(Len(inst) + n) :
              inst'[i].role = role /\ inst'[i].res = Len(inst) + 1
<1> DEFINE x == [role |-> role, res |-> Len(inst) + 1, state |-> "pending", boot |-> 0]
<1>1. x \in Instance /\ x.role = role /\ x.res = Len(inst) + 1
  BY Sizes DEF Instance
<1>2. inst' = inst \o [i \in 1..n |-> x]
  BY DEF run
<1> HIDE DEF x
<1> QED
  BY <1>1, <1>2, AddSome

(* Lemma: the answer to a call leaves an instance its role and reservation, *)
(* and brings none back.                                                   *)
LEMMA AnswerFacts ==
  ASSUME CloudOK, NEW a, NEW i \in DOMAIN inst, Accepts(a, i)
  PROVE  /\ Answer(a, i) \in Instance
         /\ Answer(a, i).role = inst[i].role /\ Answer(a, i).res = inst[i].res
         /\ Answer(a, i).state \notin {"shutting-down", "terminated"} => Alive(i)
         /\ a = "destroy" => Answer(a, i).state \in {"shutting-down", "terminated"}
<1>1. inst[i] \in Instance
  BY Sizes
<1>2. CASE a = "destroy" /\ inst[i].state # "terminated"
  <2>1. Answer(a, i) = [inst[i] EXCEPT !.state = "shutting-down"]
    BY <1>2 DEF Answer
  <2> QED
    BY <1>1, <2>1 DEF Instance
<1>3. CASE a = "stop" /\ inst[i].state = "running"
  <2>1. Answer(a, i) = [inst[i] EXCEPT !.state = "stopping"]
    BY <1>3 DEF Answer
  <2> QED
    BY <1>1, <1>3, <2>1 DEF Instance, Alive
<1>4. CASE a = "start" /\ inst[i].state = "stopped"
  <2>1. Answer(a, i) = [inst[i] EXCEPT !.state = "pending", !.boot = @ + 1]
    BY <1>4 DEF Answer
  <2> DEFINE z == [inst[i] EXCEPT !.state = "pending"]
           y == [inst[i] EXCEPT !.state = "pending", !.boot = @ + 1]
  <2>2. /\ z \in Instance /\ z.role = inst[i].role /\ z.res = inst[i].res
        /\ y = [z EXCEPT !.boot = @ + 1]
    BY <1>1 DEF Instance
  <2> HIDE DEF y, z
  <2>3. y \in Instance /\ y.role = inst[i].role /\ y.res = inst[i].res
    BY <2>2 DEF Instance
  <2>4. Alive(i) /\ a # "destroy"
    BY <1>4 DEF Alive
  <2>5. Answer(a, i) = y
    BY <2>1 DEF y
  <2> QED
    BY <2>3, <2>4, <2>5
<1>5. CASE ~(\/ a = "destroy" /\ inst[i].state # "terminated"
             \/ a = "stop" /\ inst[i].state = "running"
             \/ a = "start" /\ inst[i].state = "stopped")
  <2>1. Answer(a, i) = inst[i]
    BY <1>5, Zenon DEF Answer
  <2>2. a = "destroy" => inst[i].state = "terminated"
    BY <1>5
  <2> QED
    BY <1>1, <2>1, <2>2, Zenon DEF Alive
<1> QED
  BY <1>2, <1>3, <1>4, <1>5

(* Lemma: the next instance that an invocation calls.                      *)
LEMMA NextCall ==
  ASSUME TypeInv, NEW p \in Proc, pc[p] = "calls"
  PROVE  /\ todo[p] \in Seq(DOMAIN inst) /\ todo[p] # <<>>
         /\ Head(todo[p]) \in DOMAIN inst /\ Tail(todo[p]) \in Seq(DOMAIN inst)
         /\ Len(todo[p]) > 1 <=> Tail(todo[p]) # <<>>
<1>1. todo[p] \in Seq(DOMAIN inst) /\ todo[p] # <<>>
  BY DEF TypeInv, PlaceOK, DataOK
<1> DEFINE D == DOMAIN inst
           s == todo[p]
<1>2. s \in Seq(D) /\ s # <<>>
  BY <1>1
<1> HIDE DEF D, s
<1>3. /\ Head(s) \in D /\ Tail(s) \in Seq(D)
      /\ Len(s) > 1 <=> Tail(s) # <<>>
  BY <1>2, TailFacts
<1> QED
  BY <1>1, <1>3 DEF D, s

(* Lemma: a step on the list of instances.                                 *)
LEMMA InstMoves ==
  ASSUME TypeInv, [Next]_vars
  PROVE  inst' \in Seq(Instance) /\ InstKept
<1>0. CloudOK /\ inst \in Seq(Instance) /\ ProgramOK
  BY DEF TypeInv, CloudOK
<1>1. CASE UNCHANGED inst
  BY <1>0, <1>1, Sizes DEF InstKept, Alive
<1>2. ASSUME NEW p \in Proc, LaunchSlaves(p) PROVE inst' \in Seq(Instance) /\ InstKept
  BY <1>0, <1>2, RunFacts, Ec2Assumption DEF LaunchSlaves, Role
<1>3. ASSUME NEW p \in Proc, LaunchMasters(p) PROVE inst' \in Seq(Instance) /\ InstKept
  BY <1>0, <1>3, RunFacts, Ec2Assumption DEF LaunchMasters, Role
<1>4. ASSUME NEW p \in Proc, LaunchZoo(p) PROVE inst' \in Seq(Instance) /\ InstKept
  BY <1>0, <1>4, RunFacts, Ec2Assumption DEF LaunchZoo, Role
<1>5. ASSUME NEW p \in Proc, CallInstance(p) PROVE inst' \in Seq(Instance) /\ InstKept
  <2> DEFINE i == Head(todo[p])
  <2>1. i \in DOMAIN inst
    BY <1>5, NextCall DEF CallInstance
  <2>2. CASE Accepts(action[p], i)
    <3>1. inst' = [inst EXCEPT ![i] = Answer(action[p], i)]
      BY <1>5, <2>2 DEF CallInstance
    <3> HIDE DEF i
    <3> QED
      BY <1>0, <2>1, <2>2, <3>1, AnswerFacts, ChangeOne
  <2>3. CASE ~Accepts(action[p], i)
    BY <1>1, <1>5, <2>3 DEF CallInstance
  <2> QED
    BY <2>2, <2>3
<1>6. ASSUME NEW i \in DOMAIN inst, NEW state, Becomes(i, state), Alive(i),
             state \in {"running", "stopped", "terminated"}
      PROVE  inst' \in Seq(Instance) /\ InstKept
  <2> DEFINE x == [inst[i] EXCEPT !.state = state]
  <2>1. inst' = [inst EXCEPT ![i] = x]
    BY <1>6 DEF Becomes
  <2>2. x \in Instance /\ x.role = inst[i].role /\ x.res = inst[i].res
    BY <1>0, <1>6, Sizes DEF Instance
  <2> HIDE DEF x
  <2> QED
    BY <1>0, <1>6, <2>1, <2>2, ChangeOne
<1>7. ASSUME NEW i \in DOMAIN inst, Settle(i) \/ Die(i)
      PROVE  inst' \in Seq(Instance) /\ InstKept
  <2>1. CASE inst[i].state = "shutting-down" /\ Becomes(i, "terminated")
    <3> DEFINE x == [inst[i] EXCEPT !.state = "terminated"]
    <3>1. inst' = [inst EXCEPT ![i] = x]
      BY <2>1 DEF Becomes
    <3>2. x \in Instance /\ x.role = inst[i].role /\ x.res = inst[i].res
          /\ x.state = "terminated"
      BY <1>0, Sizes DEF Instance
    <3> HIDE DEF x
    <3> QED
      BY <1>0, <3>1, <3>2, ChangeOne
  <2>2. CASE inst[i].state = "pending" /\ Becomes(i, "running")
    BY <1>6, <2>2 DEF Alive
  <2>3. CASE inst[i].state = "stopping" /\ Becomes(i, "stopped")
    BY <1>6, <2>3 DEF Alive
  <2>4. CASE inst[i].state \in {"pending", "running"} /\ Becomes(i, "terminated")
    BY <1>6, <2>4 DEF Alive
  <2> QED
    BY <1>7, <2>1, <2>2, <2>3, <2>4 DEF Settle, Die
<1>8. ASSUME NEW r \in DOMAIN reqs, GrantSpot(r) PROVE inst' \in Seq(Instance) /\ InstKept
  <2> DEFINE x == [role |-> "slaves", res |-> Len(inst) + 1, state |-> "pending", boot |-> 0]
  <2>1. x \in Instance
    BY <1>0, Sizes DEF Instance, Role
  <2>2. inst' = inst \o [j \in 1..1 |-> x]
    BY <1>8, <1>0 DEF GrantSpot
  <2> HIDE DEF x
  <2> QED
    BY <1>0, <2>1, <2>2, AddSome
<1>9. ASSUME NEW p \in Proc, Begin(p) \/ Step(p) \/ Fail(p)
      PROVE  inst' \in Seq(Instance) /\ InstKept
  <2>1. CASE \/ Begin(p) \/ LookUpGroup(p) \/ CreateGroup(p) \/ Authorize(p)
             \/ CheckRunning(p) \/ RequestSlaves(p) \/ GetGranted(p)
             \/ WaitForInstances(p) \/ DeployFiles(p) \/ SetUp(p) \/ FindExisting(p)
             \/ Fail(p)
    <3>1. UNCHANGED inst
      BY <2>1 DEF Begin, LookUpGroup, CreateGroup, Authorize, CheckRunning, RequestSlaves,
                  GetGranted, WaitForInstances, DeployFiles, SetUp, FindExisting, Fail, cloud
    <3> QED
      BY <1>1, <3>1
  <2> QED
    BY <1>2, <1>3, <1>4, <1>5, <1>9, <2>1 DEF Step
<1> QED
  BY <1>1, <1>7, <1>8, <1>9 DEF Next, vars

(* Lemma: the spot requests of a step: there may be new ones, and one may   *)
(* be granted the instance that is started for it.                         *)
LEMMA ReqsMove ==
  ASSUME TypeInv, [Next]_vars
  PROVE  /\ reqs' \in Seq(Request)
         /\ \A r \in DOMAIN reqs' : reqs'[r].inst <= Len(inst')
<1>0. /\ reqs \in Seq(Request) /\ Len(reqs) \in Nat /\ DOMAIN reqs = 1..Len(reqs)
      /\ \A r \in DOMAIN reqs : reqs[r].inst <= Len(inst) /\ reqs[r].inst \in Nat
  BY Sizes DEF TypeInv, CloudOK, Request
<1>1. Len(inst) \in Nat /\ Len(inst') \in Nat /\ Len(inst) <= Len(inst')
  BY InstMoves, Sizes DEF TypeInv, InstKept
<1>2. CASE UNCHANGED reqs
  BY <1>0, <1>1, <1>2
<1>3. ASSUME NEW p \in Proc, RequestSlaves(p)
      PROVE  /\ reqs' \in Seq(Request)
             /\ \A r \in DOMAIN reqs' : reqs'[r].inst <= Len(inst')
  <2> DEFINE x == [owner |-> p, inst |-> 0]
             s == [i \in 1..NumSlaves |-> x]
  <2>0. NumSlaves \in Nat
    BY Ec2Assumption
  <2>1. x \in Request /\ x.inst = 0
    BY DEF Request
  <2> HIDE DEF x
  <2>2. s \in Seq(Request) /\ Len(s) = NumSlaves /\ \A i \in 1..NumSlaves : s[i] = x
    BY <2>0, <2>1
  <2>3. reqs' = reqs \o s
    BY <1>3 DEF RequestSlaves, x
  <2> HIDE DEF s
  <2>4. /\ reqs' \in Seq(Request) /\ Len(reqs') = Len(reqs) + NumSlaves
        /\ \A r \in 1..Len(reqs) + NumSlaves :
             reqs'[r] = IF r <= Len(reqs) THEN reqs[r] ELSE s[r - Len(reqs)]
    BY <1>0, <2>2, <2>3, ConcatProperties
  <2>5. ASSUME NEW r \in DOMAIN reqs' PROVE reqs'[r].inst <= Len(inst')
    <3>1. CASE r <= Len(reqs)
      <4>1. r \in DOMAIN reqs /\ reqs'[r] = reqs[r]
        BY <1>0, <2>0, <2>4, <3>1
      <4> QED
        BY <1>0, <1>1, <4>1
    <3>2. CASE ~(r <= Len(reqs))
      <4>1. r - Len(reqs) \in 1..NumSlaves /\ reqs'[r] = s[r - Len(reqs)]
        BY <1>0, <2>0, <2>4, <3>2
      <4> QED
        BY <1>1, <2>1, <2>2, <4>1
    <3> QED
      BY <3>1, <3>2
  <2> QED
    BY <2>4, <2>5
<1>4. ASSUME NEW g \in DOMAIN reqs, GrantSpot(g)
      PROVE  /\ reqs' \in Seq(Request)
             /\ \A r \in DOMAIN reqs' : reqs'[r].inst <= Len(inst')
  <2> DEFINE x == [reqs[g] EXCEPT !.inst = Len(inst) + 1]
  <2>1. x \in Request /\ x.inst = Len(inst) + 1
    <3>1. reqs[g] \in Request
      BY Sizes DEF TypeInv
    <3> QED
      BY <1>1, <3>1 DEF Request
  <2>2. reqs' = [reqs EXCEPT ![g] = x]
    BY <1>4 DEF GrantSpot
  <2>3. Len(inst') = Len(inst) + 1
    BY <1>4, <1>1 DEF GrantSpot, TypeInv, CloudOK
  <2> HIDE DEF x
  <2>4. /\ reqs' \in Seq(Request) /\ Len(reqs') = Len(reqs)
        /\ \A r \in 1..Len(reqs) : reqs'[r] = IF r = g THEN x ELSE reqs[r]
    BY <1>0, <2>1, <2>2, ExceptSeq
  <2> QED
    BY <1>0, <1>1, <2>1, <2>3, <2>4
<1>5. ASSUME NEW p \in Proc, Begin(p) \/ Step(p) \/ Fail(p)
      PROVE  UNCHANGED reqs \/ RequestSlaves(p)
  BY <1>5 DEF Begin, Step, Fail, LookUpGroup, CreateGroup, Authorize, CheckRunning,
       LaunchSlaves, LaunchMasters, LaunchZoo, run, GetGranted, WaitForInstances,
       DeployFiles, SetUp, FindExisting, CallInstance, cloud
<1>6. ASSUME NEW i, Settle(i) \/ Die(i) PROVE UNCHANGED reqs
  BY <1>6 DEF Settle, Die, Becomes
<1> QED
  BY <1>2, <1>3, <1>4, <1>5, <1>6 DEF Next, vars

(* Lemma: the rest of the cloud.                                           *)
LEMMA CloudMoves ==
  ASSUME TypeInv, [Next]_vars
  PROVE  CloudOK'
<1>0. /\ groups \subseteq Role /\ rules \in [Role -> SUBSET Nat]
      /\ failures \in 0..MaxFailures /\ overlapped \in BOOLEAN /\ MaxFailures \in Nat
      /\ at \in [Proc -> 1..3]
  BY Ec2Assumption DEF TypeInv, CloudOK, ProgramOK
<1>1. \A p \in Proc : RoleOrder[at[p]] \in Role
  BY <1>0 DEF RoleOrder, Role
<1>2. ASSUME NEW p \in Proc, Begin(p)
      PROVE  overlapped' \in BOOLEAN /\ UNCHANGED <<groups, rules, failures>>
  BY <1>2 DEF Begin, cloud
<1>3. ASSUME NEW p \in Proc, CreateGroup(p)
      PROVE  groups' \subseteq Role /\ UNCHANGED <<rules, failures, overlapped>>
  <2>1. UNCHANGED groups \/ groups' = groups \cup {RoleOrder[at[p]]}
    BY <1>3, Zenon DEF CreateGroup
  <2>2. UNCHANGED <<rules, failures, overlapped>>
    BY <1>3 DEF CreateGroup, past
  <2> QED
    BY <1>0, <1>1, <2>1, <2>2
<1>4. ASSUME NEW p \in Proc, Authorize(p)
      PROVE  /\ rules' \in [Role -> SUBSET Nat]
             /\ UNCHANGED <<groups, failures, overlapped>>
  <2>1. todo[p] \in Seq(Rule) /\ todo[p] # <<>>
    BY <1>4 DEF Authorize, TypeInv, PlaceOK, DataOK
  <2>2. Head(todo[p]) \in Rule
    BY <2>1, TailFacts
  <2>3. Head(todo[p])[1] \in Role /\ Head(todo[p])[2] \in Nat
    BY <2>2 DEF Rule
  <2> QED
    BY <1>0, <1>4, <2>3 DEF Authorize, past
<1>5. ASSUME NEW p \in Proc, Fail(p)
      PROVE  failures' \in 0..MaxFailures /\ UNCHANGED <<groups, rules, overlapped>>
  BY <1>0, <1>5 DEF Fail, cloud
<1>6. ASSUME NEW i, Die(i)
      PROVE  failures' \in 0..MaxFailures /\ UNCHANGED <<groups, rules, overlapped>>
  BY <1>0, <1>6 DEF Die, Becomes
<1>7. ASSUME NEW p \in Proc, Step(p), ~CreateGroup(p), ~Authorize(p)
      PROVE  UNCHANGED <<groups, rules, failures, overlapped>>
  BY <1>7 DEF Step, LookUpGroup, CheckRunning, RequestSlaves,
       LaunchSlaves, LaunchMasters, LaunchZoo, run, GetGranted, WaitForInstances,
       DeployFiles, SetUp, FindExisting, CallInstance, cloud, past
<1>8. ASSUME NEW i, Settle(i) PROVE UNCHANGED <<groups, rules, failures, overlapped>>
  BY <1>8 DEF Settle, Becomes
<1>9. ASSUME NEW r, GrantSpot(r) PROVE UNCHANGED <<groups, rules, failures, overlapped>>
  BY <1>9 DEF GrantSpot, past
<1>10. /\ groups' \subseteq Role /\ rules' \in [Role -> SUBSET Nat]
       /\ failures' \in 0..MaxFailures /\ overlapped' \in BOOLEAN
  <2>1. CASE \E p \in Proc : Begin(p) \/ Step(p) \/ Fail(p)
    BY <1>0, <1>2, <1>3, <1>4, <1>5, <1>7, <2>1
  <2>2. CASE ~\E p \in Proc : Begin(p) \/ Step(p) \/ Fail(p)
    BY <1>0, <1>6, <1>8, <1>9, <2>2 DEF Next, vars
  <2> QED
    BY <2>1, <2>2
<1> QED
  BY <1>10, InstMoves, ReqsMove DEF CloudOK

(* The calls to make once the group of a role was looked up or created.    *)
ToAuthorize(p, isNew) ==
  IF isNew \/ rules[RoleOrder[at[p]]] = {}
  THEN todo[p] \o Authorizations(RoleOrder[at[p]]) ELSE todo[p]

(* Lemma: the authorize calls for a group. *)
LEMMA AuthorizeAll ==
  ASSUME NEW role \in Role
  PROVE  /\ Authorizations(role) \in Seq(Rule) /\ Len(Authorizations(role)) = NumRules[role]
         /\ NumRules[role] \in Nat \ {0} /\ DOMAIN Authorizations(role) = 1..NumRules[role]
         /\ \A i \in 1..NumRules[role] : Authorizations(role)[i] = <<role, i>>
<1>1. NumRules[role] \in Nat \ {0}
  BY Ec2Assumption
<1>2. \A i \in 1..NumRules[role] : <<role, i>> \in Rule
  BY <1>1 DEF Rule
<1> HIDE DEF Rule
<1> QED
  BY <1>1, <1>2 DEF Authorizations

(* Lemma: where a launch goes from a group it has.                         *)
LEMMA GotGroupFacts ==
  ASSUME TypeInv, NEW p \in Proc, pc[p] \in {"lookup", "create"}, NEW isNew \in BOOLEAN,
         GotGroup(p, isNew)
  PROVE  /\ RoleOrder[at[p]] \in Role /\ todo[p] \in Seq(Rule) /\ action[p] \in Launch
         /\ todo'[p] = ToAuthorize(p, isNew) /\ todo'[p] \in Seq(Rule)
         /\ at[p] \in {1, 2} => at'[p] = at[p] + 1 /\ pc'[p] = "lookup"
         /\ at[p] = 3 => /\ at'[p] = 1 /\ pc'[p] \in {"authorize", "check"}
                         /\ pc'[p] = "authorize" <=> todo'[p] # <<>>
         /\ pc' \in [Proc -> Place] /\ at' \in [Proc -> 1..3] /\ DOMAIN todo' = Proc
<1> DEFINE calls == ToAuthorize(p, isNew)
<1>1. /\ pc \in [Proc -> Place] /\ at \in [Proc -> 1..3] /\ DOMAIN todo = Proc
      /\ at[p] \in 1..3 /\ action[p] \in Launch /\ todo[p] \in Seq(Rule)
  BY DEF TypeInv, ProgramOK, PlaceOK, DataOK
<1>2. RoleOrder[at[p]] \in Role
  BY <1>1 DEF RoleOrder, Role
<1>3. calls \in Seq(Rule)
  BY <1>1, <1>2, AuthorizeAll, ConcatProperties DEF ToAuthorize
<1>4. /\ todo' = [todo EXCEPT ![p] = calls]
      /\ at' = [at EXCEPT ![p] = IF at[p] < 3 THEN at[p] + 1 ELSE 1]
      /\ pc' = [pc EXCEPT ![p] = IF at[p] < 3 THEN "lookup"
                                 ELSE IF calls # <<>> THEN "authorize" ELSE "check"]
  BY DEF GotGroup, ToAuthorize
<1> HIDE DEF calls
<1>5. todo'[p] = calls /\ DOMAIN todo' = Proc
  BY <1>1, <1>4
<1>6. /\ at'[p] = IF at[p] < 3 THEN at[p] + 1 ELSE 1
      /\ at' \in [Proc -> 1..3]
  BY <1>1, <1>4
<1>7. /\ pc'[p] = IF at[p] < 3 THEN "lookup" ELSE IF calls # <<>> THEN "authorize" ELSE "check"
      /\ pc' \in [Proc -> Place]
  BY <1>1, <1>4 DEF Place
<1>8. at[p] \in {1, 2} => at'[p] = at[p] + 1 /\ pc'[p] = "lookup"
  BY <1>6, <1>7
<1>9. at[p] = 3 => /\ at'[p] = 1 /\ pc'[p] \in {"authorize", "check"}
                   /\ pc'[p] = "authorize" <=> todo'[p] # <<>>
  BY <1>5, <1>6, <1>7
<1> QED
  BY <1>1, <1>2, <1>3, <1>5, <1>6, <1>7, <1>8, <1>9 DEF calls

(* What a step of an invocation has to keep of its own place and data.     *)
OwnOK(p) == ProgramOK' /\ (PlaceOK(p))' /\ (DataOK(p))'

(* Lemma: launch_cluster up to its instances keeps an invocation's place.  *)
LEMMA LaunchPlaces ==
  ASSUME TypeInv, [Next]_vars, NEW p \in Proc,
         \/ LookUpGroup(p) \/ CreateGroup(p) \/ Authorize(p) \/ CheckRunning(p)
         \/ RequestSlaves(p)
  PROVE  OwnOK(p)
<1>0. ProgramOK /\ PlaceOK(p) /\ DataOK(p) /\ DOMAIN inst \subseteq DOMAIN inst'
  BY InstMoves DEF TypeInv, InstKept
<1>1. ASSUME pc[p] \in {"lookup", "create"}, NEW isNew \in BOOLEAN, GotGroup(p, isNew),
             UNCHANGED <<action, nodes, host>>
      PROVE  OwnOK(p)
  <2>1. /\ todo'[p] \in Seq(Rule) /\ action[p] \in Launch
        /\ pc'[p] \in {"lookup", "authorize", "check"}
        /\ pc'[p] = "authorize" => todo'[p] # <<>>
        /\ pc' \in [Proc -> Place] /\ at' \in [Proc -> 1..3] /\ DOMAIN todo' = Proc
    <3>1. at[p] \in {1, 2, 3}
      BY <1>0 DEF ProgramOK
    <3> QED
      BY <1>1, <3>1, GotGroupFacts
  <2>2. ProgramOK'
    BY <1>0, <1>1, <2>1 DEF ProgramOK
  <2>3. nodes[p] = {}
    BY <1>0, <1>1 DEF PlaceOK, Fresh
  <2>4. (PlaceOK(p))'
    BY <1>1, <2>1, <2>3 DEF PlaceOK, Launch
  <2>5. (DataOK(p))'
    BY <1>0, <1>1, <2>1, <2>3 DEF DataOK
  <2> QED
    BY <2>2, <2>4, <2>5 DEF OwnOK
<1>2. ASSUME pc[p] \in {"lookup", "create", "check", "slaves"},
             NEW next \in {"create", "failed", "refused", "slaves", "granted"},
             pc' = [pc EXCEPT ![p] = next], UNCHANGED <<action, at, todo, nodes, host>>
      PROVE  OwnOK(p)
  <2>1. ProgramOK'
    BY <1>0, <1>2 DEF ProgramOK, Place, Ended
  <2>2. /\ pc'[p] = next /\ action[p] \in Launch /\ nodes[p] = {} /\ action'[p] = action[p]
        /\ at'[p] = at[p] /\ todo'[p] = todo[p] /\ nodes'[p] = nodes[p]
    BY <1>0, <1>2 DEF ProgramOK, PlaceOK, Fresh
  <2>3. (PlaceOK(p))'
    BY <1>2, <2>2 DEF PlaceOK, Launch, Fresh
  <2>4. (DataOK(p))'
    BY <1>0, <2>2 DEF DataOK
  <2> QED
    BY <2>1, <2>3, <2>4 DEF OwnOK
<1>3. CASE LookUpGroup(p)
  BY <1>1, <1>2, <1>3 DEF LookUpGroup
<1>4. CASE CreateGroup(p)
  BY <1>1, <1>2, <1>4 DEF CreateGroup
<1>5. CASE Authorize(p)
  <2>1. /\ pc[p] = "authorize" /\ todo[p] \in Seq(Rule) /\ todo[p] # <<>> /\ nodes[p] = {}
        /\ action[p] \in Launch
    BY <1>0, <1>5 DEF Authorize, PlaceOK, DataOK, Fresh
  <2>2. Tail(todo[p]) \in Seq(Rule) /\ (Len(todo[p]) > 1 <=> Tail(todo[p]) # <<>>)
    BY <2>1, TailFacts
  <2>3. UNCHANGED <<action, at, nodes, host>>
    BY <1>5 DEF Authorize
  <2>4. \/ pc' = [pc EXCEPT ![p] = "failed"] /\ UNCHANGED todo
        \/ /\ todo' = [todo EXCEPT ![p] = Tail(todo[p])]
           /\ pc' = [pc EXCEPT ![p] = IF Len(todo[p]) > 1 THEN "authorize" ELSE "check"]
    BY <1>5 DEF Authorize
  <2>5. /\ todo'[p] \in Seq(Rule) /\ pc'[p] \in {"failed", "authorize", "check"}
        /\ pc'[p] = "authorize" => todo'[p] # <<>>
    BY <1>0, <2>1, <2>2, <2>4 DEF ProgramOK
  <2>6. ProgramOK'
    BY <1>0, <2>3, <2>4 DEF ProgramOK, Place, Ended
  <2>7. (PlaceOK(p))'
    BY <2>1, <2>3, <2>5 DEF PlaceOK, Launch, Fresh
  <2>8. (DataOK(p))'
    BY <1>0, <2>1, <2>3, <2>5 DEF DataOK
  <2> QED
    BY <2>6, <2>7, <2>8 DEF OwnOK
<1>6. CASE CheckRunning(p)
  BY <1>2, <1>6 DEF CheckRunning
<1>7. CASE RequestSlaves(p)
  BY <1>2, <1>7 DEF RequestSlaves
<1> QED
  BY <1>3, <1>4, <1>5, <1>6, <1>7

(* Lemma: so do the launch of its instances and the answers to its spot    *)
(* requests.                                                               *)
LEMMA RunPlaces ==
  ASSUME TypeInv, [Next]_vars, NEW p \in Proc,
         LaunchSlaves(p) \/ GetGranted(p) \/ LaunchMasters(p) \/ LaunchZoo(p)
  PROVE  OwnOK(p)
<1>0. /\ ProgramOK /\ PlaceOK(p) /\ DataOK(p) /\ DOMAIN inst \subseteq DOMAIN inst'
      /\ CloudOK /\ Len(inst) \in Nat /\ DOMAIN inst = 1..Len(inst)
  BY InstMoves, Sizes DEF TypeInv, InstKept
<1>1. ASSUME pc[p] \in {"slaves", "granted", "masters", "zoo"},
             NEW next \in {"masters", "zoo", "wait"}, NEW more \in SUBSET Nat,
             more \subseteq DOMAIN inst',
             nodes' = [nodes EXCEPT ![p] = more],
             pc' = [pc EXCEPT ![p] = next], UNCHANGED <<action, at, todo, host>>
      PROVE  OwnOK(p)
  <2>1. ProgramOK'
    BY <1>0, <1>1 DEF ProgramOK, Place, Ended
  <2>2. /\ pc'[p] = next /\ action[p] \in Launch /\ action'[p] = action[p]
        /\ at'[p] = at[p] /\ todo'[p] = todo[p] /\ nodes'[p] = more
    BY <1>0, <1>1 DEF ProgramOK, PlaceOK
  <2>3. (PlaceOK(p))'
    BY <1>1, <2>2 DEF PlaceOK, Launch, Fresh
  <2>4. (DataOK(p))'
    BY <1>0, <1>1, <2>2 DEF DataOK
  <2> QED
    BY <2>1, <2>3, <2>4 DEF OwnOK
<1>2. ASSUME pc[p] \in {"slaves", "masters", "zoo"}, NEW role \in Role, NEW n \in Nat,
             NEW next \in {"masters", "zoo", "wait"}, run(p, role, n, next)
      PROVE  OwnOK(p)
  <2> DEFINE more == nodes[p] \cup Len(inst) + 1 .. Len(inst) + n
  <2>1. DOMAIN inst' = 1..(Len(inst) + n)
    BY <1>0, <1>2, RunFacts
  <2>2. more \subseteq DOMAIN inst' /\ more \in SUBSET Nat
    BY <1>0, <2>1 DEF DataOK
  <2>3. /\ nodes' = [nodes EXCEPT ![p] = more] /\ pc' = [pc EXCEPT ![p] = next]
        /\ UNCHANGED <<action, at, todo, host>>
    BY <1>2 DEF run
  <2> HIDE DEF more
  <2> QED
    BY <1>1, <1>2, <2>2, <2>3
<1>3. CASE LaunchSlaves(p)
  BY <1>2, <1>3, Ec2Assumption DEF LaunchSlaves, Role
<1>4. CASE LaunchMasters(p)
  <2>1. run(p, "master", NumMasters, "zoo") \/ run(p, "master", NumMasters, "wait")
    BY <1>4 DEF LaunchMasters
  <2> QED
    BY <1>2, <1>4, <2>1, Ec2Assumption DEF LaunchMasters, Role
<1>5. CASE LaunchZoo(p)
  BY <1>2, <1>5, Ec2Assumption DEF LaunchZoo, Role
<1>6. CASE GetGranted(p)
  <2> DEFINE more == {reqs[r].inst : r \in RequestsOf(p)}
  <2>1. \A r \in RequestsOf(p) : reqs[r].inst # 0
    <3>1. RequestsOf(p) \subseteq 1..Len(reqs) /\ Len(reqs) \in Nat
      BY <1>0, Sizes DEF RequestsOf
    <3>2. IsFiniteSet(RequestsOf(p))
      <4>1. IsFiniteSet(1..Len(reqs))
        BY <3>1, FS_Interval
      <4> QED
        BY <3>1, <4>1, FS_Subset
    <3>3. Cardinality(RequestsOf(p)) = NumSlaves
      BY <1>6 DEF GetGranted, TypeInv, RequestsOK
    <3> DEFINE G == {r \in RequestsOf(p) : Active(r)}
    <3>4. Cardinality(G) = NumSlaves /\ G \subseteq RequestsOf(p)
      BY <1>6 DEF GetGranted
    <3>5. G = RequestsOf(p)
      BY <3>2, <3>3, <3>4, FS_Subset
    <3> QED
      BY <3>5 DEF Active
  <2>2. \A r \in RequestsOf(p) : reqs[r].inst \in Nat /\ reqs[r].inst <= Len(inst)
    BY <1>0, Sizes DEF RequestsOf, CloudOK, Request
  <2>3. more \subseteq DOMAIN inst' /\ more \in SUBSET Nat
    BY <1>0, <2>1, <2>2
  <2>4. /\ nodes' = [nodes EXCEPT ![p] = more] /\ pc' = [pc EXCEPT ![p] = "masters"]
        /\ UNCHANGED <<action, at, todo, host>> /\ pc[p] = "granted"
    BY <1>6 DEF GetGranted
  <2> HIDE DEF more
  <2> QED
    BY <1>1, <2>3, <2>4
<1> QED
  BY <1>3, <1>4, <1>5, <1>6

(* Lemma: so do the start of an invocation, its interruption, set-up and   *)
(* the calls on the nodes it found.                                        *)
LEMMA OtherPlaces ==
  ASSUME TypeInv, [Next]_vars, NEW p \in Proc,
         \/ Begin(p) \/ Fail(p) \/ WaitForInstances(p) \/ DeployFiles(p) \/ SetUp(p)
         \/ FindExisting(p) \/ CallInstance(p)
  PROVE  OwnOK(p)
<1>0. /\ ProgramOK /\ PlaceOK(p) /\ DataOK(p) /\ DOMAIN inst \subseteq DOMAIN inst'
      /\ CloudOK /\ Len(inst) \in Nat /\ DOMAIN inst = 1..Len(inst)
      /\ "none" \notin CommandLine /\ "none" \notin Launch
  BY InstMoves, Sizes, Ec2Assumption DEF TypeInv, InstKept, Launch
<1>a. \A q \in Seq(DOMAIN inst) : q \in Seq(DOMAIN inst')
  BY <1>0, SeqMonotonic
<1>b. \A i \in DOMAIN inst : Address(i) \in [inst : Nat, boot : Nat]
  BY <1>0, Sizes DEF Address, NoAddress, Instance
<1>1. CASE Begin(p)
  <2>1. PICK a \in CommandLine :
          /\ action' = [action EXCEPT ![p] = a]
          /\ pc' = [pc EXCEPT ![p] = IF a \in Launch THEN "lookup" ELSE "find"]
    BY <1>1 DEF Begin
  <2>2. UNCHANGED <<at, todo, nodes, host>> /\ pc[p] = "idle"
    BY <1>1 DEF Begin
  <2>3. ProgramOK'
    BY <1>0, <2>1, <2>2 DEF ProgramOK, Place
  <2>4. /\ action'[p] = a /\ a # "none" /\ nodes'[p] = {} /\ todo'[p] = <<>>
        /\ pc'[p] = IF a \in Launch THEN "lookup" ELSE "find"
    BY <1>0, <2>1, <2>2 DEF ProgramOK, PlaceOK, Fresh
  <2>5. (PlaceOK(p))'
    BY <2>4 DEF PlaceOK, Launch
  <2>6. (DataOK(p))'
    BY <2>4 DEF DataOK
  <2> QED
    BY <2>3, <2>5, <2>6 DEF OwnOK
<1>2. ASSUME NEW next \in {"failed", "refused", "done", "deploy", "setup", "wait"},
             pc' = [pc EXCEPT ![p] = next], UNCHANGED <<action, todo, nodes>>,
             action[p] # "none", at' \in [Proc -> 1..3],
             host' \in [Proc -> [inst : Nat, boot : Nat]],
             next \in {"wait", "deploy", "setup"} => action[p] \notin {"destroy", "stop"}
      PROVE  OwnOK(p)
  <2>1. ProgramOK'
    BY <1>0, <1>2 DEF ProgramOK, Place, Ended
  <2>2. /\ pc'[p] = next /\ action'[p] = action[p] /\ todo'[p] = todo[p]
        /\ nodes'[p] = nodes[p]
    BY <1>0, <1>2 DEF ProgramOK
  <2>3. (PlaceOK(p))'
    BY <1>2, <2>2 DEF PlaceOK, Fresh
  <2>4. (DataOK(p))'
    BY <1>0, <1>a, <2>2 DEF DataOK
  <2> QED
    BY <2>1, <2>3, <2>4 DEF OwnOK
<1>3. pc[p] # "idle" => action[p] # "none"
  BY <1>0 DEF PlaceOK
<1>4. CASE Fail(p)
  BY <1>0, <1>2, <1>3, <1>4 DEF Fail, Busy, Ended, ProgramOK
<1>5. CASE WaitForInstances(p)
  <2>1. /\ pc[p] = "wait" /\ UNCHANGED <<action, todo, nodes>>
        /\ pc' = [pc EXCEPT ![p] = IF at[p] < 3 THEN "wait" ELSE "deploy"]
        /\ at' = [at EXCEPT ![p] = IF at[p] < 3 THEN at[p] + 1 ELSE 1]
    BY <1>5 DEF WaitForInstances
  <2>2. at' \in [Proc -> 1..3]
    <3>0. at \in [Proc -> 1..3] /\ at[p] \in 1..3
      BY <1>0 DEF ProgramOK
    <3>1. (IF at[p] < 3 THEN at[p] + 1 ELSE 1) \in 1..3
      BY <3>0
    <3> QED
      BY <2>1, <3>0, <3>1
  <2>3. host' \in [Proc -> [inst : Nat, boot : Nat]]
    <3>1. CASE at[p] = 1
      <4>1. PICK m \in NodesOf(p, "master") : host' = [host EXCEPT ![p] = Address(m)]
        BY <1>5, <3>1 DEF WaitForInstances
      <4>2. Address(m) \in [inst : Nat, boot : Nat]
        BY <1>0, <1>b DEF NodesOf, DataOK
      <4> QED
        BY <1>0, <4>1, <4>2 DEF ProgramOK
    <3>2. CASE at[p] # 1
      BY <1>0, <1>5, <3>2 DEF WaitForInstances, ProgramOK
    <3> QED
      BY <3>1, <3>2
  <2>4. action[p] \notin {"destroy", "stop"}
    BY <1>0, <2>1 DEF PlaceOK
  <2> QED
    BY <1>2, <1>3, <2>1, <2>2, <2>3, <2>4
<1>6. CASE DeployFiles(p)
  <2>1. /\ pc[p] = "deploy" /\ UNCHANGED <<action, at, host, todo, nodes>>
        /\ pc' = [pc EXCEPT ![p] = "setup"]
    BY <1>6 DEF DeployFiles
  <2>2. at' \in [Proc -> 1..3] /\ host' \in [Proc -> [inst : Nat, boot : Nat]]
    BY <1>0, <2>1 DEF ProgramOK
  <2>3. action[p] \notin {"destroy", "stop"}
    BY <1>0, <2>1 DEF PlaceOK
  <2> QED
    BY <1>2, <1>3, <2>1, <2>2, <2>3
<1>7. CASE SetUp(p)
  <2>1. /\ pc[p] = "setup" /\ UNCHANGED <<action, at, host, todo, nodes>>
        /\ \/ pc' = [pc EXCEPT ![p] = "done"]
           \/ pc' = [pc EXCEPT ![p] = "failed"]
    BY <1>7 DEF SetUp
  <2>2. at' \in [Proc -> 1..3] /\ host' \in [Proc -> [inst : Nat, boot : Nat]]
    BY <1>0, <2>1 DEF ProgramOK
  <2> QED
    BY <1>2, <1>3, <2>1, <2>2
<1>8. CASE FindExisting(p)
  <2>1. pc[p] = "find" /\ UNCHANGED <<action, at>> /\ action[p] \notin Launch
        /\ action[p] \in CommandLine /\ at' \in [Proc -> 1..3]
    BY <1>0, <1>8 DEF FindExisting, PlaceOK, ProgramOK
  <2>2. CASE pc' = [pc EXCEPT ![p] = "refused"] /\ UNCHANGED <<todo, nodes, host>>
    BY <1>0, <1>2, <1>3, <2>1, <2>2 DEF ProgramOK
  <2>3. CASE ~(pc' = [pc EXCEPT ![p] = "refused"] /\ UNCHANGED <<todo, nodes, host>>)
    <3> DEFINE masters == {i \in Existing : inst[i].role = "master"}
               next == IF action[p] = "resume" THEN "deploy" ELSE "calls"
    <3>1. /\ nodes' = [nodes EXCEPT ![p] = Existing]
          /\ todo' = [todo EXCEPT ![p] = CallsOf(action[p])]
          /\ \E m \in masters : host' = [host EXCEPT ![p] = Address(m)]
          /\ pc' = [pc EXCEPT ![p] = next]
          /\ masters # {}
      BY <1>8, <2>3, Zenon DEF FindExisting
    <3>2. Existing \subseteq DOMAIN inst /\ Existing \subseteq Nat
      BY <1>0 DEF Existing
    <3>3. host' \in [Proc -> [inst : Nat, boot : Nat]]
      <4>1. PICK m \in masters : host' = [host EXCEPT ![p] = Address(m)]
        BY <3>1
      <4>2. Address(m) \in [inst : Nat, boot : Nat]
        BY <1>b, <3>2
      <4> QED
        BY <1>0, <4>1, <4>2 DEF ProgramOK
    <3>4. ProgramOK'
      BY <1>0, <2>1, <3>1, <3>2, <3>3 DEF ProgramOK, Place
    <3>5. /\ pc'[p] = next /\ nodes'[p] = Existing /\ todo'[p] = CallsOf(action[p])
          /\ action'[p] = action[p] /\ action[p] # "none"
      BY <1>0, <1>3, <2>1, <3>1 DEF ProgramOK
    <3>6. CASE action[p] = "resume"
      <4>1. CallsOf(action[p]) = <<>>
        BY <3>6 DEF CallsOf
      <4>2. (PlaceOK(p))'
        BY <2>1, <3>5, <3>6 DEF PlaceOK, Fresh, Launch
      <4>3. (DataOK(p))'
        BY <1>0, <2>1, <3>2, <3>5, <4>1 DEF DataOK
      <4> QED
        BY <3>4, <4>2, <4>3 DEF OwnOK
    <3>7. CASE action[p] \in {"destroy", "stop", "start"}
      <4>1. /\ CallsOf(action[p]) \in Seq(DOMAIN inst)
            /\ \A i \in DOMAIN inst : Alive(i) =>
                 \E c \in DOMAIN CallsOf(action[p]) : CallsOf(action[p])[c] = i
        BY <1>0, <3>7, CallsCover
      <4>2. PICK m \in Existing : inst[m].role = "master"
        BY <3>1
      <4>3. PICK j \in DOMAIN inst : is_active(j)
        BY <4>2 DEF Existing
      <4>4. CallsOf(action[p]) # <<>>
        BY <1>0, <4>1, <4>3, ActiveOrGone
      <4>5. (PlaceOK(p))'
        BY <2>1, <3>5, <3>7, <4>4 DEF PlaceOK, Fresh, Launch
      <4>6. (DataOK(p))'
        BY <1>0, <1>a, <2>1, <3>2, <3>5, <4>1 DEF DataOK
      <4> QED
        BY <3>4, <4>5, <4>6 DEF OwnOK
    <3> QED
      BY <2>1, <3>6, <3>7, Ec2Assumption DEF Launch
  <2> QED
    BY <2>2, <2>3
<1>9. CASE CallInstance(p)
  <2>1. /\ pc[p] = "calls" /\ UNCHANGED <<action, at, nodes, host>>
        /\ action[p] \notin Launch /\ action[p] # "resume" /\ action[p] # "none"
    BY <1>0, <1>3, <1>9 DEF CallInstance, PlaceOK
  <2>2. at' \in [Proc -> 1..3] /\ host' \in [Proc -> [inst : Nat, boot : Nat]]
    BY <1>0, <2>1 DEF ProgramOK
  <2>3. CASE ~Accepts(action[p], Head(todo[p]))
    BY <1>2, <1>9, <2>1, <2>2, <2>3 DEF CallInstance
  <2>4. CASE Accepts(action[p], Head(todo[p]))
    <3> DEFINE next == IF Len(todo[p]) > 1 THEN "calls" ELSE AfterCalls(p)
    <3>1. /\ todo' = [todo EXCEPT ![p] = Tail(todo[p])]
          /\ pc' = [pc EXCEPT ![p] = next]
      BY <1>9, <2>4 DEF CallInstance
    <3>2. /\ next \in {"calls", "wait", "done"}
          /\ next = "wait" => action[p] = "start"
      BY DEF AfterCalls
    <3>3. Tail(todo[p]) \in Seq(DOMAIN inst) /\ (next = "calls" => Tail(todo[p]) # <<>>)
      BY <2>1, NextCall DEF AfterCalls
    <3> HIDE DEF next
    <3>4. ProgramOK'
      <4>1. next \in Place
        BY <3>2 DEF Place, Ended
      <4> QED
        BY <1>0, <2>1, <2>2, <3>1, <4>1 DEF ProgramOK
    <3>5. /\ pc'[p] = next /\ action'[p] = action[p] /\ todo'[p] = Tail(todo[p])
          /\ nodes'[p] = nodes[p]
      BY <1>0, <2>1, <3>1 DEF ProgramOK
    <3>6. (PlaceOK(p))'
      <4>1. CASE next = "calls"
        BY <2>1, <3>3, <3>5, <4>1 DEF PlaceOK, Fresh
      <4>2. CASE next = "wait"
        BY <2>1, <3>2, <3>5, <4>2 DEF PlaceOK, Fresh
      <4>3. CASE next = "done"
        BY <2>1, <3>5, <4>3 DEF PlaceOK, Fresh
      <4> QED
        BY <3>2, <4>1, <4>2, <4>3
    <3>7. (DataOK(p))'
      BY <1>0, <1>a, <2>1, <3>3, <3>5 DEF DataOK
    <3> QED
      BY <3>4, <3>6, <3>7 DEF OwnOK
  <2> QED
    BY <2>3, <2>4
<1> QED
  BY <1>1, <1>4, <1>5, <1>6, <1>7, <1>8, <1>9

(* Lemma: the requests that a spot launch makes.                           *)
LEMMA NewRequests ==
  ASSUME TypeInv, NEW p \in Proc, RequestSlaves(p)
  PROVE  /\ DOMAIN reqs' = 1..(Len(reqs) + NumSlaves) /\ UNCHANGED inst
         /\ \A r \in DOMAIN reqs : reqs'[r] = reqs[r]
         /\ \A r \in (Len(reqs) + 1)..(Len(reqs) + NumSlaves) :
              reqs'[r].owner = p /\ reqs'[r].inst = 0
<1> DEFINE x == [owner |-> p, inst |-> 0]
           s == [i \in 1..NumSlaves |-> x]
<1>0. /\ NumSlaves \in Nat /\ reqs \in Seq(Request) /\ Len(reqs) \in Nat
      /\ DOMAIN reqs = 1..Len(reqs)
  BY Ec2Assumption, Sizes DEF TypeInv, CloudOK
<1>1. x \in Request /\ x.inst = 0 /\ x.owner = p
  BY DEF Request
<1> HIDE DEF x
<1>2. s \in Seq(Request) /\ Len(s) = NumSlaves /\ \A i \in 1..NumSlaves : s[i] = x
  BY <1>0, <1>1
<1>3. reqs' = reqs \o s /\ UNCHANGED inst
  BY DEF RequestSlaves, x
<1> HIDE DEF s
<1>4. /\ reqs' \in Seq(Request) /\ Len(reqs') = Len(reqs) + NumSlaves
      /\ \A r \in 1..Len(reqs) + NumSlaves :
           reqs'[r] = IF r <= Len(reqs) THEN reqs[r] ELSE s[r - Len(reqs)]
  BY <1>0, <1>2, <1>3, ConcatProperties
<1>5. DOMAIN reqs' = 1..(Len(reqs) + NumSlaves) /\ \A r \in DOMAIN reqs : reqs'[r] = reqs[r]
  BY <1>0, <1>4
<1>6. ASSUME NEW r \in (Len(reqs) + 1)..(Len(reqs) + NumSlaves) PROVE reqs'[r] = x
  <2>1. /\ r \in 1..Len(reqs) + NumSlaves /\ ~(r <= Len(reqs))
        /\ r - Len(reqs) \in 1..NumSlaves
    BY <1>0
  <2> QED
    BY <1>2, <1>4, <2>1
<1> QED
  BY <1>1, <1>3, <1>5, <1>6

(* Lemma: the instance that a request is granted is a new slave.           *)
LEMMA NewGrant ==
  ASSUME TypeInv, NEW g \in DOMAIN reqs, GrantSpot(g)
  PROVE  /\ DOMAIN reqs' = DOMAIN reqs /\ reqs[g].inst = 0
         /\ reqs'[g].inst = Len(inst) + 1 /\ reqs'[g].owner = reqs[g].owner
         /\ \A r \in DOMAIN reqs : r # g => reqs'[r] = reqs[r]
         /\ Len(inst') = Len(inst) + 1 /\ inst'[Len(inst) + 1].role = "slaves"
         /\ inst'[Len(inst) + 1].res = Len(inst) + 1
         /\ \A i \in DOMAIN inst : inst'[i] = inst[i]
<1>0. /\ reqs \in Seq(Request) /\ inst \in Seq(Instance) /\ Len(inst) \in Nat
      /\ reqs[g] \in Request
  BY Sizes DEF TypeInv, CloudOK
<1>1. /\ reqs' = [reqs EXCEPT ![g].inst = Len(inst) + 1] /\ reqs[g].inst = 0
      /\ inst' = Append(inst, [role |-> "slaves", res |-> Len(inst) + 1,
                               state |-> "pending", boot |-> 0])
  BY DEF GrantSpot
<1>2. /\ DOMAIN reqs' = DOMAIN reqs
      /\ reqs'[g].inst = Len(inst) + 1 /\ reqs'[g].owner = reqs[g].owner
      /\ \A r \in DOMAIN reqs : r # g => reqs'[r] = reqs[r]
  BY <1>0, <1>1 DEF Request
<1>3. /\ Len(inst') = Len(inst) + 1
      /\ inst'[Len(inst) + 1] = [role |-> "slaves", res |-> Len(inst) + 1,
                                 state |-> "pending", boot |-> 0]
      /\ \A i \in DOMAIN inst : inst'[i] = inst[i]
  BY <1>0, <1>1
<1> QED
  BY <1>1, <1>2, <1>3

(* Lemma: a launch that has yet to ask for its slaves had yet to before.   *)
LEMMA FreshBefore ==
  ASSUME TypeInv, NEW p \in Proc, Begin(p) \/ Step(p) \/ Fail(p)
  PROVE  /\ pc'[p] \in Fresh => pc[p] \in Fresh /\ ~RequestSlaves(p)
         /\ pc'[p] = "granted" => RequestSlaves(p)
<1>0. pc \in [Proc -> Place] /\ at[p] \in 1..3
  BY DEF TypeInv, ProgramOK
<1>1. CASE Begin(p)
  BY <1>0, <1>1 DEF Begin, Fresh, RequestSlaves
<1>2. CASE LookUpGroup(p) \/ CreateGroup(p)
  <2>1. pc[p] \in {"lookup", "create"}
    BY <1>2 DEF LookUpGroup, CreateGroup
  <2>2. pc'[p] # "granted"
    <3>1. ASSUME NEW isNew \in BOOLEAN, GotGroup(p, isNew) PROVE pc'[p] # "granted"
      BY <1>0, <2>1, <3>1, GotGroupFacts
    <3> QED
      BY <1>0, <1>2, <3>1 DEF LookUpGroup, CreateGroup
  <2> QED
    BY <2>1, <2>2 DEF Fresh, RequestSlaves
<1>3. CASE Authorize(p)
  BY <1>0, <1>3 DEF Authorize, Fresh, RequestSlaves
<1>4. CASE CheckRunning(p)
  BY <1>0, <1>4 DEF CheckRunning, Fresh, RequestSlaves
<1>5. CASE LaunchSlaves(p) \/ LaunchMasters(p) \/ LaunchZoo(p)
  BY <1>0, <1>5 DEF LaunchSlaves, LaunchMasters, LaunchZoo, run, Fresh
<1>6. CASE RequestSlaves(p)
  BY <1>0, <1>6 DEF RequestSlaves, Fresh
<1>7. CASE GetGranted(p) \/ WaitForInstances(p) \/ DeployFiles(p) \/ SetUp(p) \/ FindExisting(p)
  BY <1>0, <1>7 DEF GetGranted, WaitForInstances, DeployFiles, SetUp, FindExisting, Fresh
<1>8. CASE CallInstance(p)
  BY <1>0, <1>8 DEF CallInstance, AfterCalls, Fresh
<1>9. CASE Fail(p)
  BY <1>0, <1>9 DEF Fail, Fresh
<1> QED
  BY <1>1, <1>2, <1>3, <1>4, <1>5, <1>6, <1>7, <1>8, <1>9 DEF Step

(* Lemma: what spot launches know of their requests stays true.            *)
LEMMA RequestsInductive ==
  ASSUME TypeInv, [Next]_vars
  PROVE  RequestsOK'
<1>0. /\ CloudOK /\ RequestsOK /\ ProgramOK /\ Len(inst) \in Nat /\ Len(reqs) \in Nat
      /\ DOMAIN inst = 1..Len(inst) /\ DOMAIN reqs = 1..Len(reqs)
      /\ \A r \in DOMAIN reqs : reqs[r].inst <= Len(inst) /\ reqs[r].inst \in Nat
      /\ NumSlaves \in Nat \ {0}
  BY Sizes, Ec2Assumption DEF TypeInv, CloudOK, Request
<1>a. /\ \A i \in DOMAIN inst : inst'[i].role = inst[i].role
      /\ \A q \in Proc : pc[q] \in Fresh => RequestsOf(q) = {}
      /\ \A q \in Proc : pc[q] = "granted" => Cardinality(RequestsOf(q)) = NumSlaves
      /\ \A r \in DOMAIN reqs : reqs[r].inst # 0 => inst[reqs[r].inst].role = "slaves"
      /\ \A r, q \in DOMAIN reqs :
           (reqs[r].inst # 0 /\ reqs[q].inst = reqs[r].inst) => q = r
  BY <1>0, InstMoves DEF InstKept, RequestsOK
<1>1. CASE UNCHANGED reqs
  <2>1. ASSUME NEW q \in Proc
        PROVE  /\ pc'[q] \in Fresh => (RequestsOf(q))' = {}
               /\ pc'[q] = "granted" => Cardinality((RequestsOf(q))') = NumSlaves
    <3>1. (RequestsOf(q))' = RequestsOf(q)
      BY <1>1 DEF RequestsOf
    <3>2. \A p \in Proc : ~RequestSlaves(p)
      <4> SUFFICES ASSUME NEW p \in Proc, RequestSlaves(p) PROVE FALSE
        OBVIOUS
      <4>1. DOMAIN reqs = 1..(Len(reqs) + NumSlaves)
        BY <1>0, <1>1, NewRequests
      <4>2. Len(reqs) + 1 \in DOMAIN reqs
        BY <1>0, <4>1
      <4> QED
        BY <1>0, <4>2
    <3>3. CASE pc'[q] = pc[q]
      BY <1>a, <3>1, <3>3
    <3>4. CASE pc'[q] # pc[q]
      <4>1. ~Kept(q)
        BY <3>4 DEF Kept
      <4>2. Begin(q) \/ Step(q) \/ Fail(q)
        <5>1. CASE \E p \in Proc : Begin(p) \/ Step(p) \/ Fail(p)
          BY <1>0, <4>1, <5>1, OthersKept
        <5>2. CASE ~\E p \in Proc : Begin(p) \/ Step(p) \/ Fail(p)
          BY <4>1, <5>2, CloudKept DEF Next
        <5> QED
          BY <5>1, <5>2
      <4> QED
        BY <1>a, <3>1, <3>2, <4>2, FreshBefore
    <3> QED
      BY <3>3, <3>4
  <2>2. \A r \in DOMAIN reqs : reqs[r].inst # 0 => reqs[r].inst \in DOMAIN inst
    BY <1>0
  <2> QED
    BY <1>1, <1>a, <2>1, <2>2 DEF RequestsOK
<1>2. ASSUME NEW p \in Proc, RequestSlaves(p) PROVE RequestsOK'
  <2>0. /\ DOMAIN reqs' = 1..(Len(reqs) + NumSlaves) /\ UNCHANGED inst
        /\ \A r \in DOMAIN reqs : reqs'[r] = reqs[r]
        /\ \A r \in (Len(reqs) + 1)..(Len(reqs) + NumSlaves) :
             reqs'[r].owner = p /\ reqs'[r].inst = 0
    BY <1>2, NewRequests
  <2>1. pc[p] = "slaves" /\ pc'[p] = "granted" /\ \A q \in Proc : q # p => pc'[q] = pc[q]
    BY <1>0, <1>2 DEF RequestSlaves, ProgramOK
  <2>2. RequestsOf(p) = {}
    BY <1>a, <2>1 DEF Fresh
  <2>3. (RequestsOf(p))' = (Len(reqs) + 1)..(Len(reqs) + NumSlaves)
    BY <1>0, <2>0, <2>2 DEF RequestsOf
  <2>4. Cardinality((Len(reqs) + 1)..(Len(reqs) + NumSlaves)) = NumSlaves
    BY <1>0, FS_Interval
  <2>5. \A q \in Proc : q # p => (RequestsOf(q))' = RequestsOf(q)
    BY <1>0, <2>0 DEF RequestsOf
  <2>6. \A r \in DOMAIN reqs' : reqs'[r].inst # 0 => r \in DOMAIN reqs
    BY <1>0, <2>0
  <2>7. \A q \in Proc : /\ pc'[q] \in Fresh => (RequestsOf(q))' = {}
                        /\ pc'[q] = "granted" => Cardinality((RequestsOf(q))') = NumSlaves
    BY <1>a, <2>1, <2>3, <2>4, <2>5 DEF Fresh
  <2>8. \A r \in DOMAIN reqs' : reqs'[r].inst # 0 =>
          /\ inst'[reqs'[r].inst].role = "slaves"
          /\ \A q \in DOMAIN reqs' : reqs'[q].inst = reqs'[r].inst => q = r
    BY <1>a, <2>0, <2>6
  <2> QED
    BY <2>7, <2>8 DEF RequestsOK
<1>3. ASSUME NEW g \in DOMAIN reqs, GrantSpot(g) PROVE RequestsOK'
  <2>0. /\ DOMAIN reqs' = DOMAIN reqs /\ reqs[g].inst = 0
        /\ reqs'[g].inst = Len(inst) + 1 /\ reqs'[g].owner = reqs[g].owner
        /\ \A r \in DOMAIN reqs : r # g => reqs'[r] = reqs[r]
        /\ inst'[Len(inst) + 1].role = "slaves"
    BY <1>3, NewGrant
  <2>1. \A q \in Proc : (RequestsOf(q))' = RequestsOf(q)
    BY <2>0 DEF RequestsOf
  <2>2. UNCHANGED pc
    BY <1>3 DEF GrantSpot
  <2>3. \A q \in Proc : /\ pc'[q] \in Fresh => (RequestsOf(q))' = {}
                        /\ pc'[q] = "granted" => Cardinality((RequestsOf(q))') = NumSlaves
    BY <1>a, <2>1, <2>2
  <2>4. \A r \in DOMAIN reqs' : reqs'[r].inst # 0 => inst'[reqs'[r].inst].role = "slaves"
    BY <1>0, <1>a, <2>0
  <2>5. \A r, q \in DOMAIN reqs' :
          (reqs'[r].inst # 0 /\ reqs'[q].inst = reqs'[r].inst) => q = r
    BY <1>0, <1>a, <2>0
  <2> QED
    BY <2>3, <2>4, <2>5 DEF RequestsOK
<1>4. ASSUME NEW p \in Proc, Begin(p) \/ Step(p) \/ Fail(p)
      PROVE  UNCHANGED reqs \/ RequestSlaves(p)
  BY <1>4 DEF Begin, Step, Fail, LookUpGroup, CreateGroup, Authorize, CheckRunning,
       LaunchSlaves, LaunchMasters, LaunchZoo, run, GetGranted, WaitForInstances,
       DeployFiles, SetUp, FindExisting, CallInstance, cloud
<1>5. ASSUME NEW i, Settle(i) \/ Die(i) PROVE UNCHANGED reqs
  BY <1>5 DEF Settle, Die, Becomes
<1> QED
  BY <1>1, <1>2, <1>3, <1>4, <1>5 DEF Next, vars

-----------------------------------------------------------------------------
(* Lemma: every step keeps the strengthened type invariant.                *)
LEMMA TypeInductive ==
  ASSUME TypeInv, [Next]_vars
  PROVE  TypeInv'
<1>0. ProgramOK /\ DOMAIN inst \subseteq DOMAIN inst' /\ \A q \in Proc : PlaceOK(q) /\ DataOK(q)
  BY InstMoves DEF TypeInv, InstKept
<1>1. ASSUME NEW q \in Proc, Kept(q) PROVE (PlaceOK(q))' /\ (DataOK(q))'
  <2>1. PlaceOK(q) /\ DataOK(q)
    BY <1>0
  <2>2. (PlaceOK(q))'
    BY <1>1, <2>1, Zenon DEF PlaceOK, Kept
  <2>3. todo[q] \in Seq(DOMAIN inst) => todo[q] \in Seq(DOMAIN inst')
    BY <1>0, SeqMonotonic
  <2>4. (DataOK(q))'
    BY <1>0, <1>1, <2>1, <2>3 DEF DataOK, Kept
  <2> QED
    BY <2>2, <2>4
<1>2. ProgramOK' /\ \A q \in Proc : (PlaceOK(q))' /\ (DataOK(q))'
  <2>1. ASSUME NEW p \in Proc, Begin(p) \/ Step(p) \/ Fail(p)
        PROVE  ProgramOK' /\ \A q \in Proc : (PlaceOK(q))' /\ (DataOK(q))'
    <3>1. OwnOK(p)
      BY <2>1, LaunchPlaces, RunPlaces, OtherPlaces DEF Step
    <3>2. ASSUME NEW q \in Proc, q # p PROVE (PlaceOK(q))' /\ (DataOK(q))'
      BY <1>0, <1>1, <2>1, <3>2, OthersKept
    <3> QED
      BY <3>1, <3>2 DEF OwnOK
  <2>2. CASE ~\E p \in Proc : Begin(p) \/ Step(p) \/ Fail(p)
    <3>1. \/ \E i \in DOMAIN inst : Settle(i) \/ Die(i)
          \/ \E r \in DOMAIN reqs : GrantSpot(r)
          \/ UNCHANGED vars
      BY <2>2 DEF Next
    <3>2. UNCHANGED <<action, pc, at, host, nodes, todo>>
      BY <3>1 DEF Settle, Die, Becomes, GrantSpot, vars, past
    <3>3. ProgramOK'
      BY <1>0, <3>2 DEF ProgramOK
    <3> QED
      BY <1>1, <3>1, <3>3, CloudKept
  <2> QED
    BY <2>1, <2>2
<1> QED
  BY <1>2, CloudMoves, RequestsInductive DEF TypeInv

(* Lemma: it holds at the start, and TypeOK is a part of it.               *)
LEMMA TypeInit ==
  ASSUME Init
  PROVE  TypeInv
<1>1. CloudOK
  <2>0. groups \subseteq Role /\ rules \in [Role -> SUBSET Nat]
    BY DEF Init
  <2>1. failures \in 0..MaxFailures /\ overlapped \in BOOLEAN
    <3>1. MaxFailures \in Nat
      BY Ec2Assumption
    <3>2. failures = 0 /\ overlapped = FALSE
      BY DEF Init
    <3>3. failures \in 0..MaxFailures
      BY <3>1, <3>2
    <3> QED
      BY <3>2, <3>3
  <2>2. inst \in Seq(Instance) /\ reqs \in Seq(Request) /\ DOMAIN reqs = {}
    BY DEF Init
  <2> QED
    BY <2>0, <2>1, <2>2 DEF CloudOK
<1>2. ProgramOK
  BY DEF Init, ProgramOK, Place, NoAddress
<1>3. RequestsOK
  BY DEF Init, RequestsOK, RequestsOf
<1>4. ASSUME NEW p \in Proc PROVE PlaceOK(p) /\ DataOK(p)
  BY DEF Init, PlaceOK, DataOK, Launch, Fresh
<1> QED
  BY <1>1, <1>2, <1>3, <1>4 DEF TypeInv

LEMMA TypeParts ==
  ASSUME TypeInv
  PROVE  TypeOK
<1>1. inst \in Seq(Instance) /\ Len(inst) \in Nat
  BY Sizes DEF TypeInv, CloudOK
<1>2. reqs \in Seq([owner : Proc, inst : 0..Len(inst)])
  <2>1. /\ reqs \in Seq(Request) /\ Len(reqs) \in Nat /\ DOMAIN reqs = 1..Len(reqs)
        /\ \A r \in DOMAIN reqs : reqs[r] \in Request /\ reqs[r].inst <= Len(inst)
    BY Sizes DEF TypeInv, CloudOK
  <2>2. \A r \in DOMAIN reqs : reqs[r] \in [owner : Proc, inst : 0..Len(inst)]
    BY <1>1, <2>1 DEF Request
  <2> DEFINE T == [owner : Proc, inst : 0..Len(inst)]
  <2> HIDE DEF T
  <2>3. \A r \in DOMAIN reqs : reqs[r] \in T
    BY <2>2 DEF T
  <2>4. reqs \in Seq(T)
    BY <2>1, <2>3
  <2> QED
    BY <2>4 DEF T
<1> QED
  BY <1>1, <1>2 DEF TypeInv, CloudOK, ProgramOK, PlaceOK, DataOK, TypeOK, Instance, Place

(* Theorem: the cloud's objects are well-formed and every invocation is at *)
(* a place of its program, whatever invocations run at the same time and   *)
(* whatever fails.                                                         *)
THEOREM Typed == SafetySpec => []TypeOK
<1>1. Init => TypeInv
  BY TypeInit
<1>2. TypeInv /\ [Next]_vars => TypeInv'
  BY TypeInductive
<1>3. TypeInv => TypeOK
  BY TypeParts
<1> QED
  BY <1>1, <1>2, <1>3, PTL DEF SafetySpec

-----------------------------------------------------------------------------
(* SlavesAreMine for one launch, and the places where it says something.   *)
HasSlaves == {"masters", "zoo", "wait", "deploy", "setup", "done"}
Mine(p) ==
  /\ Cardinality(NodesOf(p, "slaves")) = NumSlaves
  /\ action[p] = "spot launch" =>
       \A i \in NodesOf(p, "slaves") :
         \E r \in DOMAIN reqs : reqs[r] = [owner |-> p, inst |-> i]

(* Lemma: a request that was granted stays as it is.                       *)
LEMMA GrantedKept ==
  ASSUME TypeInv, [Next]_vars, NEW r \in DOMAIN reqs, reqs[r].inst # 0
  PROVE  r \in DOMAIN reqs' /\ reqs'[r] = reqs[r]
<1>0. Len(reqs) \in Nat /\ DOMAIN reqs = 1..Len(reqs) /\ NumSlaves \in Nat
  BY Sizes, Ec2Assumption DEF TypeInv
<1>1. CASE UNCHANGED reqs
  BY <1>1
<1>2. ASSUME NEW p \in Proc, RequestSlaves(p) PROVE r \in DOMAIN reqs' /\ reqs'[r] = reqs[r]
  <2>1. /\ DOMAIN reqs' = 1..(Len(reqs) + NumSlaves)
        /\ \A q \in DOMAIN reqs : reqs'[q] = reqs[q]
    BY <1>2, NewRequests
  <2> QED
    BY <1>0, <2>1
<1>3. ASSUME NEW g \in DOMAIN reqs, GrantSpot(g)
      PROVE  r \in DOMAIN reqs' /\ reqs'[r] = reqs[r]
  <2>1. /\ DOMAIN reqs' = DOMAIN reqs /\ reqs[g].inst = 0
        /\ \A q \in DOMAIN reqs : q # g => reqs'[q] = reqs[q]
    BY <1>3, NewGrant
  <2> QED
    BY <2>1
<1>4. ASSUME NEW p \in Proc, Begin(p) \/ Step(p) \/ Fail(p)
      PROVE  UNCHANGED reqs \/ RequestSlaves(p)
  BY <1>4 DEF Begin, Step, Fail, LookUpGroup, CreateGroup, Authorize, CheckRunning,
       LaunchSlaves, LaunchMasters, LaunchZoo, run, GetGranted, WaitForInstances,
       DeployFiles, SetUp, FindExisting, CallInstance, cloud
<1>5. ASSUME NEW i, Settle(i) \/ Die(i) PROVE UNCHANGED reqs
  BY <1>5 DEF Settle, Die, Becomes
<1> QED
  BY <1>1, <1>2, <1>3, <1>4, <1>5 DEF Next, vars

(* Lemma: a launch keeps its slaves while it adds nodes of other roles.    *)
LEMMA MineKept ==
  ASSUME TypeInv, [Next]_vars, NEW p \in Proc, Mine(p), action'[p] = action[p],
         (NodesOf(p, "slaves"))' = NodesOf(p, "slaves")
  PROVE  (Mine(p))'
<1>1. (Cardinality(NodesOf(p, "slaves")))' = NumSlaves
  BY DEF Mine
<1>2. ASSUME action[p] = "spot launch", NEW i \in NodesOf(p, "slaves")
      PROVE  \E r \in DOMAIN reqs' : reqs'[r] = [owner |-> p, inst |-> i]
  <2>1. PICK r \in DOMAIN reqs : reqs[r] = [owner |-> p, inst |-> i]
    BY <1>2 DEF Mine
  <2>2. i # 0
    BY Sizes DEF NodesOf, TypeInv, DataOK
  <2> QED
    BY <2>1, <2>2, GrantedKept
<1> QED
  BY <1>1, <1>2 DEF Mine

(* Lemma: the nodes an invocation has keep their roles.                    *)
LEMMA NodesKept ==
  ASSUME TypeInv, [Next]_vars, NEW p \in Proc, nodes'[p] = nodes[p]
  PROVE  \A role : (NodesOf(p, role))' = NodesOf(p, role)
<1>1. nodes[p] \subseteq DOMAIN inst
  BY DEF TypeInv, DataOK
<1>2. \A i \in DOMAIN inst : inst'[i].role = inst[i].role
  BY InstMoves DEF InstKept
<1> QED
  BY <1>1, <1>2 DEF NodesOf

(* Lemma: image.run gives a launch instances of one role, and no other.    *)
LEMMA RunNodes ==
  ASSUME TypeInv, [Next]_vars, NEW p \in Proc, NEW role \in Role, NEW n \in Nat, NEW next,
         run(p, role, n, next)
  PROVE  /\ nodes[p] = {} => Cardinality((NodesOf(p, role))') = n
         /\ \A other \in Role \ {role} : (NodesOf(p, other))' = NodesOf(p, other)
<1> DEFINE new == (Len(inst) + 1)..(Len(inst) + n)
<1>0. Len(inst) \in Nat /\ DOMAIN inst = 1..Len(inst) /\ nodes[p] \subseteq DOMAIN inst
  BY Sizes DEF TypeInv, DataOK
<1>1. nodes'[p] = nodes[p] \cup new
  BY DEF run, TypeInv, ProgramOK
<1>2. \A i \in new : inst'[i].role = role
  BY RunFacts DEF TypeInv
<1>3. \A i \in DOMAIN inst : inst'[i].role = inst[i].role
  BY InstMoves DEF InstKept
<1>4. Cardinality(new) = n
  BY <1>0, FS_Interval
<1> HIDE DEF new
<1>5. nodes[p] = {} => (NodesOf(p, role))' = new
  BY <1>1, <1>2 DEF NodesOf
<1>6. \A other \in Role \ {role} : (NodesOf(p, other))' = NodesOf(p, other)
  BY <1>0, <1>1, <1>2, <1>3 DEF NodesOf
<1> QED
  BY <1>4, <1>5, <1>6

(* Lemma: the slaves of a spot launch are those its requests were granted. *)
LEMMA GrantedAreMine ==
  ASSUME TypeInv, [Next]_vars, NEW p \in Proc, GetGranted(p)
  PROVE  (Mine(p))'
<1> DEFINE R == RequestsOf(p)
           more == {reqs[r].inst : r \in R}
<1>0. /\ R \subseteq DOMAIN reqs /\ Len(reqs) \in Nat /\ DOMAIN reqs = 1..Len(reqs)
      /\ \A r \in DOMAIN reqs : reqs[r] \in Request
      /\ \A r \in R : reqs[r].owner = p
  BY Sizes DEF TypeInv, RequestsOf
<1>1. IsFiniteSet(R) /\ Cardinality(R) = NumSlaves
  <2>1. IsFiniteSet(1..Len(reqs))
    BY <1>0, FS_Interval
  <2>2. IsFiniteSet(R)
    BY <1>0, <2>1, FS_Subset
  <2> QED
    BY <2>2 DEF GetGranted, TypeInv, RequestsOK
<1>2. \A r \in R : reqs[r].inst # 0
  <2> DEFINE G == {r \in R : Active(r)}
  <2>1. Cardinality(G) = NumSlaves /\ G \subseteq R
    BY DEF GetGranted
  <2>2. G = R
    BY <1>1, <2>1, FS_Subset
  <2> QED
    BY <2>2 DEF Active
<1>3. \A r \in R : inst[reqs[r].inst].role = "slaves" /\ reqs[r].inst \in DOMAIN inst
  BY <1>0, <1>2, Sizes DEF TypeInv, RequestsOK, CloudOK, Request
<1>4. \A r, q \in R : reqs[q].inst = reqs[r].inst => q = r
  BY <1>0, <1>2 DEF TypeInv, RequestsOK
<1> HIDE DEF R
<1>5. Cardinality(more) = NumSlaves
  <2> DEFINE f == [r \in R |-> reqs[r].inst]
  <2>1. f \in Bijection(R, more)
    BY <1>4 DEF Bijection, Injection, Surjection, IsInjective
  <2>2. ExistsBijection(R, more)
    BY <2>1 DEF ExistsBijection
  <2> HIDE DEF more
  <2> QED
    BY <1>1, <2>2, FS_Bijection
<1>6. nodes'[p] = more /\ UNCHANGED <<inst, reqs>>
  BY DEF GetGranted, TypeInv, ProgramOK, cloud, R
<1>7. (NodesOf(p, "slaves"))' = more
  BY <1>3, <1>6 DEF NodesOf
<1>8. ASSUME NEW i \in more PROVE \E r \in DOMAIN reqs' : reqs'[r] = [owner |-> p, inst |-> i]
  <2>1. PICK r \in R : reqs[r].inst = i
    BY <1>8
  <2>2. reqs[r] = [owner |-> p, inst |-> i]
    BY <1>0, <2>1 DEF Request
  <2> QED
    BY <1>0, <1>6, <2>2
<1> HIDE DEF more
<1> QED
  BY <1>5, <1>7, <1>8 DEF Mine

(* Lemma: every step keeps SlavesAreMine.                                  *)
LEMMA SlavesInductive ==
  ASSUME TypeInv, SlavesAreMine, [Next]_vars
  PROVE  SlavesAreMine'
<1>0. /\ pc \in [Proc -> Place] /\ action \in [Proc -> {"none"} \cup CommandLine]
      /\ \A q \in Proc : at[q] \in 1..3
      /\ NumSlaves \in Nat /\ NumMasters \in Nat /\ NumZoo \in Nat
  BY Ec2Assumption DEF TypeInv, ProgramOK
<1>a. \A q \in Proc : (action[q] \in Launch /\ pc[q] \in HasSlaves) => Mine(q)
  BY DEF SlavesAreMine, Mine, HasSlaves
<1>1. ASSUME NEW q \in Proc, Kept(q), action'[q] \in Launch, pc'[q] \in HasSlaves
      PROVE  (Mine(q))'
  <2>1. Mine(q) /\ action'[q] = action[q] /\ nodes'[q] = nodes[q]
    BY <1>a, <1>1 DEF Kept
  <2> QED
    BY <2>1, NodesKept, MineKept
<1>2. ASSUME NEW p \in Proc, Begin(p) \/ Step(p) \/ Fail(p), action'[p] \in Launch,
             pc'[p] \in HasSlaves
      PROVE  (Mine(p))'
  <2>1. CASE LookUpGroup(p) \/ CreateGroup(p)
    <3>1. pc[p] \in {"lookup", "create"}
      BY <2>1 DEF LookUpGroup, CreateGroup
    <3>2. ASSUME NEW isNew \in BOOLEAN, GotGroup(p, isNew) PROVE pc'[p] \notin HasSlaves
      BY <1>0, <3>1, <3>2, GotGroupFacts DEF HasSlaves
    <3>3. pc'[p] \in {"create", "failed"}
      BY <1>0, <1>2, <2>1, <3>2 DEF LookUpGroup, CreateGroup
    <3> QED
      BY <1>2, <3>3 DEF HasSlaves
  <2>2. CASE Begin(p) \/ Fail(p) \/ Authorize(p) \/ CheckRunning(p) \/ RequestSlaves(p)
    <3>1. pc'[p] \in {"lookup", "find", "failed", "authorize", "check", "refused", "slaves",
                      "granted"}
      BY <1>0, <2>2 DEF Begin, Fail, Authorize, CheckRunning, RequestSlaves
    <3> QED
      BY <1>2, <3>1 DEF HasSlaves
  <2>3. CASE FindExisting(p) \/ CallInstance(p)
    <3>1. action'[p] = action[p] /\ pc[p] \in {"find", "calls"}
      BY <2>3 DEF FindExisting, CallInstance
    <3> QED
      BY <1>2, <3>1 DEF TypeInv, PlaceOK
  <2>4. CASE WaitForInstances(p) \/ DeployFiles(p) \/ SetUp(p)
    <3>1. /\ pc[p] \in {"wait", "deploy", "setup"} /\ action'[p] = action[p]
          /\ nodes'[p] = nodes[p]
      BY <2>4 DEF WaitForInstances, DeployFiles, SetUp
    <3>2. Mine(p)
      BY <1>a, <1>2, <3>1 DEF HasSlaves
    <3> QED
      BY <3>1, <3>2, NodesKept, MineKept
  <2>5. CASE LaunchSlaves(p)
    <3>1. /\ pc[p] = "slaves" /\ action[p] = "launch" /\ run(p, "slaves", NumSlaves, "masters")
          /\ action'[p] = action[p]
      BY <2>5 DEF LaunchSlaves, run
    <3>2. nodes[p] = {}
      BY <3>1 DEF TypeInv, PlaceOK, Fresh
    <3>3. "slaves" \in Role
      BY DEF Role
    <3>4. Cardinality((NodesOf(p, "slaves"))') = NumSlaves
      BY <1>0, <3>1, <3>2, <3>3, RunNodes
    <3> QED
      BY <3>1, <3>4 DEF Mine
  <2>6. ASSUME NEW role \in {"master", "zoo"}, NEW n \in Nat, NEW next, run(p, role, n, next),
               pc[p] \in {"masters", "zoo"}
        PROVE  (Mine(p))'
    <3>1. action'[p] = action[p]
      BY <2>6 DEF run
    <3>2. Mine(p)
      BY <1>a, <1>2, <2>6, <3>1 DEF HasSlaves
    <3>3. role \in Role /\ "slaves" \in Role \ {role}
      BY DEF Role
    <3> QED
      BY <2>6, <3>1, <3>2, <3>3, RunNodes, MineKept
  <2>7. CASE LaunchMasters(p)
    BY <1>0, <2>6, <2>7 DEF LaunchMasters
  <2>8. CASE LaunchZoo(p)
    BY <1>0, <2>6, <2>8 DEF LaunchZoo
  <2>9. CASE GetGranted(p)
    BY <2>9, GrantedAreMine
  <2> QED
    BY <1>2, <2>1, <2>2, <2>3, <2>4, <2>5, <2>7, <2>8, <2>9 DEF Step
<1>3. ASSUME NEW q \in Proc, action'[q] \in Launch, pc'[q] \in HasSlaves PROVE (Mine(q))'
  <2>1. CASE \E p \in Proc : Begin(p) \/ Step(p) \/ Fail(p)
    <3>1. PICK p \in Proc : Begin(p) \/ Step(p) \/ Fail(p)
      BY <2>1
    <3>2. CASE q = p
      BY <1>2, <1>3, <3>1, <3>2
    <3>3. CASE q # p
      BY <1>1, <1>3, <3>1, <3>3, OthersKept DEF TypeInv
    <3> QED
      BY <3>2, <3>3
  <2>2. CASE ~\E p \in Proc : Begin(p) \/ Step(p) \/ Fail(p)
    BY <1>1, <1>3, <2>2, CloudKept DEF Next
  <2> QED
    BY <2>1, <2>2
<1> QED
  BY <1>3 DEF SlavesAreMine, Mine, HasSlaves

(* Theorem: a launch goes on to its masters with as many slaves as it asked *)
(* for, and a spot launch with those that its own requests were granted,   *)
(* whatever other launches ask for at the same time.                       *)
THEOREM OwnSlaves == SafetySpec => []SlavesAreMine
<1>1. Init => TypeInv /\ SlavesAreMine
  BY TypeInit DEF Init, SlavesAreMine, Launch
<1>2. (TypeInv /\ SlavesAreMine) /\ [Next]_vars => (TypeInv /\ SlavesAreMine)'
  BY TypeInductive, SlavesInductive
<1> QED
  BY <1>1, <1>2, PTL DEF SafetySpec
(* One invocation at a time leaves no instance that a launch could join.   *)
NoneAlive(role) == \A i \in DOMAIN inst : inst[i].role = role => ~Alive(i)
AloneInv ==
  /\ ~overlapped => \A p, q \in Proc : Busy(p) /\ Busy(q) => p = q
  /\ ~overlapped => \A p \in Proc :
       /\ pc[p] \in {"slaves", "granted", "masters"} => NoneAlive("master")
       /\ pc[p] \in {"slaves", "granted", "masters", "zoo"} => NoneAlive("zoo")
       /\ pc[p] = "slaves" /\ reqs = <<>> => NoneAlive("slaves")
  /\ OneCluster


(* Lemma: the steps that start no instance. *)
LEMMA NoNewInstance ==
  ASSUME TypeInv, [Next]_vars,
         \A p \in Proc : ~LaunchSlaves(p) /\ ~LaunchMasters(p) /\ ~LaunchZoo(p),
         \A r \in DOMAIN reqs : ~GrantSpot(r)
  PROVE  DOMAIN inst' = DOMAIN inst
<1>1. ASSUME NEW p \in Proc, Begin(p) \/ Step(p) \/ Fail(p), ~CallInstance(p)
      PROVE  UNCHANGED inst
  BY <1>1 DEF Step, Begin, LookUpGroup, CreateGroup, Authorize, CheckRunning, RequestSlaves,
              GetGranted, WaitForInstances, DeployFiles, SetUp, FindExisting, Fail, cloud
<1>2. ASSUME NEW p \in Proc, CallInstance(p) PROVE DOMAIN inst' = DOMAIN inst
  BY <1>2 DEF CallInstance
<1>3. ASSUME NEW i \in DOMAIN inst, Settle(i) \/ Die(i) PROVE DOMAIN inst' = DOMAIN inst
  BY <1>3 DEF Settle, Die, Becomes
<1> QED
  BY <1>1, <1>2, <1>3 DEF Next, vars

(* Lemma: while no other instances are started, none of a role is alive if  *)
(* none was.                                                               *)
LEMMA NoneAliveKept ==
  ASSUME TypeInv, [Next]_vars, NEW role, NoneAlive(role),
         \A i \in DOMAIN inst' : i \in DOMAIN inst \/ inst'[i].role # role
  PROVE  (NoneAlive(role))'
  BY InstMoves DEF InstKept, NoneAlive

(* Lemma: a launch of other instances makes none of a role alive.          *)
LEMMA NoneAliveAfterRun ==
  ASSUME TypeInv, [Next]_vars, NEW p \in Proc, NEW role \in Role, NEW n \in Nat, NEW next,
         run(p, role, n, next), NEW other, other # role, NoneAlive(other)
  PROVE  (NoneAlive(other))'
<1>1. CloudOK
  BY DEF TypeInv
<1>2. Len(inst) \in Nat /\ DOMAIN inst = 1..Len(inst)
  BY <1>1, Sizes
<1>3. /\ DOMAIN inst' = 1..(Len(inst) + n)
      /\ \A i \in (Len(inst) + 1)..(Len(inst) + n) : inst'[i].role = role
  BY <1>1, RunFacts
<1>4. \A i \in 1..(Len(inst) + n) : i \in 1..Len(inst) \/ i \in (Len(inst) + 1)..(Len(inst) + n)
  BY <1>2
<1>5. \A i \in DOMAIN inst' : i \in DOMAIN inst \/ inst'[i].role # other
  BY <1>2, <1>3, <1>4
<1> QED
  BY <1>5, NoneAliveKept

(* Lemma: no spot request disappears. *)
LEMMA RequestsStay ==
  ASSUME TypeInv, [Next]_vars, reqs' = <<>>
  PROVE  /\ reqs = <<>> /\ \A r \in DOMAIN reqs : ~GrantSpot(r)
         /\ \A p \in Proc : ~RequestSlaves(p)
<1>0. Len(reqs) \in Nat /\ DOMAIN reqs = 1..Len(reqs) /\ NumSlaves \in Nat /\ NumSlaves > 0
      /\ reqs \in Seq(Request) /\ DOMAIN reqs' = {}
  <2>1. Len(reqs) \in Nat /\ DOMAIN reqs = 1..Len(reqs) /\ reqs \in Seq(Request)
    BY Sizes DEF TypeInv, CloudOK
  <2>2. NumSlaves \in Nat /\ NumSlaves > 0
    <3>1. NumSlaves \in Nat \ {0}
      BY Ec2Assumption
    <3> QED
      BY <3>1
  <2>3. DOMAIN reqs' = {}
    OBVIOUS
  <2> QED
    BY <2>1, <2>2, <2>3
<1>1. ASSUME NEW p \in Proc, RequestSlaves(p) PROVE FALSE
  <2>1. DOMAIN reqs' = 1..(Len(reqs) + NumSlaves)
    BY <1>1, NewRequests
  <2>2. 1 \in 1..(Len(reqs) + NumSlaves)
    BY <1>0
  <2> QED
    BY <1>0, <2>1, <2>2
<1>2. ASSUME NEW g \in DOMAIN reqs, GrantSpot(g) PROVE FALSE
  BY <1>0, <1>2, NewGrant
<1>3. ASSUME NEW p \in Proc, Begin(p) \/ Step(p) \/ Fail(p)
      PROVE  UNCHANGED reqs \/ RequestSlaves(p)
  BY <1>3 DEF Begin, Step, Fail, LookUpGroup, CreateGroup, Authorize, CheckRunning,
       LaunchSlaves, LaunchMasters, LaunchZoo, run, GetGranted, WaitForInstances,
       DeployFiles, SetUp, FindExisting, CallInstance, cloud
<1>4. ASSUME NEW i, Settle(i) \/ Die(i) PROVE UNCHANGED reqs
  BY <1>4 DEF Settle, Die, Becomes
<1>5. UNCHANGED reqs
  BY <1>1, <1>2, <1>3, <1>4 DEF Next, vars
<1> QED
  BY <1>1, <1>2, <1>5

(* Lemma: while invocations follow one another, the one that has something  *)
(* to do is the one that moves.                                            *)
LEMMA OneBusy ==
  ASSUME TypeInv, AloneInv, [Next]_vars, ~overlapped'
  PROVE  /\ ~overlapped
         /\ \A p, q \in Proc : (Busy(p))' /\ (Busy(q))' => p = q
         /\ \A p, q \in Proc : (Begin(p) \/ Step(p) \/ Fail(p)) /\ (Busy(q))' => q = p
<1>0. ProgramOK /\ overlapped \in BOOLEAN
  BY DEF TypeInv, CloudOK
<1>1. ASSUME NEW p \in Proc, Begin(p) PROVE ~overlapped /\ \A q \in Proc : ~Busy(q)
  BY <1>1 DEF Begin
<1>2. ASSUME NEW p \in Proc, Step(p) \/ Fail(p) PROVE UNCHANGED overlapped /\ Busy(p)
  BY <1>2 DEF Step, Fail, LookUpGroup, CreateGroup, Authorize, CheckRunning, RequestSlaves,
       LaunchSlaves, LaunchMasters, LaunchZoo, run, GetGranted, WaitForInstances,
       DeployFiles, SetUp, FindExisting, CallInstance, past, Busy, Ended
<1>3. ASSUME NEW i, Settle(i) \/ Die(i) PROVE UNCHANGED overlapped
  BY <1>3 DEF Settle, Die, Becomes
<1>4. ASSUME NEW r, GrantSpot(r) PROVE UNCHANGED overlapped
  BY <1>4 DEF GrantSpot, past
<1>5. ~overlapped
  BY <1>1, <1>2, <1>3, <1>4 DEF Next, vars
<1>6. \A p, q \in Proc : Busy(p) /\ Busy(q) => p = q
  BY <1>5 DEF AloneInv
<1>7. ASSUME NEW q \in Proc, Kept(q) PROVE (Busy(q))' <=> Busy(q)
  BY <1>7 DEF Kept, Busy
<1>8. ASSUME NEW p \in Proc, Begin(p) \/ Step(p) \/ Fail(p), NEW q \in Proc, (Busy(q))'
      PROVE  q = p
  <2> SUFFICES ASSUME q # p PROVE FALSE
    OBVIOUS
  <2>1. Busy(q)
    BY <1>0, <1>7, <1>8, OthersKept
  <2> QED
    BY <1>1, <1>2, <1>6, <1>8, <2>1
<1>9. ASSUME NEW p \in Proc, NEW q \in Proc, (Busy(p))', (Busy(q))' PROVE p = q
  <2>1. CASE \E r \in Proc : Begin(r) \/ Step(r) \/ Fail(r)
    BY <1>8, <1>9, <2>1
  <2>2. CASE ~\E r \in Proc : Begin(r) \/ Step(r) \/ Fail(r)
    BY <1>6, <1>7, <1>9, <2>2, CloudKept DEF Next
  <2> QED
    BY <2>1, <2>2
<1> QED
  BY <1>5, <1>8, <1>9

(* Lemma: what the only invocation knows of the instances stays true.      *)
LEMMA NoneAliveInductive ==
  ASSUME TypeInv, AloneInv, [Next]_vars, ~overlapped', NEW p \in Proc
  PROVE  /\ pc'[p] \in {"slaves", "granted", "masters"} => (NoneAlive("master"))'
         /\ pc'[p] \in {"slaves", "granted", "masters", "zoo"} => (NoneAlive("zoo"))'
         /\ pc'[p] = "slaves" /\ reqs' = <<>> => (NoneAlive("slaves"))'
<1> SUFFICES ASSUME pc'[p] \in {"slaves", "granted", "masters", "zoo"}
             PROVE  /\ pc'[p] # "zoo" => (NoneAlive("master"))'
                    /\ (NoneAlive("zoo"))'
                    /\ pc'[p] = "slaves" /\ reqs' = <<>> => (NoneAlive("slaves"))'
  BY Zenon
<1>0. /\ ~overlapped /\ ProgramOK /\ CloudOK /\ pc \in [Proc -> Place]
      /\ NumSlaves \in Nat /\ NumMasters \in Nat /\ at[p] \in 1..3
  BY OneBusy, Ec2Assumption DEF TypeInv, ProgramOK
<1>a. (Busy(p))'
  BY DEF Busy, Ended
<1>b. /\ pc[p] \in {"slaves", "granted", "masters"} => NoneAlive("master")
      /\ pc[p] \in {"slaves", "granted", "masters", "zoo"} => NoneAlive("zoo")
      /\ pc[p] = "slaves" /\ reqs = <<>> => NoneAlive("slaves")
  BY <1>0 DEF AloneInv
<1>1. ASSUME NEW q \in Proc, Begin(q) \/ Step(q) \/ Fail(q) PROVE q = p
  BY <1>1, <1>a, OneBusy
<1>2. CASE ~\E q \in Proc : Begin(q) \/ Step(q) \/ Fail(q)
  <2>1. pc'[p] = pc[p]
    BY <1>2, CloudKept DEF Next, Kept
  <2>2. ASSUME NEW i \in DOMAIN inst', i \notin DOMAIN inst
        PROVE  inst'[i].role = "slaves" /\ reqs' # <<>>
    <3>1. PICK r \in DOMAIN reqs : GrantSpot(r)
      BY <1>2, <2>2, NoNewInstance DEF Step
    <3>2. i = Len(inst) + 1
      <4>1. /\ Len(inst') = Len(inst) + 1 /\ Len(inst) \in Nat /\ DOMAIN inst = 1..Len(inst)
        BY <1>0, <3>1, NewGrant, Sizes
      <4>2. inst' \in Seq(Instance)
        BY InstMoves
      <4> QED
        BY <2>2, <4>1, <4>2
    <3> QED
      BY <3>1, <3>2, NewGrant, RequestsStay
  <2>3. reqs' = <<>> => reqs = <<>>
    BY RequestsStay
  <2>4. \A role \in {"master", "zoo"} : NoneAlive(role) => (NoneAlive(role))'
    BY <2>2, NoneAliveKept
  <2>5. NoneAlive("slaves") /\ reqs' = <<>> => (NoneAlive("slaves"))'
    BY <2>2, NoneAliveKept
  <2> QED
    BY <1>b, <2>1, <2>3, <2>4, <2>5
<1>3. CASE \E q \in Proc : Begin(q) \/ Step(q) \/ Fail(q)
  <2>1. Begin(p) \/ Step(p) \/ Fail(p)
    BY <1>1, <1>3
  <2>2. ASSUME UNCHANGED inst, NEW role, NoneAlive(role) PROVE (NoneAlive(role))'
    BY <2>2 DEF NoneAlive, Alive
  <2>3. CASE CheckRunning(p)
    <3>1. UNCHANGED inst /\ \A i \in DOMAIN inst : ~is_active(i)
      BY <1>0, <2>3 DEF CheckRunning, cloud
    <3>2. \A role : NoneAlive(role)
      BY <1>0, <3>1, ActiveOrGone DEF NoneAlive
    <3> QED
      BY <2>2, <3>1, <3>2
  <2>4. CASE RequestSlaves(p) \/ GetGranted(p)
    <3>1. UNCHANGED inst /\ pc'[p] \in {"granted", "masters"} /\ pc[p] \in {"slaves", "granted"}
      BY <1>0, <2>4 DEF RequestSlaves, GetGranted, cloud
    <3>2. NoneAlive("master") /\ NoneAlive("zoo")
      BY <1>b, <3>1
    <3> QED
      BY <2>2, <3>1, <3>2
  <2>5. ASSUME NEW role \in Role, NEW n \in Nat, NEW next, run(p, role, n, next),
               NEW other, other # role, NoneAlive(other)
        PROVE  (NoneAlive(other))'
    BY <2>5, NoneAliveAfterRun
  <2>6. CASE LaunchSlaves(p)
    <3>1. /\ pc[p] = "slaves" /\ run(p, "slaves", NumSlaves, "masters") /\ pc'[p] = "masters"
      BY <1>0, <2>6 DEF LaunchSlaves, run
    <3>2. NoneAlive("master") /\ NoneAlive("zoo") /\ "slaves" \in Role
      BY <1>b, <3>1 DEF Role
    <3> QED
      BY <1>0, <2>5, <3>1, <3>2
  <2>7. CASE LaunchMasters(p)
    <3>1. PICK next \in {"zoo", "wait"} :
            pc[p] = "masters" /\ run(p, "master", NumMasters, next) /\ pc'[p] = next
      BY <1>0, <2>7 DEF LaunchMasters, run
    <3>2. NoneAlive("zoo") /\ "master" \in Role
      BY <1>b, <3>1 DEF Role
    <3> QED
      BY <1>0, <2>5, <3>1, <3>2
  <2>8. CASE LookUpGroup(p) \/ CreateGroup(p)
    <3>1. pc[p] \in {"lookup", "create"}
      BY <2>8 DEF LookUpGroup, CreateGroup
    <3>2. ASSUME NEW isNew \in BOOLEAN, GotGroup(p, isNew)
          PROVE  pc'[p] \in {"lookup", "authorize", "check"}
      BY <1>0, <3>1, <3>2, GotGroupFacts
    <3>3. pc'[p] \in {"lookup", "authorize", "check", "create", "failed"}
      BY <1>0, <2>8, <3>2 DEF LookUpGroup, CreateGroup
    <3> QED
      BY <3>3
  <2>9. CASE \/ Begin(p) \/ Authorize(p) \/ LaunchZoo(p) \/ WaitForInstances(p) \/ DeployFiles(p)
             \/ SetUp(p) \/ FindExisting(p) \/ CallInstance(p) \/ Fail(p)
    <3>1. pc'[p] \notin {"slaves", "granted", "masters", "zoo"}
      BY <1>0, <2>9 DEF Begin, Authorize, LaunchZoo, run, WaitForInstances, DeployFiles, SetUp,
                        FindExisting, CallInstance, AfterCalls, Fail
    <3> QED
      BY <3>1
  <2> QED
    BY <2>1, <2>3, <2>4, <2>6, <2>7, <2>8, <2>9 DEF Step
<1> QED
  BY <1>2, <1>3

(* Lemma: neither a launch that found none alive, nor anything else, makes *)
(* the cluster one of two launches.                                        *)
LEMMA OneClusterInductive ==
  ASSUME TypeInv, AloneInv, [Next]_vars
  PROVE  OneCluster'
<1> SUFFICES ASSUME ~overlapped', reqs' = <<>>,
                    NEW i \in DOMAIN inst', NEW j \in DOMAIN inst',
                    (Alive(i))', (Alive(j))', inst'[i].role = inst'[j].role
             PROVE  inst'[i].res = inst'[j].res
  BY DEF OneCluster
<1>0. /\ ~overlapped /\ reqs = <<>> /\ ProgramOK /\ CloudOK
      /\ Len(inst) \in Nat /\ DOMAIN inst = 1..Len(inst)
      /\ NumSlaves \in Nat /\ NumMasters \in Nat /\ NumZoo \in Nat
  BY OneBusy, RequestsStay, Sizes, Ec2Assumption DEF TypeInv
<1>1. \A k \in DOMAIN inst : /\ inst'[k].role = inst[k].role /\ inst'[k].res = inst[k].res
                             /\ (Alive(k))' => Alive(k)
  BY InstMoves DEF InstKept
<1>2. \A k, l \in DOMAIN inst : (Alive(k) /\ Alive(l) /\ inst[k].role = inst[l].role)
                                => inst[k].res = inst[l].res
  BY <1>0 DEF AloneInv, OneCluster
<1>3. CASE i \in DOMAIN inst /\ j \in DOMAIN inst
  BY <1>1, <1>2, <1>3
<1>4. ASSUME NEW p \in Proc, NEW role \in Role, NEW n \in Nat, NEW next, run(p, role, n, next),
             NoneAlive(role)
      PROVE  inst'[i].res = inst'[j].res
  <2>1. /\ DOMAIN inst' = 1..(Len(inst) + n)
        /\ \A k \in (Len(inst) + 1)..(Len(inst) + n) :
             inst'[k].role = role /\ inst'[k].res = Len(inst) + 1
    BY <1>0, <1>4, RunFacts
  <2>2. \A k \in DOMAIN inst' : \/ k \in DOMAIN inst
                                \/ inst'[k].role = role /\ inst'[k].res = Len(inst) + 1
    <3>1. \A k \in 1..(Len(inst) + n) : k \in 1..Len(inst) \/ k \in (Len(inst) + 1)..(Len(inst) + n)
      BY <1>0
    <3> QED
      BY <1>0, <2>1, <3>1
  <2>3. \A k \in DOMAIN inst : (Alive(k))' => inst'[k].role # role
    BY <1>1, <1>4 DEF NoneAlive
  <2> QED
    BY <1>3, <2>2, <2>3
<1>5. \A p \in Proc :
        /\ pc[p] = "masters" => NoneAlive("master")
        /\ pc[p] = "zoo" => NoneAlive("zoo")
        /\ pc[p] = "slaves" => NoneAlive("slaves")
  BY <1>0 DEF AloneInv
<1>6. ASSUME NEW p \in Proc, LaunchSlaves(p) PROVE inst'[i].res = inst'[j].res
  BY <1>0, <1>4, <1>5, <1>6 DEF LaunchSlaves, Role
<1>7. ASSUME NEW p \in Proc, LaunchMasters(p) PROVE inst'[i].res = inst'[j].res
  BY <1>0, <1>4, <1>5, <1>7 DEF LaunchMasters, Role
<1>8. ASSUME NEW p \in Proc, LaunchZoo(p) PROVE inst'[i].res = inst'[j].res
  BY <1>0, <1>4, <1>5, <1>8 DEF LaunchZoo, Role
<1>9. CASE \A p \in Proc : ~LaunchSlaves(p) /\ ~LaunchMasters(p) /\ ~LaunchZoo(p)
  BY <1>3, <1>9, NoNewInstance, RequestsStay
<1> QED
  BY <1>6, <1>7, <1>8, <1>9

(* Theorem: while invocations follow one another and none asked for spot   *)
(* instances, the instances of a role that are alive come from one launch, *)
(* however many invocations there are and whatever fails.                  *)
THEOREM OneAtATime == SafetySpec => []OneCluster
<1>1. Init => TypeInv /\ AloneInv
  <2> SUFFICES ASSUME Init PROVE TypeInv /\ AloneInv
    OBVIOUS
  <2>1. \A p \in Proc : pc[p] = "idle" /\ ~Busy(p)
    BY DEF Init, Busy
  <2>2. OneCluster
    BY DEF Init, OneCluster
  <2> QED
    BY <2>1, <2>2, TypeInit DEF AloneInv
<1>2. ASSUME TypeInv, AloneInv, [Next]_vars PROVE TypeInv' /\ AloneInv'
  <2>1. TypeInv'
    BY <1>2, TypeInductive
  <2>2. OneCluster'
    BY <1>2, OneClusterInductive
  <2>3. ~overlapped' => \A p, q \in Proc : (Busy(p))' /\ (Busy(q))' => p = q
    BY <1>2, OneBusy
  <2>4. ~overlapped' => \A p \in Proc :
          /\ pc'[p] \in {"slaves", "granted", "masters"} => (NoneAlive("master"))'
          /\ pc'[p] \in {"slaves", "granted", "masters", "zoo"} => (NoneAlive("zoo"))'
          /\ pc'[p] = "slaves" /\ reqs' = <<>> => (NoneAlive("slaves"))'
    BY <1>2, NoneAliveInductive
  <2> QED
    BY <2>1, <2>2, <2>3, <2>4 DEF AloneInv
<1>3. AloneInv => OneCluster
  BY DEF AloneInv
<1> QED
  BY <1>1, <1>2, <1>3, PTL DEF SafetySpec
(* What a destroy has still to call is what is alive of the nodes it found *)
(* and of those before them.                                               *)
DestroyInv ==
  \A p \in Proc : (action[p] = "destroy" /\ pc[p] \in {"calls", "done"}) =>
    \A i \in DOMAIN inst : Alive(i) =>
      \/ pc[p] = "calls" /\ \E c \in DOMAIN todo[p] : todo[p][c] = i
      \/ \A j \in nodes[p] : j < i


(* Lemma: what a destroy knows of the instances stays true.                *)
LEMMA DestroyInductive ==
  ASSUME TypeInv, DestroyInv, [Next]_vars
  PROVE  DestroyInv'
<1> SUFFICES ASSUME NEW p \in Proc, action'[p] = "destroy", pc'[p] \in {"calls", "done"},
                    NEW i \in DOMAIN inst', (Alive(i))'
             PROVE  \/ pc'[p] = "calls" /\ \E c \in DOMAIN todo'[p] : todo'[p][c] = i
                    \/ \A j \in nodes'[p] : j < i
  BY DEF DestroyInv
<1>0. /\ CloudOK /\ ProgramOK /\ Len(inst) \in Nat /\ DOMAIN inst = 1..Len(inst)
      /\ pc \in [Proc -> Place] /\ at[p] \in 1..3 /\ nodes[p] \subseteq DOMAIN inst
      /\ action \in [Proc -> {"none"} \cup CommandLine]
      /\ i \in DOMAIN inst => Alive(i)
      /\ i \notin DOMAIN inst => i \in Nat /\ i > Len(inst)
  <2>1. inst' \in Seq(Instance) /\ i \in Nat \ {0}
    BY InstMoves
  <2>2. i \in DOMAIN inst => Alive(i)
    BY InstMoves DEF InstKept
  <2>3. Len(inst) \in Nat /\ DOMAIN inst = 1..Len(inst)
    BY Sizes DEF TypeInv
  <2>4. i \notin DOMAIN inst => i > Len(inst)
    BY <2>1, <2>3
  <2> QED
    BY <2>1, <2>2, <2>3, <2>4 DEF TypeInv, ProgramOK, DataOK
<1>1. ASSUME action[p] = "destroy", pc[p] \in {"calls", "done"}, i \in DOMAIN inst
      PROVE  \/ pc[p] = "calls" /\ \E c \in DOMAIN todo[p] : todo[p][c] = i
             \/ \A j \in nodes[p] : j < i
  BY <1>0, <1>1 DEF DestroyInv
<1>2. ASSUME i \notin DOMAIN inst PROVE \A j \in nodes[p] : j < i
  BY <1>0, <1>2
<1>3. CASE Kept(p)
  BY <1>1, <1>2, <1>3 DEF Kept
<1>4. CASE FindExisting(p)
  <2>1. UNCHANGED inst /\ action[p] = "destroy" /\ pc'[p] = "calls"
    BY <1>0, <1>4 DEF FindExisting, cloud
  <2>2. todo'[p] = CallsOf("destroy")
    <3>1. ~(pc' = [pc EXCEPT ![p] = "refused"])
      BY <1>0, <2>1
    <3> QED
      BY <1>0, <1>4, <2>1, <3>1 DEF FindExisting, ProgramOK
  <2>3. i \in DOMAIN inst /\ Alive(i)
    BY <1>0, <2>1
  <2>4. \E c \in DOMAIN CallsOf("destroy") : CallsOf("destroy")[c] = i
    BY <1>0, <2>3, CallsCover
  <2> QED
    BY <2>1, <2>2, <2>4, Zenon
<1>5. CASE CallInstance(p)
  <2> DEFINE h == Head(todo[p])
  <2>1. pc[p] = "calls" /\ action[p] = "destroy" /\ UNCHANGED nodes
    BY <1>5 DEF CallInstance
  <2>2. Accepts(action[p], h)
    BY <2>1 DEF Accepts
  <2>3. /\ inst' = [inst EXCEPT ![h] = Answer("destroy", h)]
        /\ todo' = [todo EXCEPT ![p] = Tail(todo[p])]
        /\ pc' = [pc EXCEPT ![p] = IF Len(todo[p]) > 1 THEN "calls" ELSE AfterCalls(p)]
    BY <1>5, <2>1, <2>2 DEF CallInstance
  <2>4. /\ todo'[p] = Tail(todo[p]) /\ DOMAIN inst' = DOMAIN inst /\ i \in DOMAIN inst
        /\ pc'[p] = IF Len(todo[p]) > 1 THEN "calls" ELSE AfterCalls(p)
    BY <1>0, <2>3 DEF ProgramOK
  <2>5. h \in DOMAIN inst
    BY <2>1, NextCall
  <2>6. i # h
    <3>1. Answer("destroy", h).state \in {"shutting-down", "terminated"}
      BY <1>0, <2>1, <2>2, <2>5, AnswerFacts
    <3>2. inst'[h] = Answer("destroy", h)
      BY <2>3, <2>5
    <3> QED
      BY <3>1, <3>2 DEF Alive
  <2>7. CASE \A j \in nodes[p] : j < i
    BY <2>1, <2>7
  <2>8. CASE ~\A j \in nodes[p] : j < i
    <3>1. PICK c \in DOMAIN todo[p] : todo[p][c] = i
      BY <1>1, <2>1, <2>4, <2>8
    <3> DEFINE D == DOMAIN inst
               s == todo[p]
    <3>2. s \in Seq(D) /\ s # <<>>
      BY <2>1, NextCall
    <3>3. /\ Head(s) = s[1] /\ Len(s) \in Nat \ {0} /\ DOMAIN s = 1..Len(s)
          /\ DOMAIN Tail(s) = 1..(Len(s) - 1)
          /\ \A k \in 1..(Len(s) - 1) : Tail(s)[k] = s[k + 1]
      <4> HIDE DEF D, s
      <4> QED
        BY <3>2, TailFacts
    <3>4. c # 1
      BY <2>6, <3>1, <3>3
    <3>5. c \in 1..Len(s)
      BY <3>1, <3>3
    <3> HIDE DEF s
    <3>6. c - 1 \in 1..(Len(s) - 1) /\ (c - 1) + 1 = c /\ Len(s) > 1
      BY <3>3, <3>4, <3>5
    <3>7. Tail(s)[c - 1] = s[c]
      BY <3>3, <3>6
    <3>8. pc'[p] = "calls"
      BY <2>4, <3>6 DEF s
    <3>9. todo'[p] = Tail(s) /\ s[c] = i
      BY <2>4, <3>1 DEF s
    <3> QED
      BY <3>3, <3>6, <3>7, <3>8, <3>9
  <2> QED
    BY <2>7, <2>8
<1>6. ASSUME Begin(p) \/ Step(p) \/ Fail(p), ~FindExisting(p), ~CallInstance(p) PROVE FALSE
  <2>1. CASE LookUpGroup(p) \/ CreateGroup(p)
    <3>1. action[p] = "destroy" /\ pc[p] \in {"lookup", "create"}
      BY <2>1 DEF LookUpGroup, CreateGroup
    <3> QED
      BY <3>1 DEF TypeInv, PlaceOK, Launch
  <2>2. CASE \/ Authorize(p) \/ CheckRunning(p) \/ LaunchSlaves(p) \/ RequestSlaves(p)
             \/ GetGranted(p) \/ LaunchMasters(p) \/ LaunchZoo(p) \/ SetUp(p)
    <3>1. /\ action[p] = "destroy"
          /\ pc[p] \in {"authorize", "check", "slaves", "granted", "masters", "zoo", "setup"}
      BY <2>2 DEF Authorize, CheckRunning, LaunchSlaves, RequestSlaves, GetGranted,
                  LaunchMasters, LaunchZoo, SetUp, run
    <3> QED
      BY <3>1 DEF TypeInv, PlaceOK, Launch
  <2>3. CASE Begin(p) \/ WaitForInstances(p) \/ DeployFiles(p) \/ Fail(p)
    <3>1. pc'[p] \in {"lookup", "find", "wait", "deploy", "setup", "failed"}
      BY <1>0, <2>3 DEF Begin, WaitForInstances, DeployFiles, Fail
    <3> QED
      BY <3>1
  <2> QED
    BY <1>6, <2>1, <2>2, <2>3 DEF Step
<1>7. Kept(p) \/ Begin(p) \/ Step(p) \/ Fail(p)
  <2>1. CASE \E q \in Proc : Begin(q) \/ Step(q) \/ Fail(q)
    BY <1>0, <2>1, OthersKept
  <2>2. CASE ~\E q \in Proc : Begin(q) \/ Step(q) \/ Fail(q)
    BY <2>2, CloudKept DEF Next
  <2> QED
    BY <2>1, <2>2
<1> QED
  BY <1>3, <1>4, <1>5, <1>6, <1>7

(* Theorem: once a destroy has come to its end, no instance it found, and   *)
(* none launched before these, is alive or comes back, whatever stop, start *)
(* or launch runs at the same time and however the calls are interleaved.  *)
THEOREM StaysDestroyed == SafetySpec => []DestroyedForGood
<1>1. Init => TypeInv /\ DestroyInv
  BY TypeInit DEF Init, DestroyInv
<1>2. (TypeInv /\ DestroyInv) /\ [Next]_vars => (TypeInv /\ DestroyInv)'
  BY TypeInductive, DestroyInductive
<1>3. DestroyInv => DestroyedForGood
  BY DEF DestroyInv, DestroyedForGood
<1> QED
  BY <1>1, <1>2, <1>3, PTL DEF SafetySpec
Order == [master |-> 1, slaves |-> 2, zoo |-> 3]
Granting(p) == pc[p] \in {"lookup", "create", "authorize"}
Passed(p, role) ==
  pc[p] = "authorize" \/ (pc[p] \in {"lookup", "create"} /\ Order[role] < at[p])
Full(role) == rules[role] = 1..NumRules[role]

InOrder(q) ==
  /\ \A i \in DOMAIN q : q[i][2] \in 1..NumRules[q[i][1]]
  /\ \A i, j \in DOMAIN q : i < j =>
       \/ Order[q[i][1]] < Order[q[j][1]]
       \/ q[i][1] = q[j][1] /\ q[i][2] < q[j][2]
  /\ \A i \in DOMAIN q : q[i][2] < NumRules[q[i][1]] =>
       i + 1 \in DOMAIN q /\ q[i + 1] = <<q[i][1], q[i][2] + 1>>
  /\ \A i \in DOMAIN q : (i > 1 /\ q[i][2] > 1) =>
       q[i - 1] = <<q[i][1], q[i][2] - 1>>

Claims(p) ==
  /\ InOrder(todo[p])
  /\ pc[p] # "authorize" =>
       /\ \A i \in DOMAIN todo[p] : Order[todo[p][i][1]] < at[p]
       /\ todo[p] # <<>> => todo[p][1][2] = 1
  /\ pc[p] = "authorize" => 1..(todo[p][1][2] - 1) \subseteq rules[todo[p][1][1]]
  /\ \A role \in Role : Passed(p, role) =>
       /\ role \in groups
       /\ rules[role] = {} => \E i \in DOMAIN todo[p] : todo[p][i] = <<role, 1>>

Begun == \E p \in Proc : action[p] \in Launch
Started(role) ==
  (rules[role] # {}) \/ \E r \in Role : Order[role] = Order[r] + 1 /\ Full(r)

(* A group has the first so many of its rules; groups are created in order. *)
RulesOK ==
  /\ \A role \in Role :
       /\ \E m \in 0..NumRules[role] : rules[role] = 1..m
       /\ rules[role] # {} => role \in groups
  /\ \A r1, r2 \in Role : (r2 \in groups /\ Order[r1] < Order[r2]) => r1 \in groups

ClaimsOK == \A p \in Proc : Granting(p) => Claims(p)

(* Until there is a first rule, some launch has seen all the groups.       *)
GuideOK ==
  /\ ~Begun => groups = {}
  /\ (Begun /\ rules["master"] = {}) =>
       \E p \in Proc : Granting(p) /\ \A role \in groups : Passed(p, role)

(* Some launch is about to give a group that has its turn its next rule.   *)
WorkersOK ==
  \A role \in Role : (Started(role) /\ ~Full(role)) =>
    \E p \in Proc : /\ pc[p] = "authorize" /\ todo[p][1][1] = role
                    /\ rules[role] = 1..(todo[p][1][2] - 1)

GroupsInv == failures = 0 => RulesOK /\ ClaimsOK /\ GuideOK /\ WorkersOK

-----------------------------------------------------------------------------
(* Lemma: the order of the roles. *)
LEMMA OrderFacts ==
  /\ Order["master"] = 1 /\ Order["slaves"] = 2 /\ Order["zoo"] = 3
  /\ \A r \in Role : Order[r] \in 1..3
  /\ \A r, s \in Role : Order[r] = Order[s] => r = s
  /\ \A k \in 1..3 : RoleOrder[k] \in Role /\ Order[RoleOrder[k]] = k
  BY DEF Order, Role, RoleOrder

(* Lemma: a call is for a role and a rule. *)
LEMMA RuleFacts ==
  ASSUME NEW q \in Seq(Rule), NEW i \in DOMAIN q
  PROVE  /\ q[i][1] \in Role /\ q[i][2] \in Nat /\ q[i] = <<q[i][1], q[i][2]>>
         /\ Order[q[i][1]] \in 1..3 /\ NumRules[q[i][1]] \in Nat \ {0}
<1>1. q[i] \in Rule
  OBVIOUS
<1>2. q[i][1] \in Role /\ q[i][2] \in Nat /\ q[i] = <<q[i][1], q[i][2]>>
  BY <1>1 DEF Rule
<1> QED
  BY <1>2, OrderFacts, Ec2Assumption

(* Lemma: after a call comes the next rule of the group, or the first of a *)
(* later group.                                                            *)
LEMMA InOrderTail ==
  ASSUME NEW q \in Seq(Rule), q # <<>>, InOrder(q)
  PROVE  /\ InOrder(Tail(q))
         /\ q[1][2] < NumRules[q[1][1]] =>
              Len(q) > 1 /\ q[2] = <<q[1][1], q[1][2] + 1>>
         /\ (q[1][2] = NumRules[q[1][1]] /\ Len(q) > 1) =>
              q[2][2] = 1 /\ Order[q[1][1]] < Order[q[2][1]]
         /\ \A i \in DOMAIN q : Order[q[1][1]] <= Order[q[i][1]]
         /\ \A i \in DOMAIN q : (i > 1 /\ q[i][1] = q[1][1]) => q[1][2] < q[i][2]
         /\ \A i \in DOMAIN q : i > 2 => Order[q[2][1]] <= Order[q[i][1]]
         /\ q[1][2] \in 1..NumRules[q[1][1]]
<1> DEFINE t == Tail(q)
<1>0. /\ Len(q) \in Nat \ {0} /\ 1 \in DOMAIN q /\ DOMAIN q = 1..Len(q)
      /\ DOMAIN t = 1..(Len(q) - 1) /\ \A k \in 1..(Len(q) - 1) : t[k] = q[k + 1]
  BY TailFacts
<1>1. \A i \in DOMAIN q : /\ q[i][1] \in Role /\ q[i][2] \in Nat
                          /\ Order[q[i][1]] \in 1..3 /\ NumRules[q[i][1]] \in Nat \ {0}
  BY RuleFacts
<1>2. /\ \A i \in DOMAIN q : q[i][2] \in 1..NumRules[q[i][1]]
      /\ \A i, j \in DOMAIN q : i < j =>
           \/ Order[q[i][1]] < Order[q[j][1]]
           \/ q[i][1] = q[j][1] /\ q[i][2] < q[j][2]
      /\ \A i \in DOMAIN q : q[i][2] < NumRules[q[i][1]] =>
           i + 1 \in DOMAIN q /\ q[i + 1] = <<q[i][1], q[i][2] + 1>>
      /\ \A i \in DOMAIN q : (i > 1 /\ q[i][2] > 1) =>
           q[i - 1] = <<q[i][1], q[i][2] - 1>>
  BY DEF InOrder
<1> HIDE DEF t
<1>3. \A k \in DOMAIN t : k + 1 \in DOMAIN q /\ t[k] = q[k + 1] /\ k \in Nat \ {0}
  BY <1>0
<1>4. InOrder(t)
  <2>1. \A i \in DOMAIN t : t[i][2] \in 1..NumRules[t[i][1]]
    BY <1>2, <1>3
  <2>2. ASSUME NEW i \in DOMAIN t, NEW j \in DOMAIN t, i < j
        PROVE  \/ Order[t[i][1]] < Order[t[j][1]]
               \/ t[i][1] = t[j][1] /\ t[i][2] < t[j][2]
    <3>1. i + 1 < j + 1
      BY <1>3, <2>2
    <3> QED
      BY <1>2, <1>3, <3>1
  <2>3. ASSUME NEW i \in DOMAIN t, t[i][2] < NumRules[t[i][1]]
        PROVE  i + 1 \in DOMAIN t /\ t[i + 1] = <<t[i][1], t[i][2] + 1>>
    <3>1. (i + 1) + 1 \in DOMAIN q /\ q[(i + 1) + 1] = <<t[i][1], t[i][2] + 1>>
      BY <1>2, <1>3, <2>3
    <3>2. i + 1 \in DOMAIN t
      BY <1>0, <1>3, <3>1
    <3> QED
      BY <1>3, <3>1, <3>2
  <2>4. ASSUME NEW i \in DOMAIN t, i > 1, t[i][2] > 1
        PROVE  t[i - 1] = <<t[i][1], t[i][2] - 1>>
    <3>1. i - 1 \in DOMAIN t /\ (i - 1) + 1 = i /\ (i + 1) - 1 = i /\ i + 1 > 1
      BY <1>0, <2>4
    <3>2. q[(i + 1) - 1] = <<t[i][1], t[i][2] - 1>>
      BY <1>2, <1>3, <2>4, <3>1
    <3>3. t[i - 1] = q[i]
      BY <1>3, <3>1
    <3> QED
      BY <3>1, <3>2, <3>3
  <2> QED
    BY <2>1, <2>2, <2>3, <2>4 DEF InOrder
<1>5. q[1][2] < NumRules[q[1][1]] => Len(q) > 1 /\ q[2] = <<q[1][1], q[1][2] + 1>>
  <2> SUFFICES ASSUME q[1][2] < NumRules[q[1][1]]
               PROVE  Len(q) > 1 /\ q[2] = <<q[1][1], q[1][2] + 1>>
    OBVIOUS
  <2>1. 1 + 1 \in DOMAIN q /\ q[1 + 1] = <<q[1][1], q[1][2] + 1>>
    BY <1>0, <1>2
  <2> QED
    BY <1>0, <2>1
<1>6. ASSUME q[1][2] = NumRules[q[1][1]], Len(q) > 1
      PROVE  q[2][2] = 1 /\ Order[q[1][1]] < Order[q[2][1]]
  <2>1. 2 \in DOMAIN q
    BY <1>0, <1>6
  <2>2. q[2][2] \in 1..NumRules[q[2][1]]
    BY <1>2, <2>1
  <2>3. Order[q[1][1]] < Order[q[2][1]]
    <3>1. \/ Order[q[1][1]] < Order[q[2][1]]
          \/ q[1][1] = q[2][1] /\ q[1][2] < q[2][2]
      BY <1>0, <1>2, <2>1
    <3> QED
      BY <1>0, <1>1, <1>6, <2>1, <2>2, <3>1
  <2>4. q[2][2] > 1 => q[1] = <<q[2][1], q[2][2] - 1>>
    <3>1. \A i \in DOMAIN q : (i > 1 /\ q[i][2] > 1) => q[i - 1] = <<q[i][1], q[i][2] - 1>>
      BY <1>2
    <3>2. 2 > 1 /\ 2 - 1 = 1
      OBVIOUS
    <3> QED
      BY <2>1, <3>1, <3>2
  <2>5. ~(q[2][2] > 1)
    <3> SUFFICES ASSUME q[2][2] > 1 PROVE FALSE
      OBVIOUS
    <3>1. q[1][1] = q[2][1]
      BY <2>4
    <3> QED
      BY <1>0, <1>1, <2>3, <3>1
  <2> QED
    BY <1>1, <2>1, <2>2, <2>3, <2>5
<1>7. ASSUME NEW i \in DOMAIN q, NEW j \in DOMAIN q, i < j
      PROVE  /\ Order[q[i][1]] <= Order[q[j][1]]
             /\ q[j][1] = q[i][1] => q[i][2] < q[j][2]
  <2>1. \/ Order[q[i][1]] < Order[q[j][1]]
        \/ q[i][1] = q[j][1] /\ q[i][2] < q[j][2]
    BY <1>2, <1>7
  <2>2. Order[q[i][1]] \in 1..3 /\ Order[q[j][1]] \in 1..3
    BY <1>1
  <2> QED
    BY <2>1, <2>2
<1>8. \A i \in DOMAIN q : i = 1 \/ 1 < i
  BY <1>0
<1>9. \A i \in DOMAIN q : Order[q[1][1]] <= Order[q[i][1]]
  BY <1>0, <1>1, <1>7, <1>8
<1>10. \A i \in DOMAIN q : (i > 1 /\ q[i][1] = q[1][1]) => q[1][2] < q[i][2]
  BY <1>0, <1>7
<1>11. \A i \in DOMAIN q : i > 2 => Order[q[2][1]] <= Order[q[i][1]]
  <2>1. \A i \in DOMAIN q : i > 2 => 2 \in DOMAIN q
    BY <1>0
  <2> QED
    BY <1>7, <2>1
<1> QED
  BY <1>0, <1>2, <1>4, <1>5, <1>6, <1>9, <1>10, <1>11 DEF t

(* The calls for a later group, after the calls for others.                *)
Extends(q, role, t) ==
  /\ InOrder(t) /\ t # <<>> /\ t[1][2] = 1
  /\ \A i \in DOMAIN t : Order[t[i][1]] <= Order[role]
  /\ \E i \in DOMAIN t : t[i] = <<role, 1>>
  /\ \A i \in DOMAIN q : i \in DOMAIN t /\ t[i] = q[i]

(* Lemma: the calls for a later group come after those for the others.     *)
LEMMA InOrderAppend ==
  ASSUME NEW q \in Seq(Rule), InOrder(q), NEW role \in Role,
         \A i \in DOMAIN q : Order[q[i][1]] < Order[role],
         q # <<>> => q[1][2] = 1
  PROVE  Extends(q, role, q \o Authorizations(role))
<1> DEFINE a == Authorizations(role)
           n == NumRules[role]
           t == q \o a
<1>0. /\ Len(q) \in Nat /\ DOMAIN q = 1..Len(q) /\ n \in Nat \ {0} /\ Order[role] \in 1..3
      /\ a \in Seq(Rule) /\ Len(a) = n /\ \A i \in 1..n : a[i] = <<role, i>>
  <2>1. Len(q) \in Nat /\ DOMAIN q = 1..Len(q)
    OBVIOUS
  <2> QED
    BY <2>1, AuthorizeAll, OrderFacts
<1> HIDE DEF a, n
<1>1. /\ t \in Seq(Rule) /\ Len(t) = Len(q) + n
      /\ \A i \in 1..Len(q) + n : t[i] = IF i <= Len(q) THEN q[i] ELSE a[i - Len(q)]
  BY <1>0, ConcatProperties
<1> HIDE DEF t
<1>2. DOMAIN t = 1..(Len(q) + n)
  BY <1>1
<1>3. ASSUME NEW i \in DOMAIN q PROVE i \in DOMAIN t /\ t[i] = q[i]
  BY <1>0, <1>1, <1>2
<1>4. ASSUME NEW i \in DOMAIN t, i \notin DOMAIN q
      PROVE  t[i] = <<role, i - Len(q)>> /\ i - Len(q) \in 1..n
  <2>1. ~(i <= Len(q)) /\ i - Len(q) \in 1..n
    BY <1>0, <1>2, <1>4
  <2> QED
    BY <1>0, <1>1, <1>2, <2>1
<1>5. \A i \in DOMAIN q : /\ q[i][1] \in Role /\ q[i][2] \in Nat
                          /\ Order[q[i][1]] \in 1..3 /\ NumRules[q[i][1]] \in Nat \ {0}
  BY RuleFacts
<1>6. /\ \A i \in DOMAIN q : q[i][2] \in 1..NumRules[q[i][1]]
      /\ \A i, j \in DOMAIN q : i < j =>
           \/ Order[q[i][1]] < Order[q[j][1]]
           \/ q[i][1] = q[j][1] /\ q[i][2] < q[j][2]
      /\ \A i \in DOMAIN q : q[i][2] < NumRules[q[i][1]] =>
           i + 1 \in DOMAIN q /\ q[i + 1] = <<q[i][1], q[i][2] + 1>>
      /\ \A i \in DOMAIN q : (i > 1 /\ q[i][2] > 1) =>
           q[i - 1] = <<q[i][1], q[i][2] - 1>>
  BY DEF InOrder
<1>7. \A i \in DOMAIN t : i \notin DOMAIN q => t[i][1] = role /\ t[i][2] = i - Len(q)
  BY <1>4
<1>8. \A i \in DOMAIN t : t[i][2] \in 1..NumRules[t[i][1]]
  BY <1>3, <1>4, <1>6, <1>7 DEF n
<1>9. ASSUME NEW i \in DOMAIN t, NEW j \in DOMAIN t, i < j
      PROVE  \/ Order[t[i][1]] < Order[t[j][1]]
             \/ t[i][1] = t[j][1] /\ t[i][2] < t[j][2]
  <2>1. CASE i \in DOMAIN q /\ j \in DOMAIN q
    BY <1>3, <1>6, <1>9, <2>1
  <2>2. CASE i \in DOMAIN q /\ j \notin DOMAIN q
    BY <1>3, <1>7, <2>2
  <2>3. CASE i \notin DOMAIN q
    <3>1. j \notin DOMAIN q /\ i - Len(q) < j - Len(q)
      BY <1>0, <1>2, <1>9, <2>3
    <3> QED
      BY <1>7, <2>3, <3>1
  <2> QED
    BY <2>1, <2>2, <2>3
<1>10. ASSUME NEW i \in DOMAIN t, t[i][2] < NumRules[t[i][1]]
       PROVE  i + 1 \in DOMAIN t /\ t[i + 1] = <<t[i][1], t[i][2] + 1>>
  <2>1. CASE i \in DOMAIN q
    BY <1>3, <1>6, <1>10, <2>1
  <2>2. CASE i \notin DOMAIN q
    <3>1. i - Len(q) < n /\ i \in Nat
      BY <1>2, <1>7, <1>10, <2>2 DEF n
    <3>2. i + 1 \in DOMAIN t /\ i + 1 \notin DOMAIN q /\ (i + 1) - Len(q) = (i - Len(q)) + 1
      BY <1>0, <1>2, <2>2, <3>1
    <3>3. t[i + 1] = <<role, (i + 1) - Len(q)>>
      BY <1>4, <3>2
    <3> QED
      BY <1>7, <2>2, <3>2, <3>3
  <2> QED
    BY <2>1, <2>2
<1>11. ASSUME NEW i \in DOMAIN t, i > 1, t[i][2] > 1
       PROVE  t[i - 1] = <<t[i][1], t[i][2] - 1>>
  <2>1. CASE i \in DOMAIN q
    <3>1. i - 1 \in DOMAIN q
      BY <1>0, <1>11, <2>1
    <3> QED
      BY <1>3, <1>6, <1>11, <2>1, <3>1
  <2>2. CASE i \notin DOMAIN q
    <3>1. i - Len(q) > 1 /\ i \in Nat
      BY <1>2, <1>7, <1>11, <2>2
    <3>2. /\ i - 1 \in DOMAIN t /\ i - 1 \notin DOMAIN q
          /\ (i - 1) - Len(q) = (i - Len(q)) - 1
      BY <1>0, <1>2, <2>2, <3>1
    <3>3. t[i - 1] = <<role, (i - 1) - Len(q)>>
      BY <1>4, <3>2
    <3> QED
      BY <1>7, <2>2, <3>2, <3>3
  <2> QED
    BY <2>1, <2>2
<1>12. InOrder(t)
  BY <1>8, <1>9, <1>10, <1>11 DEF InOrder
<1>13. 1 \in DOMAIN t /\ t # <<>>
  BY <1>0, <1>1, <1>2
<1>14. t[1][2] = 1
  <2>1. CASE q = <<>>
    <3>1. 1 \notin DOMAIN q /\ Len(q) = 0
      BY <2>1
    <3> QED
      BY <1>7, <1>13, <3>1
  <2>2. CASE q # <<>>
    <3>1. 1 \in DOMAIN q
      BY <2>2
    <3> QED
      BY <1>3, <2>2, <3>1
  <2> QED
    BY <2>1, <2>2
<1>15. \A i \in DOMAIN t : Order[t[i][1]] <= Order[role]
  BY <1>0, <1>3, <1>5, <1>7
<1>16. \E i \in DOMAIN t : t[i] = <<role, 1>>
  <2>1. /\ Len(q) + 1 \in DOMAIN t /\ Len(q) + 1 \notin DOMAIN q /\ (Len(q) + 1) - Len(q) = 1
    BY <1>0, <1>2
  <2> QED
    BY <1>4, <2>1
<1> QED
  BY <1>3, <1>12, <1>13, <1>14, <1>15, <1>16 DEF t, a, Extends

-----------------------------------------------------------------------------
(* Lemma: what a launch has claimed stays true while others create groups  *)
(* and add rules.                                                          *)
LEMMA ClaimsKept ==
  ASSUME TypeInv, NEW q \in Proc, Kept(q), Granting(q), Claims(q), groups \subseteq groups',
         \A role \in Role : rules[role] \subseteq rules'[role]
  PROVE  (Claims(q))'
<1>1. /\ todo'[q] = todo[q] /\ pc'[q] = pc[q] /\ at'[q] = at[q]
      /\ \A role : (Passed(q, role))' <=> Passed(q, role)
  BY DEF Kept, Passed
<1>2. InOrder(todo[q])' /\ (InOrder(todo[q]))'
  BY <1>1 DEF Claims, InOrder
<1>3. pc'[q] # "authorize" =>
        /\ \A i \in DOMAIN todo'[q] : Order[todo'[q][i][1]] < at'[q]
        /\ todo'[q] # <<>> => todo'[q][1][2] = 1
  BY <1>1 DEF Claims
<1>4. pc'[q] = "authorize" => 1..(todo'[q][1][2] - 1) \subseteq rules'[todo'[q][1][1]]
  <2> SUFFICES ASSUME pc[q] = "authorize"
               PROVE  1..(todo[q][1][2] - 1) \subseteq rules'[todo[q][1][1]]
    BY <1>1
  <2>1. todo[q] \in Seq(Rule) /\ 1 \in DOMAIN todo[q]
    BY DEF TypeInv, PlaceOK, DataOK
  <2>2. todo[q][1][1] \in Role
    BY <2>1, RuleFacts
  <2>3. 1..(todo[q][1][2] - 1) \subseteq rules[todo[q][1][1]]
    BY DEF Claims
  <2> QED
    BY <2>2, <2>3
<1>5. ASSUME NEW role \in Role, (Passed(q, role))'
      PROVE  /\ role \in groups'
             /\ rules'[role] = {} => \E i \in DOMAIN todo'[q] : todo'[q][i] = <<role, 1>>
  <2>1. Passed(q, role)
    BY <1>1, <1>5
  <2>2. role \in groups /\ (rules[role] = {} => \E i \in DOMAIN todo[q] : todo[q][i] = <<role, 1>>)
    BY <2>1 DEF Claims
  <2> QED
    BY <1>1, <2>2
<1> QED
  BY <1>2, <1>3, <1>4, <1>5 DEF Claims

(* Lemma: what a launch may claim once it has a group.                     *)
LEMMA ClaimsGotGroup ==
  ASSUME TypeInv, NEW p \in Proc, pc[p] \in {"lookup", "create"}, NEW isNew \in BOOLEAN,
         GotGroup(p, isNew), Claims(p), UNCHANGED rules, groups \subseteq groups',
         RoleOrder[at[p]] \in groups'
  PROVE  /\ (Granting(p))' => (Claims(p))'
         /\ \A role \in Role : (Granting(p))' /\ (Passed(p, role) \/ role = RoleOrder[at[p]])
                               => (Passed(p, role))'
         /\ \A i \in DOMAIN todo[p] : i \in DOMAIN todo'[p] /\ todo'[p][i] = todo[p][i]
         /\ (isNew \/ todo[p] # <<>>) => (Granting(p))'
<1> DEFINE mine == RoleOrder[at[p]]
           old == todo[p]
           new == todo'[p]
<1>0. /\ at[p] \in 1..3 /\ mine \in Role /\ Order[mine] = at[p]
      /\ \A role \in Role : Order[role] \in 1..3
      /\ \A s \in Role : Order[s] = at[p] => s = mine
  BY OrderFacts DEF TypeInv, ProgramOK
<1>1. /\ old \in Seq(Rule) /\ new \in Seq(Rule) /\ new = ToAuthorize(p, isNew)
      /\ at[p] \in {1, 2} => at'[p] = at[p] + 1 /\ pc'[p] = "lookup"
      /\ at[p] = 3 => /\ at'[p] = 1 /\ pc'[p] \in {"authorize", "check"}
                      /\ pc'[p] = "authorize" <=> new # <<>>
  BY GotGroupFacts
<1>2. /\ InOrder(old) /\ \A i \in DOMAIN old : Order[old[i][1]] < Order[mine]
      /\ old # <<>> => old[1][2] = 1
      /\ \A role \in Role : Passed(p, role) =>
           role \in groups /\ (rules[role] = {} => \E i \in DOMAIN old : old[i] = <<role, 1>>)
      /\ \A role \in Role : Passed(p, role) <=> Order[role] < at[p]
  BY <1>0 DEF Claims, Passed
<1>3. /\ InOrder(new) /\ (new # <<>> => new[1][2] = 1)
      /\ \A i \in DOMAIN new : Order[new[i][1]] <= Order[mine]
      /\ rules[mine] = {} => \E i \in DOMAIN new : new[i] = <<mine, 1>>
      /\ \A i \in DOMAIN old : i \in DOMAIN new /\ new[i] = old[i]
      /\ isNew \/ old # <<>> => new # <<>>
  <2>1. CASE isNew \/ rules[mine] = {}
    <3>1. new = old \o Authorizations(mine)
      BY <1>1, <2>1 DEF ToAuthorize
    <3> HIDE DEF mine, old, new
    <3>2. Extends(old, mine, old \o Authorizations(mine))
      BY <1>0, <1>1, <1>2, InOrderAppend
    <3>3. Extends(old, mine, new)
      BY <3>1, <3>2
    <3> QED
      BY <3>3 DEF Extends
  <2>2. CASE ~(isNew \/ rules[mine] = {})
    <3>1. new = old
      BY <1>1, <2>2 DEF ToAuthorize
    <3>2. \A i \in DOMAIN old : Order[old[i][1]] \in 1..3
      BY <1>1, RuleFacts
    <3> QED
      BY <1>0, <1>2, <2>2, <3>1, <3>2
  <2> QED
    BY <2>1, <2>2
<1>4. \A i \in DOMAIN new : Order[new[i][1]] \in 1..3
  BY <1>1, RuleFacts
<1>5. (Granting(p))' <=> pc'[p] \in {"lookup", "create", "authorize"}
  BY DEF Granting
<1>6. \A role \in Role : (Passed(p, role))' <=>
        \/ pc'[p] = "authorize"
        \/ pc'[p] \in {"lookup", "create"} /\ Order[role] < at'[p]
  BY DEF Passed
<1> HIDE DEF old, new
<1>7. \A role \in Role : (Passed(p, role))' => Passed(p, role) \/ role = mine
  <2>1. CASE at[p] \in {1, 2}
    BY <1>0, <1>1, <1>2, <1>6, <2>1
  <2>2. CASE at[p] = 3
    BY <1>0, <1>2, <2>2
  <2> QED
    BY <1>0, <2>1, <2>2
<1>8. \A role \in Role : (Granting(p))' /\ (Passed(p, role) \/ role = mine) => (Passed(p, role))'
  <2>1. CASE at[p] \in {1, 2}
    BY <1>0, <1>1, <1>2, <1>6, <2>1
  <2>2. CASE at[p] = 3
    BY <1>0, <1>1, <1>5, <1>6, <2>2
  <2> QED
    BY <1>0, <2>1, <2>2
<1>9. \A role \in Role : (Passed(p, role))' =>
        role \in groups' /\ (rules'[role] = {} => \E i \in DOMAIN new : new[i] = <<role, 1>>)
  <2> SUFFICES ASSUME NEW role \in Role, (Passed(p, role))'
               PROVE  role \in groups' /\ (rules'[role] = {} =>
                                             \E i \in DOMAIN new : new[i] = <<role, 1>>)
    OBVIOUS
  <2>1. CASE role = mine
    BY <1>3, <2>1
  <2>2. CASE Passed(p, role)
    <3>1. role \in groups /\ (rules[role] = {} => \E i \in DOMAIN old : old[i] = <<role, 1>>)
      BY <1>2, <2>2
    <3> QED
      BY <1>3, <3>1
  <2> QED
    BY <1>7, <2>1, <2>2
<1>10. pc'[p] # "authorize" /\ (Granting(p))' =>
         /\ \A i \in DOMAIN new : Order[new[i][1]] < at'[p]
         /\ new # <<>> => new[1][2] = 1
  <2>1. CASE at[p] \in {1, 2}
    <3>1. at'[p] = at[p] + 1 /\ \A i \in DOMAIN new : Order[new[i][1]] <= at[p]
      BY <1>0, <1>1, <1>3, <2>1
    <3>2. \A i \in DOMAIN new : Order[new[i][1]] < at[p] + 1
      BY <1>0, <1>4, <3>1
    <3> QED
      BY <1>3, <3>1, <3>2
  <2>2. CASE at[p] = 3
    BY <1>1, <1>5, <2>2
  <2> QED
    BY <1>0, <2>1, <2>2
<1>11. pc'[p] = "authorize" => 1..(new[1][2] - 1) \subseteq rules'[new[1][1]]
  <2> SUFFICES ASSUME pc'[p] = "authorize" PROVE new[1][2] = 1
    OBVIOUS
  <2>1. new # <<>>
    BY <1>0, <1>1
  <2> QED
    BY <1>3, <2>1
<1>12. (Granting(p))' => (Claims(p))'
  BY <1>3, <1>9, <1>10, <1>11 DEF Claims, new
<1>13. (isNew \/ old # <<>>) => (Granting(p))'
  BY <1>0, <1>1, <1>3, <1>5
<1> QED
  BY <1>3, <1>8, <1>12, <1>13 DEF old, new
-----------------------------------------------------------------------------
GroupsOK == RulesOK /\ ClaimsOK /\ GuideOK /\ WorkersOK

(* A launch that, as far as is known, has seen all the groups, and one that *)
(* is about to give a group its next rule.                                 *)
Guide(p) == Granting(p) /\ \A role \in groups : Passed(p, role)
Works(p, role) ==
  pc[p] = "authorize" /\ todo[p][1][1] = role /\ rules[role] = 1..(todo[p][1][2] - 1)

(* Lemma: when one launch moves, the claims of others stay. *)
LEMMA ClaimsOthers ==
  ASSUME TypeInv, ClaimsOK, NEW p \in Proc, (Granting(p))' => (Claims(p))',
         \A q \in Proc : (q # p /\ (Granting(q))') => Kept(q),
         groups \subseteq groups', \A role \in Role : rules[role] \subseteq rules'[role]
  PROVE  ClaimsOK'
<1> SUFFICES ASSUME NEW q \in Proc, (Granting(q))', q # p PROVE (Claims(q))'
  BY DEF ClaimsOK
<1>1. Kept(q) /\ Granting(q)
  BY DEF Granting, Kept
<1>2. Claims(q)
  BY <1>1 DEF ClaimsOK
<1> QED
  BY <1>1, <1>2, ClaimsKept

(* Lemma: the guides stay. *)
LEMMA GuideKept ==
  ASSUME GuideOK, UNCHANGED groups, Begun, Begun',
         rules'["master"] = {} => rules["master"] = {},
         rules'["master"] = {} => \A q \in Proc : Guide(q) => (Guide(q))'
  PROVE  GuideOK'
<1> SUFFICES ASSUME rules'["master"] = {} PROVE \E q \in Proc : (Guide(q))'
  BY DEF GuideOK, Guide
<1>1. \E q \in Proc : Guide(q)
  BY DEF GuideOK, Guide
<1> QED
  BY <1>1

(* Lemma: the workers stay, while there are no new rules. *)
LEMMA WorkersKept ==
  ASSUME WorkersOK, UNCHANGED rules,
         \A q \in Proc : \A role \in Role :
           (Works(q, role) /\ Started(role) /\ ~Full(role)) => Kept(q)
  PROVE  WorkersOK'
<1>1. \A role \in Role : /\ (Started(role))' <=> Started(role)
                         /\ (Full(role))' <=> Full(role)
  BY DEF Started, Full
<1>2. ASSUME NEW role \in Role, Started(role), ~Full(role)
      PROVE  \E q \in Proc : (Works(q, role))'
  <2>1. PICK q \in Proc : Works(q, role)
    BY <1>2 DEF WorkersOK, Works
  <2>2. Kept(q)
    BY <1>2, <2>1
  <2> QED
    BY <2>1, <2>2 DEF Kept, Works
<1> QED
  BY <1>1, <1>2 DEF WorkersOK, Works

(* Lemma: nothing else than a launch that starts or that is at its groups  *)
(* changes what is known of them.                                          *)
LEMMA GroupsStill ==
  ASSUME TypeInv, GroupsOK, UNCHANGED <<groups, rules, action>>,
         \A p \in Proc : (Granting(p) => Kept(p)) /\ ((Granting(p))' => Granting(p))
  PROVE  GroupsOK'
<1>1. RulesOK'
  BY DEF GroupsOK, RulesOK
<1>2. ClaimsOK'
  <2> SUFFICES ASSUME NEW p \in Proc, (Granting(p))' PROVE (Claims(p))'
    BY DEF ClaimsOK
  <2>1. Granting(p) /\ Kept(p) /\ Claims(p)
    BY DEF GroupsOK, ClaimsOK
  <2> QED
    BY <2>1, ClaimsKept
<1>3. \A p \in Proc : Guide(p) => (Guide(p))'
  BY DEF Granting, Passed, Kept, Guide
<1>4. GuideOK'
  <2>1. Begun' <=> Begun
    BY DEF Begun
  <2>2. CASE Begun
    BY <1>3, <2>1, <2>2, GuideKept DEF GroupsOK
  <2>3. CASE ~Begun
    BY <2>1, <2>3 DEF GroupsOK, GuideOK
  <2> QED
    BY <2>2, <2>3
<1>5. WorkersOK'
  BY WorkersKept DEF GroupsOK, Works, Granting
<1> QED
  BY <1>1, <1>2, <1>4, <1>5 DEF GroupsOK

(* Lemma: a launch that starts has claimed nothing; the first one has seen *)
(* all the groups, as there are none.                                      *)
LEMMA GroupsBegin ==
  ASSUME TypeInv, GroupsOK, NEW p \in Proc, Begin(p)
  PROVE  GroupsOK'
<1>0. /\ pc[p] = "idle" /\ todo[p] = <<>> /\ at[p] = 1 /\ action[p] = "none"
      /\ UNCHANGED <<groups, rules, at, todo>> /\ ProgramOK
      /\ \A q \in Proc : q # p => Kept(q)
  BY OthersKept DEF Begin, TypeInv, PlaceOK, cloud
<1>1. PICK a \in CommandLine :
        /\ action' = [action EXCEPT ![p] = a]
        /\ pc' = [pc EXCEPT ![p] = IF a \in Launch THEN "lookup" ELSE "find"]
  BY DEF Begin
<1>2. /\ action'[p] = a /\ pc'[p] = IF a \in Launch THEN "lookup" ELSE "find"
      /\ ~Granting(p) /\ a # "none"
  BY <1>0, <1>1, Ec2Assumption DEF ProgramOK, Granting
<1>3. RulesOK'
  BY <1>0 DEF GroupsOK, RulesOK
<1>4. \A role \in Role : pc'[p] # "authorize" /\ ~(Order[role] < at'[p])
  BY <1>0, <1>2, OrderFacts
<1>5. ClaimsOK'
  <2>1. (Claims(p))'
    <3>1. todo'[p] = <<>> /\ DOMAIN todo'[p] = {} /\ pc'[p] # "authorize"
      BY <1>0, <1>4 DEF Role
    <3>2. \A role \in Role : ~(Passed(p, role))'
      BY <1>4 DEF Passed
    <3> QED
      BY <3>1, <3>2 DEF Claims, InOrder
  <2> QED
    BY <1>0, <2>1, ClaimsOthers DEF GroupsOK
<1>6. GuideOK'
  <2>1. CASE Begun
    <3>1. Begun'
      <4>1. PICK q \in Proc : action[q] \in Launch
        BY <2>1 DEF Begun
      <4>2. q # p
        BY <1>0, <4>1 DEF Launch
      <4> QED
        BY <1>0, <4>1, <4>2 DEF Begun, Kept
    <3>2. \A q \in Proc : Guide(q) => (Guide(q))'
      BY <1>0, <1>2 DEF Granting, Passed, Kept, Guide
    <3> QED
      BY <1>0, <2>1, <3>1, <3>2, GuideKept DEF GroupsOK
  <2>2. CASE ~Begun
    <3>1. groups' = {}
      BY <1>0, <2>2 DEF GroupsOK, GuideOK
    <3>2. Begun' => a \in Launch
      BY <1>0, <1>2, <2>2 DEF Begun, Kept
    <3>3. a \in Launch => (Granting(p))'
      BY <1>2 DEF Granting
    <3> QED
      BY <3>1, <3>2, <3>3 DEF GuideOK
  <2> QED
    BY <2>1, <2>2
<1>7. WorkersOK'
  <2>1. \A q \in Proc : pc[q] = "authorize" => Kept(q)
    BY <1>0
  <2> QED
    BY <1>0, <2>1, WorkersKept DEF GroupsOK, Works
<1> QED
  BY <1>3, <1>5, <1>6, <1>7 DEF GroupsOK

(* Lemma: a launch that gets a group, and may have created it as the next  *)
(* one, has its claims, and those of others stay.                          *)
LEMMA GroupsGot ==
  ASSUME TypeInv, GroupsOK, NEW p \in Proc, LookUpGroup(p) \/ CreateGroup(p),
         NEW isNew \in BOOLEAN, GotGroup(p, isNew),
         isNew <=> RoleOrder[at[p]] \notin groups,
         groups' = groups \cup {RoleOrder[at[p]]}, UNCHANGED <<rules, action>>
  PROVE  GroupsOK'
<1> DEFINE r == RoleOrder[at[p]]
<1>0. /\ pc[p] \in {"lookup", "create"} /\ at[p] \in 1..3 /\ r \in Role /\ Order[r] = at[p]
      /\ ProgramOK /\ action[p] \in Launch
      /\ \A role \in Role : Order[role] \in 1..3
      /\ \A s \in Role : Order[s] = at[p] => s = r
  <2>1. pc[p] \in {"lookup", "create"} /\ ProgramOK
    BY DEF TypeInv, LookUpGroup, CreateGroup
  <2>2. at[p] \in 1..3 /\ action[p] \in Launch
    BY <2>1 DEF TypeInv, ProgramOK, PlaceOK
  <2> QED
    BY <2>1, <2>2, OrderFacts
<1>1. \A q \in Proc : q # p => Kept(q)
  BY <1>0, OthersKept DEF Step
<1>2. Granting(p) /\ Claims(p) /\ \A role \in Role : Passed(p, role) <=> Order[role] < at[p]
  BY <1>0 DEF Granting, GroupsOK, ClaimsOK, Passed
<1>3. /\ (Granting(p))' => (Claims(p))'
      /\ \A role \in Role : (Granting(p))' /\ (Passed(p, role) \/ role = r) => (Passed(p, role))'
      /\ (isNew \/ todo[p] # <<>>) => (Granting(p))'
  BY <1>0, <1>2, ClaimsGotGroup
<1>4. \A role \in Role : Order[role] < at[p] => role \in groups
  BY <1>2 DEF Claims
<1>5. RulesOK'
  <2>1. \A r1, r2 \in Role : (r2 \in groups' /\ Order[r1] < Order[r2]) => r1 \in groups'
    BY <1>0, <1>4 DEF GroupsOK, RulesOK
  <2>2. \A role \in Role : /\ \E m \in 0..NumRules[role] : rules'[role] = 1..m
                           /\ rules'[role] # {} => role \in groups'
    BY <1>0 DEF GroupsOK, RulesOK
  <2> QED
    BY <2>1, <2>2 DEF RulesOK
<1>6. ClaimsOK'
  BY <1>1, <1>3, ClaimsOthers DEF GroupsOK
<1>7. GuideOK'
  <2>1. Begun /\ Begun'
    BY <1>0 DEF Begun
  <2>2. groups \subseteq Role /\ groups' \subseteq Role
    BY <1>0 DEF TypeInv, CloudOK
  <2>3. CASE isNew
    <3>1. ASSUME NEW role \in groups PROVE Order[role] < at[p]
      <4>1. r \notin groups /\ role \in Role
        BY <2>2, <2>3
      <4>2. at[p] < Order[role] => r \in groups
        BY <1>0, <4>1 DEF GroupsOK, RulesOK
      <4> QED
        BY <1>0, <4>1, <4>2
    <3>2. (Granting(p))' /\ \A role \in groups' : (Passed(p, role))'
      BY <1>2, <1>3, <2>2, <2>3, <3>1
    <3> QED
      BY <2>1, <3>2 DEF GuideOK
  <2>4. CASE ~isNew
    <3>1. r \in groups /\ groups' = groups
      BY <2>4
    <3>2. rules["master"] = {} => \A q \in Proc : Guide(q) => (Guide(q))'
      <4> SUFFICES ASSUME rules["master"] = {}, NEW q \in Proc, Guide(q) PROVE (Guide(q))'
        OBVIOUS
      <4>1. CASE q # p
        BY <1>1, <3>1, <4>1 DEF Granting, Passed, Kept, Guide
      <4>2. CASE q = p
        <5>1. Passed(p, r)
          BY <3>1, <4>2 DEF Guide
        <5>2. FALSE
          BY <1>0, <1>2, <5>1
        <5> QED
          BY <5>2
      <4> QED
        BY <4>1, <4>2
    <3> QED
      BY <2>1, <3>1, <3>2, GuideKept DEF GroupsOK
  <2> QED
    BY <2>3, <2>4
<1>8. WorkersOK'
  <2>1. \A q \in Proc : pc[q] = "authorize" => Kept(q)
    BY <1>0, <1>1
  <2> QED
    BY <2>1, WorkersKept DEF GroupsOK, Works
<1> QED
  BY <1>5, <1>6, <1>7, <1>8 DEF GroupsOK

(* Lemma: a launch that does not find a group, or that loses the race for  *)
(* it, disturbs nothing: the one that fails has not seen the group.        *)
LEMMA GroupsMissed ==
  ASSUME TypeInv, GroupsOK, NEW p \in Proc,
         \/ LookUpGroup(p) /\ RoleOrder[at[p]] \notin groups
         \/ CreateGroup(p) /\ RoleOrder[at[p]] \in groups
  PROVE  GroupsOK'
<1> DEFINE r == RoleOrder[at[p]]
<1>1. /\ pc[p] \in {"lookup", "create"} /\ UNCHANGED <<groups, rules, action, at, todo>>
      /\ \/ r \notin groups /\ pc' = [pc EXCEPT ![p] = "create"]
         \/ r \in groups /\ pc' = [pc EXCEPT ![p] = "failed"]
  BY DEF LookUpGroup, CreateGroup, cloud
<1>2. ProgramOK /\ pc \in [Proc -> Place] /\ at[p] \in 1..3 /\ action[p] \in Launch
  BY <1>1 DEF TypeInv, ProgramOK, PlaceOK
<1>3. /\ \/ r \notin groups /\ pc'[p] = "create"
         \/ r \in groups /\ pc'[p] = "failed"
      /\ r \in Role /\ Order[r] = at[p]
  BY <1>1, <1>2, OrderFacts
<1>4. \A q \in Proc : q # p => Kept(q)
  BY <1>2, OthersKept DEF Step
<1>5. Granting(p) /\ Claims(p)
  BY <1>1 DEF Granting, GroupsOK, ClaimsOK
<1>6. \A role : (Passed(p, role))' => Passed(p, role)
  BY <1>1, <1>3 DEF Passed
<1>7. RulesOK'
  BY <1>1 DEF GroupsOK, RulesOK
<1>8. (Claims(p))'
  <2>1. /\ InOrder(todo[p])
        /\ \A i \in DOMAIN todo[p] : Order[todo[p][i][1]] < at[p]
        /\ todo[p] # <<>> => todo[p][1][2] = 1
        /\ \A role \in Role : Passed(p, role) =>
             role \in groups
             /\ (rules[role] = {} => \E i \in DOMAIN todo[p] : todo[p][i] = <<role, 1>>)
    BY <1>1, <1>5 DEF Claims
  <2>2. (InOrder(todo[p]))'
    BY <1>1, <2>1 DEF InOrder
  <2>3. pc'[p] # "authorize"
    BY <1>3
  <2> QED
    BY <1>1, <1>6, <2>1, <2>2, <2>3 DEF Claims
<1>9. ClaimsOK'
  BY <1>1, <1>4, <1>8, ClaimsOthers DEF GroupsOK
<1>10. GuideOK'
  <2>1. Begun /\ Begun'
    BY <1>1, <1>2 DEF Begun
  <2>2. ASSUME NEW q \in Proc, Guide(q) PROVE (Guide(q))'
    <3>1. CASE q # p
      BY <1>1, <1>4, <2>2, <3>1 DEF Granting, Passed, Kept, Guide
    <3>2. CASE q = p /\ r \notin groups
      <4>1. pc'[p] = "create" /\ (Granting(p))'
        BY <1>3, <3>2 DEF Granting
      <4>2. \A role : Passed(p, role) => (Passed(p, role))'
        BY <1>1, <4>1 DEF Passed
      <4> QED
        BY <1>1, <2>2, <3>2, <4>1, <4>2 DEF Guide
    <3>3. CASE q = p /\ r \in groups
      <4>1. Passed(p, r)
        BY <2>2, <3>3 DEF Guide
      <4>2. ~(at[p] < at[p])
        BY <1>2
      <4> QED
        BY <1>1, <1>3, <4>1, <4>2 DEF Passed
    <3> QED
      BY <3>1, <3>2, <3>3
  <2> QED
    BY <1>1, <2>1, <2>2, GuideKept DEF GroupsOK
<1>11. WorkersOK'
  <2>1. \A q \in Proc : pc[q] = "authorize" => Kept(q)
    BY <1>1, <1>4
  <2> QED
    BY <1>1, <2>1, WorkersKept DEF GroupsOK, Works
<1> QED
  BY <1>7, <1>9, <1>10, <1>11 DEF GroupsOK

(* Lemma: a launch at its authorize calls has seen all groups; the next    *)
(* call is for a rule whose predecessors are there, and for the first      *)
(* group if that has none.                                                 *)
LEMMA AuthorizeFacts ==
  ASSUME TypeInv, GroupsOK, NEW p \in Proc, pc[p] = "authorize"
  PROVE  LET calls == todo[p]
             r == calls[1][1]
             k == calls[1][2]
         IN  /\ calls \in Seq(Rule) /\ calls # <<>> /\ InOrder(calls) /\ Head(calls) = calls[1]
             /\ r \in Role /\ k \in 1..NumRules[r] /\ 1..(k - 1) \subseteq rules[r]
             /\ NumRules[r] \in Nat \ {0}
             /\ \A role \in Role :
                  /\ role \in groups
                  /\ rules[role] = {} => \E i \in DOMAIN calls : calls[i] = <<role, 1>>
             /\ rules["master"] = {} => r = "master"
             /\ k \notin rules[r] => rules[r] = 1..(k - 1)
<1> DEFINE calls == todo[p]
           r == calls[1][1]
           k == calls[1][2]
<1>1. calls \in Seq(Rule) /\ calls # <<>>
  BY DEF TypeInv, PlaceOK, DataOK
<1>2. Head(calls) = calls[1] /\ 1 \in DOMAIN calls
  BY <1>1, TailFacts
<1>3. r \in Role /\ k \in Nat /\ NumRules[r] \in Nat \ {0} /\ Order[r] \in 1..3
  BY <1>1, <1>2, RuleFacts
<1>4. Claims(p) /\ \A role : Passed(p, role)
  BY DEF Granting, GroupsOK, ClaimsOK, Passed
<1>5. /\ InOrder(calls) /\ 1..(k - 1) \subseteq rules[r]
      /\ \A role \in Role :
           role \in groups
           /\ (rules[role] = {} => \E i \in DOMAIN calls : calls[i] = <<role, 1>>)
  BY <1>4 DEF Claims
<1> HIDE DEF calls
<1>6. k \in 1..NumRules[r] /\ \A i \in DOMAIN calls : Order[r] <= Order[calls[i][1]]
  BY <1>1, <1>5, InOrderTail
<1>7. rules["master"] = {} => r = "master"
  <2> SUFFICES ASSUME rules["master"] = {} PROVE r = "master"
    OBVIOUS
  <2>1. PICK i \in DOMAIN calls : calls[i] = <<"master", 1>>
    BY <1>5 DEF Role
  <2>2. calls[i][1] = "master" /\ Order[r] <= Order[calls[i][1]]
    BY <1>6, <2>1
  <2>3. Order[r] <= 1
    BY <2>2, OrderFacts
  <2> QED
    BY <1>3, <2>3, OrderFacts DEF Role
<1>8. k \notin rules[r] => rules[r] = 1..(k - 1)
  <2> SUFFICES ASSUME k \notin rules[r] PROVE rules[r] = 1..(k - 1)
    OBVIOUS
  <2>1. PICK m \in 0..NumRules[r] : rules[r] = 1..m
    BY <1>3 DEF GroupsOK, RulesOK
  <2> HIDE DEF r, k
  <2>2. m \in Nat /\ k >= 1
    BY <1>3, <1>6
  <2>3. ~(k <= m)
    BY <1>3, <2>1, <2>2
  <2>4. k > 1 => k - 1 <= m
    BY <1>3, <1>5, <2>1, <2>2
  <2>5. m = k - 1
    BY <1>3, <2>2, <2>3, <2>4
  <2> QED
    BY <2>1, <2>5
<1> QED
  BY <1>1, <1>2, <1>3, <1>5, <1>6, <1>7, <1>8 DEF calls

(* Lemma: a launch whose call EC2 refuses, as the rule is there, was not   *)
(* the one that gives the group its next rule.                             *)
LEMMA GroupsRefused ==
  ASSUME TypeInv, GroupsOK, NEW p \in Proc, Authorize(p),
         todo[p][1][2] \in rules[todo[p][1][1]]
  PROVE  GroupsOK'
<1> DEFINE calls == todo[p]
           r == calls[1][1]
           k == calls[1][2]
<1>1. pc[p] = "authorize"
  BY DEF Authorize
<1>2. /\ Head(calls) = calls[1] /\ r \in Role /\ k \in 1..NumRules[r] /\ NumRules[r] \in Nat
      /\ rules["master"] = {} => r = "master"
  BY <1>1, AuthorizeFacts
<1>3. UNCHANGED <<groups, rules, action, at, todo>> /\ pc' = [pc EXCEPT ![p] = "failed"]
  BY <1>2 DEF Authorize
<1>4. ProgramOK /\ pc'[p] = "failed" /\ action[p] \in Launch
  BY <1>1, <1>3 DEF TypeInv, ProgramOK, PlaceOK
<1>5. \A q \in Proc : q # p => Kept(q)
  BY <1>4, OthersKept DEF Step
<1>6. RulesOK'
  BY <1>3 DEF GroupsOK, RulesOK
<1>7. ClaimsOK'
  <2>1. ~(Granting(p))'
    BY <1>4 DEF Granting
  <2> QED
    BY <1>3, <1>5, <2>1, ClaimsOthers DEF GroupsOK
<1>8. GuideOK'
  <2>1. Begun /\ Begun'
    BY <1>3, <1>4 DEF Begun
  <2>2. rules["master"] # {}
    BY <1>2
  <2> QED
    BY <1>3, <2>1, <2>2, GuideKept DEF GroupsOK
<1>9. WorkersOK'
  <2>1. \A role : ~Works(p, role)
    <3> SUFFICES ASSUME rules[r] = 1..(k - 1) PROVE FALSE
      BY DEF Works
    <3> QED
      BY <1>2
  <2> QED
    BY <1>3, <1>5, <2>1, WorkersKept DEF GroupsOK
<1> QED
  BY <1>6, <1>7, <1>8, <1>9 DEF GroupsOK

(* A launch gives group r its rule k.                                      *)
Gives(p, r, k) ==
  /\ pc[p] = "authorize" /\ r = todo[p][1][1] /\ k = todo[p][1][2] /\ k \notin rules[r]
  /\ groups' = groups /\ rules' = [rules EXCEPT ![r] = @ \cup {k}]
  /\ todo'[p] = Tail(todo[p])
  /\ pc'[p] = IF Len(todo[p]) > 1 THEN "authorize" ELSE "check"

(* Lemma: what a launch has left to claim after its call was accepted.     *)
LEMMA ClaimsAuthorized ==
  ASSUME TypeInv, GroupsOK, NEW p \in Proc, NEW r, NEW k, Gives(p, r, k)
  PROVE  /\ rules'[r] = 1..k /\ \A role \in Role \ {r} : rules'[role] = rules[role]
         /\ (Granting(p))' => (Claims(p))'
         /\ k < NumRules[r] => (Works(p, r))'
         /\ \A role \in Role :
              (k = NumRules[r] /\ Order[role] = Order[r] + 1 /\ rules[role] = {}) =>
                (Works(p, role))'
<1> DEFINE calls == todo[p]
           t == Tail(calls)
<1>0. /\ pc[p] = "authorize" /\ r = todo[p][1][1] /\ k = todo[p][1][2] /\ k \notin rules[r]
      /\ UNCHANGED groups /\ rules' = [rules EXCEPT ![r] = @ \cup {k}]
      /\ todo'[p] = Tail(todo[p])
      /\ pc'[p] = IF Len(todo[p]) > 1 THEN "authorize" ELSE "check"
  BY DEF Gives
<1>1. /\ calls \in Seq(Rule) /\ calls # <<>> /\ InOrder(calls)
      /\ r \in Role /\ k \in 1..NumRules[r] /\ NumRules[r] \in Nat \ {0}
      /\ \A role \in Role :
           /\ role \in groups
           /\ rules[role] = {} => \E i \in DOMAIN calls : calls[i] = <<role, 1>>
      /\ rules[r] = 1..(k - 1)
  BY <1>0, AuthorizeFacts
<1>2. rules \in [Role -> SUBSET Nat]
  BY DEF TypeInv, CloudOK
<1>3. rules'[r] = 1..k /\ \A role \in Role \ {r} : rules'[role] = rules[role]
  <2>1. rules'[r] = rules[r] \cup {k} /\ \A role \in Role \ {r} : rules'[role] = rules[role]
    BY <1>0, <1>1, <1>2
  <2>2. 1..(k - 1) \cup {k} = 1..k
    BY <1>1
  <2> QED
    BY <1>1, <2>1, <2>2
<1>4. /\ InOrder(t)
      /\ k < NumRules[r] => Len(calls) > 1 /\ calls[2] = <<r, k + 1>>
      /\ (k = NumRules[r] /\ Len(calls) > 1) =>
           calls[2][2] = 1 /\ Order[r] < Order[calls[2][1]]
      /\ \A i \in DOMAIN calls : i > 2 => Order[calls[2][1]] <= Order[calls[i][1]]
  BY <1>0, <1>1, InOrderTail
<1>5. /\ Len(calls) \in Nat \ {0} /\ DOMAIN calls = 1..Len(calls)
      /\ DOMAIN t = 1..(Len(calls) - 1) /\ \A i \in 1..(Len(calls) - 1) : t[i] = calls[i + 1]
      /\ t \in Seq(Rule)
  BY <1>1, TailFacts
<1> HIDE DEF t, calls
<1>6. Len(calls) > 1 => 1 \in DOMAIN t /\ t[1] = calls[2] /\ 2 \in DOMAIN calls
  BY <1>5
<1>7. /\ todo'[p] = t /\ (pc'[p] = "authorize" <=> Len(calls) > 1)
      /\ (Granting(p))' => pc'[p] = "authorize"
  BY <1>0 DEF t, calls, Granting
<1>8. k < NumRules[r] => (Works(p, r))'
  <2> SUFFICES ASSUME k < NumRules[r] PROVE (Works(p, r))'
    OBVIOUS
  <2>1. pc'[p] = "authorize" /\ todo'[p][1] = <<r, k + 1>>
    BY <1>4, <1>6, <1>7
  <2>2. (k + 1) - 1 = k
    BY <1>1
  <2> QED
    BY <1>3, <2>1, <2>2 DEF Works
<1>9. ASSUME NEW role \in Role, rules[role] = {}, role # r
      PROVE  \E i \in DOMAIN t : t[i] = <<role, 1>>
  <2>1. PICK i \in DOMAIN calls : calls[i] = <<role, 1>>
    BY <1>1, <1>9
  <2>2. calls[1][1] # role
    BY <1>0, <1>9 DEF calls
  <2>3. i # 1
    BY <2>1, <2>2
  <2>4. i - 1 \in DOMAIN t /\ t[i - 1] = calls[i]
    BY <1>5, <2>3
  <2> QED
    BY <2>1, <2>4
<1>10. ASSUME NEW role \in Role, k = NumRules[r], Order[role] = Order[r] + 1, rules[role] = {}
       PROVE  (Works(p, role))'
  <2>1. role # r /\ Order[role] \in 1..3 /\ Order[r] \in 1..3
    BY <1>1, <1>10, OrderFacts
  <2>2. PICK i \in DOMAIN t : t[i] = <<role, 1>>
    BY <1>9, <1>10, <2>1
  <2>3. Len(calls) > 1 /\ i + 1 \in DOMAIN calls /\ calls[i + 1] = <<role, 1>> /\ i \in Nat \ {0}
    BY <1>5, <2>2
  <2>4. calls[2] \in Rule
    BY <1>1, <1>6, <2>3 
  <2>5. /\ calls[2][2] = 1 /\ Order[r] < Order[calls[2][1]] /\ calls[2][1] \in Role
        /\ Order[calls[2][1]] \in 1..3 /\ calls[2] = <<calls[2][1], calls[2][2]>>
    BY <1>1, <1>4, <1>6, <1>10, <2>3, RuleFacts
  <2>6. Order[calls[2][1]] <= Order[role]
    <3>1. CASE i = 1
      <4>1. calls[2] = <<role, 1>>
        BY <2>3, <3>1
      <4> QED
        BY <2>1, <4>1
    <3>2. CASE i # 1
      <4>1. i + 1 > 2
        BY <2>3, <3>2
      <4>2. Order[calls[2][1]] <= Order[calls[i + 1][1]]
        BY <1>4, <2>3, <4>1
      <4>3. calls[i + 1][1] = role
        BY <2>3
      <4> QED
        BY <4>2, <4>3
    <3> QED
      BY <3>1, <3>2
  <2>7. calls[2][1] = role
    <3>1. Order[calls[2][1]] = Order[role]
      BY <1>10, <2>1, <2>5, <2>6
    <3> QED
      BY <2>5, <3>1, OrderFacts
  <2>8. pc'[p] = "authorize" /\ todo'[p][1][1] = role /\ todo'[p][1][2] = 1
    BY <1>6, <1>7, <2>3, <2>5, <2>7
  <2>9. rules'[role] = 1..(1 - 1)
    BY <1>3, <1>10, <2>1
  <2> QED
    BY <2>8, <2>9 DEF Works
<1>11. ASSUME (Granting(p))' PROVE (Claims(p))'
  <2>1. pc'[p] = "authorize" /\ Len(calls) > 1
    BY <1>7, <1>11
  <2>2. calls[2][1] \in Role /\ calls[2][2] \in Nat
    BY <1>1, <1>6, <2>1, RuleFacts
  <2>3. 1..(calls[2][2] - 1) \subseteq rules'[calls[2][1]]
    <3>1. CASE k < NumRules[r]
      <4>1. calls[2] = <<r, k + 1>> /\ (k + 1) - 1 = k
        BY <1>1, <1>4, <3>1
      <4>2. calls[2][1] = r /\ calls[2][2] = k + 1
        BY <4>1
      <4>3. 1..(calls[2][2] - 1) = 1..k
        BY <4>1, <4>2
      <4> QED
        BY <1>3, <4>2, <4>3
    <3>2. CASE ~(k < NumRules[r])
      <4>1. calls[2][2] = 1
        BY <1>1, <1>4, <2>1, <3>2
      <4> QED
        BY <4>1
    <3> QED
      BY <3>1, <3>2
  <2>4. 1..(todo'[p][1][2] - 1) \subseteq rules'[todo'[p][1][1]]
    BY <1>6, <1>7, <2>1, <2>3
  <2>5. ASSUME NEW role \in Role
        PROVE  /\ role \in groups'
               /\ rules'[role] = {} => \E i \in DOMAIN todo'[p] : todo'[p][i] = <<role, 1>>
    <3>1. r = role => rules'[role] # {}
      <4>1. k \in 1..k
        BY <1>1
      <4> QED
        BY <1>3, <4>1
    <3> QED
      BY <1>0, <1>1, <1>3, <1>7, <1>9, <3>1
  <2>6. (InOrder(todo[p]))'
    BY <1>4, <1>7 DEF InOrder
  <2> QED
    BY <2>1, <2>4, <2>5, <2>6 DEF Claims
<1> QED
  BY <1>3, <1>8, <1>10, <1>11

(* Lemma: a launch that gives a group its next rule goes on to the rule    *)
(* after it, or to the first rule of the next group.                       *)
LEMMA GroupsAuthorized ==
  ASSUME TypeInv, GroupsOK, NEW p \in Proc, Authorize(p),
         todo[p][1][2] \notin rules[todo[p][1][1]]
  PROVE  GroupsOK'
<1>1. pc[p] = "authorize"
  BY DEF Authorize
<1>0. PICK r \in Role, k \in Nat : r = todo[p][1][1] /\ k = todo[p][1][2]
  BY <1>1, AuthorizeFacts
<1>2. /\ todo[p] \in Seq(Rule) /\ Head(todo[p]) = todo[p][1]
      /\ r \in Role /\ k \in 1..NumRules[r] /\ NumRules[r] \in Nat
      /\ \A role \in Role : role \in groups
      /\ rules["master"] = {} => r = "master"
      /\ rules[r] = 1..(k - 1)
  BY <1>0, <1>1, AuthorizeFacts
<1>3. /\ rules' = [rules EXCEPT ![r] = @ \cup {k}] /\ UNCHANGED <<groups, action, at>>
      /\ todo' = [todo EXCEPT ![p] = Tail(@)]
      /\ pc' = [pc EXCEPT ![p] = IF Len(todo[p]) > 1 THEN "authorize" ELSE "check"]
  BY <1>0, <1>2 DEF Authorize
<1>4. ProgramOK /\ action[p] \in Launch
  BY <1>1 DEF TypeInv, PlaceOK
<1>5. /\ todo'[p] = Tail(todo[p])
      /\ pc'[p] = IF Len(todo[p]) > 1 THEN "authorize" ELSE "check"
  BY <1>3, <1>4 DEF ProgramOK
<1>6. \A q \in Proc : q # p => Kept(q)
  BY <1>4, OthersKept DEF Step
<1>8. /\ rules'[r] = 1..k /\ \A role \in Role \ {r} : rules'[role] = rules[role]
      /\ (Granting(p))' => (Claims(p))'
      /\ k < NumRules[r] => (Works(p, r))'
      /\ \A role \in Role :
           (k = NumRules[r] /\ Order[role] = Order[r] + 1 /\ rules[role] = {}) =>
             (Works(p, role))'
  <2>1. k \notin rules[r]
    BY <1>0
  <2>2. Gives(p, r, k)
    BY <1>0, <1>1, <1>3, <1>5, <2>1 DEF Gives
  <2> QED
    BY <2>2, ClaimsAuthorized
<1>9. RulesOK'
  <2>1. ASSUME NEW role \in Role
        PROVE  /\ \E m \in 0..NumRules[role] : rules'[role] = 1..m
               /\ role \in groups'
    <3>1. CASE role = r
      <4>1. k \in 0..NumRules[role]
        BY <1>2, <3>1
      <4> QED
        BY <1>2, <1>3, <1>8, <3>1, <4>1
    <3>2. CASE role # r
      BY <1>2, <1>3, <1>8, <3>2 DEF GroupsOK, RulesOK
    <3> QED
      BY <3>1, <3>2
  <2> QED
    BY <2>1 DEF RulesOK
<1>10. \A role \in Role : rules[role] \subseteq rules'[role]
  <2>1. 1..(k - 1) \subseteq 1..k
    BY <1>2
  <2> QED
    BY <1>2, <1>8, <2>1
<1>11. ClaimsOK'
  BY <1>3, <1>6, <1>8, <1>10, ClaimsOthers DEF GroupsOK
<1>12. GuideOK'
  <2>1. Begun /\ Begun'
    BY <1>3, <1>4 DEF Begun
  <2>2. rules'["master"] # {}
    <3>1. k \in 1..k /\ "master" \in Role
      BY <1>2 DEF Role
    <3> QED
      BY <1>2, <1>8, <3>1
  <2> QED
    BY <2>1, <2>2 DEF GuideOK
<1>13. WorkersOK'
  <2> SUFFICES ASSUME NEW role \in Role, (Started(role))', ~(Full(role))'
               PROVE  \E q \in Proc : (Works(q, role))'
    BY DEF WorkersOK, Works
  <2>1. CASE role = r
    <3>1. k # NumRules[r]
      BY <1>8, <2>1 DEF Full
    <3>2. k < NumRules[r]
      BY <1>2, <3>1
    <3>3. (Works(p, r))'
      BY <1>8, <3>2
    <3> QED
      BY <2>1, <3>3 DEF Works
  <2>2. CASE role # r /\ Started(role)
    <3>1. ~Full(role)
      BY <1>8, <2>2 DEF Full
    <3>2. PICK q \in Proc : Works(q, role)
      BY <2>2, <3>1 DEF GroupsOK, WorkersOK, Works
    <3>3. q # p
      BY <1>0, <2>2, <3>2 DEF Works
    <3>4. Kept(q) /\ rules'[role] = rules[role]
      BY <1>6, <1>8, <2>2, <3>3
    <3> QED
      BY <3>2, <3>4 DEF Works, Kept
  <2>3. CASE role # r /\ ~Started(role)
    <3>1. rules[role] = {} /\ \A s \in Role : Order[role] = Order[s] + 1 => ~Full(s)
      BY <2>3 DEF Started
    <3>2. rules'[role] = {}
      BY <1>8, <2>3, <3>1
    <3>3. PICK s \in Role : Order[role] = Order[s] + 1 /\ (Full(s))'
      BY <3>2 DEF Started
    <3>4. s = r
      BY <1>8, <3>1, <3>3 DEF Full
    <3>5. rules'[r] = 1..NumRules[r]
      BY <3>3, <3>4 DEF Full
    <3>6. k = NumRules[r]
      <4>1. NumRules[r] \in 1..NumRules[r]
        BY <1>2
      <4>2. NumRules[r] \in 1..k
        BY <1>8, <3>5, <4>1
      <4> QED
        BY <1>2, <4>2
    <3> QED
      BY <1>8, <3>1, <3>3, <3>4, <3>6
  <2> QED
    BY <2>1, <2>2, <2>3
<1> QED
  BY <1>9, <1>11, <1>12, <1>13 DEF GroupsOK

(* Lemma: a step either keeps what is known of the groups or counts as a   *)
(* failure.                                                                *)
LEMMA GroupsInductive ==
  ASSUME TypeInv, GroupsInv, [Next]_vars
  PROVE  GroupsInv'
<1> SUFFICES ASSUME failures' = 0 PROVE GroupsOK'
  BY DEF GroupsInv, GroupsOK
<1>0. /\ failures \in Nat /\ ProgramOK /\ pc \in [Proc -> Place]
      /\ \A p \in Proc : pc[p] \in {"lookup", "create"} => at[p] \in 1..3
  BY DEF TypeInv, CloudOK, ProgramOK
<1>1. ASSUME failures = 0 PROVE GroupsOK
  BY <1>1 DEF GroupsInv, GroupsOK
<1>2. ASSUME NEW p \in Proc, Begin(p) PROVE GroupsOK'
  <2>1. failures = 0
    BY <1>2 DEF Begin
  <2> QED
    BY <1>1, <1>2, <2>1, GroupsBegin
<1>3. ASSUME NEW p \in Proc, Fail(p) PROVE FALSE
  BY <1>0, <1>3 DEF Fail
<1>4. ASSUME NEW p \in Proc, LookUpGroup(p) \/ CreateGroup(p) PROVE GroupsOK'
  <2>1. GroupsOK
    BY <1>1, <1>4 DEF LookUpGroup, CreateGroup, past
  <2>2. CASE LookUpGroup(p) /\ RoleOrder[at[p]] \in groups
    <3>1. /\ GotGroup(p, FALSE) /\ UNCHANGED <<rules, action>>
          /\ groups' = groups \cup {RoleOrder[at[p]]}
      BY <2>2 DEF LookUpGroup, cloud
    <3> QED
      BY <2>1, <2>2, <3>1, GroupsGot
  <2>3. CASE CreateGroup(p) /\ RoleOrder[at[p]] \notin groups
    <3>1. /\ GotGroup(p, TRUE) /\ UNCHANGED <<rules, action>>
          /\ groups' = groups \cup {RoleOrder[at[p]]}
      BY <2>3 DEF CreateGroup
    <3> QED
      BY <2>1, <2>3, <3>1, GroupsGot
  <2>4. CASE \/ LookUpGroup(p) /\ RoleOrder[at[p]] \notin groups
             \/ CreateGroup(p) /\ RoleOrder[at[p]] \in groups
    BY <2>1, <2>4, GroupsMissed
  <2> QED
    BY <1>4, <2>2, <2>3, <2>4
<1>5. ASSUME NEW p \in Proc, Authorize(p) PROVE GroupsOK'
  <2>1. GroupsOK
    BY <1>1, <1>5 DEF Authorize, past
  <2> QED
    BY <1>5, <2>1, GroupsRefused, GroupsAuthorized
<1>6. ASSUME NEW p \in Proc,
             \/ CheckRunning(p) \/ LaunchSlaves(p) \/ RequestSlaves(p) \/ GetGranted(p)
             \/ LaunchMasters(p) \/ LaunchZoo(p) \/ WaitForInstances(p) \/ DeployFiles(p)
             \/ SetUp(p) \/ FindExisting(p) \/ CallInstance(p)
      PROVE  GroupsOK'
  <2>1. failures = 0 /\ UNCHANGED <<groups, rules, action>>
    BY <1>6 DEF CheckRunning, LaunchSlaves, RequestSlaves, GetGranted, LaunchMasters,
                LaunchZoo, run, WaitForInstances, DeployFiles, SetUp, FindExisting,
                CallInstance, past, cloud
  <2>2. ~Granting(p) /\ ~(Granting(p))'
    <3>1. pc[p] \notin {"lookup", "create", "authorize"}
      BY <1>6 DEF CheckRunning, LaunchSlaves, RequestSlaves, GetGranted, LaunchMasters,
                  LaunchZoo, WaitForInstances, DeployFiles, SetUp, FindExisting, CallInstance
    <3>2. pc'[p] \notin {"lookup", "create", "authorize"}
      BY <1>0, <1>6 DEF CheckRunning, LaunchSlaves, RequestSlaves, GetGranted, LaunchMasters,
                  LaunchZoo, run, WaitForInstances, DeployFiles, SetUp, FindExisting,
                  CallInstance, AfterCalls
    <3> QED
      BY <3>1, <3>2 DEF Granting
  <2>3. \A q \in Proc : q # p => Kept(q)
    BY <1>0, <1>6, OthersKept DEF Step
  <2>4. \A q \in Proc : (Granting(q) => Kept(q)) /\ ((Granting(q))' => Granting(q))
    BY <2>2, <2>3 DEF Granting, Kept
  <2> QED
    BY <1>1, <2>1, <2>4, GroupsStill
<1>7. ASSUME NEW i \in DOMAIN inst, Die(i) PROVE FALSE
  BY <1>0, <1>7 DEF Die
<1>8. ASSUME \/ \E i \in DOMAIN inst : Settle(i)
             \/ \E r \in DOMAIN reqs : GrantSpot(r)
             \/ UNCHANGED vars
      PROVE  GroupsOK'
  <2>1. failures = 0 /\ UNCHANGED <<groups, rules, action>>
    BY <1>8 DEF Settle, Becomes, GrantSpot, vars, past
  <2>2. \A q \in Proc : Kept(q)
    BY <1>8, CloudKept
  <2>3. \A q \in Proc : (Granting(q))' => Granting(q)
    BY <2>2 DEF Granting, Kept
  <2> QED
    BY <1>1, <2>1, <2>2, <2>3, GroupsStill
<1> QED
  BY <1>2, <1>3, <1>4, <1>5, <1>6, <1>7, <1>8 DEF Next, Step

(* Lemma: at first there is no group, and no launch has begun. *)
LEMMA GroupsInit ==
  ASSUME Init
  PROVE  GroupsInv
<1>1. /\ groups = {} /\ rules = [r \in Role |-> {}] /\ \A p \in Proc : pc[p] = "idle"
      /\ \A p \in Proc : action[p] = "none"
  BY DEF Init
<1>2. \A role \in Role : rules[role] = {} /\ NumRules[role] \in Nat \ {0}
  BY <1>1, Ec2Assumption
<1>3. RulesOK
  <2>1. \A role \in Role : 0 \in 0..NumRules[role] /\ 1..0 = {}
    BY <1>2
  <2> QED
    BY <1>1, <1>2, <2>1 DEF RulesOK
<1>4. ClaimsOK
  BY <1>1 DEF ClaimsOK, Granting
<1>5. GuideOK
  BY <1>1 DEF GuideOK, Begun, Launch
<1>6. WorkersOK
  <2>1. \A role \in Role : 1 \in 1..NumRules[role]
    BY <1>2
  <2>2. \A role \in Role : ~Full(role)
    BY <1>2, <2>1 DEF Full
  <2>3. \A role \in Role : ~Started(role)
    BY <1>2, <2>2 DEF Started
  <2> QED
    BY <2>3 DEF WorkersOK
<1> QED
  BY <1>3, <1>4, <1>5, <1>6 DEF GroupsInv

(* Lemma: with nobody at it, each group has all its rules, one after the   *)
(* other.                                                                  *)
LEMMA GroupsParts ==
  ASSUME TypeInv, GroupsInv
  PROVE  GroupsSettle
<1> SUFFICES ASSUME failures = 0, {p \in Proc : action[p] \in Launch} # {},
                    \A p \in Proc : action[p] \in Launch =>
                      pc[p] \notin {"lookup", "create", "authorize"}
             PROVE  groups = Role /\ \A r \in Role : Full(r)
  BY DEF GroupsSettle, Full
<1>1. RulesOK /\ GuideOK /\ WorkersOK
  BY DEF GroupsInv
<1>2. \A p \in Proc : ~Granting(p)
  BY DEF TypeInv, PlaceOK, Granting
<1>3. rules["master"] # {}
  BY <1>1, <1>2 DEF GuideOK, Begun
<1>4. \A role \in Role : Started(role) => Full(role)
  BY <1>1, <1>2 DEF WorkersOK, Granting
<1>5. Full("master")
  BY <1>3, <1>4 DEF Started, Role
<1>6. Full("slaves")
  BY <1>4, <1>5, OrderFacts DEF Started, Role
<1>7. Full("zoo")
  BY <1>4, <1>6, OrderFacts DEF Started, Role
<1>8. \A role \in Role : Full(role)
  BY <1>5, <1>6, <1>7 DEF Role
<1>9. \A role \in Role : role \in groups
  <2>1. \A role \in Role : NumRules[role] \in Nat \ {0}
    BY Ec2Assumption
  <2>2. \A role \in Role : NumRules[role] \in 1..NumRules[role]
    BY <2>1
  <2> QED
    BY <1>1, <1>8, <2>2 DEF Full, RulesOK
<1> QED
  BY <1>8, <1>9 DEF TypeInv, CloudOK

(* Theorem: launches that race to create the groups and to give them their *)
(* rules leave none of them without one, however many take part; the order *)
(* of the groups and of the rules makes the first of them go on.           *)
THEOREM GroupsSettled == SafetySpec => []GroupsSettle
<1>1. Init => TypeInv /\ GroupsInv
  BY TypeInit, GroupsInit
<1>2. TypeInv /\ GroupsInv /\ [Next]_vars => (TypeInv /\ GroupsInv)'
  BY TypeInductive, GroupsInductive
<1>3. TypeInv /\ GroupsInv => GroupsSettle
  BY GroupsParts
<1> QED
  BY <1>1, <1>2, <1>3, PTL DEF SafetySpec
=============================================================================
