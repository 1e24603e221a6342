-------------------------- MODULE MesosSetup_proofs --------------------------
(***************************************************************************)
(* Proofs about `setup`, for any nodes, any number of runs and of passes   *)
(* over slow nodes, and any number of faults.                              *)
(***************************************************************************)
EXTENDS MesosSetup, SequenceTheorems, TLAPS

(* Lemma: the last phases of the script and their nodes. *)
LEMMA LastPhases ==
  /\ Len(Phases) = 18
  /\ Phases[15] = "stop slaves" /\ Phases[16] = "stop masters"
  /\ Phases[17] = "start masters" /\ Phases[18] = "start slaves"
  /\ \A j \in 1..14 :
       Phases[j] \notin {"stop slaves", "stop masters", "start masters", "start slaves"}
  BY DEF Phases

(* Lemma: the place of a phase by its name. *)
LEMMA PlaceOf ==
  ASSUME at \in 0..18
  PROVE  /\ Phase \in {"stop slaves", "stop masters"} => at \in {15, 16}
         /\ Phase \in {"start masters", "start slaves"} => at \in {17, 18}
<1>1. CASE at = 0
  BY <1>1 DEF Phase, Running
<1>2. CASE at \in 1..14
  <2>1. Phase = Phases[at]
    BY <1>2 DEF Phase, Running
  <2> QED
    BY <1>2, <2>1, LastPhases
<1>3. CASE at \in {15, 16}
  <2>0. Phase = Phases[at]
    BY <1>3 DEF Phase, Running
  <2>1. Phase \in {"stop slaves", "stop masters"}
    BY <1>3, <2>0, LastPhases
  <2> QED
    BY <1>3, <2>1
<1>4. CASE at \in {17, 18}
  <2>0. Phase = Phases[at]
    BY <1>4 DEF Phase, Running
  <2>1. Phase \in {"start masters", "start slaves"}
    BY <1>4, <2>0, LastPhases
  <2> QED
    BY <1>4, <2>1
<1>5. at = 0 \/ at \in 1..14 \/ at \in {15, 16} \/ at \in {17, 18}
  OBVIOUS
<1> QED
  BY <1>1, <1>2, <1>3, <1>4, <1>5

(* Lemma: jobs run on nodes of the cluster. *)
LEMMA TargetsAreNodes ==
  ASSUME NEW ph
  PROVE  Targets(ph) \subseteq Node
  BY DEF Targets, ZOO, Others, Node, MASTERS

(* Lemma: the nodes of the phases that start and stop daemons; the format  *)
(* of the persistent file system starts with no job under way.             *)
LEMMA LastTargets ==
  /\ Targets("stop slaves") = SLAVES /\ Targets("start slaves") = SLAVES
  /\ Targets("stop masters") = MASTERS /\ Targets("start masters") \subseteq MASTERS
  /\ Targets("format persistent") = {}
  BY DEF Targets, MASTERS

-----------------------------------------------------------------------------
(* Lemma: an upper bound may grow with the round. *)
LEMMA Monotone ==
  ASSUME NEW r \in Nat, NEW s \in Nat, r <= s
  PROVE  /\ 0..r \subseteq 0..s
         /\ [Node -> Seq(1..r)] \subseteq [Node -> Seq(1..s)]
<1>1. 1..r \subseteq 1..s
  OBVIOUS
<1>2. ASSUME NEW q \in Seq(1..r) PROVE q \in Seq(1..s)
  BY <1>1, SeqMonotonic
<1> QED
  BY <1>2

(* TypeOK in two parts, the control of the script and what it leaves on the *)
(* nodes, with what TypeOK does not say: confFor is a function, and a       *)
(* script that runs was started.                                            *)
ControlOK ==
  /\ at \in 0..18 /\ jobs \subseteq Node /\ TRIES \in 0..MaxTries
  /\ faults \in 0..MaxFaults
  /\ TODO \subseteq Others /\ NEW_TODO \subseteq Others \ TODO
  /\ answers \in [Node -> BOOLEAN] /\ answers[ACTIVE_MASTER]

NodesOK ==
  /\ round \in 0..MaxRounds /\ (Running => round > 0)
  /\ boot \in [Node -> Nat \ {0}]
  /\ has \in [Node -> [Item -> 0..round]]
  /\ confFor \in [Node -> Nat] /\ \A n \in Node : confFor[n] <= boot[ACTIVE_MASTER]
  /\ daemons \in [Node -> Seq(1..round)]
  /\ missed \subseteq MASTERS \cup SLAVES

NamespacesOK ==
  /\ name \in [FileSystem -> {HalfFormatted} \cup 0..round]
  /\ served \in [FileSystem -> 0..round]
  /\ data \in [FileSystem -> [SLAVES -> 0..round]]
  /\ joined \in [FileSystem -> [SLAVES -> [namespace : 0..round, boot : Nat]]]

TypeInv == ControlOK /\ NodesOK /\ NamespacesOK

(* Lemma: these parts are TypeOK. *)
LEMMA TypeParts == TypeInv => TypeOK
<1> SUFFICES ASSUME TypeInv PROVE TypeOK
  OBVIOUS
<1>1. ACTIVE_MASTER \in Node
  BY DEF Node, MASTERS
<1>2. \A n \in Node : confFor[n] \in 0..boot[ACTIVE_MASTER]
  BY <1>1 DEF TypeInv, NodesOK
<1> QED
  BY <1>2, LastPhases DEF TypeInv, ControlOK, NodesOK, NamespacesOK, TypeOK

(* Lemma: the phase that follows. *)
LEMMA EnterFacts ==
  ASSUME NEW i \in Nat, i > 0, Enter(i)
  PROVE  at' \in 0..18 /\ jobs' \subseteq Node
<1>1. Targets(Phases[i]) \subseteq Node
  BY TargetsAreNodes
<1>2. /\ at' = IF i <= 18 THEN i ELSE 0
      /\ jobs' = IF i <= 18 THEN Targets(Phases[i]) ELSE {}
  BY LastPhases DEF Enter
<1>3. at' \in 0..18
  BY <1>2
<1> QED
  BY <1>1, <1>2, <1>3

(* Lemma: every step keeps the control of the script well-formed. *)
LEMMA ControlInductive ==
  ASSUME ControlOK, [Next]_vars
  PROVE  ControlOK'
<1>1. /\ at \in Nat /\ faults \in Nat /\ TRIES \in Nat
      /\ MaxTries \in Nat /\ MaxTries > 0 /\ MaxFaults \in Nat
  BY SetupAssumption, SMTT(30) DEF ControlOK
<1>2. CASE UNCHANGED vars
  BY <1>2 DEF ControlOK, vars, script
<1>3. CASE Begin
  <2>1. at' \in 0..18 /\ jobs' \subseteq Node
    BY <1>3, TargetsAreNodes DEF Begin
  <2> QED
    BY <1>3, <2>1 DEF Begin, ControlOK
<1>4. CASE Wait
  <2>1. Enter(at + 1)
    BY <1>4 DEF Wait
  <2>2. at' \in 0..18 /\ jobs' \subseteq Node
    <3>1. at + 1 \in Nat /\ at + 1 > 0
      BY <1>1
    <3> QED
      BY <2>1, <3>1, EnterFacts
  <2>3. TRIES' \in 0..MaxTries
    <3>1. TRIES' = 0
      BY <1>4 DEF Wait
    <3> QED
      BY <1>1, <3>1
  <2> QED
    BY <1>4, <2>2, <2>3 DEF Wait, ControlOK
<1>5. CASE EndPass
  <2>1. at' \in 0..18 /\ jobs' \subseteq Node
    <3>1. Enter(at + 1) \/ UNCHANGED <<at, jobs>>
      BY <1>5 DEF EndPass
    <3> QED
      BY <1>1, <3>1, EnterFacts DEF ControlOK
  <2>2. TRIES' \in 0..MaxTries
    BY <1>1, <1>5 DEF EndPass, ControlOK
  <2> QED
    BY <1>5, <2>1, <2>2 DEF EndPass, ControlOK
<1>6. ASSUME NEW n \in Node, Try(n) PROVE ControlOK'
  BY <1>6 DEF Try, ControlOK
<1>7. ASSUME NEW n \in Node, Job(n) PROVE ControlOK'
  BY <1>7 DEF Job, ControlOK
<1>8. CASE FormatEphemeral \/ FormatPersistent
  <2>1. Enter(at + 1)
    BY <1>8 DEF FormatEphemeral, FormatPersistent
  <2>2. at' \in 0..18 /\ jobs' \subseteq Node
    <3>1. at + 1 \in Nat /\ at + 1 > 0
      BY <1>1
    <3> QED
      BY <2>1, <3>1, EnterFacts
  <2> QED
    BY <1>8, <2>2 DEF FormatEphemeral, FormatPersistent, ControlOK
<1>9. CASE BeginFormat
  BY <1>9 DEF BeginFormat, ControlOK, Node, MASTERS
<1>10. CASE Interrupt
  <2>1. faults' \in 0..MaxFaults
    BY <1>1, <1>10 DEF Interrupt
  <2> QED
    BY <1>1, <1>10, <2>1 DEF Interrupt, ControlOK
<1>11. ASSUME NEW n \in Node, Answer(n) PROVE ControlOK'
  BY <1>11 DEF Answer, script, ControlOK
<1>12. ASSUME NEW n \in Node, Hang(n) PROVE ControlOK'
  <2>1. faults' \in 0..MaxFaults
    BY <1>1, <1>12 DEF Hang
  <2> QED
    BY <1>12, <2>1 DEF Hang, script, ControlOK
<1>13. ASSUME NEW set \in {MASTERS, Node}, Reboot(set) PROVE ControlOK'
  <2>1. /\ answers' = [n \in Node |-> answers[n] /\ (n \in set => n = ACTIVE_MASTER)]
        /\ ACTIVE_MASTER \in Node
    BY <1>13 DEF Reboot, Node, MASTERS
  <2>2. answers' \in [Node -> BOOLEAN] /\ answers'[ACTIVE_MASTER]
    BY <2>1 DEF ControlOK
  <2> QED
    BY <1>13, <2>2 DEF Reboot, script, ControlOK
<1> QED
  BY <1>2, <1>3, <1>4, <1>5, <1>6, <1>7, <1>8, <1>9, <1>10, <1>11, <1>12, <1>13
     DEF Next, Step, Restart

-----------------------------------------------------------------------------
(* Lemma: every step keeps what is on the nodes well-formed. *)
LEMMA NodesInductive ==
  ASSUME ControlOK, NodesOK, [Next]_vars
  PROVE  NodesOK'
<1>0. /\ round \in Nat /\ MaxRounds \in Nat /\ ACTIVE_MASTER \in Node
      /\ boot[ACTIVE_MASTER] \in Nat \ {0}
  BY SetupAssumption DEF NodesOK, Node, MASTERS
<1>1. ASSUME UNCHANGED <<round, boot, has, confFor, daemons, missed>>, Running' => Running
      PROVE  NodesOK'
  BY <1>1 DEF NodesOK
<1>2. CASE UNCHANGED vars
  BY <1>2 DEF NodesOK, vars, disks, processes, script, Running
<1>3. CASE Begin
  <2>1. /\ round' = round + 1 /\ round' \in 0..MaxRounds /\ round' > 0 /\ round <= round'
        /\ round' \in Nat
    BY <1>0, <1>3 DEF Begin
  <2>2. /\ 0..round \subseteq 0..round'
        /\ [Node -> Seq(1..round)] \subseteq [Node -> Seq(1..round')]
    BY <1>0, <2>1, Monotone
  <2>3. daemons' \in [Node -> Seq(1..round')]
    BY <1>3, <2>2 DEF NodesOK, Begin, processes
  <2>4. has' \in [Node -> [Item -> 0..round']]
    <3> DEFINE new == [j \in Item |-> IF j \in {"files", "prepare", "conf", "spark"}
                                      THEN round' ELSE has[ACTIVE_MASTER][j]]
    <3>1. has \in [Node -> [Item -> 0..round']]
      BY <2>2 DEF NodesOK
    <3>2. new \in [Item -> 0..round']
      BY <1>0, <2>1, <3>1
    <3>3. has' = [has EXCEPT ![ACTIVE_MASTER] = new]
      BY <1>3 DEF Begin
    <3> QED
      BY <3>1, <3>2, <3>3
  <2>5. confFor' = [confFor EXCEPT ![ACTIVE_MASTER] = boot[ACTIVE_MASTER]]
    BY <1>3 DEF Begin
  <2>6. confFor' \in [Node -> Nat] /\ \A n \in Node : confFor'[n] <= boot[ACTIVE_MASTER]
    BY <1>0, <2>5 DEF NodesOK
  <2>7. UNCHANGED <<boot, missed>>
    BY <1>3 DEF Begin
  <2> QED
    BY <2>1, <2>3, <2>4, <2>6, <2>7 DEF NodesOK
<1>4. CASE Wait \/ EndPass \/ FormatEphemeral \/ FormatPersistent \/ BeginFormat \/ Interrupt
  BY <1>1, <1>4 DEF Wait, EndPass, FormatEphemeral, FormatPersistent, BeginFormat, Interrupt,
     disks, processes, Running, Phase
<1>5. ASSUME NEW n \in Node, Try(n) \/ Answer(n) \/ Hang(n) PROVE NodesOK'
  BY <1>1, <1>5 DEF Try, Answer, Hang, disks, processes, script, Running
<1>6. ASSUME NEW n \in Node, Job(n) PROVE NodesOK'
  <2>1. UNCHANGED <<round, boot, at>>
    BY <1>6 DEF Job
  <2>2. missed' \subseteq MASTERS \cup SLAVES
    <3>1. missed' = missed \/ missed' = missed \cup ({n} \ ZOOS)
      BY <1>6 DEF Job
    <3> QED
      BY <3>1 DEF NodesOK, Node
  <2>3. /\ has' \in [Node -> [Item -> 0..round]]
        /\ confFor' \in [Node -> Nat] /\ \A q \in Node : confFor'[q] <= boot[ACTIVE_MASTER]
    <3>1. CASE UNCHANGED <<has, confFor>>
      BY <3>1 DEF NodesOK
    <3>2. CASE Delivers(n)
      <4>1. /\ has' = [has EXCEPT ![n][ItemOf(Phase)] = round]
            /\ confFor' = [confFor EXCEPT ![n] = IF Phase = "conf" THEN boot[ACTIVE_MASTER]
                                                 ELSE @]
        BY <3>2 DEF Delivers
      <4>2. has' \in [Node -> [Item -> 0..round]]
        <5>1. has[n] \in [Item -> 0..round] /\ round \in 0..round
          BY <1>0 DEF NodesOK
        <5>2. [has[n] EXCEPT ![ItemOf(Phase)] = round] \in [Item -> 0..round]
          BY <5>1
        <5> QED
          BY <4>1, <5>2 DEF NodesOK
      <4>3. confFor' \in [Node -> Nat] /\ \A q \in Node : confFor'[q] <= boot[ACTIVE_MASTER]
        BY <1>0, <4>1 DEF NodesOK
      <4> QED
        BY <4>2, <4>3
    <3> QED
      BY <1>6, <3>1, <3>2 DEF Job, CannotPrepare, StartsDataNode, StopsDaemon, StartsDaemon,
         StartsZooKeeper, disks
  <2>4. daemons' \in [Node -> Seq(1..round)]
    <3>1. CASE UNCHANGED daemons
      BY <3>1 DEF NodesOK
    <3>2. CASE StopsDaemon(n)
      <4>1. daemons' = [daemons EXCEPT ![n] = <<>>]
        BY <3>2 DEF StopsDaemon
      <4>2. <<>> \in Seq(1..round)
        BY EmptySeq
      <4> QED
        BY <4>1, <4>2 DEF NodesOK
    <3>3. CASE StartsDaemon(n)
      <4>1. Running
        BY <3>3 DEF StartsDaemon, Phase
      <4>2. round \in 1..round
        BY <1>0, <4>1 DEF NodesOK
      <4>3. daemons[n] \in Seq(1..round)
        BY DEF NodesOK
      <4>4. Append(daemons[n], round) \in Seq(1..round)
        BY <4>2, <4>3
      <4>5. daemons' = [daemons EXCEPT ![n] = Append(daemons[n], round)] \/ daemons' = daemons
        BY <3>3 DEF StartsDaemon
      <4> QED
        BY <4>4, <4>5 DEF NodesOK
    <3> QED
      BY <1>6, <3>1, <3>2, <3>3 DEF Job, Delivers, CannotPrepare, StartsDataNode,
         StartsZooKeeper, processes
  <2>5. Running' => round' > 0
    BY <2>1 DEF NodesOK, Running
  <2> QED
    BY <2>1, <2>2, <2>3, <2>4, <2>5 DEF NodesOK
<1>7. ASSUME NEW set \in {MASTERS, Node}, Reboot(set) PROVE NodesOK'
  <2>1. /\ UNCHANGED <<round, at, confFor>> /\ missed' = missed \ set
        /\ boot' = [n \in Node |-> IF n \in set THEN boot[n] + 1 ELSE boot[n]]
        /\ has' = [n \in Node |-> [j \in Item |->
             IF n \in set /\ j \in {"ids", "prepare", "nfs"} THEN 0 ELSE has[n][j]]]
        /\ daemons' = [n \in Node |-> IF n \in set THEN <<>> ELSE daemons[n]]
    BY <1>7 DEF Reboot, script
  <2>2. boot' \in [Node -> Nat \ {0}] /\ boot[ACTIVE_MASTER] <= boot'[ACTIVE_MASTER]
    BY <1>0, <2>1 DEF NodesOK
  <2>3. has' \in [Node -> [Item -> 0..round]]
    BY <1>0, <2>1 DEF NodesOK
  <2>4. daemons' \in [Node -> Seq(1..round)]
    BY <2>1, EmptySeq DEF NodesOK
  <2>5. \A n \in Node : confFor[n] <= boot'[ACTIVE_MASTER]
    <3> SUFFICES ASSUME NEW n \in Node PROVE confFor[n] <= boot'[ACTIVE_MASTER]
      OBVIOUS
    <3>1. confFor[n] \in Nat /\ confFor[n] <= boot[ACTIVE_MASTER]
          /\ boot'[ACTIVE_MASTER] \in Nat
      BY <1>0, <2>2 DEF NodesOK
    <3> QED
      BY <1>0, <2>2, <3>1
  <2>6. Running' => round' > 0
    BY <2>1 DEF NodesOK, Running
  <2> QED
    BY <2>1, <2>2, <2>3, <2>4, <2>5, <2>6 DEF NodesOK
<1> QED
  BY <1>2, <1>3, <1>4, <1>5, <1>6, <1>7 DEF Next, Step, Restart

(* Lemma: the script formats and serves namespaces of its rounds only. *)
LEMMA NamespacesInductive ==
  ASSUME ControlOK, NodesOK, NamespacesOK, [Next]_vars
  PROVE  NamespacesOK'
<1>0. /\ round \in Nat /\ MaxRounds \in Nat /\ ACTIVE_MASTER \in Node
      /\ None = 0 /\ None \in 0..round /\ HalfFormatted = -1
  BY SetupAssumption DEF NodesOK, Node, MASTERS, None, HalfFormatted
<1>1. CASE UNCHANGED <<round, name, served, data, joined>>
  BY <1>1 DEF NamespacesOK
<1>2. CASE Begin
  <2>1. round' = round + 1 /\ round <= round' /\ round' \in Nat
    BY <1>0, <1>2 DEF Begin
  <2>2. 0..round \subseteq 0..round'
    BY <1>0, <2>1
  <2>3. UNCHANGED <<name, served, data, joined>>
    BY <1>2 DEF Begin, processes
  <2> QED
    BY <2>2, <2>3 DEF NamespacesOK
<1>3. ASSUME NEW f \in FileSystem, NEW v \in {HalfFormatted} \cup 0..round,
             name' = [name EXCEPT ![f] = v] \/ name' = name,
             served' = NameNode(f, name') \/ served' = served,
             UNCHANGED <<round, data, joined>>
      PROVE  NamespacesOK'
  <2>1. name' \in [FileSystem -> {HalfFormatted} \cup 0..round]
    BY <1>3 DEF NamespacesOK
  <2>2. name'[f] > 0 => name'[f] \in 0..round
    <3>1. name'[f] \in {HalfFormatted} \cup 0..round
      BY <2>1
    <3> QED
      BY <1>0, <3>1
  <2>3. served' \in [FileSystem -> 0..round]
    BY <1>3, <2>2 DEF NamespacesOK, NameNode
  <2> QED
    BY <1>3, <2>1, <2>3 DEF NamespacesOK
<1>4. CASE FormatEphemeral
  <2>1. Phase = "format ephemeral"
    BY <1>4 DEF FormatEphemeral
  <2>2. Fresh \in {HalfFormatted} \cup 0..round /\ "ephemeral" \in FileSystem
    BY <1>0 DEF Fresh, FileSystem
  <2> QED
    BY <1>3, <1>4, <2>2 DEF FormatEphemeral
<1>5. CASE BeginFormat
  <2>1. HalfFormatted \in {HalfFormatted} \cup 0..round /\ "persistent" \in FileSystem
    BY DEF FileSystem
  <2> QED
    BY <1>3, <1>5, <2>1 DEF BeginFormat, processes
<1>6. CASE FormatPersistent
  <2>1. Fresh \in {HalfFormatted} \cup 0..round /\ "persistent" \in FileSystem
    BY <1>0 DEF Fresh, FileSystem
  <2> QED
    BY <1>3, <1>6, <2>1 DEF FormatPersistent
<1>7. ASSUME NEW n \in Node, NEW f \in FileSystem, StartsDataNode(n, f),
             UNCHANGED round
      PROVE  NamespacesOK'
  <2>1. served[f] \in 0..round /\ confFor[n] \in Nat
    BY DEF NamespacesOK, NodesOK
  <2>2. data' = [data EXCEPT ![f][n] = served[f]] \/ data' = data
    BY <1>7 DEF StartsDataNode
  <2>3. data' \in [FileSystem -> [SLAVES -> 0..round]]
    <3>1. [data[f] EXCEPT ![n] = served[f]] \in [SLAVES -> 0..round]
      BY <2>1 DEF NamespacesOK
    <3> QED
      BY <2>2, <3>1 DEF NamespacesOK
  <2>4. PICK e \in [namespace : 0..round, boot : Nat] :
          joined' = [joined EXCEPT ![f][n] = e] \/ joined' = joined
    <3>1. /\ [namespace |-> served[f], boot |-> confFor[n]] \in [namespace : 0..round, boot : Nat]
          /\ [namespace |-> None, boot |-> confFor[n]] \in [namespace : 0..round, boot : Nat]
      BY <1>0, <2>1
    <3> QED
      BY <1>7, <3>1 DEF StartsDataNode
  <2>5. joined' \in [FileSystem -> [SLAVES -> [namespace : 0..round, boot : Nat]]]
    <3>1. [joined[f] EXCEPT ![n] = e] \in [SLAVES -> [namespace : 0..round, boot : Nat]]
      BY DEF NamespacesOK
    <3> QED
      BY <2>4, <3>1 DEF NamespacesOK
  <2> QED
    BY <1>7, <2>3, <2>5 DEF StartsDataNode, NamespacesOK
<1>9. ASSUME NEW set \in {MASTERS, Node}, Reboot(set) PROVE NamespacesOK'
  <2>1. /\ name' = [name EXCEPT !["ephemeral"] = IF ACTIVE_MASTER \in set THEN None ELSE @]
        /\ served' = IF ACTIVE_MASTER \in set THEN [f \in FileSystem |-> None] ELSE served
        /\ data' = [data EXCEPT !["ephemeral"] =
             [s \in SLAVES |-> IF s \in set THEN None ELSE data["ephemeral"][s]]]
        /\ joined' = [f \in FileSystem |-> [s \in SLAVES |->
             IF s \in set THEN NoNode ELSE joined[f][s]]]
        /\ UNCHANGED round /\ "ephemeral" \in FileSystem
    BY <1>9 DEF Reboot, FileSystem
  <2>2. name' \in [FileSystem -> {HalfFormatted} \cup 0..round]
    BY <1>0, <2>1 DEF NamespacesOK
  <2>3. served' \in [FileSystem -> 0..round]
    BY <1>0, <2>1 DEF NamespacesOK
  <2>4. data' \in [FileSystem -> [SLAVES -> 0..round]]
    <3>1. [s \in SLAVES |-> IF s \in set THEN None ELSE data["ephemeral"][s]]
            \in [SLAVES -> 0..round]
      BY <1>0, <2>1 DEF NamespacesOK
    <3> QED
      BY <2>1, <3>1 DEF NamespacesOK
  <2>5. joined' \in [FileSystem -> [SLAVES -> [namespace : 0..round, boot : Nat]]]
    <3>1. NoNode \in [namespace : 0..round, boot : Nat]
      BY <1>0 DEF NoNode
    <3> QED
      BY <2>1, <3>1 DEF NamespacesOK
  <2> QED
    BY <2>1, <2>2, <2>3, <2>4, <2>5 DEF NamespacesOK
<1>8. ASSUME NEW n \in Node, Job(n) PROVE NamespacesOK'
  BY <1>1, <1>7, <1>8 DEF Job, Delivers, CannotPrepare, StopsDaemon, StartsDaemon,
     StartsZooKeeper, disks, processes
<1>10. CASE UNCHANGED vars \/ Wait \/ EndPass \/ Interrupt
            \/ \E n \in Node : Try(n) \/ Answer(n) \/ Hang(n)
  BY <1>1, <1>10 DEF vars, Wait, EndPass, Try, Interrupt, Answer, Hang, disks, processes
<1> QED
  BY <1>2, <1>4, <1>5, <1>6, <1>8, <1>9, <1>10 DEF Next, Step, Restart

(* Lemma: the types hold before the script has run. *)
LEMMA TypeInitial == Init => TypeInv
<1> SUFFICES ASSUME Init PROVE TypeInv
  OBVIOUS
<1>1. /\ MaxRounds \in Nat /\ MaxTries \in Nat /\ MaxFaults \in Nat /\ ACTIVE_MASTER \in Node
      /\ None = 0 /\ HalfFormatted = -1
  BY SetupAssumption DEF Node, MASTERS, None, HalfFormatted
<1>2. ControlOK
  <2>1. 0 \in 0..MaxTries /\ 0 \in 0..MaxFaults /\ 0 \in 0..18
    BY <1>1
  <2> QED
    BY <1>1, <2>1 DEF Init, ControlOK
<1>3. NodesOK
  <2>1. daemons \in [Node -> Seq(1..round)]
    BY EmptySeq DEF Init
  <2> QED
    BY <1>1, <2>1 DEF Init, NodesOK, Running
<1>4. NamespacesOK
  <2>1. NoNode \in [namespace : 0..round, boot : Nat]
    BY <1>1 DEF Init, NoNode
  <2> QED
    BY <1>1, <2>1 DEF Init, NamespacesOK
<1> QED
  BY <1>2, <1>3, <1>4 DEF TypeInv

(* Lemma: the inductive form of the type invariant. *)
LEMMA TypeInvAlways == SafetySpec => []TypeInv
<1>1. TypeInv /\ [Next]_vars => TypeInv'
  BY ControlInductive, NodesInductive, NamespacesInductive DEF TypeInv
<1> QED
  BY <1>1, TypeInitial, PTL DEF SafetySpec

(* Type correctness: the list of nodes to try again is apart from those of  *)
(* this pass, what a node has was given in a round that was begun, and no   *)
(* namespace is from a later round.                                         *)
THEOREM SetupTypeCorrect == SafetySpec => []TypeOK
  BY TypeInvAlways, TypeParts, PTL

-----------------------------------------------------------------------------
(* The stop phases clear a node's daemons and the start phases find them    *)
(* cleared, unless the node has failed a job: the phases 15 to 18 go        *)
(* through slaves, masters, masters, slaves.                                *)
Cleared ==
  /\ \A n \in MASTERS \ missed :
       (at = 16 /\ n \notin jobs) \/ (at = 17 /\ n \in jobs) => daemons[n] = <<>>
  /\ \A s \in SLAVES \ missed :
       (at = 15 /\ s \notin jobs) \/ at \in {16, 17} \/ (at = 18 /\ s \in jobs) =>
         daemons[s] = <<>>
LastJobs ==
  /\ at \in {15, 18} => jobs \subseteq SLAVES
  /\ at \in {16, 17} => jobs \subseteq MASTERS
OneDaemon == NoStrayDaemon /\ Cleared /\ LastJobs

(* Lemma: the phase that follows another than the last. *)
LEMMA NextPhase ==
  ASSUME NEW j \in 1..18, Enter(j)
  PROVE  at' = j /\ jobs' = Targets(Phases[j])
<1>1. j <= Len(Phases)
  <2>1. Len(Phases) = 18
    BY LastPhases, Zenon
  <2>2. j <= 18
    OBVIOUS
  <2> QED
    BY <2>1, <2>2, Zenon
<1> QED
  BY <1>1, Zenon DEF Enter

(* Lemma: the next phase finds what the one before has left. *)
LEMMA EnterClears ==
  ASSUME TypeInv, OneDaemon, Running, Enter(at + 1), at \in {15, 16, 17, 18} => jobs = {},
         UNCHANGED <<daemons, missed>>
  PROVE  OneDaemon'
<1>1. at \in 1..18
  BY DEF TypeInv, ControlOK, Running
<1>2. /\ at' = IF at + 1 <= 18 THEN at + 1 ELSE 0
      /\ jobs' = IF at + 1 <= 18 THEN Targets(Phases[at + 1]) ELSE {}
  BY LastPhases DEF Enter
<1>3. NoStrayDaemon'
  BY DEF OneDaemon, NoStrayDaemon
<1>4. CASE at < 14 \/ at = 18
  <2>1. at' \notin {15, 16, 17, 18}
    BY <1>1, <1>2, <1>4
  <2> QED
    BY <1>3, <2>1 DEF OneDaemon, Cleared, LastJobs
<1>5. CASE at = 14
  <2>1. at' = 15 /\ jobs' = SLAVES
    <3>1. at + 1 = 15
      BY <1>5
    <3>2. Enter(15) /\ 15 \in 1..18
      BY <3>1
    <3>3. at' = 15 /\ jobs' = Targets(Phases[15])
      BY <3>2, NextPhase
    <3> QED
      BY <3>3, LastPhases, LastTargets, Zenon
  <2> QED
    BY <1>3, <2>1 DEF OneDaemon, Cleared, LastJobs
<1>6. CASE at = 15
  <2>1. at' = 16 /\ jobs' = MASTERS
    <3>1. at + 1 = 16
      BY <1>6
    <3>2. Enter(16) /\ 16 \in 1..18
      BY <3>1
    <3>3. at' = 16 /\ jobs' = Targets(Phases[16])
      BY <3>2, NextPhase
    <3> QED
      BY <3>3, LastPhases, LastTargets, Zenon
  <2> QED
    BY <1>3, <1>6, <2>1 DEF OneDaemon, Cleared, LastJobs
<1>7. CASE at = 16
  <2>1. at' = 17 /\ jobs' \subseteq MASTERS
    <3>1. at + 1 = 17
      BY <1>7
    <3>2. Enter(17) /\ 17 \in 1..18
      BY <3>1
    <3>3. at' = 17 /\ jobs' = Targets(Phases[17])
      BY <3>2, NextPhase
    <3> QED
      BY <3>3, LastPhases, LastTargets, Zenon
  <2> QED
    BY <1>3, <1>7, <2>1 DEF OneDaemon, Cleared, LastJobs
<1>8. CASE at = 17
  <2>1. at' = 18 /\ jobs' = SLAVES
    <3>1. at + 1 = 18
      BY <1>8
    <3>2. Enter(18) /\ 18 \in 1..18
      BY <3>1
    <3>3. at' = 18 /\ jobs' = Targets(Phases[18])
      BY <3>2, NextPhase
    <3> QED
      BY <3>3, LastPhases, LastTargets, Zenon
  <2> QED
    BY <1>3, <1>8, <2>1 DEF OneDaemon, Cleared, LastJobs
<1> QED
  BY <1>1, <1>4, <1>5, <1>6, <1>7, <1>8

(* Lemma: every step keeps OneDaemon. *)
LEMMA OneDaemonInductive ==
  ASSUME TypeInv, OneDaemon, [Next]_vars
  PROVE  OneDaemon'
<1>1. CASE UNCHANGED <<at, jobs, daemons, missed>>
  BY <1>1 DEF OneDaemon, NoStrayDaemon, Cleared, LastJobs
<1>2. CASE UNCHANGED vars \/ \E n \in Node : Try(n) \/ Answer(n) \/ Hang(n)
  BY <1>1, <1>2 DEF vars, Try, Answer, Hang, script, processes
<1>3. CASE at' \notin {15, 16, 17, 18} /\ UNCHANGED <<daemons, missed>>
  BY <1>3 DEF OneDaemon, NoStrayDaemon, Cleared, LastJobs
<1>4. CASE Begin
  BY <1>3, <1>4 DEF Begin, processes
<1>5. CASE Interrupt
  BY <1>3, <1>5 DEF Interrupt, processes
<1>6. ASSUME Running, Phase \in {"try", "format ephemeral", "format persistent"}
      PROVE  at \notin {15, 16, 17, 18}
  BY <1>6, LastPhases DEF Phase
<1>7. CASE Wait
  BY <1>7, EnterClears DEF Wait, processes
<1>8. ASSUME Running, at \notin {15, 16, 17, 18}, Enter(at + 1), UNCHANGED <<daemons, missed>>
      PROVE  OneDaemon'
  BY <1>8, EnterClears
<1>9. CASE EndPass
  <2>1. Running /\ at \notin {15, 16, 17, 18} /\ UNCHANGED <<daemons, missed>>
    BY <1>6, <1>9 DEF EndPass, Phase, processes
  <2>2. Enter(at + 1) \/ UNCHANGED <<at, jobs>>
    BY <1>9 DEF EndPass
  <2> QED
    BY <1>1, <1>8, <2>1, <2>2
<1>10. CASE FormatEphemeral \/ FormatPersistent
  <2>1. Running /\ at \notin {15, 16, 17, 18} /\ UNCHANGED <<daemons, missed>>
    BY <1>6, <1>10 DEF FormatEphemeral, FormatPersistent, Phase
  <2>2. Enter(at + 1)
    BY <1>10 DEF FormatEphemeral, FormatPersistent
  <2> QED
    BY <1>8, <2>1, <2>2
<1>11. CASE BeginFormat
  <2>1. at' = at /\ at \notin {15, 16, 17, 18} /\ UNCHANGED <<daemons, missed>>
    BY <1>6, <1>11 DEF BeginFormat, Phase, processes
  <2> QED
    BY <1>3, <2>1
<1>12. ASSUME NEW n \in Node, Job(n) PROVE OneDaemon'
  <2>0. n \in jobs /\ jobs' = jobs \ {n} /\ at' = at
    BY <1>12 DEF Job
  <2>1. LastJobs'
    BY <2>0 DEF OneDaemon, LastJobs
  <2>2. CASE UNCHANGED daemons /\ missed' = missed \cup ({n} \ ZOOS)
    <3>1. NoStrayDaemon'
      BY <2>2 DEF OneDaemon, NoStrayDaemon
    <3>2. ASSUME NEW q \in (MASTERS \cup SLAVES) \ missed' PROVE q \notin missed /\ q # n
      BY <2>2, <3>2, SetupAssumption
    <3>3. Cleared'
      BY <2>0, <2>2, <3>2 DEF OneDaemon, Cleared
    <3> QED
      BY <2>1, <3>1, <3>3 DEF OneDaemon
  <2>3. CASE UNCHANGED <<daemons, missed>> /\ at \notin {15, 16, 17, 18}
    BY <1>3, <2>0, <2>3
  <2>4. CASE StopsDaemon(n) /\ UNCHANGED missed
    <3>1. daemons' = [daemons EXCEPT ![n] = <<>>]
      BY <2>4 DEF StopsDaemon
    <3>2. daemons'[n] = <<>> /\ \A q \in Node : q # n => daemons'[q] = daemons[q]
      BY <3>1 DEF TypeInv, NodesOK
    <3>3. NoStrayDaemon'
      BY <2>4, <3>2, EmptySeq DEF OneDaemon, NoStrayDaemon
    <3>4. at \in {15, 16}
      BY <2>4, PlaceOf DEF StopsDaemon, TypeInv, ControlOK
    <3>5. Cleared'
      BY <2>0, <2>4, <3>2, <3>4 DEF OneDaemon, Cleared, Node
    <3> QED
      BY <2>1, <3>3, <3>5 DEF OneDaemon
  <2>5. CASE StartsDaemon(n) /\ UNCHANGED missed
    <3>1. at \in {17, 18}
      BY <2>5, PlaceOf DEF StartsDaemon, TypeInv, ControlOK
    <3>2. /\ daemons' = [daemons EXCEPT ![n] = Append(@, round)] \/ daemons' = daemons
          /\ daemons \in [Node -> Seq(1..round)]
      BY <2>5 DEF StartsDaemon, TypeInv, NodesOK
    <3>3. \A q \in Node : q # n => daemons'[q] = daemons[q]
      BY <3>2
    <3>4. n \notin missed => Len(daemons'[n]) <= 1
      <4>1. CASE n \in missed
        BY <4>1
      <4>2. CASE n \notin missed
        <5>1. daemons[n] = <<>>
          BY <2>0, <3>1, <4>2 DEF OneDaemon, Cleared, LastJobs
        <5>2. daemons[n] \in Seq(1..round) /\ Len(daemons[n]) = 0
          BY <3>2, <5>1, EmptySeq
        <5>3. daemons'[n] = daemons[n] \/ daemons'[n] = Append(daemons[n], round)
          BY <3>2
        <5>4. Len(Append(daemons[n], round)) = Len(daemons[n]) + 1
          BY <5>2
        <5> QED
          BY <5>2, <5>3, <5>4
      <4> QED
        BY <4>1, <4>2
    <3>5. NoStrayDaemon'
      BY <2>5, <3>3, <3>4 DEF OneDaemon, NoStrayDaemon
    <3>6. Cleared'
      <4>1. at = 17 => n \in MASTERS /\ n \notin SLAVES
        BY <2>0, SetupAssumption DEF OneDaemon, LastJobs
      <4> QED
        BY <2>0, <2>5, <3>1, <3>3, <4>1 DEF OneDaemon, Cleared, Node
    <3> QED
      BY <2>1, <3>5, <3>6 DEF OneDaemon
  <2>6. ASSUME Phase \in Item \cup {"mesos masters", "mesos slaves", "quorum",
                                   "start ephemeral", "start persistent"}
        PROVE  at \notin {15, 16, 17, 18}
    BY <2>6, LastPhases DEF Phase, Item
  <2>7. ASSUME \/ Delivers(n) \/ CannotPrepare(n) \/ StartsZooKeeper(n)
               \/ \E f \in FileSystem : StartsDataNode(n, f)
        PROVE  UNCHANGED daemons /\ at \notin {15, 16, 17, 18}
    <3>1. UNCHANGED daemons
      BY <2>7 DEF Delivers, CannotPrepare, StartsZooKeeper, StartsDataNode, processes
    <3>2. StartPhase["ephemeral"] = "start ephemeral"
          /\ StartPhase["persistent"] = "start persistent"
      BY DEF StartPhase
    <3>3. Phase \in Item \cup {"mesos masters", "mesos slaves", "quorum",
                               "start ephemeral", "start persistent"}
      BY <2>7, <3>2 DEF Delivers, CannotPrepare, StartsZooKeeper, StartsDataNode,
         FileSystem, Item
    <3> QED
      BY <2>6, <3>1, <3>3
  <2> QED
    BY <1>12, <2>2, <2>3, <2>4, <2>5, <2>7 DEF Job, processes
<1>13. ASSUME NEW set \in {MASTERS, Node}, Reboot(set) PROVE OneDaemon'
  <2>1. /\ at' = at /\ at \notin {15, 16, 17, 18} /\ missed' = missed \ set
        /\ daemons' = [n \in Node |-> IF n \in set THEN <<>> ELSE daemons[n]]
    BY <1>13 DEF Reboot, Running, TypeInv, ControlOK, script
  <2>2. NoStrayDaemon'
    <3> SUFFICES ASSUME NEW n \in Node, n \notin missed' PROVE Len(daemons'[n]) <= 1
      BY DEF NoStrayDaemon
    <3>1. CASE n \in set
      BY <2>1, <3>1, EmptySeq
    <3>2. CASE n \notin set
      BY <2>1, <3>2 DEF OneDaemon, NoStrayDaemon
    <3> QED
      BY <3>1, <3>2
  <2> QED
    BY <2>1, <2>2 DEF OneDaemon, Cleared, LastJobs
<1> QED
  BY <1>2, <1>4, <1>5, <1>7, <1>9, <1>10, <1>11, <1>12, <1>13 DEF Next, Step, Restart

(* However often setup is run again, after it ended or was cut short        *)
(* anywhere, and however often the cluster was stopped and started between, *)
(* a node that answered all its jobs has at most one Mesos daemon.          *)
THEOREM OneDaemonPerNode == SafetySpec => []NoStrayDaemon
<1>1. Init => OneDaemon
  <2> SUFFICES ASSUME Init PROVE OneDaemon
    OBVIOUS
  <2>1. \A n \in Node : Len(daemons[n]) = 0
    BY EmptySeq DEF Init
  <2>2. at = 0
    BY DEF Init
  <2> QED
    BY <2>1, <2>2 DEF OneDaemon, NoStrayDaemon, Cleared, LastJobs
<1>2. TypeInv /\ OneDaemon /\ [Next]_vars => OneDaemon'
  BY OneDaemonInductive
<1>3. OneDaemon => NoStrayDaemon
  BY DEF OneDaemon
<1> QED
  BY <1>1, <1>2, <1>3, TypeInvAlways, PTL DEF SafetySpec

-----------------------------------------------------------------------------
(* What the name node serves is what the name directory holds, and the name *)
(* directory is formatted only while it is new: then nothing is served and  *)
(* no slave has blocks.                                                     *)
FormatsOnce ==
  /\ served["persistent"] \in {None, name["persistent"]}
  /\ BlocksBelong
  /\ Phase = "format persistent" /\ jobs # {} => name["persistent"] = HalfFormatted

(* Lemma: the next phase finds no job of the format. *)
LEMMA EnterFormat ==
  ASSUME NEW i \in Nat, i > 0, Enter(i)
  PROVE  Phase' # "format persistent" \/ jobs' = {}
<1>1. CASE i <= 18
  <2>1. at' = i /\ jobs' = Targets(Phases[i])
    <3>1. i \in 1..18
      BY <1>1
    <3> QED
      BY <3>1, NextPhase
  <2>2. Phase' = Phases[i]
    BY <2>1 DEF Phase, Running
  <2>3. Phases[i] = "format persistent" => jobs' = {}
    BY <2>1, LastTargets
  <2> QED
    BY <2>2, <2>3
<1>2. CASE i > 18
  <2>1. ~(i <= Len(Phases))
    <3>1. Len(Phases) = 18
      BY LastPhases, Zenon
    <3> QED
      BY <1>2, <3>1
  <2>2. jobs' = {}
    BY <2>1, Zenon DEF Enter
  <2> QED
    BY <2>2
<1>3. i <= 18 \/ i > 18
  OBVIOUS
<1> QED
  BY <1>1, <1>2, <1>3, Zenon

(* Lemma: every step keeps FormatsOnce. *)
LEMMA FormatsOnceInductive ==
  ASSUME TypeInv, FormatsOnce, [Next]_vars
  PROVE  FormatsOnce'
<1> DEFINE P == "persistent"
<1>0. /\ P \in FileSystem /\ None = 0 /\ HalfFormatted = -1
      /\ name[P] \in {HalfFormatted} \cup 0..round /\ served[P] \in 0..round
      /\ \A s \in SLAVES : data[P][s] \in 0..round
  BY DEF TypeInv, NamespacesOK, FileSystem, None, HalfFormatted
<1>1. ASSUME name'[P] = name[P], served'[P] \in {None, name[P]},
             \A s \in SLAVES : data'[P][s] \in {None, name[P]},
             ~(Phase = "format persistent" /\ jobs # {})' \/ (at' = at /\ jobs' \subseteq jobs)
      PROVE  FormatsOnce'
  BY <1>1 DEF FormatsOnce, BlocksBelong, Phase, Running
<1>2. ASSUME UNCHANGED <<name, served, data>>,
             ~(Phase = "format persistent" /\ jobs # {})' \/ (at' = at /\ jobs' \subseteq jobs)
      PROVE  FormatsOnce'
  BY <1>1, <1>2 DEF FormatsOnce, BlocksBelong
<1>3. ASSUME Running, Enter(at + 1)
      PROVE  ~(Phase = "format persistent" /\ jobs # {})'
  <2>1. at + 1 \in Nat /\ at + 1 > 0
    BY DEF TypeInv, ControlOK
  <2> QED
    BY <1>3, <2>1, EnterFormat
<1>4. CASE UNCHANGED vars \/ \E n \in Node : Try(n) \/ Answer(n) \/ Hang(n)
  BY <1>2, <1>4 DEF vars, Try, Answer, Hang, disks, processes, script
<1>5. CASE Begin \/ Interrupt
  <2>1. ~(Phase = "format persistent" /\ jobs # {})'
    <3>1. CASE Begin
      <4>1. at' = 1 /\ jobs' = Targets(Phases[1])
        BY <3>1 DEF Begin
      <4>2. Phase' = Phases[1]
        BY <4>1 DEF Phase, Running
      <4>3. Phases[1] = "ids"
        BY DEF Phases
      <4> QED
        BY <4>2, <4>3
    <3>2. CASE Interrupt
      BY <3>2 DEF Interrupt
    <3> QED
      BY <1>5, <3>1, <3>2
  <2> QED
    BY <1>2, <1>5, <2>1 DEF Begin, Interrupt, disks, processes
<1>6. CASE Wait \/ EndPass
  <2>1. Running /\ UNCHANGED <<name, served, data>> /\ (Enter(at + 1) \/ UNCHANGED <<at, jobs>>)
    BY <1>6 DEF Wait, EndPass, Phase, disks, processes
  <2> QED
    BY <1>2, <1>3, <2>1
<1>7. CASE FormatEphemeral
  <2>1. Running /\ Enter(at + 1)
    BY <1>7 DEF FormatEphemeral, Phase
  <2>2. name'[P] = name[P]
    <3>1. name' = name \/ name' = [name EXCEPT !["ephemeral"] = Fresh]
      BY <1>7 DEF FormatEphemeral
    <3> QED
      BY <1>0, <3>1 DEF TypeInv, NamespacesOK
  <2>3. served'[P] = served[P]
    <3>1. served' = served \/ served' = [served EXCEPT !["ephemeral"] = name'["ephemeral"]]
      BY <1>7 DEF FormatEphemeral, NameNode
    <3> QED
      BY <1>0, <3>1 DEF TypeInv, NamespacesOK
  <2>4. data' = data
    BY <1>7 DEF FormatEphemeral
  <2> QED
    BY <1>1, <1>3, <2>1, <2>2, <2>3, <2>4 DEF FormatsOnce, BlocksBelong
<1>8. CASE BeginFormat
  <2>1. /\ name[P] = None /\ name' = [name EXCEPT ![P] = HalfFormatted]
        /\ UNCHANGED <<served, data>>
    BY <1>8 DEF BeginFormat, MustFormat, processes
  <2>2. name'[P] = HalfFormatted
    BY <1>0, <2>1 DEF TypeInv, NamespacesOK
  <2> QED
    BY <2>1, <2>2 DEF FormatsOnce, BlocksBelong
<1>9. CASE FormatPersistent
  <2>1. Running /\ Enter(at + 1) /\ UNCHANGED data
    BY <1>9 DEF FormatPersistent, Phase
  <2>2. ~(Phase = "format persistent" /\ jobs # {})'
    BY <1>3, <2>1
  <2>3. served'[P] \in {served[P], name'[P]}
    BY <1>0, <1>9 DEF FormatPersistent, NameNode, TypeInv, NamespacesOK
  <2>4. CASE UNCHANGED name
    BY <1>1, <2>1, <2>2, <2>3, <2>4 DEF FormatsOnce, BlocksBelong
  <2>5. CASE name # name'
    <3>1. name[P] = HalfFormatted
      BY <1>9, <2>5 DEF FormatPersistent, FormatsOnce
    <3>2. served[P] = None /\ \A s \in SLAVES : data[P][s] = None
      BY <1>0, <3>1 DEF FormatsOnce, BlocksBelong
    <3> QED
      BY <2>1, <2>2, <2>3, <3>2 DEF FormatsOnce, BlocksBelong
  <2> QED
    BY <2>4, <2>5
<1>10. ASSUME NEW n \in Node, Job(n) PROVE FormatsOnce'
  <2>1. at' = at /\ jobs' \subseteq jobs
    BY <1>10 DEF Job
  <2>2. UNCHANGED <<name, served>>
    BY <1>10 DEF Job, Delivers, CannotPrepare, StartsDataNode, StopsDaemon, StartsDaemon,
       StartsZooKeeper, disks, processes
  <2>3. \/ UNCHANGED data
        \/ \E f \in FileSystem : data' = [data EXCEPT ![f][n] = served[f]]
    BY <1>10 DEF Job, Delivers, CannotPrepare, StartsDataNode, StopsDaemon, StartsDaemon,
       StartsZooKeeper, disks, processes
  <2>4. ASSUME NEW s \in SLAVES PROVE data'[P][s] \in {data[P][s], served[P]}
    <3>1. data \in [FileSystem -> [SLAVES -> 0..round]]
      BY DEF TypeInv, NamespacesOK
    <3>2. CASE UNCHANGED data
      BY <3>2
    <3>3. ASSUME NEW f \in FileSystem, data' = [data EXCEPT ![f][n] = served[f]]
          PROVE  data'[P][s] \in {data[P][s], served[P]}
      <4>1. data'[P] = IF f = P THEN [data[P] EXCEPT ![n] = served[P]] ELSE data[P]
        BY <1>0, <3>1, <3>3
      <4>2. data[P] \in [SLAVES -> 0..round]
        BY <1>0, <3>1
      <4> QED
        BY <4>1, <4>2
    <3> QED
      BY <2>3, <3>2, <3>3
  <2>5. \A s \in SLAVES : data'[P][s] \in {None, name[P]}
    BY <2>4 DEF FormatsOnce, BlocksBelong
  <2> QED
    BY <1>1, <2>1, <2>2, <2>5 DEF FormatsOnce
<1>11. ASSUME NEW set \in {MASTERS, Node}, Reboot(set) PROVE FormatsOnce'
  <2>1. UNCHANGED <<at, jobs>> /\ name'[P] = name[P] /\ data'[P] = data[P]
    BY <1>0, <1>11 DEF Reboot, script, TypeInv, NamespacesOK
  <2>2. served'[P] \in {None, served[P]}
    BY <1>0, <1>11 DEF Reboot
  <2> QED
    BY <1>1, <2>1, <2>2 DEF FormatsOnce, BlocksBelong
<1> QED
  BY <1>4, <1>5, <1>6, <1>7, <1>8, <1>9, <1>10, <1>11 DEF Next, Step, Restart

(* After any number of set-ups, interruptions, stops and starts, what the   *)
(* slaves store of the persistent HDFS belongs to the master's name         *)
(* directory: setup formats it only when it does not exist.                 *)
THEOREM BlocksAlwaysBelong == SafetySpec => []BlocksBelong
<1>1. Init => FormatsOnce
  <2> SUFFICES ASSUME Init PROVE FormatsOnce
    OBVIOUS
  <2>1. "persistent" \in FileSystem
    BY DEF FileSystem
  <2> QED
    BY <2>1 DEF Init, FormatsOnce, BlocksBelong, None
<1>2. TypeInv /\ FormatsOnce /\ [Next]_vars => FormatsOnce'
  BY FormatsOnceInductive
<1>3. FormatsOnce => BlocksBelong
  BY DEF FormatsOnce
<1> QED
  BY <1>1, <1>2, <1>3, TypeInvAlways, PTL DEF SafetySpec

-----------------------------------------------------------------------------
(* The phase that gives a node an item; slaves get all of them.            *)
Giver == [files |-> 3, prepare |-> 4, conf |-> 5, spark |-> 6, mesos |-> 8, nfs |-> 9]
Gift == {"files", "prepare", "conf", "spark", "mesos", "nfs"}
Gets(n, i) == n \in SLAVES \/ (n \in OTHER_MASTERS /\ i \in {"files", "prepare"})
(* The script has gone beyond a node's job of a phase.                     *)
Beyond(n, j) == Running /\ (at > j \/ (at = j /\ n \notin jobs))

(* What a node that answered has by now.                                   *)
Given ==
  /\ \A n \in Node \ missed : \A i \in Gift :
       (Gets(n, i) /\ Beyond(n, Giver[i])) => has[n][i] = round
  /\ Running => has[ACTIVE_MASTER]["files"] = round /\ has[ACTIVE_MASTER]["prepare"] = round

(* Lemma: the script's phases in their order. *)
LEMMA AllPhases ==
  /\ Phases[1] = "ids" /\ Phases[2] = "try" /\ Phases[3] = "files" /\ Phases[4] = "prepare"
  /\ Phases[5] = "conf" /\ Phases[6] = "spark" /\ Phases[7] = "mesos masters"
  /\ Phases[8] = "mesos slaves" /\ Phases[9] = "nfs" /\ Phases[10] = "format ephemeral"
  /\ Phases[11] = "start ephemeral" /\ Phases[12] = "format persistent"
  /\ Phases[13] = "start persistent" /\ Phases[14] = "quorum"
  BY DEF Phases

(* Lemma: where the script is, by the number of the phase. *)
LEMMA PhaseIs ==
  ASSUME TypeInv, Running
  PROVE  at \in 1..18 /\ Phase = Phases[at]
  BY DEF TypeInv, ControlOK, Running, Phase

(* Lemma: the phases with jobs, the last ones, and the quiet ones, by their  *)
(* numbers.                                                                *)
LEMMA Places ==
  ASSUME NEW j \in 1..18
  PROVE  j \in {1, 3, 4, 5, 6, 7, 8, 9, 11, 13, 14} \cup {15, 16, 17, 18} \cup {2, 10, 12}
  OBVIOUS

(* Lemma: the phases without jobs, or with jobs of the master only. *)
LEMMA QuietPhases ==
  ASSUME TypeInv, Phase \in {"try", "format ephemeral", "format persistent"}
  PROVE  /\ Running /\ at \in {2, 10, 12}
         /\ Phase = "format ephemeral" => at = 10
         /\ Phase = "format persistent" => at = 12
<1>1. Running
  BY DEF Phase
<1>2. at \in 1..18 /\ Phase = Phases[at]
  BY <1>1, PhaseIs
<1>3. at \in {1, 3, 4, 5, 6, 7, 8, 9, 11, 13, 14} \cup {15, 16, 17, 18} \cup {2, 10, 12}
  BY <1>2, Places
<1>4. at \notin {1, 3, 4, 5, 6, 7, 8, 9, 11, 13, 14}
  BY <1>2, AllPhases
<1>5. at \notin {15, 16, 17, 18}
  BY <1>2, LastPhases
<1> QED
  BY <1>1, <1>2, <1>3, <1>4, <1>5, AllPhases

(* Lemma: a job is beyond its phase only by its own step.                  *)
LEMMA BeyondBefore ==
  ASSUME TypeInv, [Next]_vars, NEW j \in (1..18) \ {2, 10, 12}, NEW n \in Targets(Phases[j]),
         (Beyond(n, j))'
  PROVE  Running /\ (Beyond(n, j) \/ (at = j /\ Job(n)))
<1>0. at' > 0 /\ (at' > j \/ (at' = j /\ n \notin jobs')) /\ at \in 0..18 /\ at' \in Nat
  <2>1. ControlOK'
    BY ControlInductive DEF TypeInv
  <2> QED
    BY <2>1 DEF Beyond, Running, TypeInv, ControlOK
<1>1. CASE UNCHANGED <<at, jobs>>
  BY <1>1 DEF Beyond, Running
<1>2. CASE UNCHANGED vars \/ (\E q \in Node : Try(q) \/ Answer(q) \/ Hang(q)) \/ Restart
  BY <1>1, <1>2 DEF vars, script, Try, Answer, Hang, Restart, Reboot
<1>3. ASSUME Begin PROVE FALSE
  <2>1. at' = 1 /\ jobs' = Targets(Phases[1])
    BY <1>3 DEF Begin
  <2>2. j = 1
    BY <1>0, <2>1
  <2> QED
    BY <1>0, <2>1, <2>2
<1>4. ASSUME Interrupt PROVE FALSE
  BY <1>0, <1>4 DEF Interrupt
<1>5. CASE BeginFormat
  <2>1. Running /\ at' = at /\ at = 12
    BY <1>5, QuietPhases DEF BeginFormat
  <2> QED
    BY <1>0, <2>1 DEF Beyond
<1>6. CASE \E q \in Node : Job(q)
  <2>1. PICK q \in Node : Job(q)
    BY <1>6
  <2>2. at' = at /\ jobs' = jobs \ {q} /\ q \in jobs
    BY <2>1 DEF Job
  <2> QED
    BY <1>0, <2>1, <2>2 DEF Beyond, Running
<1>7. ASSUME Running, Enter(at + 1), at = j => jobs = {}
      PROVE  Beyond(n, j)
  <2>1. CASE at + 1 \in 1..18
    <3>1. at' = at + 1 /\ jobs' = Targets(Phases[at + 1])
      BY <1>7, <2>1, NextPhase
    <3>2. at + 1 # j
      BY <1>0, <3>1
    <3>3. at > j \/ at = j
      BY <1>0, <3>1, <3>2
    <3> QED
      BY <1>7, <3>3 DEF Beyond
  <2>2. CASE at + 1 \notin 1..18
    <3>1. ~(at + 1 <= 18) 
      BY <1>0, <2>2
    <3>2. at' = 0
      BY <1>7, <3>1, LastPhases DEF Enter
    <3> QED
      BY <1>0, <3>2
  <2> QED
    BY <2>1, <2>2
<1>8. CASE Wait
  BY <1>7, <1>8 DEF Wait
<1>9. CASE EndPass \/ FormatEphemeral \/ FormatPersistent
  <2>1. Phase \in {"try", "format ephemeral", "format persistent"}
    BY <1>9 DEF EndPass, FormatEphemeral, FormatPersistent
  <2>2. Running /\ at # j
    BY <2>1, QuietPhases
  <2>3. UNCHANGED <<at, jobs>> \/ Enter(at + 1)
    BY <1>9 DEF EndPass, FormatEphemeral, FormatPersistent
  <2>4. CASE UNCHANGED <<at, jobs>>
    BY <1>1, <2>2, <2>4
  <2>5. CASE Enter(at + 1)
    BY <1>7, <2>2, <2>5
  <2> QED
    BY <2>3, <2>4, <2>5
<1>10. Beyond(n, j) => Running
  BY DEF Beyond
<1> QED
  BY <1>2, <1>3, <1>4, <1>5, <1>6, <1>8, <1>9, <1>10 DEF Next, Step

-----------------------------------------------------------------------------
(* Lemma: what a step may change on the nodes while the script runs.       *)
LEMMA WhileRunning ==
  ASSUME TypeInv, [Next]_vars, Running
  PROVE  /\ UNCHANGED <<round, boot>> /\ missed \subseteq missed'
         /\ \A q \in Node : \A i \in Item : has'[q][i] \in {has[q][i], round}
         /\ \A q \in Node : confFor'[q] \in {confFor[q], boot[ACTIVE_MASTER]}
         /\ \A q \in Node : ~Job(q) => daemons'[q] = daemons[q]
<1>0. has \in [Node -> [Item -> 0..round]] /\ confFor \in [Node -> Nat] /\ DOMAIN daemons = Node
  BY DEF TypeInv, NodesOK
<1>1. ASSUME UNCHANGED <<round, boot, has, confFor, daemons>>, missed \subseteq missed'
      PROVE  /\ UNCHANGED <<round, boot>> /\ missed \subseteq missed'
             /\ \A q \in Node : \A i \in Item : has'[q][i] \in {has[q][i], round}
             /\ \A q \in Node : confFor'[q] \in {confFor[q], boot[ACTIVE_MASTER]}
             /\ \A q \in Node : ~Job(q) => daemons'[q] = daemons[q]
  BY <1>1
<1>2. CASE UNCHANGED vars \/ (\E q \in Node : Try(q) \/ Answer(q) \/ Hang(q)) \/ Wait \/ EndPass
           \/ FormatEphemeral \/ FormatPersistent \/ BeginFormat \/ Interrupt
  BY <1>1, <1>2 DEF vars, script, disks, processes, Try, Answer, Hang, Wait, EndPass,
     FormatEphemeral, FormatPersistent, BeginFormat, Interrupt
<1>3. ~Begin /\ ~Restart
  BY DEF Begin, Restart, Reboot
<1>4. ASSUME NEW n \in Node, Job(n)
      PROVE  /\ UNCHANGED <<round, boot>> /\ missed \subseteq missed'
             /\ \A q \in Node : \A i \in Item : has'[q][i] \in {has[q][i], round}
             /\ \A q \in Node : confFor'[q] \in {confFor[q], boot[ACTIVE_MASTER]}
             /\ \A q \in Node : ~Job(q) => daemons'[q] = daemons[q]
  <2>1. UNCHANGED <<round, boot>> /\ missed \subseteq missed'
    BY <1>4 DEF Job
  <2>2. \/ UNCHANGED <<has, confFor>>
        \/ /\ has' = [has EXCEPT ![n][ItemOf(Phase)] = round]
           /\ confFor' = [confFor EXCEPT ![n] = IF Phase = "conf" THEN boot[ACTIVE_MASTER]
                                                ELSE @]
    BY <1>4 DEF Job, Delivers, CannotPrepare, StartsDataNode, StopsDaemon, StartsDaemon,
       StartsZooKeeper, disks
  <2>3. \A q \in Node : \A i \in Item : has'[q][i] \in {has[q][i], round}
    BY <1>0, <2>2
  <2>4. \A q \in Node : confFor'[q] \in {confFor[q], boot[ACTIVE_MASTER]}
    BY <1>0, <2>2
  <2>5. \/ UNCHANGED daemons
        \/ daemons' = [daemons EXCEPT ![n] = <<>>]
        \/ daemons' = [daemons EXCEPT ![n] = Append(@, round)]
    BY <1>4 DEF Job, Delivers, CannotPrepare, StartsDataNode, StopsDaemon, StartsDaemon,
       StartsZooKeeper, processes
  <2>6. \A q \in Node : q # n => daemons'[q] = daemons[q]
    BY <1>0, <2>5
  <2> QED
    BY <1>4, <2>1, <2>3, <2>4, <2>6
<1> QED
  BY <1>2, <1>3, <1>4 DEF Next, Step

(* Lemma: what a step may change on the nodes while no script runs.        *)
LEMMA WhileStopped ==
  ASSUME TypeInv, [Next]_vars, ~Running, ~Begin, ~Restart
  PROVE  /\ UNCHANGED <<at, round, boot, has, confFor, daemons, name, served, data, joined>>
         /\ missed \subseteq missed'
<1>1. Phase = "none"
  BY DEF Phase
<1>2. /\ ~Wait /\ ~EndPass /\ ~FormatEphemeral /\ ~FormatPersistent /\ ~BeginFormat
      /\ ~Interrupt /\ \A q \in Node : ~Try(q)
  BY <1>1 DEF Wait, EndPass, FormatEphemeral, FormatPersistent, BeginFormat, Interrupt, Try
<1>3. CASE UNCHANGED vars \/ \E q \in Node : Answer(q) \/ Hang(q)
  BY <1>3 DEF vars, script, disks, processes, Answer, Hang
<1>4. ASSUME NEW n \in Node, Job(n)
      PROVE  /\ UNCHANGED <<at, round, boot, has, confFor, daemons, name, served, data, joined>>
             /\ missed \subseteq missed'
  <2>1. /\ ~Delivers(n) /\ ~CannotPrepare(n) /\ ~StopsDaemon(n) /\ ~StartsDaemon(n)
        /\ ~StartsZooKeeper(n) /\ \A f \in FileSystem : ~StartsDataNode(n, f)
    BY <1>1 DEF Delivers, CannotPrepare, StopsDaemon, StartsDaemon, StartsZooKeeper,
       StartsDataNode, StartPhase, FileSystem, Item
  <2> QED
    BY <1>4, <2>1 DEF Job, disks, processes
<1> QED
  BY <1>2, <1>3, <1>4 DEF Next, Step

(* Lemma: a step of a running script, or the start of one. *)
LEMMA RunningBefore ==
  ASSUME TypeInv, [Next]_vars, Running'
  PROVE  Running \/ Begin
<1> SUFFICES ASSUME ~Running, ~Begin PROVE FALSE
  OBVIOUS
<1>1. ~Restart
  BY DEF Restart, Reboot, script, Running
<1> QED
  BY <1>1, WhileStopped DEF Running

(* Lemma: the phase that gives an item. *)
LEMMA GiverPhase ==
  ASSUME NEW i \in Gift
  PROVE  /\ Giver[i] \in {3, 4, 5, 6, 8, 9}
         /\ Phases[Giver[i]] = IF i = "mesos" THEN "mesos slaves" ELSE i
<1>1. CASE i = "files"
  BY <1>1, AllPhases DEF Giver
<1>2. CASE i = "prepare"
  BY <1>2, AllPhases DEF Giver
<1>3. CASE i = "conf"
  BY <1>3, AllPhases DEF Giver
<1>4. CASE i = "spark"
  BY <1>4, AllPhases DEF Giver
<1>5. CASE i = "mesos"
  BY <1>5, AllPhases DEF Giver
<1>6. CASE i = "nfs"
  BY <1>6, AllPhases DEF Giver
<1> QED
  BY <1>1, <1>2, <1>3, <1>4, <1>5, <1>6 DEF Gift

(* Lemma: the phases of the items go to the nodes that get them. *)
LEMMA GiftTargets ==
  ASSUME NEW i \in Gift, NEW n, Gets(n, i)
  PROVE  n \in Targets(Phases[Giver[i]])
<1> DEFINE ph == Phases[Giver[i]]
<1>1. ph = IF i = "mesos" THEN "mesos slaves" ELSE i
  BY GiverPhase
<1> HIDE DEF ph
<1>2. CASE i \in {"files", "prepare", "conf"}
  <2>1. Targets(ph) = Others
    BY <1>1, <1>2 DEF Targets
  <2> QED
    BY <2>1 DEF Gets, Others, ph
<1>3. CASE i \in {"spark", "mesos", "nfs"}
  <2>1. Targets(ph) = SLAVES
    BY <1>1, <1>3 DEF Targets
  <2>2. n \in SLAVES
    BY <1>3 DEF Gets
  <2> QED
    BY <2>1, <2>2 DEF ph
<1> QED
  BY <1>2, <1>3 DEF Gift

(* Lemma: what those phases are. *)
LEMMA GiftPhases ==
  ASSUME NEW i \in Gift
  PROVE  /\ Giver[i] \in (1..18) \ {2, 10, 12} /\ Giver[i] < 10
         /\ ItemOf(Phases[Giver[i]]) = i /\ i \in Item
         /\ Phases[Giver[i]] \in {"files", "prepare", "conf", "spark", "mesos slaves", "nfs"}
         /\ Phases[Giver[i]] = "prepare" <=> i = "prepare"
         /\ Phases[Giver[i]] = "conf" <=> i = "conf"
<1> DEFINE ph == Phases[Giver[i]]
<1>1. ph = IF i = "mesos" THEN "mesos slaves" ELSE i
  BY GiverPhase
<1> HIDE DEF ph
<1>2. Giver[i] \in (1..18) \ {2, 10, 12} /\ Giver[i] < 10
  <2>1. Giver[i] \in {3, 4, 5, 6, 8, 9}
    BY GiverPhase
  <2>2. \A j \in {3, 4, 5, 6, 8, 9} : j \in (1..18) \ {2, 10, 12} /\ j < 10
    OBVIOUS
  <2> QED
    BY <2>1, <2>2
<1>3. i \in {"files", "prepare", "conf", "spark", "mesos", "nfs"}
  BY DEF Gift
<1>4. ItemOf(ph) = i
  BY <1>1, <1>3 DEF ItemOf
<1>5. i \in Item
  BY <1>3 DEF Item
<1>6. /\ ph \in {"files", "prepare", "conf", "spark", "mesos slaves", "nfs"}
      /\ ph = "prepare" <=> i = "prepare"
      /\ ph = "conf" <=> i = "conf"
  BY <1>1, <1>3
<1> QED
  BY <1>2, <1>4, <1>5, <1>6 DEF ph

(* Lemma: the job of an item's phase delivers it, and with the conf the    *)
(* master's address; setup-slave is there to prepare the node.             *)
LEMMA JobGives ==
  ASSUME TypeInv, Given, NEW n \in Node \ missed', Job(n), Running,
         NEW i \in Gift, Gets(n, i), at = Giver[i]
  PROVE  has'[n][i] = round /\ (i = "conf" => confFor'[n] = boot[ACTIVE_MASTER])
<1>0. /\ n \notin ZOOS /\ round \in Nat /\ round > 0 /\ n \in Node
  BY SetupAssumption DEF Gets, MASTERS, TypeInv, NodesOK
<1>1. answers[n] /\ UNCHANGED missed
  BY <1>0 DEF Job
<1>2. Phase = Phases[Giver[i]]
  BY PhaseIs
<1>3. /\ ItemOf(Phase) = i /\ i \in Item
      /\ Phase \in {"files", "prepare", "conf", "spark", "mesos slaves", "nfs"}
      /\ Phase = "prepare" <=> i = "prepare"
      /\ Phase = "conf" <=> i = "conf"
  BY <1>2, GiftPhases
<1>4. ~CannotPrepare(n)
  <2> SUFFICES ASSUME i = "prepare" PROVE has[n]["files"] # 0
    BY <1>3 DEF CannotPrepare
  <2>1. Beyond(n, Giver["files"]) /\ Gets(n, "files") /\ "files" \in Gift
    BY DEF Beyond, Giver, Gets, Gift
  <2>2. has[n]["files"] = round
    BY <1>1, <2>1 DEF Given
  <2> QED
    BY <1>0, <2>2
<1>5. /\ ~StopsDaemon(n) /\ ~StartsDaemon(n) /\ ~StartsZooKeeper(n)
      /\ \A f \in FileSystem : ~StartsDataNode(n, f)
  <2>1. StartPhase["ephemeral"] = "start ephemeral"
        /\ StartPhase["persistent"] = "start persistent"
    BY DEF StartPhase
  <2> QED
    BY <1>3, <2>1 DEF StopsDaemon, StartsDaemon, StartsZooKeeper, StartsDataNode, FileSystem
<1>6. Delivers(n)
  BY <1>1, <1>4, <1>5 DEF Job
<1>7. /\ has' = [has EXCEPT ![n][i] = round]
      /\ confFor' = [confFor EXCEPT ![n] = IF Phase = "conf" THEN boot[ACTIVE_MASTER] ELSE @]
  BY <1>3, <1>6 DEF Delivers
<1>8. has'[n][i] = round
  BY <1>0, <1>3, <1>7 DEF TypeInv, NodesOK
<1>9. i = "conf" => confFor'[n] = boot[ACTIVE_MASTER]
  BY <1>0, <1>3, <1>7 DEF TypeInv, NodesOK
<1> QED
  BY <1>8, <1>9

(* Lemma: every step keeps what nodes have got. *)
LEMMA GivenInductive ==
  ASSUME TypeInv, Given, [Next]_vars
  PROVE  Given'
<1>1. ASSUME NEW n \in Node \ missed', NEW i \in Gift, Gets(n, i), (Beyond(n, Giver[i]))'
      PROVE  has'[n][i] = round'
  <2>1. Giver[i] \in (1..18) \ {2, 10, 12} /\ n \in Targets(Phases[Giver[i]]) /\ i \in Item
    BY <1>1, GiftPhases, GiftTargets
  <2>2. (Beyond(n, Giver[i]))' <=> Running' /\ (at' > Giver[i] \/ (at' = Giver[i] /\ n \notin jobs'))
    BY DEF Beyond, Giver
  <2>3. Running /\ (Beyond(n, Giver[i]) \/ (at = Giver[i] /\ Job(n)))
    BY <1>1, <2>1, BeyondBefore
  <2>4. UNCHANGED round /\ n \notin missed /\ has'[n][i] \in {has[n][i], round}
    BY <2>1, <2>3, WhileRunning
  <2>5. CASE Beyond(n, Giver[i])
    BY <1>1, <2>4, <2>5 DEF Given
  <2>6. CASE at = Giver[i] /\ Job(n)
    BY <1>1, <2>3, <2>4, <2>6, JobGives
  <2> QED
    BY <2>3, <2>5, <2>6
<1>2. ASSUME Running'
      PROVE  has'[ACTIVE_MASTER]["files"] = round' /\ has'[ACTIVE_MASTER]["prepare"] = round'
  <2>1. ACTIVE_MASTER \in Node /\ {"files", "prepare"} \subseteq Item
    BY DEF Node, MASTERS, Item
  <2>2. CASE Running
    BY <2>1, <2>2, WhileRunning DEF Given
  <2>3. CASE Begin
    <3>1. has' = [has EXCEPT ![ACTIVE_MASTER] =
                    [i \in Item |-> IF i \in {"files", "prepare", "conf", "spark"}
                                    THEN round' ELSE has[ACTIVE_MASTER][i]]]
      BY <2>3 DEF Begin
    <3> QED
      BY <2>1, <3>1 DEF TypeInv, NodesOK
  <2> QED
    BY <1>2, <2>2, <2>3, RunningBefore
<1> QED
  BY <1>1, <1>2 DEF Given

-----------------------------------------------------------------------------
(* Who has a daemon of this round: a slave only from the last phase on,     *)
(* with everything of the round on it, and the masters from the one before. *)
StartedOK ==
  /\ \A s \in SLAVES : (Running /\ Started(s)) => at = 18 /\ s \notin jobs
  /\ \A s \in SLAVES \ missed : Started(s) => \A i \in Gift : has[s][i] = round
  /\ \A m \in Targets("start masters") \ missed : Beyond(m, 17) => Started(m)

(* Lemma: the places of the last phases among the others. *)
LEMMA Later ==
  /\ \A k : k = 18 => k > 17
  /\ \A k : k = 17 => k > 3 /\ k > 4 /\ ~(k > 17)
  /\ \A k \in 0..18 : (k > 17 \/ k = 17) => (k = 17 \/ k = 18)
  /\ 17 \in (1..18) \ {2, 10, 12} /\ 18 \in (1..18) \ {2, 10, 12}
  /\ 18 + 1 = 19 /\ ~(19 <= 18)
  OBVIOUS

(* Lemma: rounds are numbers. *)
LEMMA RoundIs ==
  ASSUME TypeInv
  PROVE  round \in Nat /\ (Running => round > 0)
  BY SetupAssumption DEF TypeInv, NodesOK

(* Lemma: the last element of a sequence that grew. *)
LEMMA LastIs ==
  ASSUME NEW r \in Nat, NEW q \in Seq(1..r)
  PROVE  Len(q) + 1 \in DOMAIN Append(q, r) /\ Append(q, r)[Len(q) + 1] = r
<1>1. 1..r \subseteq Nat
  OBVIOUS
<1>2. q \in Seq(Nat)
  BY <1>1, SeqMonotonic
<1> QED
  BY <1>2, AppendProperties, LenProperties

(* Lemma: what Started depends on. *)
LEMMA StartedSame ==
  ASSUME NEW n, daemons'[n] = daemons[n], round' = round
  PROVE  (Started(n))' <=> Started(n)
  BY DEF Started

(* Lemma: without a daemon none is of this round. *)
LEMMA NoneStarted ==
  ASSUME NEW n, daemons'[n] = <<>>
  PROVE  ~(Started(n))'
  BY EmptySeq DEF Started

(* Lemma: what the new run has not started yet. *)
LEMMA BeginStartsNothing ==
  ASSUME TypeInv, Begin, NEW n \in Node
  PROVE  ~(Started(n))'
<1>1. round' = round + 1 /\ daemons' = daemons /\ round \in Nat
  BY SetupAssumption DEF Begin, processes, TypeInv, NodesOK
<1>2. daemons[n] \in Seq(1..round)
  BY DEF TypeInv, NodesOK
<1>3. \A i \in DOMAIN daemons[n] : daemons[n][i] \in 1..round
  BY <1>2, ElementOfSeq, LenProperties
<1>4. \A i \in DOMAIN daemons[n] : daemons[n][i] # round + 1
  BY <1>1, <1>3
<1> QED
  BY <1>1, <1>4 DEF Started

(* Lemma: nothing but the job of a start phase starts a daemon, on a slave  *)
(* in the last phase.                                                       *)
LEMMA StartsSlave ==
  ASSUME TypeInv, LastJobs, [Next]_vars, Running, NEW s \in SLAVES,
         ~Started(s), (Started(s))'
  PROVE  at = 18 /\ at' = 18 /\ s \notin jobs'
<1>0. s \in Node /\ s \notin MASTERS
  BY SetupAssumption DEF Node
<1>1. daemons'[s] # daemons[s]
  <2>1. UNCHANGED round
    BY WhileRunning
  <2> QED
    BY <2>1, StartedSame
<1>2. Job(s)
  BY <1>0, <1>1, WhileRunning
<1>3. at' = at /\ s \in jobs /\ jobs' = jobs \ {s}
  BY <1>2 DEF Job
<1>4. StopsDaemon(s) \/ StartsDaemon(s)
  BY <1>1, <1>2 DEF Job, Delivers, CannotPrepare, StartsDataNode, StartsZooKeeper, processes
<1>5. ASSUME StopsDaemon(s) PROVE FALSE
  <2>1. daemons' = [daemons EXCEPT ![s] = <<>>] /\ DOMAIN daemons = Node
    BY <1>5 DEF StopsDaemon, TypeInv, NodesOK
  <2>2. daemons'[s] = <<>>
    BY <1>0, <2>1
  <2> QED
    BY <2>2, NoneStarted
<1>6. at \in {17, 18}
  BY <1>4, <1>5, PlaceOf DEF StartsDaemon, TypeInv, ControlOK
<1>7. at # 17
  BY <1>0, <1>3 DEF LastJobs
<1> QED
  BY <1>3, <1>6, <1>7

(* Lemma: the last phase is the last. *)
LEMMA LastStep ==
  ASSUME TypeInv, [Next]_vars, at = 18
  PROVE  at' = 0 \/ (at' = 18 /\ jobs' \subseteq jobs)
<1>0. Running
  BY DEF Running
<1>1. Phase \notin {"try", "format ephemeral", "format persistent"}
  <2>1. at \notin {2, 10, 12}
    OBVIOUS
  <2> QED
    BY <2>1, QuietPhases
<1>2. ~EndPass /\ ~FormatEphemeral /\ ~FormatPersistent /\ ~BeginFormat
  BY <1>1 DEF EndPass, FormatEphemeral, FormatPersistent, BeginFormat
<1>3. ~Begin /\ ~Restart
  BY <1>0 DEF Begin, Restart, Reboot
<1>4. CASE UNCHANGED vars \/ \E q \in Node : Try(q) \/ Answer(q) \/ Hang(q)
  BY <1>4 DEF vars, script, Try, Answer, Hang
<1>5. CASE \E q \in Node : Job(q)
  BY <1>5 DEF Job
<1>6. CASE Interrupt
  BY <1>6 DEF Interrupt
<1>7. CASE Wait
  <2>1. Enter(19)
    <3>1. at + 1 = 19
      BY Later, Zenon
    <3> QED
      BY <1>7, <3>1 DEF Wait
  <2>2. ~(19 <= Len(Phases))
    BY LastPhases, Later, Zenon
  <2> QED
    BY <2>1, <2>2 DEF Enter
<1> QED
  BY <1>2, <1>3, <1>4, <1>5, <1>6, <1>7 DEF Next, Step

(* Lemma: a job of a start phase that answers, on a node with the files     *)
(* that is prepared, starts the daemon of this round.                       *)
LEMMA DaemonStarts ==
  ASSUME TypeInv, NEW n \in Node \ missed', n \notin ZOOS, Job(n),
         Phase \in {"start masters", "start slaves"},
         has[n]["files"] > 0, has[n]["prepare"] > 0
  PROVE  (Started(n))'
<1>1. answers[n] /\ UNCHANGED round
  BY DEF Job
<1>2. ~Delivers(n) /\ ~CannotPrepare(n) /\ ~StopsDaemon(n) /\ ~StartsZooKeeper(n)
      /\ \A f \in FileSystem : ~StartsDataNode(n, f)
  <2>1. StartPhase["ephemeral"] = "start ephemeral"
        /\ StartPhase["persistent"] = "start persistent"
    BY DEF StartPhase
  <2> QED
    BY <2>1 DEF Delivers, CannotPrepare, StopsDaemon, StartsZooKeeper, StartsDataNode,
       FileSystem, Item
<1>3. StartsDaemon(n)
  BY <1>1, <1>2 DEF Job
<1>4. daemons' = [daemons EXCEPT ![n] = Append(daemons[n], round)]
  BY <1>3 DEF StartsDaemon
<1>5. daemons[n] \in Seq(1..round) /\ DOMAIN daemons = Node
  BY DEF TypeInv, NodesOK
<1>6. daemons'[n] = Append(daemons[n], round)
  BY <1>4, <1>5
<1>7. /\ Len(daemons[n]) + 1 \in DOMAIN Append(daemons[n], round)
      /\ Append(daemons[n], round)[Len(daemons[n]) + 1] = round
  BY <1>5, RoundIs, LastIs
<1> QED
  BY <1>1, <1>6, <1>7 DEF Started

(* Lemma: every step keeps StartedOK. *)
LEMMA StartedInductive ==
  ASSUME TypeInv, OneDaemon, Given, Given', StartedOK, [Next]_vars
  PROVE  StartedOK'
<1>0. SLAVES \subseteq Node /\ MASTERS \subseteq Node /\ MASTERS \cap SLAVES = {}
      /\ MASTERS \cap ZOOS = {} /\ LastJobs
  BY SetupAssumption DEF Node, OneDaemon
<1>1. ASSUME NEW s \in SLAVES, Running', (Started(s))'
      PROVE  at' = 18 /\ s \notin jobs'
  <2>1. ~Begin
    BY <1>0, <1>1, BeginStartsNothing
  <2>2. Running
    BY <1>1, <2>1, RunningBefore
  <2>3. CASE Started(s)
    <3>1. at = 18 /\ s \notin jobs
      BY <2>2, <2>3 DEF StartedOK
    <3>2. at' # 0
      BY <1>1 DEF Running
    <3> QED
      BY <3>1, <3>2, LastStep
  <2>4. CASE ~Started(s)
    BY <1>0, <1>1, <2>2, <2>4, StartsSlave
  <2> QED
    BY <2>3, <2>4
<1>2. ASSUME NEW s \in SLAVES \ missed', (Started(s))', NEW i \in Gift
      PROVE  has'[s][i] = round'
  <2>0. i \in Item
    BY GiftPhases
  <2>1. CASE Running
    <3>1. UNCHANGED round /\ s \notin missed /\ has'[s][i] \in {has[s][i], round}
      BY <1>0, <2>0, <2>1, WhileRunning
    <3>2. CASE Started(s)
      BY <3>1, <3>2 DEF StartedOK
    <3>3. CASE ~Started(s)
      <4>1. at' = 18
        BY <1>0, <1>2, <2>1, <3>3, StartsSlave
      <4>2. Giver[i] < 10 /\ Giver[i] \in 1..18
        BY GiftPhases
      <4>3. at' > 0 /\ at' > Giver[i]
        BY <4>1, <4>2
      <4>4. (Beyond(s, Giver[i]))'
        BY <4>3 DEF Beyond, Running, Giver
      <4>5. Gets(s, i) /\ s \in Node
        BY <1>0 DEF Gets
      <4> QED
        BY <4>4, <4>5 DEF Given, Gets, Giver
    <3> QED
      BY <3>2, <3>3
  <2>2. ~Begin
    BY <1>0, <1>2, BeginStartsNothing
  <2>3. ASSUME NEW set \in {MASTERS, Node}, Reboot(set)
        PROVE  has'[s][i] = round'
    <3>1. daemons' = [n \in Node |-> IF n \in set THEN <<>> ELSE daemons[n]]
          /\ missed' = missed \ set /\ round' = round
          /\ has' = [n \in Node |-> [j \in Item |->
               IF n \in set /\ j \in {"ids", "prepare", "nfs"} THEN 0 ELSE has[n][j]]]
      BY <2>3 DEF Reboot
    <3>2. s \notin set
      <4>1. s \in set => daemons'[s] = <<>>
        BY <1>0, <3>1
      <4> QED
        BY <1>2, <4>1, NoneStarted
    <3>3. daemons'[s] = daemons[s] /\ has'[s][i] = has[s][i] /\ s \notin missed
      BY <1>0, <2>0, <3>1, <3>2
    <3>4. Started(s)
      BY <1>2, <3>1, <3>3, StartedSame
    <3> QED
      BY <3>1, <3>3, <3>4 DEF StartedOK
  <2>4. CASE ~Running /\ ~Restart
    <3>1. UNCHANGED <<round, has, daemons>> /\ s \notin missed
      BY <2>2, <2>4, WhileStopped
    <3>2. Started(s)
      BY <1>2, <3>1, StartedSame
    <3> QED
      BY <3>1, <3>2 DEF StartedOK
  <2> QED
    BY <2>1, <2>3, <2>4 DEF Restart
<1>3. ASSUME NEW m \in Targets("start masters") \ missed', (Beyond(m, 17))'
      PROVE  (Started(m))'
  <2>0. m \in MASTERS /\ m \in Node /\ m \notin ZOOS /\ m \notin SLAVES
    BY <1>0, LastTargets
  <2>1. Running /\ (Beyond(m, 17) \/ (at = 17 /\ Job(m)))
    <3>1. m \in Targets(Phases[17])
      BY <1>3, LastPhases
    <3>2. 17 \in (1..18) \ {2, 10, 12}
      BY Later, Zenon
    <3> QED
      BY <1>3, <3>1, <3>2, BeyondBefore
  <2>2. UNCHANGED round /\ m \notin missed
    BY <2>1, WhileRunning
  <2>3. CASE Beyond(m, 17)
    <3>1. Started(m)
      BY <2>2, <2>3 DEF StartedOK
    <3>2. at = 17 \/ at = 18
      <4>1. at \in 0..18 /\ (at > 17 \/ at = 17)
        BY <2>3, Zenon DEF Beyond, TypeInv, ControlOK
      <4> QED
        BY <4>1, Later, Zenon
    <3>3. m \notin jobs
      <4>1. CASE at = 17
        <5>1. ~(at > 17)
          BY <4>1, Later, Zenon
        <5> QED
          BY <2>3, <5>1, Zenon DEF Beyond
      <4>2. CASE at = 18
        <5>1. jobs \subseteq SLAVES
          BY <1>0, <4>2 DEF LastJobs
        <5> QED
          BY <2>0, <5>1
      <4> QED
        BY <3>2, <4>1, <4>2
    <3>4. daemons'[m] = daemons[m]
      BY <2>0, <2>1, <3>3, WhileRunning DEF Job
    <3> QED
      BY <2>2, <3>1, <3>4, StartedSame
  <2>4. CASE at = 17 /\ Job(m)
    <3>1. Phase = "start masters"
      BY <2>1, <2>4, LastPhases DEF Phase
    <3>2. round > 0
      BY <2>1 DEF TypeInv, NodesOK
    <3>3. has[m]["files"] = round /\ has[m]["prepare"] = round
      <4>1. CASE m = ACTIVE_MASTER
        BY <2>1, <4>1 DEF Given
      <4>2. CASE m # ACTIVE_MASTER
        <5>1. Gets(m, "files") /\ Gets(m, "prepare")
          BY <2>0, <4>2 DEF Gets, MASTERS
        <5>2. Beyond(m, Giver["files"]) /\ Beyond(m, Giver["prepare"])
          <6>1. at > Giver["files"] /\ at > Giver["prepare"]
            <7>1. Giver["files"] = 3 /\ Giver["prepare"] = 4
              BY DEF Giver
            <7>2. at > 3 /\ at > 4
              BY <2>4, Later, Zenon
            <7> QED
              BY <7>1, <7>2, Zenon
          <6> QED
            BY <2>1, <6>1 DEF Beyond
        <5>3. "files" \in Gift /\ "prepare" \in Gift
          BY DEF Gift
        <5> QED
          BY <2>0, <2>2, <5>1, <5>2, <5>3 DEF Given
      <4> QED
        BY <4>1, <4>2
    <3> QED
      BY <2>0, <2>4, <3>1, <3>2, <3>3, DaemonStarts
  <2> QED
    BY <2>1, <2>3, <2>4
<1> QED
  BY <1>1, <1>2, <1>3 DEF StartedOK

(* The three invariants that the order of the phases rests on. *)
EquipInv == OneDaemon /\ Given /\ StartedOK

(* Lemma: they hold before the script has run. *)
LEMMA EquipInitial == Init => EquipInv
<1> SUFFICES ASSUME Init PROVE EquipInv
  OBVIOUS
<1>1. \A n \in Node : daemons[n] = <<>>
  BY DEF Init
<1>2. at = 0 /\ ~Running
  BY DEF Init, Running
<1>3. \A n \in Node : Len(daemons[n]) = 0 /\ ~Started(n)
  BY <1>1, EmptySeq DEF Started
<1>4. SLAVES \subseteq Node
  BY DEF Node
<1> QED
  BY <1>2, <1>3, <1>4
     DEF EquipInv, OneDaemon, NoStrayDaemon, Cleared, LastJobs, Given, StartedOK, Beyond

(* Lemma: they always hold. *)
LEMMA EquipAlways == SafetySpec => []EquipInv
<1>1. TypeInv /\ EquipInv /\ [Next]_vars => EquipInv'
  <2> SUFFICES ASSUME TypeInv, EquipInv, [Next]_vars PROVE EquipInv'
    OBVIOUS
  <2>1. OneDaemon'
    BY OneDaemonInductive DEF EquipInv
  <2>2. Given'
    BY GivenInductive DEF EquipInv
  <2>3. StartedOK'
    BY <2>2, StartedInductive DEF EquipInv
  <2> QED
    BY <2>1, <2>2, <2>3 DEF EquipInv
<1> QED
  BY <1>1, EquipInitial, TypeInvAlways, PTL DEF SafetySpec

(* A Mesos slave of a round is started only on a node that has everything   *)
(* of that round, unless a job failed there, and only when the masters of   *)
(* the round run: the waits between the phases of setup see to it, however  *)
(* often it was interrupted and run again, and whatever was stopped and     *)
(* started in between.                                                      *)
THEOREM SlavesEquipped == SafetySpec => []EquippedBeforeStart
<1>1. TypeInv /\ EquipInv => EquippedBeforeStart
  <2> SUFFICES ASSUME TypeInv, EquipInv, NEW s \in SLAVES, Started(s)
               PROVE  /\ s \notin missed => \A i \in Item \ {"ids"} : has[s][i] = round
                      /\ Running => \A m \in Targets("start masters") \ missed : Started(m)
    BY DEF EquippedBeforeStart
  <2>1. Item \ {"ids"} = Gift
    BY DEF Item, Gift
  <2>2. s \notin missed => \A i \in Item \ {"ids"} : has[s][i] = round
    BY <2>1 DEF EquipInv, StartedOK
  <2>3. ASSUME Running, NEW m \in Targets("start masters") \ missed PROVE Started(m)
    <3>1. at = 18
      BY <2>3 DEF EquipInv, StartedOK
    <3>2. at > 17
      BY <3>1, Later, Zenon
    <3>3. Beyond(m, 17)
      BY <2>3, <3>2 DEF Beyond
    <3> QED
      BY <2>3, <3>3 DEF EquipInv, StartedOK
  <2> QED
    BY <2>2, <2>3
<1> QED
  BY <1>1, TypeInvAlways, EquipAlways, PTL

-----------------------------------------------------------------------------
(* The phases that format a file system, and that start its data nodes.     *)
Format == [ephemeral |-> 10, persistent |-> 12]
Start == [ephemeral |-> 11, persistent |-> 13]
(* A slave was stopped and started as often as the master.                  *)
SameBoot(s) == boot[s] = boot[ACTIVE_MASTER]
(* The persistent file system is being formatted.                           *)
UnderWay == at = 12 /\ jobs # {}

(* A slave that is as old as the master has no ephemeral blocks of before.  *)
Ages == \A s \in SLAVES : boot[s] <= boot[ACTIVE_MASTER]
EphemeralOK ==
  /\ \A s \in SLAVES : SameBoot(s) => data["ephemeral"][s] \in {None, served["ephemeral"]}
  /\ name["ephemeral"] # HalfFormatted
(* After its format a file system is served, unless the format was cut short. *)
Formatted ==
  \A f \in FileSystem : at > Format[f] => served[f] # None \/ name[f] = HalfFormatted
(* A slave has the address of the master that runs.                         *)
Told == \A s \in SLAVES \ missed : Beyond(s, 5) => confFor[s] = boot[ACTIVE_MASTER]
(* A data node that runs has joined the name node that runs; where none     *)
(* does, none can come up before the slaves are restarted.                  *)
JoinedOK ==
  \A f \in FileSystem : \A s \in SLAVES \ missed :
    (SameBoot(s) /\ joined[f][s] # NoNode) =>
      /\ joined[f][s] = [namespace |-> served[f], boot |-> boot[ACTIVE_MASTER]]
      /\ served[f] = None => name[f] = HalfFormatted /\ ~UnderWay
(* A slave that did its part has a data node, and a Mesos slave.            *)
Joins ==
  \A f \in FileSystem : \A s \in SLAVES \ missed :
    (SameBoot(s) /\ Beyond(s, Start[f])) => joined[f][s] # NoNode
Runs == \A s \in SLAVES \ missed : Beyond(s, 18) => Started(s)

ServeInv == Ages /\ EphemeralOK /\ Formatted /\ Told /\ JoinedOK /\ Joins /\ Runs

(* Lemma: the numbers of these phases. *)
LEMMA Numbers ==
  /\ None = 0 /\ HalfFormatted = -1 /\ FileSystem = {"ephemeral", "persistent"}
  /\ Format["ephemeral"] = 10 /\ Format["persistent"] = 12
  /\ Start["ephemeral"] = 11 /\ Start["persistent"] = 13
  /\ StartPhase["ephemeral"] = "start ephemeral"
  /\ StartPhase["persistent"] = "start persistent"
  BY DEF None, HalfFormatted, FileSystem, Format, Start, StartPhase

(* Lemma: a half-formatted directory has no namespace. *)
LEMMA NoHalf == None # HalfFormatted /\ \A x \in 0..round : x # HalfFormatted
  BY DEF None, HalfFormatted

(* Lemma: how they lie. *)
LEMMA Order ==
  /\ \A f \in FileSystem : /\ Start[f] \in {11, 13} /\ Start[f] > Format[f] /\ Start[f] > 5
                           /\ Start[f] \in (1..18) \ {2, 10, 12} /\ Start[f] # 12
                           /\ 18 > Start[f] /\ 18 > Format[f] /\ ~(0 > Format[f])
                           /\ Format[f] + 1 = Start[f]
  /\ ~(11 > Format["persistent"]) /\ ~(12 > Format["persistent"])
  /\ 12 > Format["ephemeral"] /\ 10 + 1 = 11 /\ 12 + 1 = 13
  /\ 11 # 12 /\ 13 # 12 /\ 0 # 12 /\ 18 > 3 /\ 18 > 4 /\ 18 > 5
<1>1. ASSUME NEW j, NEW k, (j = 10 /\ k = 11) \/ (j = 12 /\ k = 13)
      PROVE  /\ k \in {11, 13} /\ k > j /\ k > 5
             /\ k \in (1..18) \ {2, 10, 12} /\ k # 12
             /\ 18 > k /\ 18 > j /\ ~(0 > j) /\ j + 1 = k
  <2>1. CASE j = 10 /\ k = 11
    BY <2>1
  <2>2. CASE j = 12 /\ k = 13
    BY <2>2
  <2> QED
    BY <1>1, <2>1, <2>2
<1>2. ASSUME NEW f \in FileSystem
      PROVE  (Format[f] = 10 /\ Start[f] = 11) \/ (Format[f] = 12 /\ Start[f] = 13)
  BY Numbers
<1>3. \A f \in FileSystem :
         /\ Start[f] \in {11, 13} /\ Start[f] > Format[f] /\ Start[f] > 5
         /\ Start[f] \in (1..18) \ {2, 10, 12} /\ Start[f] # 12
         /\ 18 > Start[f] /\ 18 > Format[f] /\ ~(0 > Format[f]) /\ Format[f] + 1 = Start[f]
  <2> TAKE f \in FileSystem
  <2>1. (Format[f] = 10 /\ Start[f] = 11) \/ (Format[f] = 12 /\ Start[f] = 13)
    BY <1>2
  <2> DEFINE j == Format[f]
             k == Start[f]
  <2> HIDE DEF j, k
  <2>2. (j = 10 /\ k = 11) \/ (j = 12 /\ k = 13)
    BY <2>1 DEF j, k
  <2>3. /\ k \in {11, 13} /\ k > j /\ k > 5
        /\ k \in (1..18) \ {2, 10, 12} /\ k # 12
        /\ 18 > k /\ 18 > j /\ ~(0 > j) /\ j + 1 = k
    BY <1>1, <2>2
  <2> QED
    BY <2>3 DEF j, k
<1>4. ~(11 > Format["persistent"]) /\ ~(12 > Format["persistent"])
      /\ 12 > Format["ephemeral"]
  <2>1. ~(11 > 12) /\ ~(12 > 12) /\ 12 > 10
    OBVIOUS
  <2> QED
    BY <2>1, Numbers, Zenon
<1>5. /\ 10 + 1 = 11 /\ 12 + 1 = 13
      /\ 11 # 12 /\ 13 # 12 /\ 0 # 12 /\ 18 > 3 /\ 18 > 4 /\ 18 > 5
  OBVIOUS
<1> QED
  BY <1>3, <1>4, <1>5, Zenon

(* Lemma: the phase that starts a file system's data nodes. *)
LEMMA StartAt ==
  ASSUME TypeInv, NEW f \in FileSystem
  PROVE  /\ Phase = StartPhase[f] => Running /\ at = Start[f]
         /\ Running /\ at = Start[f] => Phase = StartPhase[f]
         /\ Targets(Phases[Start[f]]) = SLAVES
<1>1. Phases[Start[f]] = StartPhase[f]
  BY Numbers, AllPhases
<1>2. Targets(Phases[Start[f]]) = SLAVES
  <2>1. CASE f = "ephemeral"
    BY <1>1, <2>1, Numbers DEF Targets
  <2>2. CASE f = "persistent"
    BY <1>1, <2>2, Numbers DEF Targets
  <2> QED
    BY <2>1, <2>2, Numbers
<1>3. Running /\ at = Start[f] => Phase = StartPhase[f]
  BY <1>1 DEF Phase
<1>4. ASSUME Phase = StartPhase[f] PROVE Running /\ at = Start[f]
  <2>1. Phase \in {"start ephemeral", "start persistent"}
    BY <1>4, Numbers
  <2>2. Running
    BY <2>1 DEF Phase
  <2>3. at \in 1..18 /\ Phase = Phases[at]
    BY <2>2, PhaseIs
  <2>4. at \in {1, 3, 4, 5, 6, 7, 8, 9, 11, 13, 14} \cup {15, 16, 17, 18} \cup {2, 10, 12}
    BY <2>3, Places
  <2>5. at \notin {1, 3, 4, 5, 6, 7, 8, 9, 14, 2, 10, 12}
    BY <2>1, <2>3, AllPhases
  <2>6. at \notin {15, 16, 17, 18}
    BY <2>1, <2>3, LastPhases
  <2>7. at \in {11, 13}
    BY <2>4, <2>5, <2>6
  <2> QED
    BY <1>4, <2>2, <2>3, <2>7, AllPhases, Numbers
<1> QED
  BY <1>2, <1>3, <1>4

(* Lemma: what the job of such a phase does on a slave. *)
LEMMA DataNodeStep ==
  ASSUME TypeInv, NEW n \in Node, NEW g \in FileSystem, StartsDataNode(n, g),
         NEW f \in FileSystem, NEW s \in SLAVES
  PROVE  /\ data'[f][s] \in {data[f][s], served[f]}
         /\ f # g \/ s # n \/ joined[f][s] # NoNode => joined'[f][s] = joined[f][s]
         /\ f = g /\ s = n /\ confFor[s] = boot[ACTIVE_MASTER] =>
              joined'[f][s] \in
                {joined[f][s], [namespace |-> served[f], boot |-> boot[ACTIVE_MASTER]]}
         /\ f = g /\ s = n /\ confFor[s] = boot[ACTIVE_MASTER] /\ joined[f][s] = NoNode
              /\ data[f][s] \in {None, served[f]} =>
              joined'[f][s] = [namespace |-> served[f], boot |-> boot[ACTIVE_MASTER]]
<1> DEFINE running == joined[g][n] # NoNode
           reached == confFor[n] = boot[ACTIVE_MASTER] /\ served[g] # None
           accepts == data[g][n] \in {None, served[g]}
           new == [namespace |-> IF reached THEN served[g] ELSE None, boot |-> confFor[n]]
<1>1. /\ joined' = IF ~running /\ confFor[n] > 0 /\ (reached => accepts)
                   THEN [joined EXCEPT ![g][n] = new] ELSE joined
      /\ data' = IF ~running /\ reached /\ accepts
                 THEN [data EXCEPT ![g][n] = served[g]] ELSE data
  BY DEF StartsDataNode
<1>2. /\ joined \in [FileSystem -> [SLAVES -> [namespace : 0..round, boot : Nat]]]
      /\ data \in [FileSystem -> [SLAVES -> 0..round]]
  BY DEF TypeInv, NamespacesOK
<1>3. boot[ACTIVE_MASTER] > 0
  BY DEF TypeInv, NodesOK, Node, MASTERS
<1>4. data'[f][s] \in {data[f][s], served[f]}
  <2>1. CASE data' = [data EXCEPT ![g][n] = served[g]]
    BY <1>2, <2>1
  <2>2. CASE data' = data
    BY <2>2
  <2> QED
    BY <1>1, <2>1, <2>2
<1>5. f # g \/ s # n => [joined EXCEPT ![g][n] = new][f][s] = joined[f][s]
  BY <1>2
<1>6. f = g /\ s = n => [joined EXCEPT ![g][n] = new][f][s] = new
  BY <1>2
<1>7. f = g /\ s = n /\ confFor[s] = boot[ACTIVE_MASTER] =>
        new = [namespace |-> served[f], boot |-> boot[ACTIVE_MASTER]]
  OBVIOUS
<1> HIDE DEF new
<1> QED
  BY <1>1, <1>3, <1>4, <1>5, <1>6, <1>7

(* Lemma: all other steps leave the file systems alone, but for data nodes  *)
(* that start.                                                              *)
LEMMA Frame ==
  ASSUME TypeInv, [Next]_vars, ~FormatEphemeral, ~FormatPersistent, ~BeginFormat, ~Restart
  PROVE  /\ UNCHANGED <<name, served, boot>> /\ (UnderWay' => UnderWay)
         /\ \/ UNCHANGED <<data, joined>>
            \/ \E n \in Node : \E f \in FileSystem : Job(n) /\ StartsDataNode(n, f)
<1>1. CASE UNCHANGED vars \/ \E q \in Node : Try(q) \/ Answer(q) \/ Hang(q)
  BY <1>1 DEF vars, script, disks, processes, Try, Answer, Hang, UnderWay
<1>2. ASSUME at # 11 \/ ~Enter(at + 1), Wait \/ EndPass PROVE UnderWay' => UnderWay
  <2>1. CASE UNCHANGED <<at, jobs>>
    BY <2>1 DEF UnderWay
  <2>2. CASE Enter(at + 1) /\ Running
    <3>1. at \in 1..18
      BY <2>2, PhaseIs
    <3>2. CASE at + 1 \in 1..18
      <4>1. at' = at + 1
        BY <2>2, <3>2, NextPhase
      <4> QED
        BY <1>2, <2>2, <3>1, <4>1 DEF UnderWay
    <3>3. CASE at + 1 \notin 1..18
      <4>1. ~(at + 1 <= 18)
        BY <3>1, <3>3
      <4>2. at' = 0
        BY <2>2, <4>1, LastPhases DEF Enter
      <4> QED
        BY <4>2, Order DEF UnderWay
    <3> QED
      BY <3>2, <3>3
  <2> QED
    BY <1>2, <2>1, <2>2 DEF Wait, EndPass, Phase
<1>3. CASE Wait \/ EndPass
  <2>1. UNCHANGED <<name, served, boot, data, joined>>
    BY <1>3 DEF Wait, EndPass, disks, processes
  <2>2. ASSUME at = 11, Enter(at + 1) PROVE ~UnderWay'
    <3>1. at + 1 = 12 /\ 12 \in 1..18
      BY <2>2
    <3>2. at' = 12 /\ jobs' = Targets(Phases[12])
      BY <2>2, <3>1, NextPhase
    <3> QED
      BY <3>2, AllPhases, LastTargets DEF UnderWay
  <2> QED
    BY <1>2, <1>3, <2>1, <2>2
<1>4. CASE Begin
  <2>1. at' = 1
    BY <1>4 DEF Begin
  <2> QED
    BY <1>4, <2>1 DEF Begin, UnderWay, processes
<1>5. CASE Interrupt
  BY <1>5 DEF Interrupt, UnderWay, disks, processes
<1>6. ASSUME NEW n \in Node, Job(n)
      PROVE  /\ UNCHANGED <<name, served, boot>> /\ (UnderWay' => UnderWay)
             /\ \/ UNCHANGED <<data, joined>>
                \/ \E f \in FileSystem : StartsDataNode(n, f)
  BY <1>6 DEF Job, Delivers, CannotPrepare, StartsDataNode, StopsDaemon, StartsDaemon,
     StartsZooKeeper, UnderWay, disks, processes
<1> QED
  BY <1>1, <1>3, <1>4, <1>5, <1>6 DEF Next, Step

(* Lemma: what the two formats do. *)
LEMMA Formats ==
  ASSUME TypeInv, NEW f \in FileSystem, NEW g \in FileSystem,
         (f = "ephemeral" /\ FormatEphemeral) \/ (f = "persistent" /\ FormatPersistent)
  PROVE  /\ Running /\ at = Format[f] /\ at' = Start[f]
         /\ UNCHANGED <<boot, data, joined, missed, round, has, confFor, daemons>>
         /\ g # f => name'[g] = name[g] /\ served'[g] = served[g]
         /\ name'[f] = round \/ (name'[f] = name[f] /\ name[f] # None)
         /\ (f = "persistent" /\ name'[f] # name[f]) => jobs # {}
         /\ served'[f] = IF served[f] = None /\ name'[f] > 0 THEN name'[f] ELSE served[f]
<1>0. /\ name \in [FileSystem -> {HalfFormatted} \cup 0..round]
      /\ served \in [FileSystem -> 0..round]
  BY DEF TypeInv, NamespacesOK
<1>1. CASE f = "ephemeral" /\ FormatEphemeral
  <2>1. Running /\ at = 10 /\ Enter(at + 1)
    BY <1>1, QuietPhases DEF FormatEphemeral
  <2>2. at' = 11
    <3>1. at + 1 = 11 /\ 11 \in 1..18
      BY <2>1
    <3> QED
      BY <2>1, <3>1, NextPhase
  <2>3. /\ name' = [name EXCEPT ![f] = round] \/ (name' = name /\ name[f] # None)
        /\ served' = NameNode(f, name')
        /\ UNCHANGED <<boot, data, joined, missed, round, has, confFor, daemons>>
    BY <1>1 DEF FormatEphemeral, Fresh
  <2> QED
    BY <1>0, <1>1, <2>1, <2>2, <2>3, Numbers DEF NameNode
<1>2. CASE f = "persistent" /\ FormatPersistent
  <2>1. Running /\ at = 12 /\ Enter(at + 1)
    BY <1>2, QuietPhases DEF FormatPersistent
  <2>2. at' = 13
    <3>1. at + 1 = 13 /\ 13 \in 1..18
      BY <2>1
    <3> QED
      BY <2>1, <3>1, NextPhase
  <2>3. /\ \/ jobs # {} /\ name' = [name EXCEPT ![f] = round]
           \/ name' = name /\ name[f] # None
        /\ served' = NameNode(f, name')
        /\ UNCHANGED <<boot, data, joined, missed, round, has, confFor, daemons>>
    BY <1>2 DEF FormatPersistent, Fresh, MustFormat
  <2> QED
    BY <1>0, <1>2, <2>1, <2>2, <2>3, Numbers DEF NameNode
<1> QED
  BY <1>1, <1>2

(* Lemma: what the start of a format does. *)
LEMMA FormatBegins ==
  ASSUME TypeInv, BeginFormat
  PROVE  /\ Running /\ at = 12 /\ at' = 12 /\ name["persistent"] = None
         /\ name'["ephemeral"] = name["ephemeral"] /\ name'["persistent"] = HalfFormatted
         /\ UNCHANGED <<boot, data, joined, missed, round, has, confFor, daemons, served>>
<1>1. Running /\ at = 12
  BY QuietPhases DEF BeginFormat
<1>2. name' = [name EXCEPT !["persistent"] = HalfFormatted] /\ DOMAIN name = FileSystem
  BY DEF BeginFormat, TypeInv, NamespacesOK
<1> QED
  BY <1>1, <1>2, Numbers DEF BeginFormat, MustFormat, processes

(* Lemma: what a stop and start does; a slave that was left running is now  *)
(* older than the master.                                                   *)
LEMMA Restarted ==
  ASSUME TypeInv, Ages, Restart
  PROVE  /\ ~Running /\ at' = at /\ at = 0 /\ Ages' /\ name'["ephemeral"] = None
         /\ \A s \in SLAVES : (SameBoot(s))' =>
              /\ SameBoot(s) /\ data'["ephemeral"][s] = None
              /\ \A f \in FileSystem : joined'[f][s] = NoNode
<1>1. PICK set \in {MASTERS, Node} : Reboot(set)
  BY DEF Restart
<1>2. ~Running /\ at' = at /\ at = 0
  BY <1>1 DEF Reboot, script, Running, TypeInv, ControlOK
<1>3. ACTIVE_MASTER \in set /\ ACTIVE_MASTER \in Node /\ SLAVES \subseteq Node
      /\ \A s \in SLAVES : s \in set \/ s \notin MASTERS
  BY SetupAssumption DEF MASTERS, Node
<1>4. boot' = [n \in Node |-> IF n \in set THEN boot[n] + 1 ELSE boot[n]]
      /\ boot \in [Node -> Nat \ {0}]
  BY <1>1 DEF Reboot, TypeInv, NodesOK
<1>5. boot'[ACTIVE_MASTER] = boot[ACTIVE_MASTER] + 1 /\ boot[ACTIVE_MASTER] \in Nat
  BY <1>3, <1>4
<1>6. ASSUME NEW s \in SLAVES
      PROVE  /\ boot'[s] <= boot'[ACTIVE_MASTER] /\ boot[s] \in Nat
             /\ boot'[s] = boot'[ACTIVE_MASTER] =>
                  s \in set /\ boot[s] = boot[ACTIVE_MASTER]
  <2>1. boot[s] <= boot[ACTIVE_MASTER] /\ boot[s] \in Nat
        /\ boot'[s] = IF s \in set THEN boot[s] + 1 ELSE boot[s]
    BY <1>3, <1>4 DEF Ages
  <2> QED
    BY <1>5, <2>1
<1>7. /\ name' = [name EXCEPT !["ephemeral"] = IF ACTIVE_MASTER \in set THEN None ELSE @]
      /\ data' = [data EXCEPT !["ephemeral"] =
           [s \in SLAVES |-> IF s \in set THEN None ELSE data["ephemeral"][s]]]
      /\ joined' = [f \in FileSystem |-> [s \in SLAVES |->
           IF s \in set THEN NoNode ELSE joined[f][s]]]
  BY <1>1 DEF Reboot
<1>8. name'["ephemeral"] = None
  BY <1>3, <1>7, Numbers DEF TypeInv, NamespacesOK
<1>9. ASSUME NEW s \in SLAVES, s \in set
      PROVE  /\ data'["ephemeral"][s] = None
             /\ \A f \in FileSystem : joined'[f][s] = NoNode
  BY <1>7, <1>9, Numbers DEF TypeInv, NamespacesOK
<1> QED
  BY <1>2, <1>6, <1>8, <1>9 DEF Ages, SameBoot

-----------------------------------------------------------------------------
(* Lemma: only a stop and start makes up for a failed job.                 *)
LEMMA MissedGrows ==
  ASSUME TypeInv, [Next]_vars, ~Restart
  PROVE  missed \subseteq missed'
<1>1. CASE Running
  BY <1>1, WhileRunning
<1>2. CASE Begin
  BY <1>2 DEF Begin
<1>3. CASE ~Running /\ ~Begin
  BY <1>3, WhileStopped
<1> QED
  BY <1>1, <1>2, <1>3

(* Lemma: the script passes the format of a file system by formatting it.  *)
LEMMA PastFormat ==
  ASSUME TypeInv, [Next]_vars, ~FormatEphemeral, ~FormatPersistent,
         NEW f \in FileSystem, at' > Format[f]
  PROVE  at > Format[f]
<1>0. at \in 0..18 /\ Format[f] \in {10, 12}
  BY Numbers DEF TypeInv, ControlOK
<1>1. CASE UNCHANGED at
  BY <1>1
<1>2. CASE UNCHANGED vars \/ (\E q \in Node : Try(q) \/ Job(q) \/ Answer(q) \/ Hang(q))
           \/ BeginFormat \/ Restart
  BY <1>1, <1>2 DEF vars, script, Try, Job, Answer, Hang, BeginFormat, Restart, Reboot
<1>3. CASE Begin \/ Interrupt
  <2>1. at' = 1 \/ at' = 0
    BY <1>3 DEF Begin, Interrupt
  <2> QED
    BY <1>0, <2>1
<1>4. CASE Wait \/ EndPass
  <2>1. Running /\ Phase \notin {"format ephemeral", "format persistent"}
        /\ (Enter(at + 1) \/ UNCHANGED at)
    BY <1>4 DEF Wait, EndPass, Phase
  <2>2. at # Format[f]
    <3>1. Phase = Phases[at]
      BY <2>1 DEF Phase
    <3> QED
      BY <2>1, <3>1, AllPhases, Numbers
  <2>3. CASE Enter(at + 1)
    <3>1. at' = at + 1 \/ at' = 0
      BY <2>3 DEF Enter
    <3> QED
      BY <1>0, <2>2, <3>1
  <2> QED
    BY <1>1, <2>1, <2>3
<1> QED
  BY <1>2, <1>3, <1>4 DEF Next, Step

(* Lemma: every step keeps the ages of the slaves, and what they have of    *)
(* the ephemeral file system.                                              *)
LEMMA EphemeralInductive ==
  ASSUME TypeInv, Ages, EphemeralOK, [Next]_vars
  PROVE  Ages' /\ EphemeralOK'
<1> DEFINE E == "ephemeral"
<1>0. /\ E \in FileSystem /\ round \in Nat /\ None = 0 /\ HalfFormatted = -1
      /\ E # "persistent" /\ "persistent" \in FileSystem
  BY RoundIs, Numbers
<1>1. ASSUME UNCHANGED boot,
             \A s \in SLAVES : data'[E][s] \in {data[E][s], served[E], None},
             served'[E] = served[E] \/ (served[E] = None /\ served'[E] # None),
             name'[E] # HalfFormatted
      PROVE  Ages' /\ EphemeralOK'
  BY <1>1 DEF Ages, EphemeralOK, SameBoot
<1>2. CASE FormatEphemeral
  <2>1. /\ UNCHANGED <<boot, data>> /\ name'[E] \in {round, name[E]}
        /\ served'[E] = IF served[E] = None /\ name'[E] > 0 THEN name'[E] ELSE served[E]
    BY <1>0, <1>2, Formats
  <2>2. name'[E] # HalfFormatted
    BY <1>0, <2>1 DEF EphemeralOK
  <2>3. name'[E] > 0 => name'[E] # None
    BY <1>0
  <2> QED
    BY <1>1, <2>1, <2>2, <2>3
<1>3. CASE FormatPersistent
  <2>1. UNCHANGED <<boot, data>> /\ name'[E] = name[E] /\ served'[E] = served[E]
    BY <1>0, <1>3, Formats
  <2> QED
    BY <1>1, <2>1 DEF EphemeralOK
<1>4. CASE BeginFormat
  BY <1>1, <1>4, FormatBegins DEF EphemeralOK
<1>5. CASE Restart
  <2>1. Ages' /\ name'[E] # HalfFormatted
    BY <1>0, <1>5, Restarted
  <2>2. \A s \in SLAVES : (SameBoot(s))' => data'[E][s] = None
    BY <1>5, Restarted
  <2> QED
    BY <2>1, <2>2 DEF EphemeralOK, SameBoot
<1>6. CASE ~FormatEphemeral /\ ~FormatPersistent /\ ~BeginFormat /\ ~Restart
  <2>1. UNCHANGED <<name, served, boot>>
    BY <1>6, Frame
  <2>2. ASSUME NEW s \in SLAVES PROVE data'[E][s] \in {data[E][s], served[E]}
    <3>1. CASE UNCHANGED data
      BY <3>1
    <3>2. ASSUME NEW n \in Node, NEW f \in FileSystem, StartsDataNode(n, f)
          PROVE  data'[E][s] \in {data[E][s], served[E]}
      BY <1>0, <3>2, DataNodeStep
    <3> QED
      BY <1>6, <3>1, <3>2, Frame
  <2> QED
    BY <1>1, <2>1, <2>2 DEF EphemeralOK
<1> QED
  BY <1>2, <1>3, <1>4, <1>5, <1>6

(* Lemma: every step keeps what was formatted served.                      *)
LEMMA FormattedInductive ==
  ASSUME TypeInv, EphemeralOK, Formatted, [Next]_vars
  PROVE  Formatted'
<1>0. /\ round \in Nat /\ None = 0 /\ HalfFormatted = -1
      /\ \A f \in FileSystem : name[f] \in {HalfFormatted} \cup 0..round
      /\ FileSystem = {"ephemeral", "persistent"}
  BY RoundIs, Numbers DEF TypeInv, NamespacesOK
<1> SUFFICES ASSUME NEW f \in FileSystem, at' > Format[f]
             PROVE  served'[f] # None \/ name'[f] = HalfFormatted
  BY DEF Formatted, Format
<1>1. ASSUME at > Format[f], name'[f] = name[f], served'[f] = served[f]
      PROVE  served'[f] # None \/ name'[f] = HalfFormatted
  BY <1>1 DEF Formatted
<1>2. ASSUME NEW g \in FileSystem,
             (g = "ephemeral" /\ FormatEphemeral) \/ (g = "persistent" /\ FormatPersistent)
      PROVE  served'[f] # None \/ name'[f] = HalfFormatted
  <2>1. Running /\ at = Format[g] /\ at' = Start[g]
    BY <1>2, Formats
  <2>2. CASE f = g
    <3>1. /\ name'[f] = round \/ (name'[f] = name[f] /\ name[f] # None)
          /\ served'[f] = IF served[f] = None /\ name'[f] > 0 THEN name'[f] ELSE served[f]
      BY <1>2, <2>2, Formats
    <3>2. name'[f] > 0 \/ name'[f] = HalfFormatted
      <4>1. round > 0
        BY <2>1, RoundIs
      <4>2. name[f] # None => name[f] > 0 \/ name[f] = HalfFormatted
        BY <1>0
      <4> QED
        BY <3>1, <4>1, <4>2
    <3> QED
      BY <1>0, <3>1, <3>2
  <2>3. CASE f # g
    <3>1. f = "ephemeral" /\ g = "persistent"
      <4>1. ~(Start["ephemeral"] > Format["persistent"])
        BY Order, Numbers
      <4> QED
        BY <1>0, <2>1, <2>3, <4>1
    <3>2. at > Format[f]
      BY <2>1, <3>1, Order, Numbers
    <3>3. name'[f] = name[f] /\ served'[f] = served[f]
      BY <1>2, <2>3, Formats
    <3> QED
      BY <1>1, <3>2, <3>3
  <2> QED
    BY <2>2, <2>3
<1>3. CASE BeginFormat
  <2>1. at = 12 /\ at' = 12 /\ UNCHANGED served /\ name'["ephemeral"] = name["ephemeral"]
    BY <1>3, FormatBegins
  <2>2. f = "ephemeral"
    BY <1>0, <2>1, Order
  <2> QED
    BY <1>1, <2>1, <2>2
<1>4. ASSUME Restart PROVE FALSE
  <2>1. at' = 0
    BY <1>4 DEF Restart, Reboot, script, Running, TypeInv, ControlOK
  <2> QED
    BY <2>1, Order
<1>5. CASE ~FormatEphemeral /\ ~FormatPersistent /\ ~BeginFormat /\ ~Restart
  BY <1>1, <1>5, Frame, PastFormat
<1> QED
  BY <1>0, <1>2, <1>3, <1>4, <1>5

(* Lemma: every step keeps the slaves' address of the master.              *)
LEMMA ToldInductive ==
  ASSUME TypeInv, Given, Told, [Next]_vars
  PROVE  Told'
<1> SUFFICES ASSUME NEW s \in SLAVES \ missed', (Beyond(s, 5))'
             PROVE  confFor'[s] = boot'[ACTIVE_MASTER]
  BY DEF Told
<1>0. s \in Node /\ Gets(s, "conf") /\ "conf" \in Gift /\ Giver["conf"] = 5
  BY DEF Node, Gets, Gift, Giver
<1>1. s \in Targets(Phases[5]) /\ 5 \in (1..18) \ {2, 10, 12}
  BY <1>0, GiftTargets, GiftPhases
<1>2. Running /\ (Beyond(s, 5) \/ (at = 5 /\ Job(s)))
  BY <1>1, BeyondBefore
<1>3. UNCHANGED boot /\ s \notin missed /\ confFor'[s] \in {confFor[s], boot[ACTIVE_MASTER]}
  BY <1>0, <1>2, WhileRunning
<1>4. CASE Beyond(s, 5)
  BY <1>3, <1>4 DEF Told
<1>5. CASE at = 5 /\ Job(s)
  BY <1>0, <1>2, <1>3, <1>5, JobGives
<1> QED
  BY <1>2, <1>4, <1>5

(* Lemma: it leaves the other data nodes alone. *)
LEMMA OtherNodes ==
  ASSUME TypeInv, NEW n \in Node, NEW g \in FileSystem, StartsDataNode(n, g),
         NEW f \in FileSystem, NEW s \in SLAVES, f # g \/ s # n
  PROVE  joined'[f][s] = joined[f][s]
  BY DataNodeStep

(* Lemma: a job that starts a data node on a slave that missed no job: the  *)
(* slave knows the master's address, and the file system was formatted.     *)
LEMMA DataNodeJob ==
  ASSUME TypeInv, Formatted, Told, [Next]_vars, NEW n \in Node, NEW f \in FileSystem,
         Job(n), StartsDataNode(n, f)
  PROVE  /\ Running /\ at = Start[f] /\ at' = at /\ ~UnderWay'
         /\ served[f] # None \/ name[f] = HalfFormatted
         /\ n \in SLAVES \ missed => confFor[n] = boot[ACTIVE_MASTER]
<1>1. Running /\ at = Start[f] /\ at' = at
  BY StartAt DEF StartsDataNode, Job
<1>2. at > Format[f] /\ at > 5 /\ at # 12
  BY <1>1, Order
<1>3. n \in SLAVES \ missed => Beyond(n, 5)
  BY <1>1, <1>2 DEF Beyond
<1>4. ~UnderWay'
  BY <1>1, <1>2 DEF UnderWay
<1> QED
  BY <1>1, <1>2, <1>3, <1>4 DEF Formatted, Told

(* Lemma: every step keeps the data nodes with the name nodes.             *)
LEMMA JoinedInductive ==
  ASSUME TypeInv, FormatsOnce, Ages, EphemeralOK, Formatted, Told, JoinedOK, [Next]_vars
  PROVE  JoinedOK'
<1> SUFFICES ASSUME NEW f \in FileSystem, NEW s \in SLAVES \ missed',
                    boot'[s] = boot'[ACTIVE_MASTER], joined'[f][s] # NoNode
             PROVE  /\ joined'[f][s] =
                         [namespace |-> served'[f], boot |-> boot'[ACTIVE_MASTER]]
                    /\ served'[f] = None => name'[f] = HalfFormatted /\ ~UnderWay'
  BY DEF JoinedOK, SameBoot
<1>0. /\ FileSystem = {"ephemeral", "persistent"} /\ s \in Node
      /\ None = 0 /\ HalfFormatted = -1
  BY Numbers DEF Node
<1>1. ASSUME UNCHANGED boot, s \notin missed, joined'[f][s] = joined[f][s]
      PROVE  /\ joined[f][s] = [namespace |-> served[f], boot |-> boot[ACTIVE_MASTER]]
             /\ served[f] = None => name[f] = HalfFormatted /\ ~UnderWay
  BY <1>1 DEF JoinedOK, SameBoot
<1>2. ASSUME NEW g \in FileSystem,
             (g = "ephemeral" /\ FormatEphemeral) \/ (g = "persistent" /\ FormatPersistent)
      PROVE  /\ joined'[f][s] =
                  [namespace |-> served'[f], boot |-> boot'[ACTIVE_MASTER]]
             /\ served'[f] = None => name'[f] = HalfFormatted /\ ~UnderWay'
  <2>1. UNCHANGED <<boot, joined, missed>> /\ at = Format[g] /\ at' = Start[g]
    BY <1>2, Formats
  <2>2. ~UnderWay'
    BY <2>1, Order DEF UnderWay
  <2>3. /\ joined[f][s] = [namespace |-> served[f], boot |-> boot[ACTIVE_MASTER]]
        /\ served[f] = None => name[f] = HalfFormatted /\ ~UnderWay
    BY <1>1, <2>1
  <2>4. CASE served[f] # None
    <3>1. served'[f] = served[f]
      <4>1. CASE f = g
        BY <1>2, <2>4, <4>1, Formats
      <4>2. CASE f # g
        BY <1>2, <4>2, Formats
      <4> QED
        BY <4>1, <4>2
    <3> QED
      BY <2>1, <2>3, <2>4, <3>1
  <2>5. CASE served[f] = None
    <3>1. name[f] = HalfFormatted /\ ~UnderWay /\ f = "persistent"
      BY <1>0, <2>3, <2>5 DEF EphemeralOK
    <3>2. name'[f] = name[f]
      <4>1. CASE f = g
        <5>1. jobs = {}
          BY <2>1, <3>1, <4>1, Numbers DEF UnderWay
        <5> QED
          BY <1>2, <3>1, <4>1, <5>1, Formats
      <4>2. CASE f # g
        BY <1>2, <4>2, Formats
      <4> QED
        BY <4>1, <4>2
    <3>3. served'[f] = served[f]
      <4>1. CASE f = g
        <5>1. ~(name'[f] > 0)
          BY <1>0, <3>1, <3>2
        <5> QED
          BY <1>2, <4>1, <5>1, Formats
      <4>2. CASE f # g
        BY <1>2, <4>2, Formats
      <4> QED
        BY <4>1, <4>2
    <3> QED
      BY <2>1, <2>2, <2>3, <3>1, <3>2, <3>3
  <2> QED
    BY <2>4, <2>5
<1>3. CASE BeginFormat
  <2>1. /\ UNCHANGED <<boot, joined, missed, served>> /\ name["persistent"] = None
        /\ name'["ephemeral"] = name["ephemeral"]
    BY <1>3, FormatBegins
  <2>2. /\ joined[f][s] = [namespace |-> served[f], boot |-> boot[ACTIVE_MASTER]]
        /\ served[f] = None => name[f] = HalfFormatted
    BY <1>1, <2>1
  <2>3. served[f] # None
    BY <1>0, <2>1, <2>2 DEF EphemeralOK
  <2> QED
    BY <2>1, <2>2, <2>3
<1>4. ASSUME Restart PROVE FALSE
  BY <1>4, Restarted DEF SameBoot
<1>5. CASE ~FormatEphemeral /\ ~FormatPersistent /\ ~BeginFormat /\ ~Restart
  <2>1. UNCHANGED <<name, served, boot>> /\ (UnderWay' => UnderWay)
    BY <1>5, Frame
  <2>2. s \notin missed
    BY <1>5, MissedGrows
  <2>3. CASE joined'[f][s] = joined[f][s]
    BY <1>1, <2>1, <2>2, <2>3
  <2>4. ASSUME NEW n \in Node, NEW g \in FileSystem, Job(n), StartsDataNode(n, g),
               joined'[f][s] # joined[f][s]
        PROVE  /\ joined'[f][s] = [namespace |-> served[f], boot |-> boot[ACTIVE_MASTER]]
               /\ served[f] = None => name[f] = HalfFormatted /\ ~UnderWay'
    <3>1. f = g /\ s = n
      <4> SUFFICES ASSUME f # g \/ s # n PROVE joined'[f][s] = joined[f][s]
        BY <2>4
      <4>1. StartsDataNode(n, g) /\ s \in SLAVES
        BY <2>4
      <4> QED
        BY <4>1, OtherNodes
    <3>2. confFor[s] = boot[ACTIVE_MASTER] /\ ~UnderWay'
          /\ (served[f] # None \/ name[f] = HalfFormatted)
      BY <2>2, <2>4, <3>1, DataNodeJob
    <3> QED
      BY <2>4, <3>1, <3>2, DataNodeStep
  <2> QED
    BY <1>5, <2>1, <2>3, <2>4, Frame
<1> QED
  BY <1>0, <1>2, <1>3, <1>4, <1>5

(* Lemma: every step keeps the data nodes that were started.               *)
LEMMA JoinsInductive ==
  ASSUME TypeInv, FormatsOnce, EphemeralOK, Formatted, Told, Joins, [Next]_vars
  PROVE  Joins'
<1> SUFFICES ASSUME NEW f \in FileSystem, NEW s \in SLAVES \ missed',
                    boot'[s] = boot'[ACTIVE_MASTER], (Beyond(s, Start[f]))'
             PROVE  joined'[f][s] # NoNode
  BY DEF Joins, SameBoot
<1>0. FileSystem = {"ephemeral", "persistent"} /\ s \in Node
  BY Numbers DEF Node
<1>1. Running /\ (Beyond(s, Start[f]) \/ (at = Start[f] /\ Job(s)))
  <2>1. PICK j \in (1..18) \ {2, 10, 12} : j = Start[f]
    BY Order
  <2>2. s \in Targets(Phases[j])
    BY <2>1, StartAt
  <2>3. (Beyond(s, j))'
    BY <2>1 DEF Beyond, Start
  <2>4. Running /\ (Beyond(s, j) \/ (at = j /\ Job(s)))
    BY <2>2, <2>3, BeyondBefore
  <2> QED
    BY <2>1, <2>4
<1>2. UNCHANGED boot /\ s \notin missed
  BY <1>1, WhileRunning
<1>3. ~Restart
  BY <1>1 DEF Restart, Reboot
<1>4. ASSUME joined[f][s] # NoNode PROVE joined'[f][s] # NoNode
  <2>1. CASE FormatEphemeral
    BY <1>0, <1>4, <2>1, Formats
  <2>2. CASE FormatPersistent
    BY <1>0, <1>4, <2>2, Formats
  <2>3. CASE BeginFormat
    BY <1>4, <2>3, FormatBegins
  <2>4. CASE ~FormatEphemeral /\ ~FormatPersistent /\ ~BeginFormat
    <3>1. CASE UNCHANGED joined
      BY <1>4, <3>1
    <3>2. ASSUME NEW n \in Node, NEW g \in FileSystem, StartsDataNode(n, g)
          PROVE  joined'[f][s] = joined[f][s]
      BY <1>4, <3>2, DataNodeStep
    <3> QED
      BY <1>3, <1>4, <2>4, <3>1, <3>2, Frame
  <2> QED
    BY <2>1, <2>2, <2>3, <2>4
<1>5. CASE Beyond(s, Start[f])
  BY <1>2, <1>4, <1>5 DEF Joins, SameBoot
<1>6. CASE at = Start[f] /\ Job(s) /\ joined[f][s] = NoNode
  <2>1. Phase = StartPhase[f]
    BY <1>1, <1>6, StartAt
  <2>2. answers[s]
    <3>1. s \notin ZOOS
      BY SetupAssumption
    <3> QED
      BY <1>6, <3>1 DEF Job
  <2>3. Phase \in {"start ephemeral", "start persistent"}
    BY <2>1, Numbers
  <2>4. /\ ~Delivers(s) /\ ~CannotPrepare(s) /\ ~StopsDaemon(s) /\ ~StartsDaemon(s)
        /\ ~StartsZooKeeper(s)
    BY <2>3 DEF Delivers, CannotPrepare, StopsDaemon, StartsDaemon, StartsZooKeeper, Item
  <2>5. PICK g \in FileSystem : StartsDataNode(s, g)
    BY <1>6, <2>2, <2>4 DEF Job
  <2>6. g = f
    BY <1>0, <2>1, <2>5, Numbers DEF StartsDataNode
  <2>7. confFor[s] = boot[ACTIVE_MASTER]
    BY <1>0, <1>2, <1>6, <2>5, DataNodeJob
  <2>8. data[f][s] \in {None, served[f]}
    <3>1. CASE f = "ephemeral"
      BY <1>2, <3>1 DEF EphemeralOK, SameBoot
    <3>2. CASE f = "persistent"
      <4>1. data[f][s] \in {None, name[f]} /\ served[f] \in {None, name[f]}
        BY <3>2 DEF FormatsOnce, BlocksBelong
      <4>2. served[f] # None \/ name[f] = HalfFormatted
        BY <1>0, <1>6, <2>5, <2>6, DataNodeJob
      <4>3. data[f][s] \in 0..round
        BY DEF TypeInv, NamespacesOK
      <4>4. data[f][s] # HalfFormatted
        BY <4>3, NoHalf, Zenon
      <4> QED
        BY <4>1, <4>2, <4>4
    <3> QED
      BY <1>0, <3>1, <3>2
  <2>9. joined'[f][s] = [namespace |-> served[f], boot |-> boot[ACTIVE_MASTER]]
    BY <1>0, <1>6, <2>5, <2>6, <2>7, <2>8, DataNodeStep
  <2>10. boot[ACTIVE_MASTER] # 0
    BY DEF TypeInv, NodesOK, Node, MASTERS
  <2> QED
    BY <2>9, <2>10 DEF NoNode
<1> QED
  BY <1>1, <1>4, <1>5, <1>6

(* Lemma: every step keeps the Mesos slaves that were started.             *)
LEMMA RunsInductive ==
  ASSUME TypeInv, LastJobs, Given, Runs, [Next]_vars
  PROVE  Runs'
<1> SUFFICES ASSUME NEW s \in SLAVES \ missed', (Beyond(s, 18))'
             PROVE  (Started(s))'
  BY DEF Runs
<1>0. s \in Node /\ s \notin ZOOS
  BY SetupAssumption DEF Node
<1>1. Running /\ (Beyond(s, 18) \/ (at = 18 /\ Job(s)))
  <2>1. s \in Targets(Phases[18])
    BY LastPhases, LastTargets
  <2>2. 18 \in (1..18) \ {2, 10, 12}
    BY Later, Zenon
  <2> QED
    BY <2>1, <2>2, BeyondBefore
<1>2. UNCHANGED round /\ s \notin missed
  BY <1>1, WhileRunning
<1>3. CASE Beyond(s, 18)
  <2>1. at = 18 /\ s \notin jobs
    <3>1. at \in 0..18 /\ (at > 18 \/ (at = 18 /\ s \notin jobs))
      BY <1>3 DEF Beyond, TypeInv, ControlOK
    <3> QED
      BY <3>1
  <2>2. daemons'[s] = daemons[s]
    BY <1>0, <1>1, <2>1, WhileRunning DEF Job
  <2>3. Started(s)
    BY <1>2, <1>3 DEF Runs
  <2> QED
    BY <1>2, <2>2, <2>3, StartedSame
<1>4. CASE at = 18 /\ Job(s)
  <2>1. Phase = "start slaves"
    BY <1>1, <1>4, LastPhases DEF Phase
  <2>2. Gets(s, "files") /\ Gets(s, "prepare") /\ "files" \in Gift /\ "prepare" \in Gift
    BY DEF Gets, Gift
  <2>3. Beyond(s, Giver["files"]) /\ Beyond(s, Giver["prepare"])
    <3>1. Giver["files"] = 3 /\ Giver["prepare"] = 4
      BY DEF Giver
    <3>2. at > Giver["files"] /\ at > Giver["prepare"]
      BY <1>4, <3>1, Order, Zenon
    <3> QED
      BY <1>1, <3>2 DEF Beyond
  <2>4. has[s]["files"] = round /\ has[s]["prepare"] = round
    BY <1>0, <1>2, <2>2, <2>3 DEF Given
  <2> QED
    BY <1>0, <1>1, <1>4, <2>1, <2>4, RoundIs, DaemonStarts
<1> QED
  BY <1>1, <1>3, <1>4

(* Lemma: all of it holds before the script has run. *)
LEMMA ServeInitial == Init => ServeInv
<1> SUFFICES ASSUME Init PROVE ServeInv
  OBVIOUS
<1>1. /\ at = 0 /\ ~Running /\ \A n \in Node : boot[n] = 1
      /\ \A f \in FileSystem : name[f] = None
      /\ \A f \in FileSystem : \A s \in SLAVES : data[f][s] = None /\ joined[f][s] = NoNode
  BY DEF Init, Running
<1>2. ACTIVE_MASTER \in Node /\ SLAVES \subseteq Node /\ "ephemeral" \in FileSystem
  BY DEF Node, MASTERS, FileSystem
<1>3. Ages
  BY <1>1, <1>2 DEF Ages
<1>4. EphemeralOK
  <2>1. \A s \in SLAVES : data["ephemeral"][s] = None
    BY <1>1, <1>2
  <2>2. name["ephemeral"] = None /\ None # HalfFormatted
    BY <1>1, <1>2, NoHalf, Zenon
  <2> QED
    BY <2>1, <2>2 DEF EphemeralOK
<1>5. Formatted
  BY <1>1, Order DEF Formatted
<1>6. Told /\ JoinedOK /\ Joins /\ Runs
  BY <1>1 DEF Told, JoinedOK, Joins, Runs, Beyond
<1> QED
  BY <1>3, <1>4, <1>5, <1>6 DEF ServeInv

(* Lemma: it always holds. *)
LEMMA ServeAlways == SafetySpec => [](FormatsOnce /\ ServeInv)
<1>1. Init => FormatsOnce
  <2> SUFFICES ASSUME Init PROVE FormatsOnce
    OBVIOUS
  <2>1. "persistent" \in FileSystem
    BY DEF FileSystem
  <2> QED
    BY <2>1 DEF Init, FormatsOnce, BlocksBelong, None
<1>2. TypeInv /\ EquipInv /\ FormatsOnce /\ ServeInv /\ [Next]_vars => (FormatsOnce /\ ServeInv)'
  <2> SUFFICES ASSUME TypeInv, EquipInv, FormatsOnce, ServeInv, [Next]_vars
               PROVE  FormatsOnce' /\ ServeInv'
    OBVIOUS
  <2>1. FormatsOnce'
    BY FormatsOnceInductive
  <2>2. Ages' /\ EphemeralOK'
    BY EphemeralInductive DEF ServeInv
  <2>3. Formatted'
    BY FormattedInductive DEF ServeInv
  <2>4. Told'
    BY ToldInductive DEF ServeInv, EquipInv
  <2>5. JoinedOK'
    BY JoinedInductive DEF ServeInv
  <2>6. Joins'
    BY JoinsInductive DEF ServeInv
  <2>7. Runs'
    BY RunsInductive DEF ServeInv, EquipInv, OneDaemon
  <2> QED
    BY <2>1, <2>2, <2>3, <2>4, <2>5, <2>6, <2>7 DEF ServeInv
<1> QED
  BY <1>1, <1>2, ServeInitial, TypeInvAlways, EquipAlways, PTL DEF SafetySpec

(* When setup ends, a slave that answered all its jobs since it was last    *)
(* started has a Mesos slave of this run; and if it was restarted as often  *)
(* as the master, a data node of both file systems that has joined the name *)
(* node that runs, unless a format was cut short.                           *)
THEOREM ReadyOnesServe == SafetySpec => []ReadySlavesServe
<1>1. TypeInv /\ FormatsOnce /\ ServeInv => ReadySlavesServe
  <2> SUFFICES ASSUME TypeInv, ServeInv, Complete, NEW s \in SLAVES \ missed
               PROVE  /\ Started(s)
                      /\ boot[s] = boot[ACTIVE_MASTER] =>
                           \A f \in FileSystem : name[f] # HalfFormatted =>
                             /\ served[f] # None
                             /\ joined[f][s] = [namespace |-> served[f],
                                                boot |-> boot[ACTIVE_MASTER]]
    BY DEF ReadySlavesServe
  <2>1. Phase = "start slaves" /\ jobs = {} /\ Running
    BY DEF Complete, Phase
  <2>2. at = 18
    <3>1. at \in {17, 18}
      BY <2>1, PlaceOf DEF TypeInv, ControlOK
    <3>2. at # 17
      BY <2>1, LastPhases DEF Phase
    <3> QED
      BY <3>1, <3>2
  <2>3. Started(s)
    <3>1. Beyond(s, 18)
      BY <2>1, <2>2 DEF Beyond
    <3> QED
      BY <3>1 DEF ServeInv, Runs
  <2>4. ASSUME SameBoot(s), NEW f \in FileSystem, name[f] # HalfFormatted
        PROVE  served[f] # None
               /\ joined[f][s] = [namespace |-> served[f], boot |-> boot[ACTIVE_MASTER]]
    <3>1. at > Format[f] /\ at > Start[f]
      BY <2>2, Order, Zenon
    <3>2. served[f] # None
      BY <2>4, <3>1 DEF ServeInv, Formatted
    <3>3. Beyond(s, Start[f])
      BY <2>1, <3>1 DEF Beyond
    <3>4. joined[f][s] # NoNode
      BY <2>4, <3>3 DEF ServeInv, Joins
    <3> QED
      BY <2>4, <3>2, <3>4 DEF ServeInv, JoinedOK
  <2> QED
    BY <2>3, <2>4 DEF SameBoot
<1> QED
  BY <1>1, TypeInvAlways, ServeAlways, PTL
=============================================================================
