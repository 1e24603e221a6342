-------------------------- MODULE AdmmDriver_proofs --------------------------
(***************************************************************************)
(* Proofs about AdmmDriver, for any functions whose commands are in the    *)
(* order of FunctionsAssumption and any number of calls, edits, launches   *)
(* and failures: a function that stops or destroys the cluster and returns *)
(* leaves nothing running, and what a function reads is its own result.    *)
(***************************************************************************)
EXTENDS AdmmDriver, FiniteSetTheorems, TLAPS

-----------------------------------------------------------------------------
(* What is left of a body is its end. *)

LEMMA SuffixFact ==
  ASSUME NEW S, NEW s \in Seq(S), NEW t \in Seq(S)
  PROVE  IsSuffix(s, t) <=> /\ Len(s) <= Len(t)
                            /\ \A i \in 1..Len(s) : s[i] = t[(Len(t) - Len(s)) + i]
<1> DEFINE m == Len(s)
           n == Len(t)
           rs == Reverse(s)
           rt == Reverse(t)
<1>1. m \in Nat /\ n \in Nat
  OBVIOUS
<1>2. /\ rs = [i \in 1..m |-> s[(m - i) + 1]] /\ rs \in Seq(S) /\ Len(rs) = m
      /\ rt = [i \in 1..n |-> t[(n - i) + 1]] /\ rt \in Seq(S) /\ Len(rt) = n
  BY <1>1 DEF Reverse
<1>3. ASSUME m <= n
      PROVE  SubSeq(rs, 1, m) = SubSeq(rt, 1, m) <=> \A i \in 1..m : s[i] = t[(n - m) + i]
  <2>1. SubSeq(rs, 1, m) = [i \in 1..m |-> s[(m - i) + 1]]
    BY <1>1, <1>2
  <2>2. SubSeq(rt, 1, m) = [i \in 1..m |-> t[(n - i) + 1]]
    BY <1>1, <1>2, <1>3
  <2>3. SubSeq(rs, 1, m) = SubSeq(rt, 1, m)
          <=> \A i \in 1..m : s[(m - i) + 1] = t[(n - i) + 1]
    BY <2>1, <2>2
  <2>4. ASSUME \A i \in 1..m : s[(m - i) + 1] = t[(n - i) + 1], NEW i \in 1..m
        PROVE  s[i] = t[(n - m) + i]
    <3>1. (m - i) + 1 \in 1..m /\ (m - ((m - i) + 1)) + 1 = i
          /\ (n - ((m - i) + 1)) + 1 = (n - m) + i
      BY <1>1
    <3> QED  BY <2>4, <3>1
  <2>5. ASSUME \A i \in 1..m : s[i] = t[(n - m) + i], NEW i \in 1..m
        PROVE  s[(m - i) + 1] = t[(n - i) + 1]
    <3>1. (m - i) + 1 \in 1..m /\ (n - m) + ((m - i) + 1) = (n - i) + 1
      BY <1>1
    <3> QED  BY <2>5, <3>1
  <2> QED  BY <2>3, <2>4, <2>5
<1> QED  BY <1>2, <1>3 DEF IsSuffix, IsPrefix

LEMMA EmptySuffix ==
  ASSUME NEW S, NEW t \in Seq(S)
  PROVE  IsSuffix(<<>>, t)
<1>1. PICK e \in Seq(S) : e = <<>> /\ Len(e) = 0
  <2>1. <<>> \in Seq(S)
    OBVIOUS
  <2>2. Len(<<>>) = 0
    OBVIOUS
  <2> QED  BY <2>1, <2>2, Zenon
<1>2. Len(e) <= Len(t) /\ \A i \in 1..Len(e) : e[i] = t[(Len(t) - Len(e)) + i]
  BY <1>1
<1>3. IsSuffix(e, t)
  BY <1>2, SuffixFact
<1> QED  BY <1>1, <1>3

(* The place of the commands that were done.                               *)
Place == Len(body) - Len(todo)

LEMMA SuffixHead ==
  ASSUME NEW S, NEW s \in Seq(S), NEW t \in Seq(S), s # <<>>, IsSuffix(s, t)
  PROVE  /\ (Len(t) - Len(s)) + 1 \in 1..Len(t)
         /\ Head(s) = t[(Len(t) - Len(s)) + 1]
         /\ IsSuffix(Tail(s), t) /\ Len(Tail(s)) = Len(s) - 1 /\ Tail(s) \in Seq(S)
<1>1. Len(s) \in Nat \ {0} /\ Len(t) \in Nat /\ Len(s) <= Len(t)
      /\ \A i \in 1..Len(s) : s[i] = t[(Len(t) - Len(s)) + i]
  BY SuffixFact
<1>2. Head(s) = s[1] /\ Len(Tail(s)) = Len(s) - 1 /\ Tail(s) \in Seq(S)
      /\ \A i \in 1..Len(Tail(s)) : Tail(s)[i] = s[i + 1]
  BY <1>1
<1>3. ASSUME NEW i \in 1..Len(Tail(s))
      PROVE  Tail(s)[i] = t[(Len(t) - Len(Tail(s))) + i]
  <2>1. i + 1 \in 1..Len(s) /\ (Len(t) - Len(s)) + (i + 1) = (Len(t) - (Len(s) - 1)) + i
    BY <1>1, <1>2
  <2> QED  BY <1>1, <1>2, <2>1
<1>4. IsSuffix(Tail(s), t)
  <2>1. PICK u : u = Tail(s)
    OBVIOUS
  <2>2. u \in Seq(S) /\ Len(u) <= Len(t)
        /\ \A i \in 1..Len(u) : u[i] = t[(Len(t) - Len(u)) + i]
    BY <1>1, <1>2, <1>3, <2>1
  <2>3. IsSuffix(u, t)
    BY <2>2, SuffixFact
  <2> QED  BY <2>1, <2>3
<1> QED  BY <1>1, <1>2, <1>4

-----------------------------------------------------------------------------
(* The variables have their types: what is left of the body is of commands, *)
(* too.                                                                    *)
TypeInv == TypeOK /\ todo \in Seq(Command) /\ body \in Seq(Command)
Control ==
  /\ calls \in 0..MaxCalls /\ outcome \in {"none", "running", "returned", "raised"}
  /\ IsSuffix(todo, body) /\ (Running <=> todo # <<>>) /\ (body = <<>> \/ body \in Functions)
  /\ todo \in Seq(Command) /\ body \in Seq(Command)

LEMMA TypeInit == Init => TypeInv
<1> SUFFICES ASSUME Init PROVE TypeInv
  OBVIOUS
<1> USE DriverAssumption
<1>1. IsSuffix(todo, body) /\ todo \in Seq(Command) /\ body \in Seq(Command)
  <2>1. <<>> \in Seq(Command) /\ Len(<<>>) = 0
    OBVIOUS
  <2>2. IsSuffix(<<>>, <<>>)
    BY <2>1, EmptySuffix
  <2> QED  BY <2>1, <2>2 DEF Init
<1>2. NoOutput \in Output
  BY DEF NoOutput, Output
<1>3. /\ remote \in [Host -> [code : 0..MaxEdits, hdfs : [Name -> Url \cup {"none"}], out : Output]]
      /\ files \in [File -> Output] /\ result \in Output
  BY <1>2 DEF Init
<1>4. host \in Host /\ began \in 0..target /\ target \in 1..MaxEdits /\ faults \in 0..MaxFaults
  BY DEF Init, Host
<1> QED  BY <1>1, <1>3, <1>4 DEF Init, TypeInv, TypeOK, Running

(* The end of a command: the function raises or goes on behind it.         *)
Ended ==
  /\ calls' = calls /\ body' = body
  /\ \/ outcome' = "raised" /\ todo' = <<>>
     \/ outcome' = (IF Len(todo) = 1 THEN "returned" ELSE outcome) /\ todo' = Tail(todo)

LEMMA EndedFact ==
  ASSUME TypeInv, Running, Ended
  PROVE  /\ Control'
         /\ Place \in Nat /\ Place + 1 \in DOMAIN body /\ Head(todo) = body[Place + 1]
         /\ outcome' # "raised" => Place' = Place + 1
<1>1. todo \in Seq(Command) /\ body \in Seq(Command) /\ todo # <<>> /\ IsSuffix(todo, body)
  BY DEF TypeInv, TypeOK
<1>2. /\ Place + 1 \in 1..Len(body) /\ Head(todo) = body[Place + 1]
      /\ IsSuffix(Tail(todo), body) /\ Len(Tail(todo)) = Len(todo) - 1
      /\ Tail(todo) \in Seq(Command)
  BY <1>1, SuffixHead DEF Place
<1>3. IsSuffix(<<>>, body) /\ <<>> \in Seq(Command)
  <2>1. <<>> \in Seq(Command)
    OBVIOUS
  <2> QED  BY <1>1, <2>1, EmptySuffix
<1>4. Len(todo) \in Nat \ {0} /\ Len(body) \in Nat /\ Len(todo) <= Len(body)
  BY <1>1, SuffixFact
<1>5. CASE outcome' = "raised" /\ todo' = <<>>
  <2>1. IsSuffix(todo, body)' /\ todo' \in Seq(Command) /\ body' \in Seq(Command)
    BY <1>1, <1>3, <1>5 DEF Ended
  <2> QED  BY <1>1, <1>2, <1>4, <1>5, <2>1 DEF Ended, TypeInv, TypeOK, Running, Place, Control
<1>6. CASE outcome' = (IF Len(todo) = 1 THEN "returned" ELSE outcome) /\ todo' = Tail(todo)
  <2>1. IsSuffix(todo, body)' /\ todo' \in Seq(Command) /\ body' \in Seq(Command)
    BY <1>1, <1>2, <1>6 DEF Ended
  <2>2. Len(todo') = Len(todo) - 1
    BY <1>2, <1>6
  <2>3. todo' # <<>> <=> Len(todo) # 1
    <3>1. PICK rest \in Seq(Command) : rest = todo'
      BY <2>1
    <3>2. rest # <<>> <=> Len(rest) # 0
      OBVIOUS
    <3>3. Len(rest) = Len(todo) - 1
      BY <2>2, <3>1
    <3>4. rest # <<>> <=> Len(todo) # 1
      BY <1>4, <3>2, <3>3
    <3> QED  BY <3>1, <3>4, Zenon
  <2>4. Place' = Place + 1
    BY <1>4, <2>2 DEF Place, Ended
  <2> QED  BY <1>1, <1>2, <1>4, <1>6, <2>1, <2>3, <2>4 DEF Ended, TypeInv, TypeOK, Running, Place, Control
<1> QED  BY <1>5, <1>6 DEF Ended

-----------------------------------------------------------------------------
(* What the commands have in common. *)

LEMMA CommandFact ==
  ASSUME NEW c \in Command
  PROVE  /\ c.op = "store_hdfs" => c.url \in Url /\ c.name \in Name
         /\ c.op \in {"fetch", "get_stat", "launch_local"} => c.file \in File
         /\ c.op = "run_spark" => c.reads \subseteq Name
BY DEF Command, Power, Syncs

LEMMA HeadFact ==
  ASSUME TypeInv, Running
  PROVE  Head(todo) \in Command
BY SuffixHead DEF TypeInv, TypeOK

LEMMA AddressFact ==
  ASSUME TypeInv, NEW a \in Addresses
  PROVE  /\ a \in {NoAddress} \cup (Host \X Nat)
         /\ Reached(a) => a # NoAddress /\ a \in Host \X Nat /\ a[1] \in Host
<1>1. Found \subseteq Host \X Nat
  <2>1. <<host, starts>> \in Host \X Nat
    BY DEF TypeInv, TypeOK
  <2>2. <<Other, 1>> \in Host \X Nat
    BY DriverAssumption DEF Other, Host
  <2> QED  BY <2>1, <2>2 DEF Found
<1>2. address \in {NoAddress} \cup (Host \X Nat)
  BY DEF TypeInv, TypeOK
<1>3. Reached(a) => a # NoAddress /\ a \in Host \X Nat
  BY <1>1 DEF Reached
<1> QED  BY <1>1, <1>2, <1>3 DEF Addresses

(* A step that leaves the cloud, the masters and the laptop as they are.   *)
Rest == <<host, state, starts, remote, target, files, result, began>>
LEMMA TypeKept ==
  ASSUME TypeInv, Running, Ended, UNCHANGED Rest,
         address' \in {NoAddress} \cup (Host \X Nat), faults' \in 0..MaxFaults
  PROVE  TypeInv'
<1>1. Control'
  BY EndedFact
<1> QED  BY <1>1 DEF Control, TypeInv, TypeOK, Rest

LEMMA TryFact ==
  ASSUME NEW ok \in BOOLEAN, NEW could \in BOOLEAN, Try(ok, could), faults \in 0..MaxFaults
  PROVE  (ok => could) /\ faults' \in 0..MaxFaults
BY DriverAssumption DEF Try

(* A command line: the function goes on only when its last command worked, *)
(* and what failed before is noted.                                        *)
LEMMA RunCmdFact ==
  ASSUME TypeInv, Running, NEW n \in Nat \ {0}, NEW cmds, DOMAIN cmds = 1..n, Len(cmds) = n,
         NEW a \in Addresses, NEW works \in [DOMAIN cmds -> BOOLEAN], NEW refused,
         run_cmd(cmds, a, works, refused), body' = body
  PROVE  /\ Ended /\ faults' \in 0..MaxFaults
         /\ masked \subseteq masked'
         /\ \A i \in 1..n : (~works[i] /\ i # n) \/ i \in refused => cmds[i] \in masked'
         /\ outcome' # "raised" => Reached(a) /\ works[n]
<1> DEFINE fails == {k \in 1..n : ~works[k]}
<1>1. IsFiniteSet(fails) /\ Cardinality(fails) \in Nat
  <2>1. IsFiniteSet(1..n)
    BY FS_Interval
  <2> QED  BY <2>1, FS_Subset, FS_CardinalityType
<1>2. /\ IF Reached(a) THEN faults + Cardinality(fails) <= MaxFaults
                            /\ faults' = faults + Cardinality(fails)
         ELSE fails = 1..n /\ UNCHANGED faults
      /\ Done(a # NoAddress /\ works[n])
      /\ masked' = masked \cup {cmds[i] : i \in (fails \ {n}) \cup refused}
  BY DEF run_cmd
<1> HIDE DEF fails
<1>3. faults' \in 0..MaxFaults
  BY <1>1, <1>2, DriverAssumption DEF TypeInv, TypeOK
<1>4. Ended
  BY <1>2 DEF Done, Raises, Ended
<1>5. outcome' # "raised" => works[n]
  BY <1>2 DEF Done, Raises
<1>6. works[n] => Reached(a)
  BY <1>2 DEF fails
<1> QED  BY <1>2, <1>3, <1>4, <1>5, <1>6 DEF fails

-----------------------------------------------------------------------------
(* Each command keeps the types. *)

LEMMA MesosTypes == ASSUME TypeInv, NEW op \in Power, MesosEc2(op) PROVE TypeInv'
<1>1. PICK ok \in BOOLEAN, works \in BOOLEAN :
        /\ Try(ok, IF op = "launch_cluster" THEN state = "none" /\ host < MaxLaunches
                   ELSE state # "none")
        /\ works => IF op = "launch_cluster" THEN state = "none" /\ host < MaxLaunches
                    ELSE state # "none"
        /\ Done(ok)
        /\ host' = IF works /\ op = "launch_cluster" THEN host + 1 ELSE host
        /\ state' = IF ~works THEN state
                    ELSE CASE op \in {"launch_cluster", "start_cluster"} -> "running"
                           [] op = "stop_cluster" -> "stopped"
                           [] op = "destroy_cluster" -> "none"
        /\ starts' = CASE ~works -> starts
                       [] works /\ op = "launch_cluster" -> 1
                       [] works /\ op = "start_cluster" /\ state = "stopped" -> starts + 1
                       [] OTHER -> starts
  BY DEF MesosEc2
<1>2. Running /\ UNCHANGED <<address, remote, laptop, result, history>>
  BY DEF MesosEc2, Op
<1>3. Ended
  BY <1>1, <1>2 DEF Done, Raises, Ended, history
<1>4. faults' \in 0..MaxFaults
  <2>1. PICK could \in BOOLEAN : Try(ok, could)
    BY <1>1
  <2> QED  BY <2>1, TryFact DEF TypeInv, TypeOK
<1>5. /\ host \in Host /\ state \in {"none", "running", "stopped"} /\ starts \in Nat
      /\ state # "none" => host # 0 /\ starts # 0
  BY DEF TypeInv, TypeOK
<1>6. host' \in Host
  BY <1>1, <1>5, DriverAssumption DEF Host
<1>7. state' \in {"none", "running", "stopped"} /\ starts' \in Nat
  BY <1>1, <1>5 DEF Power
<1>8. state' # "none" => host' # 0 /\ starts' # 0
  BY <1>1, <1>5 DEF Power, Host
<1>9. Control'
  BY <1>2, <1>3, EndedFact
<1> QED  BY <1>2, <1>4, <1>6, <1>7, <1>8, <1>9 DEF Control, TypeInv, TypeOK, laptop, history

LEMMA SyncTypes ==
  ASSUME TypeInv, NEW op, NEW cmds, NEW n \in Nat \ {0}, DOMAIN cmds = 1..n, Len(cmds) = n,
         Sync(op, cmds)
  PROVE  TypeInv'
<1>1. PICK a \in Addresses, works \in [DOMAIN cmds -> BOOLEAN] :
        /\ address' = a /\ run_cmd(cmds, a, works, {})
        /\ remote' = IF Reached(a) /\ works[1]
                     THEN [remote EXCEPT ![a[1]].code = target] ELSE remote
  BY DEF Sync
<1>2. Running /\ UNCHANGED <<cloud, laptop, result, body, began>>
  BY DEF Sync, Op
<1>3. Ended /\ faults' \in 0..MaxFaults
  BY <1>1, <1>2, RunCmdFact
<1>4. address' \in {NoAddress} \cup (Host \X Nat) /\ (Reached(a) => a[1] \in Host)
  BY <1>1, AddressFact
<1>5. remote' \in [Host -> [code : 0..MaxEdits, hdfs : [Name -> Url \cup {"none"}], out : Output]]
  <2> DEFINE Record == [code : 0..MaxEdits, hdfs : [Name -> Url \cup {"none"}], out : Output]
  <2>1. remote \in [Host -> Record] /\ target \in 0..MaxEdits
    BY DriverAssumption DEF TypeInv, TypeOK
  <2>2. ASSUME NEW r \in Record PROVE [r EXCEPT !.code = target] \in Record
    BY <2>1
  <2>3. Reached(a) => [remote EXCEPT ![a[1]].code = target] \in [Host -> Record]
    BY <1>4, <2>1, <2>2
  <2> QED  BY <1>1, <2>1, <2>3
<1>6. Control'
  BY <1>2, <1>3, EndedFact
<1> QED  BY <1>2, <1>3, <1>4, <1>5, <1>6 DEF Control, TypeInv, TypeOK, cloud, laptop

LEMMA CodeSyncTypes == ASSUME TypeInv, code_sync \/ init_sync PROVE TypeInv'
<1>1. CASE code_sync
  <2>1. PICK cmds : cmds = <<"sync_target", "copy_dir">>
    OBVIOUS
  <2>2. DOMAIN cmds = 1..2 /\ Len(cmds) = 2 /\ 2 \in Nat \ {0}
    BY <2>1
  <2>3. Sync("code_sync", cmds)
    BY <1>1, <2>1 DEF code_sync
  <2> QED  BY <2>2, <2>3, SyncTypes
<1>2. CASE init_sync
  <2>1. PICK cmds : cmds = <<"sync_target", "sync_jars", "copy_dir">>
    OBVIOUS
  <2>2. DOMAIN cmds = 1..3 /\ Len(cmds) = 3 /\ 3 \in Nat \ {0}
    BY <2>1
  <2>3. Sync("init_sync", cmds)
    BY <1>2, <2>1 DEF init_sync
  <2> QED  BY <2>2, <2>3, SyncTypes
<1> QED  BY <1>1, <1>2

LEMMA StoreTypes == ASSUME TypeInv, Store PROVE TypeInv'
<1>1. PICK a \in Addresses, works \in [1..2 -> BOOLEAN], refused \in {{}, {1}} :
        /\ address' = a /\ run_cmd(<<"put", "rm">>, a, works, refused)
        /\ remote' = IF Reached(a) /\ works[1] /\ remote[a[1]].hdfs[Head(todo).name] = "none"
                     THEN [remote EXCEPT ![a[1]].hdfs[Head(todo).name] = Head(todo).url]
                     ELSE remote
  BY DEF Store
<1>2. /\ Running /\ UNCHANGED <<cloud, laptop, result, body, began>>
      /\ Head(todo).op = "store_hdfs"
  BY DEF Store, Op
<1>3. Ended /\ faults' \in 0..MaxFaults
  <2>1. PICK cmds : cmds = <<"put", "rm">>
    OBVIOUS
  <2>2. DOMAIN cmds = 1..2 /\ Len(cmds) = 2 /\ 2 \in Nat \ {0}
    BY <2>1
  <2>3. run_cmd(cmds, a, works, refused) /\ works \in [DOMAIN cmds -> BOOLEAN]
    BY <1>1, <2>1, <2>2
  <2> QED  BY <1>2, <2>2, <2>3, RunCmdFact
<1>4. address' \in {NoAddress} \cup (Host \X Nat) /\ (Reached(a) => a[1] \in Host)
  BY <1>1, AddressFact
<1>5. Head(todo).url \in Url /\ Head(todo).name \in Name
  BY <1>2, HeadFact, CommandFact
<1>6. remote' \in [Host -> [code : 0..MaxEdits, hdfs : [Name -> Url \cup {"none"}], out : Output]]
  BY <1>1, <1>4, <1>5 DEF TypeInv, TypeOK
<1>7. Control'
  BY <1>2, <1>3, EndedFact
<1> QED  BY <1>2, <1>3, <1>4, <1>6, <1>7 DEF Control, TypeInv, TypeOK, cloud, laptop

LEMMA RunTypes == ASSUME TypeInv, Run PROVE TypeInv'
<1>1. PICK a \in Addresses, ok \in BOOLEAN :
        LET there == remote[a[1]]
            data == {there.hdfs[name] : name \in Head(todo).reads}
        IN  /\ address' = a
            /\ Try(ok, Reached(a) /\ there.code # 0 /\ "none" \notin data) /\ Done(ok)
            /\ remote' = IF ok THEN [remote EXCEPT ![a[1]].out =
                           [call |-> calls, code |-> there.code, data |-> data]] ELSE remote
  BY DEF Run
<1>2. /\ Running /\ UNCHANGED <<cloud, laptop, result, history>>
      /\ Head(todo).op = "run_spark"
  BY DEF Run, Op
<1>3. Ended
  BY <1>1, <1>2 DEF Done, Raises, Ended, history
<1> DEFINE data == {remote[a[1]].hdfs[name] : name \in Head(todo).reads}
           could == Reached(a) /\ remote[a[1]].code # 0 /\ "none" \notin data
<1>4. (ok => could) /\ faults' \in 0..MaxFaults
  <2>1. Try(ok, could) /\ could \in BOOLEAN
    BY <1>1
  <2> QED  BY <2>1, TryFact DEF TypeInv, TypeOK
<1>5. address' \in {NoAddress} \cup (Host \X Nat) /\ (Reached(a) => a[1] \in Host)
  BY <1>1, AddressFact
<1>6. ok => [call |-> calls, code |-> remote[a[1]].code, data |-> data] \in Output
  <2>1. Head(todo).reads \subseteq Name
    BY <1>2, HeadFact, CommandFact
  <2>2. ok => remote[a[1]].code \in 0..MaxEdits /\ data \subseteq Url
    BY <1>4, <1>5, <2>1 DEF TypeInv, TypeOK
  <2> QED  BY <2>2 DEF Output, TypeInv, TypeOK
<1>7. remote' \in [Host -> [code : 0..MaxEdits, hdfs : [Name -> Url \cup {"none"}], out : Output]]
  BY <1>1, <1>4, <1>5, <1>6 DEF TypeInv, TypeOK
<1>8. Control'
  BY <1>2, <1>3, EndedFact DEF history
<1> QED  BY <1>2, <1>4, <1>5, <1>7, <1>8 DEF Control, TypeInv, TypeOK, cloud, laptop, history

LEMMA FetchTypes == ASSUME TypeInv, Fetch PROVE TypeInv'
<1>1. PICK a \in Addresses, ok \in BOOLEAN :
        /\ address' = a
        /\ Try(ok, Reached(a) /\ remote[a[1]].out # NoOutput) /\ Done(ok)
        /\ files' = IF ok THEN [files EXCEPT ![Head(todo).file] = remote[a[1]].out] ELSE files
  BY DEF Fetch
<1>2. /\ Running /\ UNCHANGED <<cloud, remote, target, result, history>>
      /\ Head(todo).op = "fetch"
  BY DEF Fetch, Op
<1>3. Ended
  BY <1>1, <1>2 DEF Done, Raises, Ended, history
<1> DEFINE could == Reached(a) /\ remote[a[1]].out # NoOutput
<1>4. (ok => could) /\ faults' \in 0..MaxFaults
  <2>1. Try(ok, could) /\ could \in BOOLEAN
    BY <1>1
  <2> QED  BY <2>1, TryFact DEF TypeInv, TypeOK
<1>5. address' \in {NoAddress} \cup (Host \X Nat) /\ (Reached(a) => a[1] \in Host)
  BY <1>1, AddressFact
<1>6. files' \in [File -> Output]
  <2>1. Head(todo).file \in File
    BY <1>2, HeadFact, CommandFact
  <2> QED  BY <1>1, <1>4, <1>5, <2>1 DEF TypeInv, TypeOK
<1>7. Control'
  BY <1>2, <1>3, EndedFact DEF history
<1> QED  BY <1>2, <1>4, <1>5, <1>6, <1>7 DEF Control, TypeInv, TypeOK, cloud, history

LEMMA LaunchLocalTypes == ASSUME TypeInv, LaunchLocal PROVE TypeInv'
<1>1. /\ Running /\ UNCHANGED <<address, cloud, remote, target, result, body, began>>
      /\ Head(todo).op = "launch_local"
  BY DEF LaunchLocal, Op
<1>2. Ended
  BY <1>1 DEF LaunchLocal, Done, Raises, Ended
<1>3. faults' \in 0..MaxFaults
  BY DriverAssumption DEF LaunchLocal, TypeInv, TypeOK
<1>4. files' \in [File -> Output]
  <2>1. Head(todo).file \in File
    BY <1>1, HeadFact, CommandFact
  <2>2. [call |-> calls, code |-> target, data |-> {"local"}] \in Output
    BY DriverAssumption DEF Output, TypeInv, TypeOK
  <2> QED  BY <2>1, <2>2 DEF LaunchLocal, TypeInv, TypeOK
<1>5. Control'
  BY <1>1, <1>2, EndedFact
<1> QED  BY <1>1, <1>3, <1>4, <1>5 DEF Control, TypeInv, TypeOK, cloud

LEMMA ReadTypes == ASSUME TypeInv, Read PROVE TypeInv'
<1> DEFINE out == files[Head(todo).file]
<1>1. /\ Running /\ UNCHANGED <<address, cloud, remote, laptop, history, faults>>
      /\ Head(todo).op = "get_stat"
      /\ Done(out # NoOutput) /\ result' = IF out # NoOutput THEN out ELSE result
  BY DEF Read, Op
<1>2. Ended
  BY <1>1 DEF Done, Raises, Ended, history
<1>3. result' \in Output
  <2>1. Head(todo).file \in File
    BY <1>1, HeadFact, CommandFact
  <2> QED  BY <1>1, <2>1 DEF TypeInv, TypeOK
<1>4. Control'
  BY <1>1, <1>2, EndedFact DEF history
<1> QED  BY <1>1, <1>3, <1>4 DEF Control, TypeInv, TypeOK, cloud, laptop, history

LEMMA CallTypes == ASSUME TypeInv, NEW b \in Functions, Call(b) PROVE TypeInv'
<1>1. b \in Seq(Command) /\ b # <<>>
  BY FunctionsAssumption
<1>2. IsSuffix(b, b)
  <2>1. (Len(b) - Len(b)) = 0 /\ Len(b) \in Nat
    BY <1>1
  <2>2. \A i \in 1..Len(b) : b[i] = b[(Len(b) - Len(b)) + i]
    BY <2>1
  <2> QED  BY <1>1, <2>1, <2>2, SuffixFact
<1>3. /\ calls < MaxCalls /\ calls' = calls + 1 /\ todo' = b /\ outcome' = "running"
      /\ body' = b /\ began' = target
      /\ UNCHANGED <<address, cloud, remote, laptop, result, faults>>
  BY DEF Call
<1>4. Control'
  <2>1. IsSuffix(todo, body)'
    BY <1>2, <1>3
  <2> QED  BY <1>1, <1>3, <2>1, DriverAssumption DEF Control, Running, TypeInv, TypeOK
<1> QED  BY <1>3, <1>4, DriverAssumption DEF Control, TypeInv, TypeOK, cloud, laptop

(* Between two commands: another process, or another version of the code.  *)
LEMMA BetweenTypes == ASSUME TypeInv, NewProcess \/ Compile PROVE TypeInv'
<1>1. UNCHANGED <<calls, todo, outcome, host, state, starts, remote, files, result, body, began, faults>>
  BY DEF NewProcess, Compile, cloud, laptop, history
<1>2. IsSuffix(todo, body)'
  BY <1>1 DEF TypeInv, TypeOK
<1>3. address' \in {NoAddress} \cup (Host \X Nat)
  BY DEF NewProcess, Compile, TypeInv, TypeOK
<1>4. target' \in 1..MaxEdits /\ began' \in 0..target'
  BY DriverAssumption DEF NewProcess, Compile, TypeInv, TypeOK, laptop, history
<1> QED  BY <1>1, <1>2, <1>3, <1>4 DEF TypeInv, TypeOK, Running

LEMMA DeclineTypes == ASSUME TypeInv, DeclineStop PROVE TypeInv'
<1>1. /\ Running /\ UNCHANGED Rest /\ body' = body /\ address' = address
      /\ faults' \in 0..MaxFaults
  BY DriverAssumption DEF DeclineStop, Op, cloud, laptop, Rest, TypeInv, TypeOK
<1>2. Ended
  BY <1>1 DEF DeclineStop, Done, Raises, Ended
<1> QED  BY <1>1, <1>2, TypeKept DEF TypeInv, TypeOK

LEMMA MasterTypes == ASSUME TypeInv, make_master PROVE TypeInv'
<1>1. PICK a \in Addresses : address' = a /\ Done(a # NoAddress)
  BY DEF make_master
<1>2. /\ Running /\ UNCHANGED Rest /\ body' = body /\ faults' = faults
  BY DEF make_master, Op, cloud, laptop, Rest, history
<1>3. Ended
  BY <1>1, <1>2 DEF Done, Raises, Ended
<1>4. address' \in {NoAddress} \cup (Host \X Nat)
  BY <1>1, AddressFact
<1> QED  BY <1>2, <1>3, <1>4, TypeKept DEF TypeInv, TypeOK

LEMMA TypeStep == ASSUME TypeInv, [Next]_vars PROVE TypeInv'
<1>1. ASSUME NEW b \in Functions, Call(b) PROVE TypeInv'
  BY <1>1, CallTypes
<1>2. CASE NewProcess \/ Compile
  BY <1>2, BetweenTypes
<1>3. ASSUME NEW op \in Power, MesosEc2(op) PROVE TypeInv'
  BY <1>3, MesosTypes
<1>4. CASE DeclineStop
  BY <1>4, DeclineTypes
<1>5. CASE make_master
  BY <1>5, MasterTypes
<1>6. CASE code_sync \/ init_sync
  BY <1>6, CodeSyncTypes
<1>7. CASE Store
  BY <1>7, StoreTypes
<1>8. CASE Run
  BY <1>8, RunTypes
<1>9. CASE Fetch
  BY <1>9, FetchTypes
<1>10. CASE LaunchLocal
  BY <1>10, LaunchLocalTypes
<1>11. CASE Read
  BY <1>11, ReadTypes
<1>12. CASE UNCHANGED vars
  <2>1. IsSuffix(todo, body)'
    BY <1>12 DEF vars, history, TypeInv, TypeOK
  <2> QED  BY <1>12, <2>1 DEF vars, cloud, laptop, history, TypeInv, TypeOK, Running
<1> QED
  BY <1>1, <1>2, <1>3, <1>4, <1>5, <1>6, <1>7, <1>8, <1>9, <1>10, <1>11, <1>12 DEF Next

LEMMA TypeCorrect == Spec => []TypeInv
BY TypeInit, TypeStep, PTL DEF Spec

(* Every variable has its type, and what is left to do is the end of the    *)
(* body of the function that was called last.                              *)
THEOREM TypesOk == Spec => []TypeOK
<1>1. TypeInv => TypeOK
  BY DEF TypeInv
<1> QED  BY <1>1, TypeCorrect, PTL

-----------------------------------------------------------------------------
(* The cluster a function has stopped or destroyed. *)

Live == outcome \in {"running", "returned"}
Stopping == {"stop_cluster", "destroy_cluster"}

(* Until a later command of the function starts it again, the cluster that *)
(* was stopped or destroyed last does not run.                             *)
StaysOff ==
  Live => \A i \in At(body, Stopping) :
    Latest(i, At(body, Power), Place + 1) => state # "running" \/ "stop_cluster" \in masked

(* The last place before the next one is this one, or is the last before   *)
(* this one.                                                               *)
LEMMA LatestFact ==
  ASSUME NEW p \in Nat, NEW places \in SUBSET Nat, NEW i, Latest(i, places, (p + 1) + 1)
  PROVE  i = p + 1 \/ (p + 1 \notin places /\ Latest(i, places, p + 1))
BY DEF Latest

LEMMA PlaceFact ==
  ASSUME TypeInv
  PROVE  /\ Place \in Nat /\ Place <= Len(body)
         /\ \A ops : At(body, ops) \in SUBSET Nat /\ At(body, ops) \subseteq 1..Len(body)
<1>1. Len(todo) <= Len(body) /\ Len(todo) \in Nat /\ Len(body) \in Nat /\ DOMAIN body = 1..Len(body)
  BY SuffixFact DEF TypeInv, TypeOK
<1>2. Place \in Nat /\ Place <= Len(body)
  BY <1>1 DEF Place
<1>3. \A ops : At(body, ops) \subseteq 1..Len(body)
  BY <1>1 DEF At
<1> QED  BY <1>1, <1>2, <1>3

LEMMA AtFact ==
  ASSUME TypeInv, Running, Ended
  PROVE  \A ops : Place + 1 \in At(body, ops) <=> Head(todo).op \in ops
BY EndedFact DEF At

LEMMA OffNext ==
  ASSUME TypeInv, StaysOff, Running, Ended, masked \subseteq masked',
         outcome' # "raised" =>
           \/ Head(todo).op \notin Power /\ state' = state
           \/ Head(todo).op \in Power \ Stopping
           \/ state' # "running" \/ "stop_cluster" \in masked'
  PROVE  StaysOff'
<1>1. SUFFICES ASSUME Live', NEW i \in At(body, Stopping)',
                      Latest(i, At(body, Power), Place + 1)'
               PROVE  state' # "running" \/ "stop_cluster" \in masked'
  BY DEF StaysOff
<1>2. outcome' # "raised" /\ body' = body
  BY <1>1 DEF Live, Ended
<1>3. Place' = Place + 1 /\ Place \in Nat
  BY <1>2, EndedFact
<1>4. i \in At(body, Stopping) /\ Latest(i, At(body, Power), (Place + 1) + 1)
  BY <1>1, <1>2, <1>3
<1>5. i = Place + 1 \/ (Place + 1 \notin At(body, Power) /\ Latest(i, At(body, Power), Place + 1))
  BY <1>3, <1>4, LatestFact, PlaceFact
<1>6. CASE i = Place + 1
  <2>1. Head(todo).op \in Stopping /\ Stopping \subseteq Power
    BY <1>4, <1>6, AtFact DEF Stopping, Power
  <2> QED  BY <1>2, <2>1
<1>7. CASE Place + 1 \notin At(body, Power) /\ Latest(i, At(body, Power), Place + 1)
  <2>1. Head(todo).op \notin Power
    BY <1>7, AtFact
  <2>2. state # "running" \/ "stop_cluster" \in masked
    BY <1>4, <1>7 DEF StaysOff, Live, Running
  <2> QED  BY <1>2, <2>1, <2>2
<1> QED  BY <1>5, <1>6, <1>7

LEMMA OffCommands ==
  ASSUME TypeInv, StaysOff,
         make_master \/ code_sync \/ init_sync \/ Store \/ Run \/ Fetch \/ LaunchLocal \/ Read
  PROVE  StaysOff'
<1>1. Running /\ body' = body /\ state' = state /\ Head(todo).op \notin Power
  BY DEF make_master, code_sync, init_sync, Sync, Store, Run, Fetch, LaunchLocal, Read, Op,
         cloud, history, Power
<1>2. Ended /\ masked \subseteq masked'
  <2>1. CASE make_master
    BY <1>1, <2>1 DEF make_master, history, Done, Raises, Ended
  <2>2. ASSUME NEW op, NEW cmds, Sync(op, cmds) PROVE Ended /\ masked \subseteq masked'
    BY <1>1, <2>2 DEF Sync, run_cmd, Done, Raises, Ended
  <2>3. CASE Store
    BY <1>1, <2>3 DEF Store, run_cmd, Done, Raises, Ended
  <2>4. CASE Run
    BY <1>1, <2>4 DEF Run, history, Done, Raises, Ended
  <2>5. CASE Fetch
    BY <1>1, <2>5 DEF Fetch, history, Done, Raises, Ended
  <2>6. CASE LaunchLocal
    BY <1>1, <2>6 DEF LaunchLocal, Done, Raises, Ended
  <2>7. CASE Read
    BY <1>1, <2>7 DEF Read, history, Done, Raises, Ended
  <2> QED  BY <2>1, <2>2, <2>3, <2>4, <2>5, <2>6, <2>7 DEF code_sync, init_sync
<1> QED  BY <1>1, <1>2, OffNext

LEMMA OffStep == ASSUME TypeInv, StaysOff, [Next]_vars PROVE StaysOff'
<1>1. ASSUME NEW b \in Functions, Call(b) PROVE StaysOff'
  <2>1. body' = b /\ todo' = b /\ b \in Seq(Command)
    BY <1>1, FunctionsAssumption DEF Call
  <2>2. Place' + 1 = 1 /\ DOMAIN b = 1..Len(b)
    BY <2>1 DEF Place
  <2>3. \A i \in At(body, Stopping)' : ~Latest(i, At(body, Power), Place + 1)'
    BY <2>1, <2>2 DEF At, Latest
  <2> QED  BY <2>3 DEF StaysOff
<1>2. CASE NewProcess \/ Compile \/ UNCHANGED vars
  BY <1>2 DEF NewProcess, Compile, vars, cloud, laptop, history, StaysOff, Live, Place
<1>3. ASSUME NEW op \in Power, MesosEc2(op) PROVE StaysOff'
  <2>1. PICK ok \in BOOLEAN, works \in BOOLEAN :
          /\ (ok => works) /\ Done(ok)
          /\ state' = IF ~works THEN state
                      ELSE CASE op \in {"launch_cluster", "start_cluster"} -> "running"
                             [] op = "stop_cluster" -> "stopped"
                             [] op = "destroy_cluster" -> "none"
    BY <1>3 DEF MesosEc2
  <2>2. Running /\ Head(todo).op = op /\ UNCHANGED <<body, masked>>
    BY <1>3 DEF MesosEc2, Op, history
  <2>3. Ended /\ (outcome' # "raised" => works)
    <3>1. Ended
      BY <2>1, <2>2 DEF Done, Raises, Ended
    <3>2. outcome' # "raised" => ok
      BY <2>1 DEF Done, Raises
    <3> QED  BY <2>1, <3>1, <3>2
  <2>4. outcome' # "raised" => Head(todo).op \in Power \ Stopping \/ state' # "running"
    BY <2>1, <2>2, <2>3 DEF Power, Stopping
  <2> QED  BY <2>2, <2>3, <2>4, OffNext
<1>4. CASE DeclineStop
  <2>1. Running /\ body' = body /\ masked' = masked \cup {"stop_cluster"} /\ Done(TRUE)
    BY <1>4 DEF DeclineStop, Op
  <2>2. Ended
    BY <2>1 DEF Done, Raises, Ended
  <2> QED  BY <2>1, <2>2, OffNext
<1>5. CASE make_master \/ code_sync \/ init_sync \/ Store \/ Run \/ Fetch \/ LaunchLocal \/ Read
  BY <1>5, OffCommands
<1> QED  BY <1>1, <1>2, <1>3, <1>4, <1>5 DEF Next

(* A function that stops or destroys the cluster and returns has left no   *)
(* instance running, unless the user did not confirm the stop.             *)
THEOREM NothingLeftRunning == Spec => []LeavesNothingRunning
<1>1. Init => StaysOff
  BY DEF Init, StaysOff, Live
<1>2. TypeInv /\ StaysOff => LeavesNothingRunning
  <2> SUFFICES ASSUME TypeInv, StaysOff, outcome = "returned", Has("stop_cluster") \/ Has("destroy_cluster")
               PROVE  state # "running" \/ "stop_cluster" \in masked
    BY DEF LeavesNothingRunning
  <2>1. At(body, Stopping) # {} /\ body # <<>>
    BY DEF Has, At, Stopping
  <2>2. body \in Functions /\ todo = <<>>
    BY <2>1 DEF TypeInv, TypeOK, Running
  <2>3. PICK i \in Final(body, Power) : body[i].op \in Stopping
    BY <2>1, <2>2, FunctionsAssumption DEF LeavesOff, Stopping
  <2>4. i \in At(body, Stopping) /\ Latest(i, At(body, Power), Len(body) + 1)
    BY <2>3 DEF Final, At
  <2>5. Place = Len(body)
    BY <2>2 DEF Place, TypeInv
  <2> QED  BY <2>4, <2>5 DEF StaysOff, Live
<1> QED  BY <1>1, <1>2, TypeCorrect, OffStep, PTL DEF Spec

-----------------------------------------------------------------------------
(* What a function reads at its end. *)

Runs == At(body, {"run_spark"})
Putting == At(body, {"store_hdfs"})
Remote == {"make_master", "store_hdfs", "run_spark", "fetch"} \cup Syncs

(* The output of the run at r of this call: of the code of a sync before   *)
(* and of the files that were stored before.                               *)
Own(out, r) ==
  /\ out.call = calls
  /\ (\E s \in At(body, Syncs) : s < r) => out.code >= began \/ "sync_target" \in masked
  /\ StoredBefore(body, r) => out.data \subseteq Stores \/ "put" \in masked

(* The output that the command at j leaves in a local file.                *)
Came(out, j) ==
  /\ body[j].op = "fetch" => \A r \in Runs : Latest(r, Runs, j) => Own(out, r)
  /\ body[j].op = "launch_local" =>
       "sbt" \in masked \/ (out.call = calls /\ out.code >= began)

(* The parts of the inductive invariant follow an output on its way from   *)
(* the master that the function addresses to what it has read.             *)
Master == remote[address[1]]
AddressFound == Running => \A i \in At(body, Remote) : i <= Place => address # NoAddress
CodeSynced ==
  Running => \A s \in At(body, Syncs) : s <= Place =>
    Master.code >= began \/ "sync_target" \in masked
DataStored ==
  Running => \A s \in Putting : s <= Place =>
    Master.hdfs[body[s].name] \in Stores \/ "put" \in masked
RunIsOwn == Running => \A r \in Runs : Latest(r, Runs, Place + 1) => Own(Master.out, r)
FilesCame ==
  Running => \A f \in File : \A j \in Writes(body, f) :
    Latest(j, Writes(body, f), Place + 1) => Came(files[f], j)
ReadCame ==
  Live => \A i \in At(body, {"get_stat"}) : Latest(i, At(body, {"get_stat"}), Place + 1) =>
    \A j \in Writes(body, body[i].file) : Latest(j, Writes(body, body[i].file), i) =>
      Came(result, j)
OwnInv ==
  AddressFound /\ CodeSynced /\ DataStored /\ RunIsOwn /\ FilesCame /\ ReadCame

(* A command goes on for the function that called it.                      *)
Forward ==
  /\ Running /\ Ended /\ began' = began /\ masked \subseteq masked'
  /\ address # NoAddress => address' = address

LEMMA OwnKept ==
  ASSUME Forward, NEW out, NEW r, Own(out, r)
  PROVE  Own(out, r)'
<1>1. /\ calls' = calls /\ body' = body /\ began' = began /\ masked \subseteq masked'
  BY DEF Forward, Ended
<1>2. Stores' = Stores /\ At(body, Syncs)' = At(body, Syncs)
  BY <1>1 DEF Stores, At
<1> QED  BY <1>1, <1>2 DEF Own, StoredBefore, At

LEMMA CameKept ==
  ASSUME Forward, NEW out, NEW j, Came(out, j)
  PROVE  Came(out, j)'
<1>1. /\ calls' = calls /\ body' = body /\ began' = began /\ masked \subseteq masked'
  BY DEF Forward, Ended
<1>2. Runs' = Runs
  BY <1>1 DEF Runs, At
<1>3. ASSUME body[j].op = "fetch", NEW r \in Runs, Latest(r, Runs, j) PROVE Own(out, r)'
  BY <1>3, OwnKept DEF Came
<1> QED  BY <1>1, <1>2, <1>3 DEF Came

LEMMA AddressNext ==
  ASSUME TypeInv, AddressFound, Forward,
         outcome' # "raised" /\ Head(todo).op \in Remote => address' # NoAddress
  PROVE  AddressFound'
<1>1. SUFFICES ASSUME Running', NEW i \in At(body, Remote)', i <= Place' PROVE address' # NoAddress
  BY DEF AddressFound
<1>2. outcome' # "raised" /\ body' = body /\ Place' = Place + 1 /\ Place \in Nat
  BY <1>1, EndedFact DEF Running, Forward, Ended
<1>3. i \in At(body, Remote) /\ i \in Nat
  BY <1>1, <1>2, PlaceFact
<1>4. CASE i = Place + 1
  BY <1>2, <1>3, <1>4, AtFact DEF Forward
<1>5. CASE i <= Place
  BY <1>3, <1>5 DEF AddressFound, Forward
<1> QED  BY <1>1, <1>2, <1>3, <1>4, <1>5

LEMMA CodeNext ==
  ASSUME TypeInv, AddressFound, CodeSynced, Forward,
         outcome' # "raised" =>
           IF Head(todo).op \in Syncs THEN Master'.code >= began \/ "sync_target" \in masked'
           ELSE \A h \in Host : remote'[h].code = remote[h].code
  PROVE  CodeSynced'
<1>1. SUFFICES ASSUME Running', NEW s \in At(body, Syncs)', s <= Place'
               PROVE  Master'.code >= began' \/ "sync_target" \in masked'
  BY DEF CodeSynced
<1>2. /\ outcome' # "raised" /\ body' = body /\ Place' = Place + 1 /\ Place \in Nat
      /\ began' = began /\ masked \subseteq masked' /\ Running
  BY <1>1, EndedFact DEF Running, Forward, Ended
<1>3. s \in At(body, Syncs) /\ s \in Nat
  BY <1>1, <1>2, PlaceFact
<1>4. CASE Head(todo).op \in Syncs
  BY <1>2, <1>4
<1>5. CASE Head(todo).op \notin Syncs
  <2>1. s # Place + 1
    BY <1>2, <1>3, <1>5, AtFact DEF Forward
  <2>2. s <= Place
    BY <1>1, <1>2, <1>3, <2>1
  <2>3. s \in At(body, Remote)
    BY <1>3 DEF At, Remote
  <2>4. address # NoAddress /\ address' = address
    BY <1>2, <2>2, <2>3 DEF AddressFound, Forward
  <2>5. address[1] \in Host
    BY <2>4 DEF TypeInv, TypeOK
  <2>6. Master'.code = Master.code
    BY <1>2, <1>5, <2>4, <2>5 DEF Master
  <2>7. Master.code >= began \/ "sync_target" \in masked
    BY <1>2, <1>3, <2>2 DEF CodeSynced
  <2> QED  BY <1>2, <2>6, <2>7
<1> QED  BY <1>4, <1>5

LEMMA DataNext ==
  ASSUME TypeInv, AddressFound, DataStored, Forward,
         outcome' # "raised" =>
           /\ \A h \in Host, n \in Name : \/ remote'[h].hdfs[n] = remote[h].hdfs[n]
                                          \/ remote'[h].hdfs[n] \in Stores
           /\ Head(todo).op = "store_hdfs" =>
                Master'.hdfs[Head(todo).name] \in Stores \/ "put" \in masked'
  PROVE  DataStored'
<1>1. SUFFICES ASSUME Running', NEW s \in Putting', s <= Place'
               PROVE  Master'.hdfs[body'[s].name] \in Stores' \/ "put" \in masked'
  BY DEF DataStored
<1>2. /\ outcome' # "raised" /\ body' = body /\ Place' = Place + 1 /\ Place \in Nat
      /\ masked \subseteq masked' /\ Running
  BY <1>1, EndedFact DEF Running, Forward, Ended
<1>3. Stores' = Stores /\ Putting' = Putting
  BY <1>2 DEF Stores, Putting, At
<1>4. s \in Nat /\ s \in 1..Len(body) /\ body[s].op = "store_hdfs"
  BY <1>3, PlaceFact DEF Putting, At
<1>5. CASE s = Place + 1
  <2>1. Head(todo) = body[s]
    BY <1>5, EndedFact DEF Forward
  <2> QED  BY <1>2, <1>3, <1>4, <2>1
<1>6. CASE s <= Place
  <2>1. s \in At(body, Remote)
    BY <1>3 DEF At, Remote, Putting
  <2>2. address # NoAddress /\ address' = address
    BY <1>2, <1>6, <2>1 DEF AddressFound, Forward
  <2>3. address[1] \in Host
    BY <2>2 DEF TypeInv, TypeOK
  <2>4. body[s].name \in Name
    <3>1. body[s] \in Command
      BY <1>4 DEF TypeInv
    <3> QED  BY <1>4, <3>1, CommandFact
  <2>5. Master'.hdfs[body[s].name] = Master.hdfs[body[s].name] \/ Master'.hdfs[body[s].name] \in Stores
    BY <1>2, <2>2, <2>3, <2>4 DEF Master
  <2>6. Master.hdfs[body[s].name] \in Stores \/ "put" \in masked
    BY <1>2, <1>3, <1>6 DEF DataStored
  <2> QED  BY <1>2, <1>3, <2>5, <2>6
<1> QED  BY <1>1, <1>2, <1>4, <1>5, <1>6

LEMMA RunNext ==
  ASSUME TypeInv, AddressFound, RunIsOwn, Forward,
         outcome' # "raised" =>
           IF Head(todo).op = "run_spark" THEN \A r \in Runs : r = Place + 1 => Own(Master.out, r)'
           ELSE \A h \in Host : remote'[h].out = remote[h].out
  PROVE  RunIsOwn'
<1>1. SUFFICES ASSUME Running', NEW r \in Runs', Latest(r, Runs, Place + 1)'
               PROVE  Own(Master.out, r)'
  BY DEF RunIsOwn
<1>2. /\ outcome' # "raised" /\ body' = body /\ Place' = Place + 1 /\ Place \in Nat /\ Running
  BY <1>1, EndedFact DEF Running, Forward, Ended
<1>3. Runs' = Runs /\ Runs \in SUBSET Nat
  BY <1>2, PlaceFact DEF Runs, At
<1>4. Latest(r, Runs, (Place + 1) + 1)
  BY <1>1, <1>2, <1>3 DEF Latest
<1>5. r = Place + 1 \/ (Place + 1 \notin Runs /\ Latest(r, Runs, Place + 1))
  BY <1>2, <1>3, <1>4, LatestFact
<1>6. CASE r = Place + 1
  <2>1. Head(todo).op = "run_spark"
    BY <1>2, <1>3, <1>6, AtFact DEF Runs, Forward
  <2> QED  BY <1>2, <1>3, <1>6, <2>1
<1>7. CASE Place + 1 \notin Runs /\ Latest(r, Runs, Place + 1)
  <2>1. Head(todo).op # "run_spark"
    BY <1>7, AtFact DEF Runs, Forward
  <2>2. r \in At(body, Remote) /\ r <= Place
    BY <1>2, <1>3, <1>7 DEF At, Remote, Runs, Latest
  <2>3. address # NoAddress /\ address' = address
    BY <1>2, <2>2 DEF AddressFound, Forward
  <2>4. address[1] \in Host
    BY <2>3 DEF TypeInv, TypeOK
  <2>5. PICK out : out = Master.out
    OBVIOUS
  <2>6. Own(out, r)
    BY <1>2, <1>3, <1>7, <2>5 DEF RunIsOwn
  <2>7. Own(out, r)'
    BY <2>6, OwnKept
  <2>8. Master'.out = out
    BY <1>2, <2>1, <2>3, <2>4, <2>5 DEF Master
  <2> QED  BY <2>7, <2>8 DEF Own
<1> QED  BY <1>5, <1>6, <1>7

LEMMA FilesNext ==
  ASSUME TypeInv, FilesCame, Forward,
         outcome' # "raised" => \A f \in File :
           /\ \A j \in Writes(body, f) : j = Place + 1 => Came(files[f], j)'
           /\ Place + 1 \notin Writes(body, f) => files'[f] = files[f]
  PROVE  FilesCame'
<1>1. SUFFICES ASSUME Running', NEW f \in File, NEW j \in Writes(body, f)',
                      Latest(j, Writes(body, f), Place + 1)'
               PROVE  Came(files[f], j)'
  BY DEF FilesCame
<1>2. /\ outcome' # "raised" /\ body' = body /\ Place' = Place + 1 /\ Place \in Nat /\ Running
  BY <1>1, EndedFact DEF Running, Forward, Ended
<1>3. Writes(body, f)' = Writes(body, f) /\ Writes(body, f) \in SUBSET Nat
  BY <1>2, PlaceFact DEF Writes, At
<1>4. Latest(j, Writes(body, f), (Place + 1) + 1)
  BY <1>1, <1>2, <1>3 DEF Latest
<1>5. \/ j = Place + 1
      \/ Place + 1 \notin Writes(body, f) /\ Latest(j, Writes(body, f), Place + 1)
  BY <1>2, <1>3, <1>4, LatestFact
<1>6. CASE j = Place + 1
  BY <1>2, <1>1, <1>3, <1>6
<1>7. CASE Place + 1 \notin Writes(body, f) /\ Latest(j, Writes(body, f), Place + 1)
  <2>1. PICK out : out = files[f]
    OBVIOUS
  <2>2. Came(out, j)
    BY <1>1, <1>2, <1>3, <1>7, <2>1 DEF FilesCame
  <2>3. Came(out, j)' /\ files'[f] = out
    BY <1>2, <1>7, <2>1, <2>2, CameKept
  <2> QED  BY <2>3 DEF Came, Own
<1> QED  BY <1>5, <1>6, <1>7

LEMMA ReadNext ==
  ASSUME TypeInv, FilesCame, ReadCame, Forward,
         outcome' # "raised" =>
           result' = IF Head(todo).op = "get_stat" THEN files[Head(todo).file] ELSE result
  PROVE  ReadCame'
<1>1. SUFFICES ASSUME Live', NEW i \in At(body, {"get_stat"})',
                      Latest(i, At(body, {"get_stat"}), Place + 1)',
                      NEW j \in Writes(body, body[i].file)',
                      Latest(j, Writes(body, body[i].file), i)'
               PROVE  Came(result, j)'
  BY DEF ReadCame
<1>2. /\ outcome' # "raised" /\ body' = body /\ Place' = Place + 1 /\ Place \in Nat /\ Running
  BY <1>1, EndedFact DEF Live, Forward, Ended
<1>3. PICK reads, writes :
        /\ reads = At(body, {"get_stat"}) /\ writes = Writes(body, body[i].file)
        /\ reads \in SUBSET Nat
  BY PlaceFact
<1>4. i \in reads /\ j \in writes /\ Latest(i, reads, (Place + 1) + 1) /\ Latest(j, writes, i)
  BY <1>1, <1>2, <1>3 DEF At, Writes, Latest
<1>5. i = Place + 1 \/ (Place + 1 \notin reads /\ Latest(i, reads, Place + 1))
  BY <1>2, <1>3, <1>4, LatestFact
<1>6. PICK out : out = result' /\ Came(out, j)
  <2>1. CASE i = Place + 1
    <3>1. Head(todo) = body[i] /\ Head(todo).op = "get_stat"
      BY <1>3, <1>4, <2>1, EndedFact DEF Forward, At
    <3>2. body[i].file \in File
      BY <3>1, HeadFact, CommandFact DEF Forward
    <3>3. Came(files[body[i].file], j)
      BY <1>2, <1>3, <1>4, <2>1, <3>2 DEF FilesCame
    <3> QED  BY <1>2, <3>1, <3>3
  <2>2. CASE Place + 1 \notin reads /\ Latest(i, reads, Place + 1)
    <3>1. Head(todo).op # "get_stat"
      BY <1>3, <2>2, AtFact DEF Forward
    <3>2. Came(result, j)
      BY <1>2, <1>3, <1>4, <2>2 DEF ReadCame, Live, Running
    <3> QED  BY <1>2, <3>1, <3>2
  <2> QED  BY <1>5, <2>1, <2>2
<1>7. Came(out, j)'
  BY <1>6, CameKept
<1> QED  BY <1>6, <1>7 DEF Came, Own

(* A command that touches neither the masters nor the files, and reads     *)
(* nothing.                                                                *)
LEMMA OwnUntouched ==
  ASSUME TypeInv, OwnInv, Forward, UNCHANGED <<remote, files, result>>,
         Head(todo).op \in Power \cup {"make_master"},
         outcome' # "raised" /\ Head(todo).op = "make_master" => address' # NoAddress
  PROVE  OwnInv'
<1>1. /\ Head(todo).op \notin Syncs \cup {"store_hdfs", "run_spark", "fetch", "launch_local", "get_stat"}
      /\ Head(todo).op \in Remote => Head(todo).op = "make_master"
  BY DEF Power, Syncs, Remote
<1>2. \A f \in File : Place + 1 \notin Writes(body, f)
  BY <1>1, AtFact DEF Writes, Forward
<1>3. AddressFound'
  BY <1>1, AddressNext DEF OwnInv
<1>4. CodeSynced'
  BY <1>1, CodeNext DEF OwnInv
<1>5. DataStored'
  BY <1>1, DataNext DEF OwnInv
<1>6. RunIsOwn'
  BY <1>1, RunNext DEF OwnInv
<1>7. FilesCame'
  BY <1>2, FilesNext DEF OwnInv
<1>8. ReadCame'
  BY <1>1, ReadNext DEF OwnInv
<1> QED  BY <1>3, <1>4, <1>5, <1>6, <1>7, <1>8 DEF OwnInv

LEMMA OwnMesos == ASSUME TypeInv, OwnInv, NEW op \in Power, MesosEc2(op) PROVE OwnInv'
<1>1. PICK ok : Done(ok)
  BY DEF MesosEc2
<1>2. Running /\ Head(todo).op = op /\ UNCHANGED <<address, remote, files, result, body, began, masked>>
  BY DEF MesosEc2, Op, laptop, history
<1>3. Ended
  BY <1>1, <1>2 DEF Done, Raises, Ended
<1>4. Forward
  BY <1>2, <1>3 DEF Forward
<1>5. Head(todo).op # "make_master"
  BY <1>2 DEF Power
<1> QED  BY <1>2, <1>4, <1>5, OwnUntouched

LEMMA OwnDecline == ASSUME TypeInv, OwnInv, DeclineStop PROVE OwnInv'
<1>1. /\ Running /\ Head(todo).op = "stop_cluster" /\ masked \subseteq masked' /\ Done(TRUE)
      /\ UNCHANGED <<address, remote, files, result, body, began>>
  BY DEF DeclineStop, Op, laptop
<1>2. Ended
  BY <1>1 DEF Done, Raises, Ended
<1>3. Forward
  BY <1>1, <1>2 DEF Forward
<1> QED  BY <1>1, <1>3, OwnUntouched DEF Power

LEMMA OwnMaster == ASSUME TypeInv, OwnInv, make_master PROVE OwnInv'
<1>1. PICK a : get_address(a) /\ address' = a /\ Done(a # NoAddress)
  BY DEF make_master
<1>2. Running /\ Head(todo).op = "make_master" /\ UNCHANGED <<remote, files, result, body, began, masked>>
  BY DEF make_master, Op, laptop, history
<1>3. Ended /\ (outcome' # "raised" => address' # NoAddress)
  BY <1>1, <1>2 DEF Done, Raises, Ended
<1>4. Forward
  BY <1>1, <1>2, <1>3 DEF Forward, get_address
<1> QED  BY <1>2, <1>3, <1>4, OwnUntouched

LEMMA OwnSync ==
  ASSUME TypeInv, OwnInv, NEW op \in Syncs, NEW cmds, NEW n \in Nat \ {0, 1},
         DOMAIN cmds = 1..n, Len(cmds) = n, cmds[1] = "sync_target", Sync(op, cmds)
  PROVE  OwnInv'
<1>1. PICK a \in Addresses, works \in [DOMAIN cmds -> BOOLEAN] :
        /\ get_address(a) /\ address' = a /\ run_cmd(cmds, a, works, {})
        /\ remote' = IF Reached(a) /\ works[1]
                     THEN [remote EXCEPT ![a[1]].code = target] ELSE remote
  BY DEF Sync
<1>2. Running /\ Head(todo).op = op /\ UNCHANGED <<files, result, body, began>>
  BY DEF Sync, Op, laptop
<1>3. /\ Ended /\ masked \subseteq masked' /\ (outcome' # "raised" => Reached(a))
      /\ \A i \in 1..n : ~works[i] /\ i # n => cmds[i] \in masked'
  <2>1. n \in Nat \ {0}
    OBVIOUS
  <2> QED  BY <1>1, <1>2, <2>1, RunCmdFact
<1>4. Forward
  BY <1>1, <1>2, <1>3 DEF Forward, get_address
<1>5. Reached(a) => a # NoAddress /\ a[1] \in Host
  BY AddressFact
<1>6. Head(todo).op \notin Power \cup {"store_hdfs", "run_spark", "fetch", "launch_local", "get_stat"}
  BY <1>2 DEF Syncs, Power
<1>7. AddressFound'
  BY <1>1, <1>3, <1>4, <1>5, AddressNext DEF OwnInv
<1>8. outcome' # "raised" => Master'.code >= began \/ "sync_target" \in masked'
  <2>1. SUFFICES ASSUME outcome' # "raised" PROVE Master'.code >= began \/ "sync_target" \in masked'
    OBVIOUS
  <2>2. CASE works[1]
    <3>1. remote'[a[1]].code = target
      BY <1>1, <1>3, <1>5, <2>1, <2>2 DEF TypeInv, TypeOK
    <3>2. target >= began /\ Master' = remote'[a[1]]
      BY <1>1 DEF Master, TypeInv, TypeOK
    <3> QED  BY <3>1, <3>2
  <2>3. CASE ~works[1]
    <3>1. 1 \in 1..n /\ 1 # n
      OBVIOUS
    <3> QED  BY <1>3, <2>3, <3>1
  <2> QED  BY <2>2, <2>3
<1>9. CodeSynced'
  BY <1>2, <1>4, <1>8, CodeNext DEF OwnInv
<1>10. \A h \in Host : remote'[h].hdfs = remote[h].hdfs /\ remote'[h].out = remote[h].out
  BY <1>1, <1>5 DEF TypeInv, TypeOK
<1>11. DataStored'
  BY <1>4, <1>6, <1>10, DataNext DEF OwnInv
<1>12. RunIsOwn'
  BY <1>4, <1>6, <1>10, RunNext DEF OwnInv
<1>13. FilesCame'
  <2>1. \A f \in File : Place + 1 \notin Writes(body, f)
    BY <1>4, <1>6, AtFact DEF Writes, Forward
  <2> QED  BY <1>2, <1>4, <2>1, FilesNext DEF OwnInv
<1>14. ReadCame'
  BY <1>2, <1>4, <1>6, ReadNext DEF OwnInv
<1> QED  BY <1>7, <1>9, <1>11, <1>12, <1>13, <1>14 DEF OwnInv

LEMMA OwnSyncs == ASSUME TypeInv, OwnInv, code_sync \/ init_sync PROVE OwnInv'
<1>1. CASE code_sync
  <2>1. PICK cmds : cmds = <<"sync_target", "copy_dir">>
    OBVIOUS
  <2>2. DOMAIN cmds = 1..2 /\ Len(cmds) = 2 /\ 2 \in Nat \ {0, 1} /\ cmds[1] = "sync_target"
    BY <2>1
  <2>3. Sync("code_sync", cmds) /\ "code_sync" \in Syncs
    BY <1>1, <2>1 DEF code_sync, Syncs
  <2> QED  BY <2>2, <2>3, OwnSync
<1>2. CASE init_sync
  <2>1. PICK cmds : cmds = <<"sync_target", "sync_jars", "copy_dir">>
    OBVIOUS
  <2>2. DOMAIN cmds = 1..3 /\ Len(cmds) = 3 /\ 3 \in Nat \ {0, 1} /\ cmds[1] = "sync_target"
    BY <2>1
  <2>3. Sync("init_sync", cmds) /\ "init_sync" \in Syncs
    BY <1>2, <2>1 DEF init_sync, Syncs
  <2> QED  BY <2>2, <2>3, OwnSync
<1> QED  BY <1>1, <1>2

LEMMA OwnStore == ASSUME TypeInv, OwnInv, Store PROVE OwnInv'
<1>1. PICK c : c = Head(todo)
  OBVIOUS
<1>2. PICK a \in Addresses, works \in [1..2 -> BOOLEAN], refused \in {{}, {1}} :
        /\ get_address(a) /\ address' = a /\ run_cmd(<<"put", "rm">>, a, works, refused)
        /\ refused = IF Reached(a) /\ remote[a[1]].hdfs[c.name] # "none" THEN {1} ELSE {}
        /\ remote' = IF Reached(a) /\ works[1] /\ remote[a[1]].hdfs[c.name] = "none"
                     THEN [remote EXCEPT ![a[1]].hdfs[c.name] = c.url] ELSE remote
  BY <1>1 DEF Store
<1>3. Running /\ c.op = "store_hdfs" /\ UNCHANGED <<files, result, body, began>>
  BY <1>1 DEF Store, Op, laptop
<1>4. /\ Ended /\ (outcome' # "raised" => Reached(a)) /\ masked \subseteq masked'
      /\ ~works[1] \/ 1 \in refused => "put" \in masked'
  <2>1. PICK cmds : cmds = <<"put", "rm">>
    OBVIOUS
  <2>2. PICK n \in Nat \ {0} : n = 2 /\ DOMAIN cmds = 1..n /\ Len(cmds) = n /\ cmds[1] = "put"
    BY <2>1
  <2>3. run_cmd(cmds, a, works, refused) /\ works \in [DOMAIN cmds -> BOOLEAN]
    BY <1>2, <2>1, <2>2
  <2>4. /\ Ended /\ (outcome' # "raised" => Reached(a)) /\ masked \subseteq masked'
        /\ \A i \in 1..n : (~works[i] /\ i # n) \/ i \in refused => cmds[i] \in masked'
    BY <1>3, <2>2, <2>3, RunCmdFact
  <2>5. 1 \in 1..n /\ 1 # n
    BY <2>2
  <2> QED  BY <2>2, <2>4, <2>5
<1>5. Forward
  BY <1>2, <1>3, <1>4 DEF Forward, get_address
<1>6. Reached(a) => a # NoAddress /\ a[1] \in Host
  BY AddressFact
<1>7. c.url \in Stores /\ c.name \in Name
  <2>1. Place + 1 \in DOMAIN body /\ body[Place + 1] = c
    BY <1>1, <1>3, <1>4, EndedFact
  <2>2. c.name \in Name
    BY <1>1, <1>3, HeadFact, CommandFact
  <2> QED  BY <1>3, <2>1, <2>2 DEF Stores
<1>8. Head(todo).op \notin Syncs \cup {"run_spark", "fetch", "launch_local", "get_stat"}
  BY <1>1, <1>3 DEF Syncs
<1>9. AddressFound'
  BY <1>2, <1>4, <1>5, <1>6, AddressNext DEF OwnInv
<1>10. \A h \in Host : remote'[h].code = remote[h].code /\ remote'[h].out = remote[h].out
  BY <1>2, <1>6 DEF TypeInv, TypeOK
<1>11. CodeSynced'
  BY <1>5, <1>8, <1>10, CodeNext DEF OwnInv
<1>12. DataStored'
  <2>1. \A h \in Host, m \in Name : \/ remote'[h].hdfs[m] = remote[h].hdfs[m]
                                    \/ remote'[h].hdfs[m] \in Stores
    BY <1>2, <1>6, <1>7 DEF TypeInv, TypeOK
  <2>2. outcome' # "raised" => Master'.hdfs[c.name] \in Stores \/ "put" \in masked'
    <3>1. SUFFICES ASSUME Reached(a), works[1], remote[a[1]].hdfs[c.name] = "none"
                   PROVE  Master'.hdfs[c.name] \in Stores
      BY <1>2, <1>4
    <3>2. remote'[a[1]].hdfs[c.name] = c.url
      BY <1>2, <1>6, <1>7, <3>1 DEF TypeInv, TypeOK
    <3> QED  BY <1>2, <1>7, <3>2 DEF Master
  <2> QED  BY <1>1, <1>5, <2>1, <2>2, DataNext DEF OwnInv
<1>13. RunIsOwn'
  BY <1>5, <1>8, <1>10, RunNext DEF OwnInv
<1>14. FilesCame'
  <2>1. \A f \in File : Place + 1 \notin Writes(body, f)
    BY <1>5, <1>8, AtFact DEF Writes, Forward
  <2> QED  BY <1>3, <1>5, <2>1, FilesNext DEF OwnInv
<1>15. ReadCame'
  BY <1>3, <1>5, <1>8, ReadNext DEF OwnInv
<1> QED  BY <1>9, <1>11, <1>12, <1>13, <1>14, <1>15 DEF OwnInv

LEMMA OwnRun == ASSUME TypeInv, OwnInv, Run PROVE OwnInv'
<1>1. PICK c : c = Head(todo)
  OBVIOUS
<1>2. PICK a \in Addresses, ok \in BOOLEAN :
        LET there == remote[a[1]]
            data == {there.hdfs[name] : name \in c.reads}
        IN  /\ get_address(a) /\ address' = a
            /\ Try(ok, Reached(a) /\ there.code # 0 /\ "none" \notin data) /\ Done(ok)
            /\ remote' = IF ok THEN [remote EXCEPT ![a[1]].out =
                           [call |-> calls, code |-> there.code, data |-> data]] ELSE remote
  BY <1>1 DEF Run
<1>3. /\ Running /\ c.op = "run_spark" /\ UNCHANGED <<files, result, body, began, masked>>
  BY <1>1 DEF Run, Op, laptop, history
<1> DEFINE there == remote[a[1]]
           data == {there.hdfs[name] : name \in c.reads}
           could == Reached(a) /\ there.code # 0 /\ "none" \notin data
<1>4. Ended /\ (outcome' # "raised" => ok)
  BY <1>2, <1>3 DEF Done, Raises, Ended
<1>5. ok => Reached(a) /\ a # NoAddress /\ a[1] \in Host
  <2>1. Try(ok, could) /\ could \in BOOLEAN
    BY <1>2
  <2>2. ok => could
    BY <2>1, TryFact DEF TypeInv, TypeOK
  <2> QED  BY <2>2, AddressFact
<1>6. Forward
  BY <1>2, <1>3, <1>4 DEF Forward, get_address
<1>7. Head(todo).op \notin Syncs \cup {"store_hdfs", "fetch", "launch_local", "get_stat"}
  BY <1>1, <1>3 DEF Syncs
<1>8. AddressFound'
  BY <1>2, <1>4, <1>5, <1>6, AddressNext DEF OwnInv
<1>9. \A h \in Host : remote'[h].code = remote[h].code /\ remote'[h].hdfs = remote[h].hdfs
  BY <1>2, <1>5 DEF TypeInv, TypeOK
<1>10. CodeSynced'
  BY <1>6, <1>7, <1>9, CodeNext DEF OwnInv
<1>11. DataStored'
  BY <1>6, <1>7, <1>9, DataNext DEF OwnInv
<1>12. outcome' # "raised" => \A r \in Runs : r = Place + 1 => Own(Master.out, r)'
  <2>1. SUFFICES ASSUME outcome' # "raised", NEW r \in Runs, r = Place + 1
                 PROVE  Own(Master.out, r)'
    OBVIOUS
  <2>2. PICK out : out = [call |-> calls, code |-> there.code, data |-> data]
    OBVIOUS
  <2>3. Master'.out = out
    BY <1>2, <1>4, <1>5, <2>1, <2>2 DEF Master, TypeInv, TypeOK
  <2>4. ASSUME NEW s \in At(body, Remote), s < r PROVE a = address /\ s <= Place
    <3>1. s <= Place
      BY <2>1, <2>4, PlaceFact
    <3> QED  BY <1>2, <1>3, <2>4, <3>1 DEF OwnInv, AddressFound, get_address
  <2>5. (\E s \in At(body, Syncs) : s < r) => out.code >= began \/ "sync_target" \in masked
    <3>1. SUFFICES ASSUME NEW s \in At(body, Syncs), s < r
                   PROVE  out.code >= began \/ "sync_target" \in masked
      OBVIOUS
    <3>2. s \in At(body, Remote)
      BY <3>1 DEF At, Remote
    <3>3. Master.code >= began \/ "sync_target" \in masked
      BY <1>3, <2>4, <3>1, <3>2 DEF OwnInv, CodeSynced
    <3>4. out.code = Master.code
      BY <2>2, <2>4, <3>1, <3>2 DEF Master
    <3> QED  BY <3>3, <3>4
  <2>6. StoredBefore(body, r) => out.data \subseteq Stores \/ "put" \in masked
    <3>1. SUFFICES ASSUME StoredBefore(body, r), "put" \notin masked, NEW name \in c.reads
                   PROVE  there.hdfs[name] \in Stores
      BY <2>2
    <3>2. body[r] = c
      BY <1>1, <1>6, <2>1, EndedFact DEF Forward
    <3>3. PICK s \in Putting : s < r /\ body[s].name = name
      BY <3>1, <3>2 DEF StoredBefore, Putting
    <3>4. s \in At(body, Remote)
      BY DEF Putting, At, Remote
    <3>5. a = address /\ s <= Place
      BY <2>4, <3>3, <3>4
    <3>6. Master.hdfs[body[s].name] \in Stores
      BY <1>3, <3>1, <3>5 DEF OwnInv, DataStored
    <3> QED  BY <3>3, <3>5, <3>6 DEF Master
  <2>7. Own(out, r)
    BY <2>2, <2>5, <2>6 DEF Own
  <2>8. Own(out, r)'
    BY <1>6, <2>7, OwnKept
  <2> QED  BY <2>3, <2>8 DEF Own
<1>13. RunIsOwn'
  BY <1>1, <1>3, <1>6, <1>12, RunNext DEF OwnInv
<1>14. FilesCame'
  <2>1. \A f \in File : Place + 1 \notin Writes(body, f)
    BY <1>6, <1>7, AtFact DEF Writes, Forward
  <2> QED  BY <1>3, <1>6, <2>1, FilesNext DEF OwnInv
<1>15. ReadCame'
  BY <1>3, <1>6, <1>7, ReadNext DEF OwnInv
<1> QED  BY <1>8, <1>10, <1>11, <1>13, <1>14, <1>15 DEF OwnInv

LEMMA OwnFetch == ASSUME TypeInv, OwnInv, Fetch PROVE OwnInv'
<1>1. PICK c : c = Head(todo)
  OBVIOUS
<1>2. PICK a \in Addresses, ok \in BOOLEAN :
        /\ get_address(a) /\ address' = a
        /\ Try(ok, Reached(a) /\ remote[a[1]].out # NoOutput) /\ Done(ok)
        /\ files' = IF ok THEN [files EXCEPT ![c.file] = remote[a[1]].out] ELSE files
  BY <1>1 DEF Fetch
<1>3. /\ Running /\ c.op = "fetch" /\ UNCHANGED <<remote, result, body, began, masked>>
  BY <1>1 DEF Fetch, Op, history
<1> DEFINE could == Reached(a) /\ remote[a[1]].out # NoOutput
<1>4. Ended /\ (outcome' # "raised" => ok)
  BY <1>2, <1>3 DEF Done, Raises, Ended
<1>5. ok => a # NoAddress
  <2>1. Try(ok, could) /\ could \in BOOLEAN
    BY <1>2
  <2>2. ok => could
    BY <2>1, TryFact DEF TypeInv, TypeOK
  <2> QED  BY <2>2, AddressFact
<1>6. Forward
  BY <1>2, <1>3, <1>4 DEF Forward, get_address
<1>7. Head(todo).op \notin Syncs \cup {"store_hdfs", "run_spark", "launch_local", "get_stat"}
  BY <1>1, <1>3 DEF Syncs
<1>8. AddressFound'
  BY <1>2, <1>4, <1>5, <1>6, AddressNext DEF OwnInv
<1>9. CodeSynced'
  BY <1>3, <1>6, <1>7, CodeNext DEF OwnInv
<1>10. DataStored'
  BY <1>3, <1>6, <1>7, DataNext DEF OwnInv
<1>11. RunIsOwn'
  BY <1>3, <1>6, <1>7, RunNext DEF OwnInv
<1>12. FilesCame'
  <2>1. Place + 1 \in DOMAIN body /\ body[Place + 1] = c /\ c.file \in File
    <3>1. Place + 1 \in DOMAIN body /\ body[Place + 1] = c
      BY <1>1, <1>6, EndedFact DEF Forward
    <3>2. c.file \in File
      BY <1>1, <1>3, HeadFact, CommandFact
    <3> QED  BY <3>1, <3>2
  <2>2. ASSUME outcome' # "raised", NEW f \in File, Place + 1 \notin Writes(body, f)
        PROVE  files'[f] = files[f]
    <3>1. f # c.file
      BY <1>3, <2>1, <2>2 DEF Writes, At
    <3> QED  BY <1>2, <2>1, <3>1 DEF TypeInv, TypeOK
  <2>3. ASSUME outcome' # "raised", NEW f \in File, NEW j \in Writes(body, f), j = Place + 1
        PROVE  Came(files[f], j)'
    <3>1. f = c.file /\ body[j] = c
      BY <2>1, <2>3 DEF Writes
    <3>2. PICK out : out = remote[a[1]].out
      OBVIOUS
    <3>3. files'[f] = out
      BY <1>2, <1>4, <2>1, <2>3, <3>1, <3>2 DEF TypeInv, TypeOK
    <3>4. ASSUME NEW r \in Runs, Latest(r, Runs, j) PROVE Own(out, r)
      <4>1. r \in At(body, Remote) /\ r <= Place
        <5>1. r \in Nat /\ Place \in Nat /\ r < Place + 1
          BY <2>3, <3>4, PlaceFact DEF Latest, Runs
        <5> QED  BY <5>1 DEF At, Remote, Runs
      <4>2. a = address
        BY <1>2, <1>3, <4>1 DEF OwnInv, AddressFound, get_address
      <4>3. Own(Master.out, r)
        BY <1>3, <2>3, <3>4 DEF OwnInv, RunIsOwn
      <4> QED  BY <3>2, <4>2, <4>3 DEF Master
    <3>5. Came(out, j)
      BY <1>3, <3>1, <3>4 DEF Came
    <3>6. Came(out, j)'
      BY <1>6, <3>5, CameKept
    <3> QED  BY <3>3, <3>6 DEF Came, Own
  <2> QED  BY <1>6, <2>2, <2>3, FilesNext DEF OwnInv
<1>13. ReadCame'
  BY <1>3, <1>6, <1>7, ReadNext DEF OwnInv
<1> QED  BY <1>8, <1>9, <1>10, <1>11, <1>12, <1>13 DEF OwnInv

LEMMA OwnLaunchLocal == ASSUME TypeInv, OwnInv, LaunchLocal PROVE OwnInv'
<1>1. PICK c : c = Head(todo)
  OBVIOUS
<1>2. /\ Running /\ c.op = "launch_local" /\ Done(TRUE)
      /\ UNCHANGED <<address, remote, result, body, began>>
      /\ \/ /\ files' = [files EXCEPT ![c.file] =
                           [call |-> calls, code |-> target, data |-> {"local"}]]
            /\ UNCHANGED masked
         \/ masked' = masked \cup {"sbt"} /\ UNCHANGED files
  BY <1>1 DEF LaunchLocal, Op
<1>3. Ended
  BY <1>2 DEF Done, Raises, Ended
<1>4. Forward
  BY <1>2, <1>3 DEF Forward
<1>5. Head(todo).op \notin Syncs \cup Remote \cup {"store_hdfs", "run_spark", "get_stat"}
  BY <1>1, <1>2 DEF Syncs, Remote
<1>6. AddressFound'
  BY <1>4, <1>5, AddressNext DEF OwnInv
<1>7. CodeSynced'
  BY <1>2, <1>4, <1>5, CodeNext DEF OwnInv
<1>8. DataStored'
  BY <1>2, <1>4, <1>5, DataNext DEF OwnInv
<1>9. RunIsOwn'
  BY <1>2, <1>4, <1>5, RunNext DEF OwnInv
<1>10. FilesCame'
  <2>1. Place + 1 \in DOMAIN body /\ body[Place + 1] = c /\ c.file \in File
    <3>1. Place + 1 \in DOMAIN body /\ body[Place + 1] = c
      BY <1>1, <1>4, EndedFact DEF Forward
    <3>2. c.file \in File
      BY <1>1, <1>2, HeadFact, CommandFact
    <3> QED  BY <3>1, <3>2
  <2>2. ASSUME NEW f \in File, Place + 1 \notin Writes(body, f)
        PROVE  files'[f] = files[f]
    <3>1. f # c.file
      BY <1>2, <2>1, <2>2 DEF Writes, At
    <3> QED  BY <1>2, <2>1, <3>1 DEF TypeInv, TypeOK
  <2>3. ASSUME NEW f \in File, NEW j \in Writes(body, f), j = Place + 1
        PROVE  Came(files[f], j)'
    <3>1. f = c.file /\ body'[j] = c
      BY <1>2, <2>1, <2>3 DEF Writes
    <3>2. "sbt" \in masked' \/ (files'[f].call = calls' /\ files'[f].code >= began')
      BY <1>2, <1>3, <2>1, <3>1 DEF TypeInv, TypeOK, Ended
    <3> QED  BY <1>2, <3>1, <3>2 DEF Came
  <2> QED  BY <1>4, <2>2, <2>3, FilesNext DEF OwnInv
<1>11. ReadCame'
  BY <1>2, <1>4, <1>5, ReadNext DEF OwnInv
<1> QED  BY <1>6, <1>7, <1>8, <1>9, <1>10, <1>11 DEF OwnInv

LEMMA OwnRead == ASSUME TypeInv, OwnInv, Read PROVE OwnInv'
<1>1. PICK out : out = files[Head(todo).file]
  OBVIOUS
<1>2. /\ Running /\ Head(todo).op = "get_stat"
      /\ UNCHANGED <<address, remote, files, body, began, masked>>
      /\ Done(out # NoOutput) /\ result' = IF out # NoOutput THEN out ELSE result
  BY <1>1 DEF Read, Op, laptop, history
<1>3. Ended /\ (outcome' # "raised" => result' = out)
  BY <1>2 DEF Done, Raises, Ended
<1>4. Forward
  BY <1>2, <1>3 DEF Forward
<1>5. Head(todo).op \notin Syncs \cup Remote \cup {"store_hdfs", "run_spark", "fetch", "launch_local"}
  BY <1>2 DEF Syncs, Remote
<1>6. AddressFound'
  BY <1>4, <1>5, AddressNext DEF OwnInv
<1>7. CodeSynced'
  BY <1>2, <1>4, <1>5, CodeNext DEF OwnInv
<1>8. DataStored'
  BY <1>2, <1>4, <1>5, DataNext DEF OwnInv
<1>9. RunIsOwn'
  BY <1>2, <1>4, <1>5, RunNext DEF OwnInv
<1>10. FilesCame'
  <2>1. \A f \in File : Place + 1 \notin Writes(body, f)
    BY <1>4, <1>5, AtFact DEF Writes, Forward
  <2> QED  BY <1>2, <1>4, <2>1, FilesNext DEF OwnInv
<1>11. ReadCame'
  BY <1>1, <1>2, <1>3, <1>4, ReadNext DEF OwnInv
<1> QED  BY <1>6, <1>7, <1>8, <1>9, <1>10, <1>11 DEF OwnInv

LEMMA OwnStep == ASSUME TypeInv, OwnInv, [Next]_vars PROVE OwnInv'
<1>1. ASSUME NEW b \in Functions, Call(b) PROVE OwnInv'
  <2>1. body' = b /\ todo' = b /\ b \in Seq(Command)
    BY <1>1, FunctionsAssumption DEF Call
  <2>2. Place' = 0 /\ DOMAIN b = 1..Len(b)
    BY <2>1 DEF Place
  <2>3. \A ops : At(b, ops) \subseteq 1..Len(b)
    BY <2>2 DEF At
  <2>4. AddressFound' /\ CodeSynced' /\ DataStored'
    BY <2>1, <2>2, <2>3 DEF AddressFound, CodeSynced, DataStored, Putting
  <2>5. RunIsOwn' /\ ReadCame'
    BY <2>1, <2>2, <2>3 DEF RunIsOwn, ReadCame, Runs, Latest
  <2>6. FilesCame'
    BY <2>1, <2>2, <2>3 DEF FilesCame, Writes, Latest
  <2> QED  BY <2>4, <2>5, <2>6 DEF OwnInv
<1>2. CASE NewProcess
  <2>1. /\ ~Running /\ UNCHANGED <<calls, todo, outcome, result, body, began, masked>>
    BY <1>2 DEF NewProcess, history
  <2>2. ~Running'
    BY <2>1 DEF Running
  <2>3. AddressFound' /\ CodeSynced' /\ DataStored' /\ RunIsOwn' /\ FilesCame'
    BY <2>2 DEF AddressFound, CodeSynced, DataStored, RunIsOwn, FilesCame
  <2>4. ReadCame'
    BY <2>1 DEF OwnInv, ReadCame, Live, Place, Came, Own, Stores, Runs
  <2> QED  BY <2>3, <2>4 DEF OwnInv
<1>3. CASE Compile \/ UNCHANGED vars
  <2>1. UNCHANGED <<calls, todo, outcome, address, remote, files, result, body, began, masked>>
    BY <1>3 DEF Compile, vars, history, laptop
  <2> QED
    BY <2>1 DEF OwnInv, AddressFound, CodeSynced, DataStored, RunIsOwn, FilesCame, ReadCame,
                Live, Running, Place, Master, Came, Own, Stores, Runs, Putting
<1>4. ASSUME NEW op \in Power, MesosEc2(op) PROVE OwnInv'
  BY <1>4, OwnMesos
<1>5. CASE DeclineStop \/ make_master
  BY <1>5, OwnDecline, OwnMaster
<1>6. CASE code_sync \/ init_sync \/ Store
  BY <1>6, OwnSyncs, OwnStore
<1>7. CASE Run \/ Fetch
  BY <1>7, OwnRun, OwnFetch
<1>8. CASE LaunchLocal \/ Read
  BY <1>8, OwnLaunchLocal, OwnRead
<1> QED  BY <1>1, <1>2, <1>3, <1>4, <1>5, <1>6, <1>7, <1>8 DEF Next

(* The function returned: the output it read last is its own.              *)
LEMMA OwnFollows == ASSUME TypeInv, OwnInv PROVE ReturnsOwnResults
<1>1. SUFFICES ASSUME outcome = "returned", Has("get_stat")
               PROVE \/ /\ result.call = calls
                        /\ result.code >= began \/ "sync_target" \in masked
                        /\ Has("store_hdfs") => result.data \subseteq Stores \/ "put" \in masked
                     \/ /\ Has("launch_local")
                        /\ \/ "sbt" \in masked
                           \/ \E i, j \in DOMAIN body :
                                /\ body[i].op = "launch_local" /\ body[j].op = "get_stat"
                                /\ body[i].file # body[j].file
  BY DEF ReturnsOwnResults
<1>2. At(body, {"get_stat"}) # {} /\ body # <<>>
  BY <1>1 DEF Has, At
<1>3. body \in Functions /\ Place = Len(body)
  BY <1>1, <1>2 DEF TypeInv, TypeOK, Running, Place
<1>4. ReadsOwn(body)
  BY <1>3, FunctionsAssumption
<1>5. CASE \E i \in At(body, {"launch_local"}), j \in At(body, {"get_stat"}) :
             body[i].file # body[j].file
  BY <1>5 DEF At, Has
<1>6. ASSUME NEW i \in Final(body, {"get_stat"}), NEW j \in Writes(body, body[i].file),
             Latest(j, Writes(body, body[i].file), i),
             Fetched(body, j) \/ (body[j].op = "launch_local" /\ Putting = {})
      PROVE  \/ /\ result.call = calls
                /\ result.code >= began \/ "sync_target" \in masked
                /\ Has("store_hdfs") => result.data \subseteq Stores \/ "put" \in masked
             \/ Has("launch_local") /\ "sbt" \in masked
  <2>1. Came(result, j)
    BY <1>1, <1>3, <1>6 DEF Final, OwnInv, ReadCame, Live
  <2>2. CASE Fetched(body, j)
    <3>1. PICK r \in Runs : /\ Latest(r, Runs, j)
                            /\ \E s \in At(body, Syncs) : s < r
                            /\ Putting # {} => StoredBefore(body, r)
      BY <2>2 DEF Fetched, Runs, Putting
    <3>2. Own(result, r)
      BY <2>1, <2>2, <3>1 DEF Came, Fetched
    <3>3. Has("store_hdfs") => Putting # {}
      BY DEF Has, Putting, At
    <3> QED  BY <3>1, <3>2, <3>3 DEF Own
  <2>3. CASE body[j].op = "launch_local" /\ Putting = {}
    <3>1. ~Has("store_hdfs") /\ Has("launch_local")
      BY <2>3 DEF Has, Putting, At, Writes
    <3> QED  BY <2>1, <2>3, <3>1 DEF Came
  <2> QED  BY <1>6, <2>2, <2>3
<1> QED  BY <1>1, <1>2, <1>4, <1>5, <1>6 DEF ReadsOwn, Putting

(* What a function that ran on the cluster reads at its end was computed   *)
(* for this call, from code compiled no earlier than the call and from     *)
(* data the function named, unless a first rsync or a put failed unseen.   *)
THEOREM ResultsAreOwn == Spec => []ReturnsOwnResults
<1>1. Init => OwnInv
  BY DEF Init, OwnInv, AddressFound, CodeSynced, DataStored, RunIsOwn, FilesCame, ReadCame,
         Running, Live
<1> QED  BY <1>1, TypeCorrect, OwnStep, OwnFollows, PTL DEF Spec

=============================================================================
