-------------------------- MODULE BotoRequest_proofs --------------------------
(***************************************************************************)
(* Proofs about the connection pool of boto, for any finite set of         *)
(* requests, any hosts, any number of retries and any size of the pool.    *)
(***************************************************************************)
EXTENDS BotoRequest, FiniteSetTheorems, SequenceTheorems, TLAPS

(* Lemma: the queue after its head was taken. *)
LEMMA TailFacts ==
  ASSUME NEW S, NEW s \in Seq(S), s # <<>>
  PROVE  /\ Head(s) \in S /\ Tail(s) \in Seq(S)
         /\ Head(s) = s[1] /\ 1 \in DOMAIN s
         /\ Len(Tail(s)) = Len(s) - 1
         /\ DOMAIN Tail(s) = 1..(Len(s) - 1)
         /\ \A k \in DOMAIN Tail(s) : k + 1 \in DOMAIN s /\ Tail(s)[k] = s[k + 1]
  OBVIOUS

(* Lemma: the queue after a connection was put into it. *)
LEMMA AppendFacts ==
  ASSUME NEW S, NEW s \in Seq(S), NEW c \in S
  PROVE  /\ Append(s, c) \in Seq(S)
         /\ Len(Append(s, c)) = Len(s) + 1
         /\ \A k \in DOMAIN Append(s, c) :
              Append(s, c)[k] = c \/ (k \in DOMAIN s /\ Append(s, c)[k] = s[k])
  OBVIOUS

(* Lemma: a request takes an idle connection or a new one, and the other *)
(* queues stay as they are.                                              *)
LEMMA GetConnectionFacts ==
  ASSUME TypeOK, NEW r \in Requests, NEW q \in Queues, GetConnection(r, q)
  PROVE  /\ conn' \in [Requests -> Connection]
         /\ pool' \in [Queues -> Seq(Connection)]
         /\ \A p \in Requests : p # r => conn'[p] = conn[p]
         /\ \A g \in Queues : g # q => pool'[g] = pool[g]
         /\ \/ pool[q] = <<>> /\ conn'[r] = Free /\ pool'[q] = pool[q]
            \/ /\ pool[q] # <<>> /\ conn'[r] = pool[q][1] /\ 1 \in DOMAIN pool[q]
               /\ pool'[q] = Tail(pool[q])
<1>1. CASE pool[q] = <<>>
  BY <1>1 DEF TypeOK, GetConnection, Connection
<1>2. CASE pool[q] # <<>>
  <2>1. pool[q] \in Seq(Connection)
    BY DEF TypeOK
  <2>2. /\ Head(pool[q]) \in Connection /\ Tail(pool[q]) \in Seq(Connection)
        /\ Head(pool[q]) = pool[q][1] /\ 1 \in DOMAIN pool[q]
    BY <1>2, <2>1, TailFacts
  <2>3. /\ conn' = [conn EXCEPT ![r] = Head(pool[q])]
        /\ pool' = [pool EXCEPT ![q] = Tail(@)]
    BY <1>2 DEF GetConnection
  <2> QED
    BY <1>2, <2>2, <2>3 DEF TypeOK
<1> QED
  BY <1>1, <1>2

(* Lemma: the queue of a host's own scheme is a queue, and another host's is *)
(* another one.                                                              *)
LEMMA OwnFacts ==
  ASSUME NEW h \in Hosts
  PROVE  /\ Own(h) \in Queues /\ <<h, ~IsSecure>> \in Queues
         /\ \A g \in Hosts : /\ (Own(g) = Own(h) <=> g = h)
                              /\ Own(g) # <<h, ~IsSecure>>
         /\ \A s \in BOOLEAN : /\ <<h, s>> \in Queues
                                /\ (s = IsSecure => <<h, s>> = Own(h))
                                /\ (s # IsSecure => <<h, s>> = <<h, ~IsSecure>>)
  BY BotoAssumption DEF Own, Queues

(* The requests under way to a host. *)
RequestsTo(h) == {r \in Requests : pc[r] \in {"send", "wait"} /\ host[r] = h}

(* Lemma: peak is a number and never less than what it was or than the     *)
(* requests that are under way.                                            *)
LEMMA PeakFacts ==
  ASSUME TypeOK, NotePeak
  PROVE  /\ peak' \in [Hosts -> Nat]
         /\ \A h \in Hosts : peak'[h] >= peak[h] /\ peak'[h] >= Cardinality(RequestsTo(h)')
<1>1. \A h \in Hosts : Cardinality(RequestsTo(h)') \in Nat
  <2> SUFFICES ASSUME NEW h \in Hosts PROVE Cardinality(RequestsTo(h)') \in Nat
    OBVIOUS
  <2>1. IsFiniteSet(RequestsTo(h)')
    BY FS_Subset, BotoAssumption DEF RequestsTo
  <2> QED
    BY <2>1, FS_CardinalityType
<1>2. \A h \in Hosts :
        peak'[h] = IF Cardinality(RequestsTo(h)') > peak[h]
                   THEN Cardinality(RequestsTo(h)') ELSE peak[h]
  BY DEF NotePeak, RequestsTo
<1>3. \A h \in Hosts : peak[h] \in Nat
  BY DEF TypeOK
<1>4. \A h \in Hosts : /\ peak'[h] \in Nat
                       /\ peak'[h] >= peak[h] /\ peak'[h] >= Cardinality(RequestsTo(h)')
  BY <1>1, <1>2, <1>3
<1>5. peak' = [h \in Hosts |-> peak'[h]]
  BY DEF NotePeak
<1> QED
  BY <1>4, <1>5

-----------------------------------------------------------------------------
(* The steps of _mexe keep the types: a queue holds connections that are    *)
(* free or that carry the answer of a request.  That no request is tried    *)
(* more than NUM_RETRIES + 1 times needs that one which may still be tried  *)
(* has a retry left.                                                        *)
Places == {"new", "send", "wait", "returned", "empty", "read", "raised"}
RetriesLeft == \A r \in Requests : pc[r] \in {"new", "send", "wait"} => i[r] <= NUM_RETRIES

(* Lemma: a retry ends in another attempt or in an exception. *)
LEMMA AgainFacts ==
  ASSUME TypeOK, RetriesLeft, NEW r \in Requests, UnderWay(r), Again(r)
  PROVE  /\ i' \in [Requests -> 0..(NUM_RETRIES + 1)]
         /\ pc' \in [Requests -> Places]
         /\ \A q \in Requests : q # r => pc'[q] = pc[q]
         /\ pc'[r] \in {"send", "raised"}
         /\ RetriesLeft'
<1>1. i[r] \in Nat /\ i[r] <= NUM_RETRIES
  BY DEF TypeOK, RetriesLeft, UnderWay
<1>2. /\ pc' = [pc EXCEPT ![r] = IF i[r] < NUM_RETRIES THEN "send" ELSE "raised"]
      /\ i' = [i EXCEPT ![r] = i[r] + 1]
  BY DEF Again
<1>3. i[r] + 1 \in 0..(NUM_RETRIES + 1)
  BY <1>1, BotoAssumption
<1>4. RetriesLeft'
  BY <1>1, <1>2, BotoAssumption DEF TypeOK, RetriesLeft
<1> QED
  BY <1>2, <1>3, <1>4 DEF TypeOK, Places

(* Lemma: what a step does to a body that is read. *)
LEMMA ReadFacts ==
  ASSUME TypeOK, NEW r \in Requests, Read(r)
  PROVE  /\ conn' \in [Requests -> Connection]
         /\ pool' \in [Queues -> Seq(Connection)]
         /\ \A q \in Requests : conn'[q] = IF conn[q] = r THEN Free ELSE conn[q]
         /\ \A g \in Queues : /\ DOMAIN pool'[g] = DOMAIN pool[g]
                               /\ Len(pool'[g]) = Len(pool[g])
                               /\ \A k \in DOMAIN pool[g] :
                                    pool'[g][k] = IF pool[g][k] = r THEN Free ELSE pool[g][k]
<1> DEFINE Clear(c) == IF c = r THEN Free ELSE c
<1>1. /\ pool' = [g \in Queues |-> [k \in DOMAIN pool[g] |-> Clear(pool[g][k])]]
      /\ conn' = [q \in Requests |-> Clear(conn[q])]
  BY DEF Read
<1>2. \A g \in Queues : /\ pool'[g] \in Seq(Connection)
                        /\ DOMAIN pool'[g] = DOMAIN pool[g]
                        /\ Len(pool'[g]) = Len(pool[g])
  <2> SUFFICES ASSUME NEW g \in Queues
               PROVE  /\ pool'[g] \in Seq(Connection)
                      /\ DOMAIN pool'[g] = DOMAIN pool[g]
                      /\ Len(pool'[g]) = Len(pool[g])
    OBVIOUS
  <2>1. /\ pool[g] \in Seq(Connection) /\ Len(pool[g]) \in Nat
        /\ DOMAIN pool[g] = 1..Len(pool[g])
        /\ \A k \in 1..Len(pool[g]) : pool[g][k] \in Connection
    BY DEF TypeOK
  <2>2. pool'[g] = [k \in 1..Len(pool[g]) |-> Clear(pool[g][k])]
    BY <1>1, <2>1
  <2>3. \A k \in 1..Len(pool[g]) : Clear(pool[g][k]) \in Connection
    BY <2>1 DEF Connection
  <2>4. pool'[g] \in [1..Len(pool[g]) -> Connection]
    BY <2>2, <2>3
  <2>5. pool'[g] \in Seq(Connection) /\ Len(pool'[g]) = Len(pool[g])
    BY <2>1, <2>4, SeqDef, LenProperties
  <2> QED
    BY <2>1, <2>4, <2>5
<1>3. pool' \in [Queues -> Seq(Connection)]
  BY <1>1, <1>2
<1>4. conn' \in [Requests -> Connection]
  BY <1>1 DEF TypeOK, Connection
<1> QED
  BY <1>1, <1>2, <1>3, <1>4

(* Lemma: the connection of a request that returns goes to its host's own  *)
(* queue, or that is full.                                                 *)
LEMMA ReturnFacts ==
  ASSUME TypeOK, NEW r \in Requests, Return(r)
  PROVE  /\ pc[r] = "wait"
         /\ pool' \in [Queues -> Seq(Connection)]
         /\ pc' \in [Requests -> Places]
         /\ \A q \in Requests : q # r => pc'[q] = pc[q]
         /\ \A g \in Queues : g # Own(host[r]) => pool'[g] = pool[g]
         /\ \/ /\ Len(pool'[Own(host[r])]) = Len(pool[Own(host[r])]) + 1
               /\ pc'[r] = "returned"
            \/ /\ pool'[Own(host[r])] = pool[Own(host[r])]
               /\ Len(pool[Own(host[r])]) >= CONNECTIONS_PER_HOST
               /\ pc'[r] \in {"empty", "returned"}
<1>1. /\ pc[r] = "wait" /\ Own(host[r]) \in Queues
      /\ pool[Own(host[r])] \in Seq(Connection)
  BY OwnFacts DEF Return, Answered, TypeOK
<1>2. PICK c \in {r, Free} :
        IF Len(pool[Own(host[r])]) < CONNECTIONS_PER_HOST
        THEN /\ pool' = [pool EXCEPT ![Own(host[r])] = Append(@, c)]
             /\ pc' = [pc EXCEPT ![r] = "returned"]
        ELSE /\ pc' = [pc EXCEPT ![r] = IF c = r THEN "empty" ELSE "returned"]
             /\ UNCHANGED pool
  BY DEF Return
<1>3. c \in Connection
  BY DEF Connection
<1>4. /\ Append(pool[Own(host[r])], c) \in Seq(Connection)
      /\ Len(Append(pool[Own(host[r])], c)) = Len(pool[Own(host[r])]) + 1
      /\ Len(pool[Own(host[r])]) \in Nat
  BY <1>1, <1>3, AppendFacts
<1>5. CASE Len(pool[Own(host[r])]) < CONNECTIONS_PER_HOST
  BY <1>1, <1>2, <1>4, <1>5 DEF TypeOK, Places
<1>6. CASE ~(Len(pool[Own(host[r])]) < CONNECTIONS_PER_HOST)
  <2>1. /\ pc' = [pc EXCEPT ![r] = IF c = r THEN "empty" ELSE "returned"]
        /\ pool' = pool
    BY <1>2, <1>6
  <2>2. Len(pool[Own(host[r])]) >= CONNECTIONS_PER_HOST
    BY <1>4, <1>6, BotoAssumption
  <2>3. /\ pc' \in [Requests -> Places] /\ pc'[r] \in {"empty", "returned"}
        /\ \A q \in Requests : q # r => pc'[q] = pc[q]
    BY <2>1 DEF TypeOK, Places
  <2> QED
    BY <1>1, <2>1, <2>2, <2>3 DEF TypeOK
<1> QED
  BY <1>5, <1>6

(* Lemma: every step keeps the types. *)
LEMMA TypeInductive ==
  ASSUME TypeOK, RetriesLeft, [Next]_vars
  PROVE  TypeOK' /\ RetriesLeft'
<1>1. CASE UNCHANGED vars
  BY <1>1 DEF TypeOK, RetriesLeft, vars, Connection
<1>2. ASSUME NEW r \in Requests, Begin(r) PROVE TypeOK' /\ RetriesLeft'
  <2>1. Own(host[r]) \in Queues /\ GetConnection(r, Own(host[r]))
    BY <1>2, OwnFacts DEF Begin, TypeOK
  <2>2. conn' \in [Requests -> Connection] /\ pool' \in [Queues -> Seq(Connection)]
    BY <2>1, GetConnectionFacts
  <2>3. pc' \in [Requests -> Places]
    BY <1>2 DEF Begin, TypeOK, Places
  <2>4. peak' \in [Hosts -> Nat]
    BY <1>2, PeakFacts DEF Begin
  <2>5. RetriesLeft'
    BY <1>2 DEF RetriesLeft, Begin, TypeOK
  <2>6. secure' \in [Requests -> BOOLEAN]
    BY <1>2, BotoAssumption DEF Begin, TypeOK
  <2> QED
    BY <1>2, <2>2, <2>3, <2>4, <2>5, <2>6 DEF TypeOK, Begin, Places
<1>3. ASSUME NEW r \in Requests, Send(r) PROVE TypeOK' /\ RetriesLeft'
  BY <1>3 DEF Send, TypeOK, RetriesLeft, Connection
<1>4. ASSUME NEW r \in Requests, Lost(r) \/ Refused(r) PROVE TypeOK' /\ RetriesLeft'
  <2>1. UnderWay(r) /\ Reconnect(r) /\ Again(r) /\ UNCHANGED <<host, secure, peak>>
    BY <1>4 DEF Lost, Refused, UnderWay
  <2>2. conn' \in [Requests -> Connection] /\ UNCHANGED pool
    BY <2>1 DEF Reconnect, TypeOK, Connection
  <2> QED
    BY <2>1, <2>2, AgainFacts DEF TypeOK, Places
<1>5. ASSUME NEW r \in Requests, Busy(r) PROVE TypeOK' /\ RetriesLeft'
  <2>1. UnderWay(r) /\ Again(r) /\ UNCHANGED <<host, secure, conn, pool, peak>>
    BY <1>5 DEF Busy, Answered, UnderWay
  <2> QED
    BY <2>1, AgainFacts DEF TypeOK, Places
<1>6. ASSUME NEW r \in Requests, Moved(r) PROVE TypeOK' /\ RetriesLeft'
  <2>1. PICK h \in Hosts, s \in BOOLEAN : /\ host' = [host EXCEPT ![r] = h]
                                          /\ secure' = [secure EXCEPT ![r] = s]
                                          /\ GetConnection(r, <<h, s>>)
    BY <1>6 DEF Moved
  <2>2. conn' \in [Requests -> Connection] /\ pool' \in [Queues -> Seq(Connection)]
    <3>1. PICK q \in Queues : q = <<h, s>>
      BY OwnFacts
    <3>2. GetConnection(r, q)
      BY <2>1, <3>1
    <3> QED
      BY <3>2, GetConnectionFacts
  <2>3. pc' \in [Requests -> Places]
    BY <1>6 DEF Moved, TypeOK, Places
  <2>4. peak' \in [Hosts -> Nat]
    BY <1>6, PeakFacts DEF Moved
  <2>5. RetriesLeft'
    BY <1>6 DEF RetriesLeft, Moved, Answered, TypeOK
  <2>6. host' \in [Requests -> Hosts] /\ secure' \in [Requests -> BOOLEAN] /\ i' = i
    BY <1>6, <2>1 DEF TypeOK, Moved
  <2> QED
    BY <2>2, <2>3, <2>4, <2>5, <2>6 DEF TypeOK, Places
<1>7. ASSUME NEW r \in Requests, Return(r) PROVE TypeOK' /\ RetriesLeft'
  <2>1. pool' \in [Queues -> Seq(Connection)] /\ pc' \in [Requests -> Places]
    BY <1>7, ReturnFacts
  <2>2. conn' \in [Requests -> Connection] /\ UNCHANGED <<i, host, secure, peak>>
    BY <1>7 DEF Return, TypeOK, Connection
  <2>3. RetriesLeft'
    BY <1>7 DEF RetriesLeft, Return, TypeOK
  <2> QED
    BY <2>1, <2>2, <2>3 DEF TypeOK, Places
<1>8. ASSUME NEW r \in Requests, Read(r) PROVE TypeOK' /\ RetriesLeft'
  <2>1. conn' \in [Requests -> Connection] /\ pool' \in [Queues -> Seq(Connection)]
    BY <1>8, ReadFacts
  <2>2. pc' = [pc EXCEPT ![r] = "read"] /\ UNCHANGED <<i, host, secure, peak>>
    BY <1>8 DEF Read
  <2> QED
    BY <2>1, <2>2 DEF TypeOK, RetriesLeft
<1> QED
  BY <1>1, <1>2, <1>3, <1>4, <1>5, <1>6, <1>7, <1>8 DEF Next, Attempt

(* Lemma: the types hold before any request. *)
LEMMA TypeInitial == Init => TypeOK /\ RetriesLeft
  BY BotoAssumption DEF Init, TypeOK, RetriesLeft, Connection

(* Type correctness: in particular a request is tried NUM_RETRIES + 1 times *)
(* at most, and a queue of the pool holds connections only.                 *)
THEOREM BotoTypeCorrect == Spec => []TypeOK
<1>1. TypeOK /\ RetriesLeft /\ [Next]_vars => TypeOK' /\ RetriesLeft'
  BY TypeInductive
<1> QED
  BY <1>1, TypeInitial, PTL DEF Spec

-----------------------------------------------------------------------------
(* OnlyUnreadBodiesBlock for every place of a queue, which is what taking   *)
(* the head of a queue preserves.                                           *)
UnreadOnly ==
  /\ \A r \in Requests : UnderWay(r) => conn[r] = Free \/ pc[conn[r]] = "returned"
  /\ \A g \in Queues : \A k \in DOMAIN pool[g] :
       pool[g][k] = Free \/ pc[pool[g][k]] = "returned"

(* Lemma: while no answer is read, a returned request stays one. *)
LEMMA ReturnedStays ==
  ASSUME TypeOK, NEW r \in Requests, Begin(r) \/ Attempt(r)
  PROVE  /\ pc' \in [Requests -> Places] /\ pc[r] # "returned"
         /\ \A q \in Requests : q # r => pc'[q] = pc[q]
         /\ \A c \in Connection : c = Free \/ pc[c] = "returned" =>
                                    c = Free \/ pc'[c] = "returned"
<1>1. pc[r] \in {"new", "send", "wait"}
  BY DEF Begin, Attempt, Send, Lost, Refused, Busy, Moved, Return, Answered, UnderWay
<1>2. \E p \in Places : pc' = [pc EXCEPT ![r] = p]
  BY DEF Begin, Attempt, Send, Lost, Refused, Busy, Moved, Return, Again, Places
<1> QED
  BY <1>1, <1>2 DEF TypeOK, Places, Connection

(* Lemma: every step keeps UnreadOnly. *)
LEMMA UnreadInductive ==
  ASSUME TypeOK, UnreadOnly, [Next]_vars
  PROVE  UnreadOnly'
<1> DEFINE Fine(c) == c = Free \/ pc[c] = "returned"
           StillFine(c) == c = Free \/ pc'[c] = "returned"
<1>a. /\ \A g \in Queues : \A k \in DOMAIN pool[g] : pool[g][k] \in Connection
      /\ \A q \in Requests : conn[q] \in Connection
  BY DEF TypeOK
<1>b. ASSUME NEW r \in Requests, Begin(r) \/ Attempt(r),
             StillFine(conn'[r]), \A q \in Requests : q # r => conn'[q] = conn[q]
      PROVE  \A q \in Requests : UnderWay(q)' => StillFine(conn'[q])
  BY <1>a, <1>b, ReturnedStays DEF UnreadOnly, UnderWay
<1>1. CASE UNCHANGED vars
  BY <1>1 DEF UnreadOnly, vars, UnderWay
<1>2. ASSUME NEW r \in Requests, NEW q \in Queues, GetConnection(r, q),
             Begin(r) \/ Attempt(r)
      PROVE  UnreadOnly'
  <2>1. StillFine(conn'[r])
    BY <1>2, <1>a, GetConnectionFacts, ReturnedStays DEF UnreadOnly
  <2>2. \A g \in Queues : \A k \in DOMAIN pool'[g] : StillFine(pool'[g][k])
    <3> SUFFICES ASSUME NEW g \in Queues, NEW k \in DOMAIN pool'[g]
                 PROVE  StillFine(pool'[g][k])
      OBVIOUS
    <3>1. CASE pool'[g] = pool[g]
      BY <1>2, <1>a, <3>1, ReturnedStays DEF UnreadOnly
    <3>2. CASE pool'[g] # pool[g]
      <4>1. g = q /\ pool[g] # <<>> /\ pool'[g] = Tail(pool[g])
        BY <1>2, <3>2, GetConnectionFacts
      <4>2. pool[g] \in Seq(Connection)
        BY DEF TypeOK
      <4>3. k + 1 \in DOMAIN pool[g] /\ pool'[g][k] = pool[g][k + 1]
        BY <4>1, <4>2, TailFacts
      <4> QED
        BY <1>2, <1>a, <4>3, ReturnedStays DEF UnreadOnly
    <3> QED
      BY <3>1, <3>2
  <2> QED
    BY <1>2, <1>b, <2>1, <2>2, GetConnectionFacts DEF UnreadOnly
<1>3. ASSUME NEW r \in Requests, Send(r) \/ Lost(r) \/ Refused(r) \/ Busy(r) PROVE UnreadOnly'
  <2>1. /\ UNCHANGED pool
        /\ (conn' = conn /\ UnderWay(r)) \/ conn' = [conn EXCEPT ![r] = Free]
    BY <1>3 DEF Send, Lost, Refused, Busy, Answered, Reconnect, UnderWay
  <2>2. StillFine(conn'[r]) /\ \A q \in Requests : q # r => conn'[q] = conn[q]
    BY <1>3, <1>a, <2>1, ReturnedStays DEF UnreadOnly, Attempt, TypeOK
  <2>3. \A q \in Requests : UnderWay(q)' => StillFine(conn'[q])
    BY <1>3, <1>b, <2>2 DEF Attempt
  <2>4. \A g \in Queues : \A k \in DOMAIN pool[g] : StillFine(pool[g][k])
    BY <1>3, <1>a, ReturnedStays DEF UnreadOnly, Attempt
  <2> QED
    BY <2>1, <2>3, <2>4 DEF UnreadOnly
<1>4. ASSUME NEW r \in Requests, Return(r) PROVE UnreadOnly'
  <2>1. conn' = [conn EXCEPT ![r] = Free]
    BY <1>4 DEF Return
  <2>2. \A q \in Requests : UnderWay(q)' => StillFine(conn'[q])
    <3>1. conn'[r] = Free /\ \A q \in Requests : q # r => conn'[q] = conn[q]
      BY <2>1 DEF TypeOK
    <3> QED
      BY <1>4, <1>b, <3>1 DEF Attempt
  <2>3. ASSUME NEW g \in Queues, NEW k \in DOMAIN pool'[g] PROVE StillFine(pool'[g][k])
    <3>1. PICK c \in {r, Free} :
            IF Len(pool[Own(host[r])]) < CONNECTIONS_PER_HOST
            THEN /\ pool' = [pool EXCEPT ![Own(host[r])] = Append(@, c)]
                 /\ pc' = [pc EXCEPT ![r] = "returned"]
            ELSE UNCHANGED pool
      BY <1>4 DEF Return
    <3>2. CASE pool'[g] = pool[g]
      BY <1>4, <1>a, <2>3, <3>2, ReturnedStays DEF UnreadOnly, Attempt
    <3>3. CASE pool'[g] # pool[g]
      <4>1. /\ pool'[g] = Append(pool[g], c) /\ pc'[r] = "returned"
            /\ pool[g] \in Seq(Connection) /\ c \in Connection
        BY <3>1, <3>3 DEF TypeOK, Connection
      <4>2. pool'[g][k] = c \/ (k \in DOMAIN pool[g] /\ pool'[g][k] = pool[g][k])
        BY <2>3, <4>1, AppendFacts
      <4>3. StillFine(c)
        BY <4>1
      <4> QED
        BY <1>4, <1>a, <4>2, <4>3, ReturnedStays DEF UnreadOnly, Attempt
    <3> QED
      BY <3>2, <3>3
  <2> QED
    BY <2>2, <2>3 DEF UnreadOnly
<1>5. ASSUME NEW r \in Requests, Read(r) PROVE UnreadOnly'
  <2>1. pc' = [pc EXCEPT ![r] = "read"]
    BY <1>5 DEF Read
  <2>2. \A c \in Connection : Fine(c) => StillFine(IF c = r THEN Free ELSE c)
    BY <2>1 DEF TypeOK, Connection
  <2>3. \A q \in Requests : UnderWay(q)' => UnderWay(q)
    BY <2>1 DEF TypeOK, UnderWay
  <2> QED
    BY <1>5, <1>a, <2>2, <2>3, ReadFacts DEF UnreadOnly
<1> QED
  <2>1. ASSUME NEW r \in Requests, Begin(r) PROVE UnreadOnly'
    BY <1>2, <2>1, OwnFacts DEF Begin, TypeOK
  <2>2. ASSUME NEW r \in Requests, Moved(r) PROVE UnreadOnly'
    <3>1. PICK h \in Hosts, s \in BOOLEAN : GetConnection(r, <<h, s>>)
      BY <2>2 DEF Moved
    <3>2. PICK q \in Queues : q = <<h, s>>
      BY OwnFacts
    <3>3. GetConnection(r, q)
      BY <3>1, <3>2
    <3> QED
      BY <1>2, <2>2, <3>3 DEF Attempt
  <2> QED
    BY <1>1, <1>3, <1>4, <1>5, <2>1, <2>2 DEF Next, Attempt

(* httplib refuses a request only because of a request that has returned    *)
(* and whose body nobody has read, however many requests share the pool.    *)
THEOREM OnlyUnreadBodies == Spec => []OnlyUnreadBodiesBlock
<1>1. Init => UnreadOnly
  BY DEF Init, UnreadOnly, UnderWay
<1>2. TypeOK /\ UnreadOnly /\ [Next]_vars => UnreadOnly'
  BY UnreadInductive
<1>3. UnreadOnly => OnlyUnreadBodiesBlock
  BY DEF UnreadOnly, OnlyUnreadBodiesBlock
<1> QED
  BY <1>1, <1>2, <1>3, BotoTypeCorrect, PTL DEF Spec

-----------------------------------------------------------------------------
(* The requests under way to a host whose connection was asked for in the   *)
(* object's own scheme.                                                     *)
OwnTo(h) == {r \in RequestsTo(h) : secure[r] = IsSecure}

(* A connection in a host's queue and a request under way on one from there *)
(* each account for a request that was under way when the peak was noted,   *)
(* or for one that a redirection to the other scheme had brought.           *)
Accounted ==
  /\ \A h \in Hosts : /\ Len(pool[Own(h)]) + Cardinality(OwnTo(h))
                           <= peak[h] + Cardinality(Strays(h))
                      /\ Len(pool[<<h, ~IsSecure>>]) = 0
  /\ \A r \in Requests : pc[r] = "empty" =>
       peak[host[r]] + Cardinality(Strays(host[r])) > CONNECTIONS_PER_HOST

(* Lemma: the numbers that are compared. *)
LEMMA Numbers ==
  ASSUME TypeOK
  PROVE  \A h \in Hosts : /\ IsFiniteSet(OwnTo(h)) /\ Cardinality(OwnTo(h)) \in Nat
                          /\ IsFiniteSet(Strays(h)) /\ Cardinality(Strays(h)) \in Nat
                          /\ Len(pool[Own(h)]) \in Nat /\ peak[h] \in Nat
<1> SUFFICES ASSUME NEW h \in Hosts
             PROVE  /\ IsFiniteSet(OwnTo(h)) /\ Cardinality(OwnTo(h)) \in Nat
                    /\ IsFiniteSet(Strays(h)) /\ Cardinality(Strays(h)) \in Nat
                    /\ Len(pool[Own(h)]) \in Nat /\ peak[h] \in Nat
  OBVIOUS
<1>1. IsFiniteSet(OwnTo(h))
  BY FS_Subset, BotoAssumption DEF OwnTo, RequestsTo
<1>2. IsFiniteSet(Strays(h))
  BY FS_Subset, BotoAssumption DEF Strays
<1>3. pool[Own(h)] \in Seq(Connection)
  BY OwnFacts DEF TypeOK
<1> QED
  BY <1>1, <1>2, <1>3, FS_CardinalityType DEF TypeOK

(* Lemma: the same of the next state. *)
LEMMA NumbersNext ==
  ASSUME TypeOK'
  PROVE  \A h \in Hosts : /\ IsFiniteSet(OwnTo(h)') /\ Cardinality(OwnTo(h)') \in Nat
                          /\ IsFiniteSet(RequestsTo(h)') /\ Cardinality(RequestsTo(h)') \in Nat
                          /\ IsFiniteSet(Strays(h)') /\ Cardinality(Strays(h)') \in Nat
                          /\ Len(pool'[Own(h)]) \in Nat /\ peak'[h] \in Nat
<1> SUFFICES ASSUME NEW h \in Hosts
             PROVE  /\ IsFiniteSet(OwnTo(h)') /\ Cardinality(OwnTo(h)') \in Nat
                    /\ IsFiniteSet(RequestsTo(h)') /\ Cardinality(RequestsTo(h)') \in Nat
                    /\ IsFiniteSet(Strays(h)') /\ Cardinality(Strays(h)') \in Nat
                    /\ Len(pool'[Own(h)]) \in Nat /\ peak'[h] \in Nat
  OBVIOUS
<1>1. IsFiniteSet(RequestsTo(h)')
  BY FS_Subset, BotoAssumption DEF RequestsTo
<1>2. IsFiniteSet(OwnTo(h)')
  BY <1>1, FS_Subset DEF OwnTo
<1>3. IsFiniteSet(Strays(h)')
  BY FS_Subset, BotoAssumption DEF Strays
<1>4. pool'[Own(h)] \in Seq(Connection)
  BY OwnFacts DEF TypeOK
<1> QED
  BY <1>1, <1>2, <1>3, <1>4, FS_CardinalityType DEF TypeOK

(* Lemma: a request that asks for a connection to h in scheme s adds to h's *)
(* requests only; it takes a connection out of h's queue unless that is     *)
(* empty, and none when s is the other scheme.                              *)
LEMMA TakingAccounts ==
  ASSUME TypeOK, TypeOK', Accounted, NotePeak,
         NEW r \in Requests, NEW h \in Hosts, NEW s \in BOOLEAN,
         NEW q \in Queues, q = <<h, s>>, GetConnection(r, q),
         pc[r] \in {"new", "wait"}, pc' = [pc EXCEPT ![r] = "send"],
         host' = [host EXCEPT ![r] = h], secure' = [secure EXCEPT ![r] = s]
  PROVE  Accounted'
<1>1. \A g \in Hosts : peak'[g] >= peak[g] /\ peak'[g] >= Cardinality(RequestsTo(g)')
  BY PeakFacts
<1>2. \A g \in Hosts : Strays(g)' = Strays(g)
  BY DEF Strays, TypeOK
<1>3. \A p \in Requests : pc'[p] = "empty" =>
        peak'[host'[p]] + Cardinality(Strays(host[p])') > CONNECTIONS_PER_HOST
  <2> SUFFICES ASSUME NEW p \in Requests, pc'[p] = "empty"
               PROVE  peak'[host'[p]] + Cardinality(Strays(host[p])') > CONNECTIONS_PER_HOST
    OBVIOUS
  <2>1. p # r /\ pc[p] = "empty" /\ host'[p] = host[p] /\ host[p] \in Hosts
    BY DEF TypeOK
  <2>2. PICK g \in Hosts : g = host[p]
    BY <2>1
  <2>3. /\ peak[g] \in Nat /\ peak'[g] \in Nat /\ peak'[g] >= peak[g]
        /\ Cardinality(Strays(g)) \in Nat /\ Strays(g)' = Strays(g)
    BY <1>1, <1>2, Numbers, NumbersNext
  <2>4. peak[g] + Cardinality(Strays(g)) > CONNECTIONS_PER_HOST
    BY <2>1, <2>2 DEF Accounted
  <2>5. peak'[g] + Cardinality(Strays(g)') > CONNECTIONS_PER_HOST
    BY <2>3, <2>4, BotoAssumption
  <2>6. host'[p] = g
    BY <2>1, <2>2
  <2> QED
    BY <2>5, <2>6 DEF Strays
<1>4. ASSUME NEW g \in Hosts
      PROVE  Len(pool'[Own(g)]) + Cardinality(OwnTo(g)')
               <= peak'[g] + Cardinality(Strays(g)')
  <2>1. /\ IsFiniteSet(OwnTo(g)) /\ Cardinality(OwnTo(g)) \in Nat
        /\ IsFiniteSet(OwnTo(g)') /\ Cardinality(OwnTo(g)') \in Nat
        /\ IsFiniteSet(RequestsTo(g)') /\ Cardinality(RequestsTo(g)') \in Nat
        /\ Cardinality(Strays(g)) \in Nat /\ Strays(g)' = Strays(g)
        /\ Len(pool[Own(g)]) \in Nat /\ Len(pool'[Own(g)]) \in Nat
        /\ peak[g] \in Nat /\ peak'[g] \in Nat /\ peak'[g] >= peak[g]
        /\ peak'[g] >= Cardinality(RequestsTo(g)')
    BY <1>1, <1>2, Numbers, NumbersNext
  <2>2. Len(pool[Own(g)]) + Cardinality(OwnTo(g)) <= peak[g] + Cardinality(Strays(g))
    BY DEF Accounted
  <2>3. CASE Own(g) # q
    <3>1. OwnTo(g)' \subseteq OwnTo(g)
      BY <2>3, OwnFacts DEF OwnTo, RequestsTo, TypeOK
    <3>2. pool'[Own(g)] = pool[Own(g)]
      <4>1. Own(g) \in Queues /\ Own(g) # q
        BY <2>3, OwnFacts
      <4> QED
        BY <4>1, GetConnectionFacts
    <3>3. Cardinality(OwnTo(g)') <= Cardinality(OwnTo(g))
      BY <2>1, <3>1, FS_Subset
    <3> QED
      BY <2>1, <2>2, <3>2, <3>3
  <2>4. CASE Own(g) = q /\ pool[q] = <<>>
    <3>1. pool'[Own(g)] = <<>>
      BY <2>4, GetConnectionFacts
    <3>2. OwnTo(g)' \subseteq RequestsTo(g)'
      BY DEF OwnTo
    <3>3. Cardinality(OwnTo(g)') <= Cardinality(RequestsTo(g)')
      BY <2>1, <3>2, FS_Subset
    <3>4. Len(pool'[Own(g)]) = 0
      BY <3>1, EmptySeq
    <3> QED
      BY <2>1, <3>3, <3>4
  <2>5. CASE Own(g) = q /\ pool[q] # <<>>
    <3>1. pool'[Own(g)] = Tail(pool[Own(g)]) /\ pool[Own(g)] \in Seq(Connection)
      <4>1. pool'[q] = Tail(pool[q])
        BY <2>5, GetConnectionFacts
      <4> QED
        BY <2>5, <4>1 DEF TypeOK
    <3>2. Len(pool'[Own(g)]) = Len(pool[Own(g)]) - 1
      BY <2>5, <3>1, TailFacts
    <3>3. OwnTo(g)' \subseteq OwnTo(g) \cup {r}
      BY DEF OwnTo, RequestsTo, TypeOK
    <3>4. Cardinality(OwnTo(g)') <= Cardinality(OwnTo(g)) + 1
      <4>1. PICK X : X = OwnTo(g) \cup {r}
        OBVIOUS
      <4>2. IsFiniteSet(X) /\ Cardinality(X) \in Nat /\ Cardinality(X) <= Cardinality(OwnTo(g)) + 1
        <5>1. IsFiniteSet(OwnTo(g)) /\ Cardinality(OwnTo(g)) \in Nat
          BY <2>1
        <5>2. IsFiniteSet(X)
          BY <4>1, <5>1, FS_AddElement
        <5>3. Cardinality(X) = IF r \in OwnTo(g) THEN Cardinality(OwnTo(g))
                               ELSE Cardinality(OwnTo(g)) + 1
          BY <4>1, <5>1, FS_AddElement
        <5> QED
          BY <5>1, <5>2, <5>3
      <4>3. Cardinality(OwnTo(g)') <= Cardinality(X)
        BY <3>3, <4>1, <4>2, FS_Subset
      <4> QED
        BY <2>1, <4>2, <4>3
    <3> QED
      BY <2>1, <2>2, <3>2, <3>4
  <2> QED
    BY <2>3, <2>4, <2>5
<1>5. ASSUME NEW g \in Hosts PROVE Len(pool'[<<g, ~IsSecure>>]) = 0
  <2>1. PICK p \in Queues : p = <<g, ~IsSecure>>
    BY OwnFacts
  <2>2. pool[p] \in Seq(Connection) /\ Len(pool[p]) = 0
    BY <2>1 DEF Accounted, TypeOK
  <2>3. pool[p] = <<>>
    BY <2>2, EmptySeq
  <2>4. pool'[p] = pool[p]
    BY <2>3, GetConnectionFacts
  <2> QED
    BY <2>1, <2>2, <2>4
<1> QED
  BY <1>3, <1>4, <1>5 DEF Accounted

(* Lemma: a step that moves no connection into a queue, and no request to a *)
(* host, keeps the account.                                                 *)
LEMMA LeavingAccounts ==
  ASSUME TypeOK, TypeOK', Accounted, UNCHANGED peak, UNCHANGED host, UNCHANGED secure,
         \A g \in Queues : Len(pool'[g]) = Len(pool[g]),
         \A q \in Requests : pc'[q] \in {"send", "wait"} => pc[q] \in {"send", "wait"},
         \A q \in Requests : pc[q] \in {"returned", "empty", "read"} =>
                               pc'[q] \in {"returned", "empty", "read"},
         \A q \in Requests : pc'[q] = "empty" => pc[q] = "empty"
  PROVE  Accounted'
<1>1. ASSUME NEW h \in Hosts
      PROVE  /\ Cardinality(Strays(h)') >= Cardinality(Strays(h))
             /\ Cardinality(Strays(h)) \in Nat /\ Cardinality(Strays(h)') \in Nat
  <2>1. Strays(h) \subseteq Strays(h)'
    BY DEF Strays
  <2>2. /\ IsFiniteSet(Strays(h)') /\ Cardinality(Strays(h)) \in Nat
        /\ Cardinality(Strays(h)') \in Nat
    BY Numbers, NumbersNext
  <2> QED
    BY <2>1, <2>2, FS_Subset
<1>2. ASSUME NEW h \in Hosts
      PROVE  Len(pool'[Own(h)]) + Cardinality(OwnTo(h)') <= peak'[h] + Cardinality(Strays(h)')
  <2>1. OwnTo(h)' \subseteq OwnTo(h)
    BY DEF OwnTo, RequestsTo
  <2>2. /\ IsFiniteSet(OwnTo(h)) /\ Cardinality(OwnTo(h)) \in Nat
        /\ Cardinality(OwnTo(h)') \in Nat /\ Len(pool[Own(h)]) \in Nat /\ peak[h] \in Nat
        /\ Len(pool'[Own(h)]) = Len(pool[Own(h)])
    BY Numbers, NumbersNext, OwnFacts
  <2>3. Cardinality(OwnTo(h)') <= Cardinality(OwnTo(h))
    BY <2>1, <2>2, FS_Subset
  <2>4. Len(pool[Own(h)]) + Cardinality(OwnTo(h)) <= peak[h] + Cardinality(Strays(h))
    BY DEF Accounted
  <2> QED
    BY <1>1, <2>2, <2>3, <2>4
<1>3. ASSUME NEW q \in Requests, pc'[q] = "empty"
      PROVE  peak'[host'[q]] + Cardinality(Strays(host[q])') > CONNECTIONS_PER_HOST
  <2>1. PICK h \in Hosts : h = host[q] /\ h = host'[q]
    BY DEF TypeOK
  <2>2. pc[q] = "empty" /\ peak[h] \in Nat /\ peak'[h] = peak[h]
    BY <1>3, Numbers
  <2>3. peak[h] + Cardinality(Strays(h)) > CONNECTIONS_PER_HOST
    BY <2>1, <2>2 DEF Accounted
  <2>4. peak'[h] + Cardinality(Strays(h)') > CONNECTIONS_PER_HOST
    BY <1>1, <2>2, <2>3, BotoAssumption
  <2> QED
    BY <2>1, <2>4 DEF Strays
<1>4. \A h \in Hosts : Len(pool'[<<h, ~IsSecure>>]) = 0
  BY OwnFacts DEF Accounted
<1> QED
  BY <1>2, <1>3, <1>4 DEF Accounted

(* Lemma: a request that returns leaves its connection in its place, or, if *)
(* the other scheme had brought it, counts itself as a stray.               *)
LEMMA ReturnAccounts ==
  ASSUME TypeOK, TypeOK', Accounted, NEW r \in Requests, Return(r)
  PROVE  Accounted'
<1>1. PICK g \in Hosts : g = host[r]
  BY DEF TypeOK
<1>2. UNCHANGED <<host, secure, peak>> /\ pc[r] = "wait"
  BY ReturnFacts DEF Return
<1>3. \A q \in Requests : q # r => pc'[q] = pc[q]
  BY ReturnFacts
<1>4. pc'[r] \in {"empty", "returned"}
  BY ReturnFacts
<1>5. \A h \in Hosts :
        /\ IsFiniteSet(OwnTo(h)) /\ Cardinality(OwnTo(h)) \in Nat
        /\ Cardinality(OwnTo(h)') \in Nat
        /\ IsFiniteSet(Strays(h)) /\ Cardinality(Strays(h)) \in Nat
        /\ IsFiniteSet(Strays(h)') /\ Cardinality(Strays(h)') \in Nat
        /\ Len(pool[Own(h)]) \in Nat /\ Len(pool'[Own(h)]) \in Nat
        /\ peak[h] \in Nat /\ peak'[h] = peak[h]
        /\ Len(pool[Own(h)]) + Cardinality(OwnTo(h)) <= peak[h] + Cardinality(Strays(h))
  BY <1>2, Numbers, NumbersNext DEF Accounted
<1>6. \A h \in Hosts : h # g => /\ OwnTo(h)' = OwnTo(h) /\ Strays(h)' = Strays(h)
                                /\ pool'[Own(h)] = pool[Own(h)]
  <2> SUFFICES ASSUME NEW h \in Hosts, h # g
               PROVE  /\ OwnTo(h)' = OwnTo(h) /\ Strays(h)' = Strays(h)
                      /\ pool'[Own(h)] = pool[Own(h)]
    OBVIOUS
  <2>1. OwnTo(h)' = OwnTo(h)
    BY <1>1, <1>2, <1>3 DEF OwnTo, RequestsTo
  <2>2. Strays(h)' = Strays(h)
    BY <1>1, <1>2, <1>3 DEF Strays
  <2>3. pool'[Own(h)] = pool[Own(h)]
    BY <1>1, OwnFacts, ReturnFacts
  <2> QED
    BY <2>1, <2>2, <2>3
<1>7. Len(pool'[Own(g)]) = Len(pool[Own(g)]) + 1 \/ Len(pool'[Own(g)]) = Len(pool[Own(g)])
  BY <1>1, ReturnFacts
<1>8. pc'[r] = "empty" => Len(pool[Own(g)]) >= CONNECTIONS_PER_HOST
  BY <1>1, ReturnFacts
<1>9. /\ Len(pool'[Own(g)]) + Cardinality(OwnTo(g)') <= peak'[g] + Cardinality(Strays(g)')
      /\ pc'[r] = "empty" => peak'[g] + Cardinality(Strays(g)') > CONNECTIONS_PER_HOST
      /\ Cardinality(Strays(g)') >= Cardinality(Strays(g))
  <2>1. CASE secure[r] = IsSecure
    <3>1. Strays(g)' = Strays(g)
      BY <1>2, <1>3, <2>1 DEF Strays
    <3>2. r \in OwnTo(g) /\ OwnTo(g)' = OwnTo(g) \ {r}
      BY <1>1, <1>2, <1>3, <1>4, <2>1 DEF OwnTo, RequestsTo
    <3>3. IsFiniteSet(OwnTo(g)) /\ Cardinality(OwnTo(g)) \in Nat
      BY <1>5
    <3>4. Cardinality(OwnTo(g) \ {r}) = Cardinality(OwnTo(g)) - 1
      BY <3>2, <3>3, FS_RemoveElement
    <3>5. Cardinality(OwnTo(g)) # 0
      BY <3>2, <3>3, FS_EmptySet
    <3>6. Cardinality(OwnTo(g)') = Cardinality(OwnTo(g)) - 1
      BY <3>2, <3>4
    <3>7. Len(pool'[Own(g)]) + Cardinality(OwnTo(g)') <= peak'[g] + Cardinality(Strays(g)')
      BY <1>5, <1>7, <3>1, <3>6
    <3>8. pc'[r] = "empty" => peak'[g] + Cardinality(Strays(g)') > CONNECTIONS_PER_HOST
      BY <1>5, <1>8, <3>1, <3>5, BotoAssumption
    <3>9. Cardinality(Strays(g)') >= Cardinality(Strays(g))
      BY <1>5, <3>1
    <3> QED
      BY <3>7, <3>8, <3>9
  <2>2. CASE secure[r] # IsSecure
    <3>1. r \notin Strays(g) /\ Strays(g)' = Strays(g) \cup {r}
      BY <1>1, <1>2, <1>3, <1>4, <2>2 DEF Strays
    <3>2. OwnTo(g)' = OwnTo(g)
      BY <1>2, <1>3, <2>2 DEF OwnTo, RequestsTo
    <3>3. IsFiniteSet(Strays(g))
      BY <1>5
    <3>4. Cardinality(Strays(g) \cup {r}) = Cardinality(Strays(g)) + 1
      BY <3>1, <3>3, FS_AddElement
    <3>5. Cardinality(Strays(g)') = Cardinality(Strays(g)) + 1
      BY <3>1, <3>4
    <3>7. Len(pool'[Own(g)]) + Cardinality(OwnTo(g)') <= peak'[g] + Cardinality(Strays(g)')
      BY <1>5, <1>7, <3>2, <3>5
    <3>8. pc'[r] = "empty" => peak'[g] + Cardinality(Strays(g)') > CONNECTIONS_PER_HOST
      BY <1>5, <1>8, <3>5, BotoAssumption
    <3>9. Cardinality(Strays(g)') >= Cardinality(Strays(g))
      BY <1>5, <3>5
    <3> QED
      BY <3>7, <3>8, <3>9
  <2> QED
    BY <2>1, <2>2
<1>10. ASSUME NEW h \in Hosts
       PROVE  Len(pool'[Own(h)]) + Cardinality(OwnTo(h)') <= peak'[h] + Cardinality(Strays(h)')
  BY <1>5, <1>6, <1>9
<1>11. ASSUME NEW q \in Requests, pc'[q] = "empty"
       PROVE  peak'[host'[q]] + Cardinality(Strays(host[q])') > CONNECTIONS_PER_HOST
  <2>1. CASE q = r
    <3>1. host'[q] = g /\ peak'[g] + Cardinality(Strays(g)') > CONNECTIONS_PER_HOST
      BY <1>1, <1>2, <1>9, <1>11, <2>1
    <3> QED
      BY <3>1 DEF Strays
  <2>2. CASE q # r
    <3>1. PICK h \in Hosts : h = host[q] /\ h = host'[q]
      BY <1>2 DEF TypeOK
    <3>2. pc[q] = "empty"
      BY <1>3, <1>11, <2>2
    <3>3. peak[h] + Cardinality(Strays(h)) > CONNECTIONS_PER_HOST
      BY <3>1, <3>2 DEF Accounted
    <3>4. Cardinality(Strays(h)') >= Cardinality(Strays(h))
      BY <1>5, <1>6, <1>9
    <3>5. peak'[h] + Cardinality(Strays(h)') > CONNECTIONS_PER_HOST
      BY <1>5, <3>3, <3>4, BotoAssumption
    <3> QED
      BY <3>1, <3>5 DEF Strays
  <2> QED
    BY <2>1, <2>2
<1>12. \A h \in Hosts : Len(pool'[<<h, ~IsSecure>>]) = 0
  <2> SUFFICES ASSUME NEW h \in Hosts PROVE Len(pool'[<<h, ~IsSecure>>]) = 0
    OBVIOUS
  <2>1. <<h, ~IsSecure>> \in Queues /\ <<h, ~IsSecure>> # Own(host[r])
    BY <1>1, OwnFacts
  <2>2. pool'[<<h, ~IsSecure>>] = pool[<<h, ~IsSecure>>]
    BY <2>1, ReturnFacts
  <2> QED
    BY <2>2 DEF Accounted
<1> QED
  BY <1>10, <1>11, <1>12 DEF Accounted

(* Lemma: every step keeps the account. *)
LEMMA AccountedInductive ==
  ASSUME TypeOK, TypeOK', Accounted, [Next]_vars
  PROVE  Accounted'
<1>1. CASE UNCHANGED vars
  BY <1>1 DEF Accounted, OwnTo, RequestsTo, Strays, vars
<1>2. ASSUME NEW r \in Requests, Begin(r) PROVE Accounted'
  <2>1. PICK h \in Hosts : h = host[r]
    BY DEF TypeOK
  <2>2. PICK q \in Queues : q = <<h, IsSecure>>
    BY OwnFacts, BotoAssumption
  <2>3. /\ GetConnection(r, q) /\ NotePeak /\ pc[r] \in {"new", "wait"}
        /\ pc' = [pc EXCEPT ![r] = "send"] /\ host' = [host EXCEPT ![r] = h]
        /\ secure' = [secure EXCEPT ![r] = IsSecure] /\ IsSecure \in BOOLEAN
    BY <1>2, <2>1, <2>2, BotoAssumption DEF Begin, Own, TypeOK
  <2> QED
    BY <2>2, <2>3, TakingAccounts
<1>3. ASSUME NEW r \in Requests, Moved(r) PROVE Accounted'
  <2>1. PICK h \in Hosts, s \in BOOLEAN : /\ host' = [host EXCEPT ![r] = h]
                                          /\ secure' = [secure EXCEPT ![r] = s]
                                          /\ GetConnection(r, <<h, s>>)
    BY <1>3 DEF Moved
  <2>2. PICK q \in Queues : q = <<h, s>>
    BY OwnFacts
  <2>3. GetConnection(r, q)
    BY <2>1, <2>2
  <2>4. NotePeak /\ pc[r] \in {"new", "wait"} /\ pc' = [pc EXCEPT ![r] = "send"]
    BY <1>3 DEF Moved, Answered
  <2> QED
    BY <2>1, <2>2, <2>3, <2>4, TakingAccounts
<1>4. ASSUME NEW r \in Requests, Send(r) \/ Lost(r) \/ Refused(r) \/ Busy(r) PROVE Accounted'
  <2>1. UNCHANGED <<pool, host, secure, peak>> /\ UnderWay(r)
    BY <1>4 DEF Send, Lost, Refused, Busy, Answered, Reconnect, UnderWay
  <2>2. \E p \in {"send", "wait", "raised"} : pc' = [pc EXCEPT ![r] = p]
    BY <1>4 DEF Send, Lost, Refused, Busy, Again
  <2>3. \A q \in Requests : /\ pc'[q] \in {"send", "wait"} => pc[q] \in {"send", "wait"}
                            /\ pc[q] \in {"returned", "empty", "read"} =>
                                 pc'[q] \in {"returned", "empty", "read"}
                            /\ pc'[q] = "empty" => pc[q] = "empty"
    BY <2>1, <2>2 DEF TypeOK, UnderWay
  <2> QED
    BY <2>1, <2>3, LeavingAccounts
<1>5. ASSUME NEW r \in Requests, Return(r) PROVE Accounted'
  BY <1>5, ReturnAccounts
<1>6. ASSUME NEW r \in Requests, Read(r) PROVE Accounted'
  <2>1. UNCHANGED <<host, secure, peak>> /\ pc' = [pc EXCEPT ![r] = "read"]
    BY <1>6 DEF Read
  <2>2. \A q \in Requests : /\ pc'[q] \in {"send", "wait"} => pc[q] \in {"send", "wait"}
                            /\ pc[q] \in {"returned", "empty", "read"} =>
                                 pc'[q] \in {"returned", "empty", "read"}
                            /\ pc'[q] = "empty" => pc[q] = "empty"
    BY <2>1 DEF TypeOK
  <2>3. \A g \in Queues : Len(pool'[g]) = Len(pool[g])
    BY <1>6, ReadFacts
  <2> QED
    BY <2>1, <2>2, <2>3, LeavingAccounts
<1> QED
  BY <1>1, <1>2, <1>3, <1>4, <1>5, <1>6 DEF Next, Attempt

(* Lemma: before any request nothing is to be accounted for. *)
LEMMA AccountedInitial == Init => Accounted
<1> SUFFICES ASSUME Init PROVE Accounted
  OBVIOUS
<1>1. \A h \in Hosts : /\ OwnTo(h) = {} /\ Strays(h) = {} /\ peak[h] = 0
                       /\ pool[Own(h)] = <<>> /\ pool[<<h, ~IsSecure>>] = <<>>
  BY OwnFacts DEF Init, OwnTo, RequestsTo, Strays
<1>2. Cardinality({}) = 0
  BY FS_EmptySet
<1>3. \A h \in Hosts : /\ Len(pool[Own(h)]) = 0 /\ Len(pool[<<h, ~IsSecure>>]) = 0
                       /\ Cardinality(OwnTo(h)) = 0 /\ Cardinality(Strays(h)) = 0
                       /\ peak[h] = 0
  BY <1>1, <1>2, EmptySeq
<1>4. \A r \in Requests : pc[r] = "new"
  BY DEF Init
<1> QED
  BY <1>3, <1>4 DEF Accounted

(* The queue of a host's own scheme holds no more connections than requests *)
(* were under way to the host at once and came to it from the other scheme, *)
(* the other scheme's queue holds none, and a body is lost to a full queue  *)
(* only when the two together exceed CONNECTIONS_PER_HOST.  _mexe leaves no *)
(* connection behind when it reconnects, tries again or follows a           *)
(* redirection within the scheme, and one for each redirection across.      *)
THEOREM PoolIsAccountedFor == Spec => []PoolNeedsCrowdOrStrays
<1>1. TypeOK /\ TypeOK' /\ Accounted /\ [Next]_vars => Accounted'
  BY AccountedInductive
<1>2. TypeOK /\ Accounted => PoolNeedsCrowdOrStrays
  <2> SUFFICES ASSUME TypeOK, Accounted, NEW h \in Hosts
               PROVE  /\ Len(pool[Own(h)]) <= peak[h] + Cardinality(Strays(h))
                      /\ pool[<<h, ~IsSecure>>] = <<>>
    BY DEF Accounted, PoolNeedsCrowdOrStrays
  <2>1. /\ Cardinality(OwnTo(h)) \in Nat /\ Len(pool[Own(h)]) \in Nat
        /\ peak[h] \in Nat /\ Cardinality(Strays(h)) \in Nat
    BY Numbers
  <2>2. Len(pool[Own(h)]) + Cardinality(OwnTo(h)) <= peak[h] + Cardinality(Strays(h))
    BY DEF Accounted
  <2>3. Len(pool[<<h, ~IsSecure>>]) = 0 /\ pool[<<h, ~IsSecure>>] \in Seq(Connection)
    BY OwnFacts DEF Accounted, TypeOK
  <2> QED
    BY <2>1, <2>2, <2>3, EmptySeq
<1> QED
  BY <1>1, <1>2, AccountedInitial, BotoTypeCorrect, PTL DEF Spec

=============================================================================
