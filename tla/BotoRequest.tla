----------------------------- MODULE BotoRequest -----------------------------
(***************************************************************************)
(* `AWSAuthConnection._mexe` of boto: a request is tried again while the   *)
(* service is busy or the connection fails, and follows redirections.  The *)
(* idle connections are kept in queues that the requests of one            *)
(* AWSAuthConnection share, one for each host and scheme.  A connection is *)
(* back in a queue before the body of the answer has been read, and always *)
(* in that of the object's own scheme, also when a redirection had taken   *)
(* it from, or opened it for, the other scheme.  The scripts' calls to EC2 *)
(* all go through it.                                                      *)
(*                                                                         *)
(* A connection is the request whose answer is unread on it, or Free: that *)
(* is all that decides a later step (the scheme it really speaks is not    *)
(* looked at again).  Of the queues the LRU cache keeps 20; hosts and      *)
(* schemes beyond that many are left out.                                  *)
(***************************************************************************)
EXTENDS Integers, Sequences, FiniteSets

CONSTANTS
  Requests,               \* the calls of make_request on one connection object
  Hosts,
  Free,
  IsSecure,               \* self.is_secure, the scheme of the connection object
  NUM_RETRIES,            \* 5
  CONNECTIONS_PER_HOST    \* 20

ASSUME BotoAssumption ==
  /\ Free \notin Requests
  /\ IsSecure \in BOOLEAN
  /\ NUM_RETRIES \in Nat
  /\ CONNECTIONS_PER_HOST \in Nat \ {0}
  /\ IsFiniteSet(Requests)

VARIABLES
  pc,      \* per request: "new", "send", "wait", or how _mexe ended
  i,       \* per request: the retries so far
  host,    \* per request: the host it is sent to
  secure,  \* per request: the scheme its connection was asked for
  conn,    \* per request: the connection it holds
  pool,    \* per host and scheme: the queue of idle connections
  peak     \* per host: the most requests that were under way at once (history)
vars == <<pc, i, host, secure, conn, pool, peak>>

Connection == Requests \cup {Free}

(* _cached_name: the queues by scheme and host, and the one put_http_connection *)
(* is called with.                                                              *)
Queues == Hosts \X BOOLEAN
Own(h) == <<h, IsSecure>>

UnderWay(r) == pc[r] \in {"send", "wait"}

Init ==
  /\ pc = [r \in Requests |-> "new"]
  /\ i = [r \in Requests |-> 0]
  /\ host \in [Requests -> Hosts]
  /\ secure = [r \in Requests |-> IsSecure]
  /\ conn = [r \in Requests |-> Free]
  /\ pool = [q \in Queues |-> <<>>]
  /\ peak = [h \in Hosts |-> 0]

NotePeak ==
  peak' = [h \in Hosts |->
             LET n == Cardinality({r \in Requests :
                                     pc'[r] \in {"send", "wait"} /\ host'[r] = h})
             IN  IF n > peak[h] THEN n ELSE peak[h]]

-----------------------------------------------------------------------------
(* get_http_connection: the oldest idle connection of queue q, or a new one. *)
GetConnection(r, q) ==
  IF pool[q] = <<>>
  THEN /\ conn' = [conn EXCEPT ![r] = Free]
       /\ UNCHANGED pool
  ELSE /\ conn' = [conn EXCEPT ![r] = Head(pool[q])]
       /\ pool' = [pool EXCEPT ![q] = Tail(@)]

Begin(r) ==
  /\ pc[r] = "new"
  /\ secure' = [secure EXCEPT ![r] = IsSecure]
  /\ GetConnection(r, Own(host[r]))
  /\ pc' = [pc EXCEPT ![r] = "send"]
  /\ UNCHANGED <<i, host>>
  /\ NotePeak

(* `i += 1`, and the test of the loop. *)
MutantAgain(r) == pc' = [pc EXCEPT ![r] = IF i[r] < NUM_RETRIES THEN "send" ELSE "raised"]
                  /\ UNCHANGED i
Again(r) ==
  /\ pc' = [pc EXCEPT ![r] = IF i[r] < NUM_RETRIES THEN "send" ELSE "raised"]
  /\ i' = [i EXCEPT ![r] = @ + 1]

(* An exception of httplib or of the socket: new_http_connection.  The old *)
(* connection is dropped.                                                  *)
MutantReconnect(r) ==
  /\ IF Len(pool[Own(host[r])]) < CONNECTIONS_PER_HOST
     THEN pool' = [pool EXCEPT ![Own(host[r])] = Append(@, conn[r])]
     ELSE UNCHANGED pool
  /\ conn' = [conn EXCEPT ![r] = Free]
Reconnect(r) ==
  /\ conn' = [conn EXCEPT ![r] = Free]
  /\ UNCHANGED pool

Send(r) ==
  /\ pc[r] = "send"
  /\ pc' = [pc EXCEPT ![r] = "wait"]
  /\ UNCHANGED <<i, host, secure, conn, pool, peak>>

(* The connection fails before the request is out, or before the answer. *)
Lost(r) ==
  /\ UnderWay(r)
  /\ Reconnect(r) /\ Again(r)
  /\ UNCHANGED <<host, secure, peak>>

(* getresponse finds the answer of another request unread on the connection *)
(* and raises ResponseNotReady: after the request was sent.                 *)
Refused(r) ==
  /\ pc[r] = "wait" /\ conn[r] # Free
  /\ Reconnect(r) /\ Again(r)
  /\ UNCHANGED <<host, secure, peak>>

Answered(r) == pc[r] = "wait" /\ conn[r] = Free

(* 500, 503 or 408: the body is read, and the connection used again. *)
MutantBusy(r) ==
  /\ Answered(r)
  /\ Again(r)
  /\ conn' = [conn EXCEPT ![r] = r]
  /\ UNCHANGED <<host, secure, pool, peak>>
Busy(r) ==
  /\ Answered(r)
  /\ Again(r)
  /\ UNCHANGED <<host, secure, conn, pool, peak>>

(* A redirection, to any host and scheme: `continue`, which does not count  *)
(* as a retry.  The connection it came on is dropped.                       *)
Moved(r) ==
  /\ Answered(r)
  /\ \E h \in Hosts, s \in BOOLEAN :
       /\ host' = [host EXCEPT ![r] = h]
       /\ secure' = [secure EXCEPT ![r] = s]
       /\ GetConnection(r, <<h, s>>)
  /\ pc' = [pc EXCEPT ![r] = "send"]
  /\ UNCHANGED i
  /\ NotePeak

(* Any other answer.  The connection goes to the queue of the object's own *)
(* scheme with the body unread, unless the service closes it; when that    *)
(* queue is full, closing the connection closes the answer too, and its    *)
(* body reads as empty.                                                    *)
Return(r) ==
  /\ Answered(r)
  /\ \E c \in {r, Free} :
       IF Len(pool[Own(host[r])]) < CONNECTIONS_PER_HOST
       THEN /\ pool' = [pool EXCEPT ![Own(host[r])] = Append(@, c)]
            /\ pc' = [pc EXCEPT ![r] = "returned"]
       ELSE /\ pc' = [pc EXCEPT ![r] = IF c = r THEN "empty" ELSE "returned"]
            /\ UNCHANGED pool
  /\ conn' = [conn EXCEPT ![r] = Free]
  /\ UNCHANGED <<i, host, secure, peak>>

(* The caller reads the body to its end, if it ever does. *)
Read(r) ==
  /\ pc[r] = "returned"
  /\ pc' = [pc EXCEPT ![r] = "read"]
  /\ LET Clear(c) == IF c = r THEN Free ELSE c
     IN  /\ pool' = [q \in Queues |-> [k \in DOMAIN pool[q] |-> Clear(pool[q][k])]]
         /\ conn' = [p \in Requests |-> Clear(conn[p])]
  /\ UNCHANGED <<i, host, secure, peak>>

Attempt(r) == Send(r) \/ Lost(r) \/ Refused(r) \/ Busy(r) \/ Moved(r) \/ Return(r)
Next == \E r \in Requests : Begin(r) \/ Attempt(r) \/ Read(r)

(* A socket that is written to or waited for answers or fails in the end. *)
Spec == Init /\ [][Next]_vars /\ \A r \in Requests : WF_vars(Attempt(r))

-----------------------------------------------------------------------------
TypeOK ==
  /\ pc \in [Requests -> {"new", "send", "wait", "returned", "empty", "read", "raised"}]
  /\ i \in [Requests -> 0..(NUM_RETRIES + 1)]
  /\ host \in [Requests -> Hosts]
  /\ secure \in [Requests -> BOOLEAN]
  /\ conn \in [Requests -> Connection]
  /\ pool \in [Queues -> Seq(Connection)]
  /\ peak \in [Hosts -> Nat]

(* A request can be refused, and so sent to the service a second time with *)
(* nothing lost, only because of a request that has returned and whose     *)
(* body is still unread: never by an answer of its own (a busy service, a  *)
(* redirection), nor by one that has ended in an error.  A script that     *)
(* reads each body before its next call, as get_list, get_object and       *)
(* get_status do, is never refused.                                        *)
OnlyUnreadBodiesBlock ==
  /\ \A r \in Requests : UnderWay(r) => conn[r] = Free \/ pc[conn[r]] = "returned"
  /\ \A q \in Queues, k \in 1..CONNECTIONS_PER_HOST :
       k \in DOMAIN pool[q] => pool[q][k] = Free \/ pc[pool[q][k]] = "returned"

(* The requests that have returned from h on a connection that did not come *)
(* from h's own queue: a redirection to the other scheme had brought them.  *)
Strays(h) == {r \in Requests : /\ pc[r] \in {"returned", "empty", "read"}
                               /\ secure[r] # IsSecure /\ host[r] = h}

(* The queue of a host outgrows the requests that were under way to it at   *)
(* once by no more than the requests that a redirection to the other scheme *)
(* brought there: each of these opens a connection, since nothing is ever   *)
(* put into that scheme's queue, and leaves it in the own one.  Nothing     *)
(* else leaves a connection behind, neither a retry, nor a lost connection, *)
(* nor a redirection within the scheme.  So a body is lost to a full queue  *)
(* only when the crowd and the strays together exceed CONNECTIONS_PER_HOST. *)
PoolNeedsCrowdOrStrays ==
  /\ \A h \in Hosts : /\ Len(pool[Own(h)]) <= peak[h] + Cardinality(Strays(h))
                      /\ pool[<<h, ~IsSecure>>] = <<>>
  /\ \A r \in Requests : pc[r] = "empty" =>
       peak[host[r]] + Cardinality(Strays(host[r])) > CONNECTIONS_PER_HOST

(* A request returns or raises, unless it is redirected for ever. *)
Ends ==
  \A r \in Requests : []<>(~UnderWay(r)) \/ []<><<Moved(r)>>_vars

=============================================================================
