----------------------------- MODULE DgramServer -----------------------------
(***************************************************************************)
(* The server over unreliable datagrams (src/server/ud_server_utils.c with *)
(* the UD branches of server_utils.c and main_job): one queue pair, one    *)
(* ring of N = MAX_CLIENTS request buffers and one pair of completion      *)
(* queues that all worker threads share.  A worker takes a receive         *)
(* completion, then the lock, then the buffer at request_count, whichever  *)
(* completion it got; it posts that buffer again and gives the lock back   *)
(* before it executes the request in it.                                   *)
(*                                                                         *)
(* A request is known by its number in the order in which requests         *)
(* arrived. The transport (receive queue, send queue, completions) is      *)
(* external: a receive buffer is used in the order posted, a send is       *)
(* completed in the order posted, and the response is read when it is      *)
(* transmitted.  Every method the hash table handles (SET, GET, DEL, RST,  *)
(* and DUMP, which does nothing) is "KV"; PING stands for PING and SETOPT, *)
(* which the dispatcher answers itself.  EXIT ends the process and is left *)
(* out.                                                                    *)
(***************************************************************************)
EXTENDS Integers, Sequences, FiniteSets

CONSTANTS Workers,      \* worker threads, one for each accepted client
          Clients,      \* client ids, 0 .. n-1
          N,            \* MAX_CLIENTS: buffers in the ring
          Methods,      \* the methods that clients send
          AnyOrder,     \* whether clients connect in any order of their ids
          EarlySend,    \* whether a client may send before main started its
                        \* worker
          Window,       \* bound: requests of a client not answered yet
          MaxRequests,  \* bound: requests that arrive
          None          \* no worker, no client

ASSUME NAssumption       == N \in Nat /\ N > 0
ASSUME WorkersAssumption == IsFiniteSet(Workers) /\ None \notin Workers
ASSUME ClientsAssumption == /\ None \notin Clients
                            /\ Clients = 0 .. Cardinality(Clients) - 1
ASSUME MethodsAssumption == Methods \subseteq {"KV", "PING", "UNK"}

VARIABLES
  log,            \* history: client and method of the requests that arrived
  content,        \* ring: the number of the request in each buffer, 0 if none
  rq,             \* receive queue: posted buffers
  rcq,            \* completions in ud_recv_cq
  lock,           \* holder of ud_server_info->lock
  request_count,
  taken,          \* history: how often request_count has advanced
  pc,
  slot,           \* request of main_job: the buffer it points to
  mine,           \* history: the request a worker found there, 0 if none
  handling,       \* client_handling
  response,       \* the request a worker's response answers, 0 if none
  sq,             \* send queue: whose response, to which queue pair, history
  scq,            \* completions in ud_send_cq
  client_counter, \* connections accepted
  remote_attrs,   \* remote_dgram_qp_attrs: whose queue pair, by accept order
  ah,             \* the client ids that have an address handle
  accepting,      \* the client main has exchanged attributes with, or None
  served,         \* history: requests whose answer was transmitted
  spoilt          \* history: requests for which something else was: the
                  \* response had been zeroed or written again by then

ring == <<log, content, rq, rcq>>
conn == <<client_counter, remote_attrs, ah, accepting>>
send == <<sq, scq, served, spoilt>>
work == <<slot, mine, handling, response>>
vars == <<ring, lock, request_count, taken, pc, work, send, conn>>

Slots == 0 .. N-1
PCs == {"off", "poll", "lock", "dispatch", "dispatched", "ready", "zero",
        "execute", "send", "sent"}

(***************************************************************************)
(* Types of the variables.                                                 *)
(***************************************************************************)
TypeOK ==
  /\ log \in Seq([client : Clients, method : Methods])
  /\ content \in [Slots -> Nat]
  /\ rq \in Seq(Slots) /\ rcq \in Nat
  /\ lock \in Workers \cup {None}
  /\ request_count \in Slots /\ taken \in Nat
  /\ pc \in [Workers -> PCs]
  /\ slot \in [Workers -> Slots]
  /\ mine \in [Workers -> Nat]
  /\ handling \in [Workers -> Clients \cup {None}]
  /\ response \in [Workers -> Nat]
  /\ sq \in Seq([from : Workers, to : Clients \cup {None}, req : Nat])
  /\ scq \in Nat
  /\ client_counter \in Nat
  /\ remote_attrs \in [Clients -> Clients \cup {None}]
  /\ ah \subseteq Clients /\ accepting \in Clients \cup {None}
  /\ served \subseteq Nat /\ spoilt \subseteq Nat

(* init_ud_server posts every buffer, in order; nobody is connected yet.   *)
Init ==
  /\ log = <<>> /\ content = [s \in Slots |-> 0]
  /\ rq = [i \in 1..N |-> i - 1] /\ rcq = 0
  /\ lock = None /\ request_count = 0 /\ taken = 0
  /\ pc = [t \in Workers |-> "off"]
  /\ slot = [t \in Workers |-> 0] /\ mine = [t \in Workers |-> 0]
  /\ handling = [t \in Workers |-> None] /\ response = [t \in Workers |-> 0]
  /\ sq = <<>> /\ scq = 0 /\ served = {} /\ spoilt = {}
  /\ client_counter = 0 /\ remote_attrs = [i \in Clients |-> None]
  /\ ah = {} /\ accepting = None

-----------------------------------------------------------------------------
Goto(t, label) == pc' = [pc EXCEPT ![t] = label]
Connected(c) == \E i \in Clients : remote_attrs[i] = c

(* ud_accept_new_connection exchanges attributes with client c, and stores *)
(* those of its queue pair at client_counter ...                           *)
Exchange(c) ==
  /\ accepting = None /\ ~Connected(c)
  /\ AnyOrder \/ c = client_counter
  /\ remote_attrs' = [remote_attrs EXCEPT ![client_counter] = c]
  /\ accepting' = c
  /\ UNCHANGED <<ring, lock, request_count, taken, pc, work, send,
                 client_counter, ah>>

(* ... then it makes an address handle for c's id, and main starts a       *)
(* worker.                                                                 *)
Accept(t) ==
  /\ pc[t] = "off" /\ accepting # None
  /\ ah' = ah \cup {accepting}
  /\ client_counter' = client_counter + 1
  /\ accepting' = None
  /\ Goto(t, "poll")
  /\ UNCHANGED <<ring, lock, request_count, taken, work, send, remote_attrs>>

(* External: a datagram of client c arrives in the first posted buffer     *)
(* (with none posted it would be dropped, which is to say that it never    *)
(* arrived).                                                               *)
Arrive(c, m) ==
  /\ Len(log) < MaxRequests /\ Connected(c) /\ (EarlySend \/ c # accepting)
  /\ Cardinality({k \in (1..Len(log)) \ (served \cup spoilt) :
                    log[k].client = c}) < Window
  /\ rq # <<>>
  /\ log' = Append(log, [client |-> c, method |-> m])
  /\ content' = [content EXCEPT ![Head(rq)] = Len(log) + 1]
  /\ rq' = Tail(rq)
  /\ rcq' = rcq + 1
  /\ UNCHANGED <<lock, request_count, taken, pc, work, send, conn>>

(* process_work_completion_events takes one completion, of whatever        *)
(* buffer.                                                                 *)
Poll(t) ==
  /\ pc[t] = "poll" /\ rcq > 0
  /\ rcq' = rcq - 1
  /\ Goto(t, "lock")
  /\ UNCHANGED <<log, content, rq, lock, request_count, taken, work, send,
                 conn>>

(* Faulty variant of Lock: the lock excludes nobody.                       *)
LockAnyway(t) ==
  /\ pc[t] = "lock"
  /\ lock' = t
  /\ Goto(t, "dispatch")
  /\ UNCHANGED <<ring, request_count, taken, work, send, conn>>

(* ud_receive_header: pthread_mutex_lock(&ud_server->lock)                 *)
Lock(t) ==
  /\ pc[t] = "lock" /\ lock = None
  /\ lock' = t
  /\ Goto(t, "dispatch")
  /\ UNCHANGED <<ring, request_count, taken, work, send, conn>>

(* Faulty variant of PostSend: the sender is read again from the buffer.   *)
PostSendRereads(t, c, k) ==
  sq' = Append(sq, [from |-> t, req |-> k,
                    to |-> remote_attrs[log[content[slot[t]]].client]])

(* ud_post_send of worker t's response, to the queue pair stored at the    *)
(* index of the client it is handling; without an address handle it goes   *)
(* nowhere (ibv_post_send is handed a NULL).                               *)
PostSend(t, c, k) ==
  sq' = Append(sq, [from |-> t, req |-> k,
                    to |-> IF c \in ah THEN remote_attrs[c] ELSE None])

(* recv_request: the buffer at request_count is the current request, its   *)
(* sender is remembered, and the dispatcher answers PING and UNK at once.  *)
Dispatch(t) ==
  /\ pc[t] = "dispatch"
  /\ LET k == content[request_count] IN
       /\ slot' = [slot EXCEPT ![t] = request_count]
       /\ mine' = [mine EXCEPT ![t] = k]
       /\ handling' = [handling EXCEPT ![t] = log[k].client]
       /\ \/ /\ log[k].method = "KV"
             /\ Goto(t, "ready")
             /\ UNCHANGED <<response, sq>>
          \/ /\ log[k].method # "KV"
             /\ response' = [response EXCEPT ![t] = k]
             /\ PostSend(t, log[k].client, k)
             /\ Goto(t, "dispatched")
  /\ UNCHANGED <<ring, lock, request_count, taken, scq, served, spoilt, conn>>

(* Faulty variants of Ready: request_count advances before the buffer is   *)
(* posted; the lock is not released.                                       *)
ReadyPostsNext(t) ==
  /\ pc[t] = "ready"
  /\ request_count' = (request_count + 1) % N
  /\ rq' = Append(rq, request_count')
  /\ taken' = taken + 1
  /\ lock' = None
  /\ Goto(t, "zero")
  /\ UNCHANGED <<log, content, rcq, work, send, conn>>

ReadyKeepsLock(t) ==
  /\ pc[t] = "ready"
  /\ rq' = Append(rq, request_count)
  /\ request_count' = (request_count + 1) % N
  /\ taken' = taken + 1
  /\ Goto(t, "zero")
  /\ UNCHANGED <<log, content, rcq, lock, work, send, conn>>

(* main_job and ready_for_next_request: unless the method is UNK the       *)
(* buffer is posted again, request_count advances and the lock is          *)
(* released.                                                               *)
Ready(t) ==
  /\ pc[t] = "ready"
  /\ \/ /\ log[content[slot[t]]].method # "UNK"
        /\ rq' = Append(rq, request_count)
        /\ request_count' = (request_count + 1) % N
        /\ taken' = taken + 1
        /\ lock' = None
     \/ /\ log[content[slot[t]]].method = "UNK"
        /\ UNCHANGED <<rq, request_count, taken, lock>>
  /\ Goto(t, "zero")
  /\ UNCHANGED <<log, content, rcq, work, send, conn>>

(* bzero of the response, whether or not the one before has left           *)
Zero(t) ==
  /\ pc[t] = "zero"
  /\ response' = [response EXCEPT ![t] = 0]
  /\ Goto(t, "execute")
  /\ UNCHANGED <<ring, lock, request_count, taken, slot, mine, handling, send,
                 conn>>

(* The switch of main_job: the request that is now in the buffer is        *)
(* executed; PING and UNK have no case, and their response stays empty.    *)
Execute(t) ==
  /\ pc[t] = "execute"
  /\ \/ /\ log[content[slot[t]]].method = "KV"
        /\ response' = [response EXCEPT ![t] = content[slot[t]]]
     \/ /\ log[content[slot[t]]].method # "KV"
        /\ UNCHANGED response
  /\ Goto(t, "send")
  /\ UNCHANGED <<ring, lock, request_count, taken, slot, mine, handling, send,
                 conn>>

(* send_response_to_client                                                 *)
Send(t) ==
  /\ pc[t] = "send"
  /\ PostSend(t, handling[t], mine[t])
  /\ Goto(t, "sent")
  /\ UNCHANGED <<ring, lock, request_count, taken, work, scq, served, spoilt, conn>>

(* Faulty variant of SendDone: the send is not waited for.                 *)
SendNotAwaited(t) ==
  /\ pc[t] \in {"dispatched", "sent"}
  /\ Goto(t, IF pc[t] = "sent" THEN "poll" ELSE "ready")
  /\ UNCHANGED <<ring, lock, request_count, taken, work, send, conn>>

(* ud_send_response takes one completion from the send queue, anybody's.   *)
SendDone(t) ==
  /\ pc[t] \in {"dispatched", "sent"} /\ scq > 0
  /\ scq' = scq - 1
  /\ Goto(t, IF pc[t] = "sent" THEN "poll" ELSE "ready")
  /\ UNCHANGED <<ring, lock, request_count, taken, work, sq, served, spoilt, conn>>

(* External: the first response in the send queue goes out.  What goes out *)
(* is what the worker's response holds now, which need not be what it held *)
(* when it was posted: with the completion of another worker's send the    *)
(* worker has gone on, and may have zeroed it or answered the next request *)
(* in it.                                                                  *)
Transmit ==
  /\ sq # <<>>
  /\ sq' = Tail(sq)
  /\ scq' = scq + 1
  /\ LET k == Head(sq).req
         Intact == response[Head(sq).from] = k
     IN  /\ served' = IF Intact THEN served \cup {k} ELSE served
         /\ spoilt' = IF Intact THEN spoilt ELSE spoilt \cup {k}
  /\ UNCHANGED <<ring, lock, request_count, taken, pc, work, conn>>

Step(t) == Poll(t) \/ Lock(t) \/ Dispatch(t) \/ Ready(t) \/ Zero(t)
           \/ Execute(t) \/ Send(t) \/ SendDone(t)

Next ==
  \/ \E t \in Workers : Step(t) \/ Accept(t)
  \/ \E c \in Clients : Exchange(c) \/ \E m \in Methods : Arrive(c, m)
  \/ Transmit

Spec == Init /\ [][Next]_vars

(* Every thread that can run does, and the adapter transmits what is       *)
(* posted.                                                                 *)
FairSpec == Spec /\ WF_vars(Transmit) /\ \A t \in Workers : WF_vars(Step(t))

-----------------------------------------------------------------------------
(***************************************************************************)
(* Properties.                                                             *)
(***************************************************************************)
HoldPCs == {"dispatch", "dispatched", "ready"}
BusyPCs == {"dispatched", "ready", "zero", "execute", "send", "sent"}

(* Although a worker ignores which buffer its completion is for, the       *)
(* buffer at request_count holds, whenever a worker has the lock, the      *)
(* oldest request that nobody took: never an empty one, an old one or a    *)
(* later one.                                                              *)
TakesOldest ==
  \A t \in Workers : pc[t] \in HoldPCs =>
     taken < Len(log) /\ content[request_count] = taken + 1

(* No request is given to two workers.                                     *)
NoDuplicate ==
  \A t, u \in Workers :
    (t # u /\ pc[t] \in BusyPCs /\ pc[u] \in BusyPCs) => mine[t] # mine[u]

(* A worker executes the request it took, although the buffer is already   *)
(* posted for the next one, unless N more requests have arrived since.     *)
IntactWithinRing ==
  \A t \in Workers :
    (pc[t] = "execute" /\ Len(log) < mine[t] + N) => content[slot[t]] = mine[t]

(* A response goes to the queue pair of the client that sent the request.  *)
Routed ==
  \A i \in 1..Len(sq) : sq[i].to = log[sq[i].req].client

(* The send completions add up: one for every worker that waits.           *)
SendsMatchWaiters ==
  Len(sq) + scq =
    Cardinality({t \in Workers : pc[t] \in {"dispatched", "sent"}})

(* Every request that arrives is answered, although workers share the lock *)
(* and take each other's completions, until a request with method UNK      *)
(* arrives, which leaves the lock taken for ever.  What the worker sends   *)
(* may be spoilt by then: the completion it took was another's.            *)
UnkArrived == \E k \in 1..Len(log) : log[k].method = "UNK"
EveryRequestAnswered ==
  \A k \in 1..MaxRequests : (k <= Len(log)) ~>
    (k \in served \cup spoilt \/ UnkArrived)

-----------------------------------------------------------------------------
(***************************************************************************)
(* The inductive invariant.  Dist(r, s) is how far ahead of buffer r       *)
(* buffer s is in the ring.                                                *)
(***************************************************************************)
Dist(r, s) == IF s >= r THEN s - r ELSE s - r + N
Waiting == Len(log) - taken
Tickets == {t \in Workers : pc[t] \in HoldPCs \cup {"lock"}}

(* The requests nobody took fill the buffers from request_count on, in     *)
(* order; the buffers after them are the ones posted, in order.            *)
InvRing ==
  /\ Waiting >= 0 /\ Waiting <= N
  /\ Len(rq) = N - Waiting
  /\ \A i \in 1..Len(rq) : Dist(request_count, rq[i]) = Waiting + i - 1
  /\ \A s \in Slots : Dist(request_count, s) < Waiting =>
       content[s] = taken + Dist(request_count, s) + 1

(* A completion, in the queue or taken, stands for a request nobody took.  *)
InvTickets == taken + rcq + Cardinality(Tickets) <= Len(log)

(* The lock has one holder, who works on the request at request_count.     *)
InvLock ==
  \A t \in Workers :
    /\ pc[t] \in HoldPCs => lock = t
    /\ pc[t] \in {"dispatched", "ready"} =>
         slot[t] = request_count /\ mine[t] = taken + 1

(* What the workers have taken, and where it is                            *)
InvWork ==
  \A t \in Workers : pc[t] \in BusyPCs =>
    /\ handling[t] \in Clients
    /\ \/ mine[t] <= taken
       \/ mine[t] = taken + 1 /\ lock = t /\ mine[t] <= Len(log)
    /\ (pc[t] \in {"zero", "execute"} /\ mine[t] = taken + 1) =>
         slot[t] = request_count
    /\ (/\ pc[t] \in {"zero", "execute"} /\ mine[t] <= taken
        /\ Len(log) < mine[t] + N) =>
         /\ content[slot[t]] = mine[t]
         /\ Dist(request_count, slot[t]) = mine[t] + N - taken - 1

(* The inductive invariant: it implies TakesOldest, NoDuplicate and        *)
(* IntactWithinRing.                                                       *)
IInv == TypeOK /\ InvRing /\ InvTickets /\ InvLock /\ InvWork /\ NoDuplicate
=============================================================================
