------------------------------- MODULE Session -------------------------------
(***************************************************************************)
(* One connection of the server over a connected queue pair: a benchmark   *)
(* client (start_instance with rc_client_utils.c or uc_client_utils.c) and *)
(* the worker thread that serves it (main_job with rc_server_utils.c or    *)
(* uc_server_utils.c).  Each end has one queue pair whose sends and        *)
(* receives complete in one and the same completion queue, and an end that *)
(* waits takes the next completion, whatever it completes.                 *)
(*                                                                         *)
(* Operations are numbered; a request is the number of its operation and a *)
(* response the number of the operation it answers.  The queue pairs, the  *)
(* completion queue and its events are external: messages travel in order; *)
(* over RC none is lost and a send completes when it is acknowledged, over *)
(* UC a message may be lost and a send completes when it has left.  KV     *)
(* stands for the methods of the hash table, PING for those the dispatcher *)
(* answers by itself.  No client of the repository sets connection_close.  *)
(***************************************************************************)
EXTENDS Integers, Sequences

CONSTANTS R,          \* REQUEST_BACKLOG: request buffers of a connection
          MaxWr,      \* MAX_WR: capacity of a receive or send queue
          CqCapacity, \* CQ_CAPACITY
          Reliable,   \* RC, and not UC
          Designs,    \* values of the option --blocking
          EventOnArm, \* whether the adapter raises an event for completions
                      \* that are in the queue when notification is requested
          Methods,    \* the methods the client uses
          MayCrash,   \* whether the client may die
          MaxOps,     \* bound: operations of the client
          MaxRetries, \* bound: timeouts of one operation
          MaxTaken    \* bound: requests the worker looks at

ASSUME RAssumption       == R \in Nat /\ R > 0 /\ MaxWr \in Nat /\ R < MaxWr
ASSUME FlagsAssumption   == /\ Designs \subseteq BOOLEAN
                            /\ {Reliable, EventOnArm, MayCrash} \subseteq BOOLEAN
ASSUME MethodsAssumption == Methods \subseteq {"KV", "PING", "UNK"}
ASSUME CrashAssumption   == MayCrash => Reliable
ASSUME BoundsAssumption  == MaxOps \in Nat /\ MaxRetries \in Nat

VARIABLES
  blocking, \* whether an end waits for a completion event before it polls
  rq,       \* posted receive buffers of each end, by index
  sq,       \* how many sends each end has posted that have not left
  net,      \* messages each end has sent that have not arrived
  acks,     \* acknowledgements on their way to each end
  cq,       \* completion queue of each end
  armed,    \* an event is due with the next completion
  events,   \* events in the completion channel
  woken,    \* the end has its event and is polling
  cpc, op, asked, got, retries,  \* client: control, operation, history of
                                 \* methods, response buffer, timeouts
  spc, request_count, ring, slot, response, \* worker: control, client_info
  arrived,  \* history: the requests that arrived
  taken,    \* history: how many requests the worker has looked at
  executed, \* history: the requests executed
  broken,   \* the worker's queue pair is in the error state
  unanswered \* history: requests sent less responses arrived

link   == <<rq, sq, net, acks>>
compl  == <<cq, armed, events, woken>>
client == <<cpc, op, asked, got, retries>>
worker == <<spc, request_count, slot, response, taken, executed>>
memory == <<ring, arrived, unanswered>>
vars   == <<blocking, link, compl, client, worker, memory, broken>>

Ends == {"client", "server"}
Peer(e) == IF e = "client" THEN "server" ELSE "client"
Slots == 0 .. R-1
MethodOf(k) == IF k = 0 THEN "UNK" ELSE asked[k]   \* a zeroed buffer is UNK
Waiting(e) == IF e = "client" THEN cpc \in {"sending", "receiving"}
              ELSE spc \in {"header", "dispatched", "sent"}

(***************************************************************************)
(* Types of the variables.                                                 *)
(***************************************************************************)
LinkOK ==
  /\ rq \in [Ends -> Seq(Slots)] /\ sq \in [Ends -> Nat]
  /\ net \in [Ends -> Seq(0..MaxOps)] /\ acks \in [Ends -> Nat]

ComplOK ==
  /\ cq \in [Ends -> Seq({"recv", "send", "err"})]
  /\ armed \in [Ends -> BOOLEAN] /\ woken \in [Ends -> BOOLEAN]
  /\ events \in [Ends -> Nat]

ClientOK ==
  /\ cpc \in {"make", "send", "sending", "receive", "receiving", "failed", "dead"}
  /\ op \in 0..MaxOps /\ retries \in 0..MaxRetries
  /\ asked \in Seq(Methods) /\ Len(asked) = op

WorkerOK ==
  /\ spc \in {"prepare", "header", "dispatch", "dispatched", "execute", "send",
              "sent"}
  /\ request_count \in Slots /\ slot \in Slots /\ response \in 0..MaxOps
  /\ taken \in Nat /\ executed \in Seq(1..MaxOps)

MemoryOK ==
  /\ ring \in [Slots -> 0..MaxOps] /\ arrived \in Seq(1..MaxOps)
  /\ got \in 0..MaxOps /\ unanswered \in Int

TypeOK == /\ LinkOK /\ ComplOK /\ ClientOK /\ WorkerOK /\ MemoryOK
          /\ blocking \in [Ends -> BOOLEAN] /\ broken \in BOOLEAN

(* What is posted when a connection is established: the worker's accept    *)
(* posts every request buffer, in order, and the client's prepare the      *)
(* response buffer, once.                                                  *)
ServerPosted == [i \in 1..R |-> i - 1]
ClientPosted == <<0>>

(* Both ends have set up an empty, armed completion queue for sends and    *)
(* receives alike.                                                         *)
CompletionInit ==
  /\ cq = [e \in Ends |-> <<>>] /\ armed = [e \in Ends |-> TRUE]
  /\ events = [e \in Ends |-> 0] /\ woken = [e \in Ends |-> FALSE]

(* The connection is established, and the worker thread has been started.  *)
Init ==
  /\ blocking \in [Ends -> Designs]
  /\ CompletionInit
  /\ rq = [e \in Ends |-> IF e = "client" THEN ClientPosted ELSE ServerPosted]
  /\ sq = [e \in Ends |-> 0] /\ net = [e \in Ends |-> <<>>]
  /\ acks = [e \in Ends |-> 0]
  /\ cpc = "make" /\ op = 0 /\ asked = <<>> /\ got = 0 /\ retries = 0
  /\ spc = "prepare" /\ request_count = 0 /\ slot = 0 /\ response = 0
  /\ ring = [s \in Slots |-> 0] /\ arrived = <<>>
  /\ taken = 0 /\ executed = <<>> /\ broken = FALSE /\ unanswered = 0

-----------------------------------------------------------------------------
(* External: completions s enter the completion queue of end e.            *)
Complete(e, s) ==
  /\ cq' = [cq EXCEPT ![e] = @ \o s]
  /\ events' = [events EXCEPT ![e] = IF armed[e] THEN @ + 1 ELSE @]
  /\ armed' = [armed EXCEPT ![e] = FALSE]
  /\ UNCHANGED woken

(* process_work_completion_events, blocking: ibv_get_cq_event returns and  *)
(* ibv_req_notify_cq asks for the next event.                              *)
Wake(e) ==
  /\ blocking[e] /\ Waiting(e) /\ ~woken[e] /\ events[e] > 0
  /\ woken' = [woken EXCEPT ![e] = TRUE]
  /\ LET now == EventOnArm /\ cq[e] # <<>> IN
       /\ events' = [events EXCEPT ![e] = IF now THEN @ ELSE @ - 1]
       /\ armed' = [armed EXCEPT ![e] = ~now]
  /\ UNCHANGED <<link, cq, client, worker, memory, broken>>

(* Faulty variant of Take: everything in the queue is consumed.            *)
TakeAll(e) ==
  /\ Waiting(e) /\ cq[e] # <<>> /\ (blocking[e] => woken[e])
  /\ cq' = [cq EXCEPT ![e] = <<>>]
  /\ woken' = [woken EXCEPT ![e] = FALSE]
  /\ UNCHANGED <<armed, events>>

(* process_work_completion_events: ibv_poll_cq until it yields one         *)
(* completion (and then ibv_ack_cq_events).  Its status goes nowhere on    *)
(* the server: an error makes rc_receive_header return -errno, which is    *)
(* not -1.                                                                 *)
Take(e) ==
  /\ Waiting(e) /\ cq[e] # <<>> /\ (blocking[e] => woken[e])
  /\ cq' = [cq EXCEPT ![e] = Tail(@)]
  /\ woken' = [woken EXCEPT ![e] = FALSE]
  /\ UNCHANGED <<armed, events>>

(* post_send; on a broken queue pair the send is flushed at once.          *)
PostSend(e) ==
  IF e = "server" /\ broken
    THEN Complete(e, <<"err">>) /\ UNCHANGED link
    ELSE /\ sq' = [sq EXCEPT ![e] = @ + 1]
         /\ UNCHANGED <<rq, net, acks, compl>>

(* post_recieve of buffer i; a full receive queue refuses it.              *)
Full(e) == Len(rq[e]) >= MaxWr
PostReceive(e, i) == rq' = [rq EXCEPT ![e] = IF Full(e) THEN @ ELSE Append(@, i)]

-----------------------------------------------------------------------------
(* start_instance makes the next request ...                               *)
Make ==
  /\ cpc = "make" /\ op < MaxOps
  /\ \E m \in Methods : asked' = Append(asked, m)
  /\ op' = op + 1
  /\ retries' = 0
  /\ cpc' = "send"
  /\ UNCHANGED <<link, compl, got, worker, memory, broken>>

(* ... send_request posts it ...                                           *)
SendRequest ==
  /\ cpc = "send"
  /\ PostSend("client")
  /\ unanswered' = unanswered + 1
  /\ cpc' = "sending"
  /\ UNCHANGED <<op, asked, got, retries, worker, ring, arrived, broken>>

(* Faulty variant of RequestSent: the send is not waited for.              *)
RequestNotAwaited ==
  /\ cpc = "sending"
  /\ cpc' = "receive"
  /\ UNCHANGED <<link, compl, op, asked, got, retries, worker, memory, broken>>

(* ... and waits for a completion ...                                      *)
RequestSent ==
  /\ cpc = "sending" /\ Take("client")
  /\ cpc' = "receive"
  /\ UNCHANGED <<link, op, asked, got, retries, worker, memory, broken>>

(* Faulty variants of PostResponse: no further buffer is posted, or two    *)
(* are.                                                                    *)
NoPostResponse ==
  /\ cpc = "receive"
  /\ cpc' = "receiving"
  /\ UNCHANGED <<link, compl, op, asked, got, retries, worker, memory, broken>>

PostResponseTwice ==
  /\ cpc = "receive"
  /\ rq' = [rq EXCEPT !["client"] = @ \o <<0, 0>>]
  /\ cpc' = IF Len(rq["client"]) + 2 > MaxWr THEN "failed" ELSE "receiving"
  /\ UNCHANGED <<sq, net, acks, compl, op, asked, got, retries, worker, memory,
                 broken>>

(* ... receive_response posts the buffer once more.  When the queue is     *)
(* full it returns -errno, on which start_instance gives up, or retries if *)
(* errno happens to be 0 (ibv_post_recv returns the error and need not set *)
(* it) ...                                                                 *)
PostResponse ==
  /\ cpc = "receive"
  /\ PostReceive("client", 0)
  /\ \/ ~Full("client") /\ cpc' = "receiving" /\ UNCHANGED retries
     \/ Full("client") /\ cpc' = "failed" /\ UNCHANGED retries
     \/ /\ Full("client") /\ retries < MaxRetries
        /\ cpc' = "send" /\ retries' = retries + 1
  /\ UNCHANGED <<sq, net, acks, compl, op, asked, got, worker, memory, broken>>

(* ... and waits for a completion, which ends the operation ...            *)
ResponseReceived ==
  /\ cpc = "receiving" /\ Take("client")
  /\ cpc' = "make"
  /\ UNCHANGED <<link, op, asked, got, retries, worker, memory, broken>>

(* Faulty variant of Timeout: the clock only starts with a completion.     *)
TimeoutAfterCompletion ==
  /\ ~Reliable /\ cpc = "receiving" /\ retries < MaxRetries
  /\ cq["client"] # <<>>
  /\ retries' = retries + 1
  /\ cpc' = "send"
  /\ UNCHANGED <<link, compl, op, asked, got, worker, memory, broken>>

(* process_work_completion_events_with_timeout finds no completion in 100  *)
(* ms. The clock only starts after the event of the blocking design.       *)
TimedOut ==
  /\ cq["client"] = <<>> /\ (blocking["client"] => woken["client"])
  /\ woken' = [woken EXCEPT !["client"] = FALSE]

(* ... or, over UC, finds none in time: uc_receive_response returns 0 and  *)
(* the request is sent again.                                              *)
Timeout ==
  /\ ~Reliable /\ cpc = "receiving" /\ retries < MaxRetries
  /\ TimedOut
  /\ retries' = retries + 1
  /\ cpc' = "send"
  /\ UNCHANGED <<link, cq, armed, events, op, asked, got, worker, memory,
                 broken>>

Client == Make \/ SendRequest \/ RequestSent \/ PostResponse \/ ResponseReceived

-----------------------------------------------------------------------------
(* Faulty variant of Prepare: the buffer is posted twice.                  *)
PreparePostsTwice ==
  /\ spc = "prepare"
  /\ rq' = [rq EXCEPT !["server"] = @ \o <<request_count, request_count>>]
  /\ spc' = "header"
  /\ UNCHANGED <<sq, net, acks, compl, client, request_count, slot, response,
                 taken, executed, memory, broken>>

(* prepare_for_next_request posts the buffer at request_count, in which    *)
(* the next request may already be; nobody looks at what it returns.       *)
Prepare ==
  /\ spc = "prepare"
  /\ \/ ~broken /\ PostReceive("server", request_count) /\ UNCHANGED compl
     \/ broken /\ Complete("server", <<"err">>) /\ UNCHANGED rq
  /\ spc' = "header"
  /\ UNCHANGED <<sq, net, acks, client, request_count, slot, response, taken,
                 executed, memory, broken>>

(* receive_header waits for a completion.                                  *)
Header ==
  /\ spc = "header" /\ Take("server")
  /\ spc' = "dispatch"
  /\ UNCHANGED <<link, client, request_count, slot, response, taken, executed,
                 memory, broken>>

(* Faulty variant of Dispatch: every request is answered before it is      *)
(* executed.                                                               *)
DispatchAnswersAll ==
  /\ spc = "dispatch" /\ taken < MaxTaken
  /\ slot' = request_count
  /\ taken' = taken + 1
  /\ response' = ring[request_count]
  /\ PostSend("server")
  /\ spc' = "dispatched"
  /\ UNCHANGED <<client, request_count, executed, memory, broken>>

(* recv_request: the current request is the one at request_count, and      *)
(* request_dispatcher answers PING and UNK ...                             *)
Dispatch ==
  /\ spc = "dispatch" /\ taken < MaxTaken
  /\ slot' = request_count
  /\ taken' = taken + 1
  /\ \/ /\ MethodOf(ring[request_count]) = "KV"
        /\ spc' = "execute"
        /\ UNCHANGED <<response, link, compl>>
     \/ /\ MethodOf(ring[request_count]) # "KV"
        /\ response' = ring[request_count]
        /\ PostSend("server")
        /\ spc' = "dispatched"
  /\ UNCHANGED <<client, request_count, executed, memory, broken>>

(* ... and waits for a completion.                                         *)
Dispatched ==
  /\ spc = "dispatched" /\ Take("server")
  /\ spc' = "execute"
  /\ UNCHANGED <<link, client, request_count, slot, response, taken, executed,
                 memory, broken>>

(* Faulty variants of Execute: request_count stops at the last buffer, or  *)
(* wraps around one too late.                                              *)
ExecuteKeepsCount ==
  /\ spc = "execute"
  /\ executed' = Append(executed, ring[slot])
  /\ response' = ring[slot]
  /\ request_count' = IF request_count = R - 1 THEN R - 1 ELSE request_count + 1
  /\ spc' = "send"
  /\ UNCHANGED <<link, compl, client, slot, taken, memory, broken>>

ExecuteOverruns ==
  /\ spc = "execute"
  /\ executed' = Append(executed, ring[slot])
  /\ response' = ring[slot]
  /\ request_count' = IF request_count = R THEN 0 ELSE request_count + 1
  /\ spc' = "send"
  /\ UNCHANGED <<link, compl, client, slot, taken, memory, broken>>

(* main_job: ready_for_next_request unless the method is UNK, the response *)
(* is zeroed and a request for the hash table executed (see HashTable).    *)
(* One step: only a ring lapped by R retries could tell its reads apart.   *)
Execute ==
  /\ spc = "execute"
  /\ LET m == MethodOf(ring[slot]) IN
       /\ request_count' = IF m = "UNK" THEN request_count
                                        ELSE (request_count + 1) % R
       /\ executed' = IF m = "KV" THEN Append(executed, ring[slot])
                                  ELSE executed
  /\ response' = ring[slot]
  /\ spc' = "send"
  /\ UNCHANGED <<link, compl, client, slot, taken, memory, broken>>

(* send_response_to_client posts the response ...                          *)
SendResponse ==
  /\ spc = "send"
  /\ PostSend("server")
  /\ spc' = "sent"
  /\ UNCHANGED <<client, request_count, slot, response, taken, executed, memory,
                 broken>>

(* ... and waits for a completion.                                         *)
ResponseSent ==
  /\ spc = "sent" /\ Take("server")
  /\ spc' = "prepare"
  /\ UNCHANGED <<link, client, request_count, slot, response, taken, executed,
                 memory, broken>>

Worker == Prepare \/ Header \/ Dispatch \/ Dispatched \/ Execute
          \/ SendResponse \/ ResponseSent

-----------------------------------------------------------------------------
(* External: the first send of end e leaves, with what its buffer holds    *)
(* now.                                                                    *)
Transmit(e) ==
  /\ sq[e] > 0 /\ (e = "client" => cpc # "dead")
  /\ sq' = [sq EXCEPT ![e] = @ - 1]
  /\ net' = [net EXCEPT ![e] = Append(@, IF e = "client" THEN op ELSE response)]
  /\ \/ Reliable /\ UNCHANGED compl
     \/ ~Reliable /\ Complete(e, <<"send">>)
  /\ UNCHANGED <<rq, acks, client, worker, memory, broken>>

(* External: a message of end e arrives in the first buffer its peer       *)
(* posted.                                                                 *)
Arrive(e) ==
  /\ net[e] # <<>> /\ rq[Peer(e)] # <<>> /\ (e = "server" => cpc # "dead")
  /\ net' = [net EXCEPT ![e] = Tail(@)]
  /\ rq' = [rq EXCEPT ![Peer(e)] = Tail(@)]
  /\ acks' = [acks EXCEPT ![e] = IF Reliable THEN @ + 1 ELSE @]
  /\ Complete(Peer(e), <<"recv">>)
  /\ \/ /\ e = "client"
        /\ ring' = [ring EXCEPT ![Head(rq["server"])] = Head(net[e])]
        /\ arrived' = Append(arrived, Head(net[e]))
        /\ UNCHANGED <<got, unanswered>>
     \/ /\ e = "server"
        /\ got' = Head(net[e])
        /\ unanswered' = unanswered - 1
        /\ UNCHANGED <<ring, arrived>>
  /\ UNCHANGED <<sq, cpc, op, asked, retries, worker, broken>>

(* External: over RC the acknowledgement completes the send.               *)
Ack(e) ==
  /\ acks[e] > 0
  /\ acks' = [acks EXCEPT ![e] = @ - 1]
  /\ Complete(e, <<"send">>)
  /\ UNCHANGED <<rq, sq, net, client, worker, memory, broken>>

(* External: over UC a message is lost, or finds no buffer and is dropped. *)
Lose(e) ==
  /\ ~Reliable /\ net[e] # <<>>
  /\ net' = [net EXCEPT ![e] = Tail(@)]
  /\ UNCHANGED <<rq, sq, acks, compl, client, worker, memory, broken>>

(* The client process dies ...                                             *)
Crash ==
  /\ MayCrash /\ cpc # "dead"
  /\ cpc' = "dead"
  /\ UNCHANGED <<link, compl, op, asked, got, retries, worker, memory, broken>>

(* External: ... and a response the worker sends to it exhausts its        *)
(* retries. The queue pair enters the error state and everything posted is *)
(* flushed.                                                                *)
Break ==
  /\ cpc = "dead" /\ ~broken /\ net["server"] # <<>>
  /\ broken' = TRUE
  /\ Complete("server", [i \in 1 .. sq["server"] + Len(net["server"])
                                      + Len(rq["server"]) |-> "err"])
  /\ net' = [net EXCEPT !["server"] = <<>>]
  /\ rq' = [rq EXCEPT !["server"] = <<>>]
  /\ sq' = [sq EXCEPT !["server"] = 0]
  /\ UNCHANGED <<acks, client, worker, memory>>

Adapter(e) == Transmit(e) \/ Arrive(e) \/ Ack(e)

Keep == UNCHANGED blocking

Next == /\ \/ Client \/ Timeout \/ Worker \/ Crash \/ Break
           \/ \E e \in Ends : Wake(e) \/ Adapter(e) \/ Lose(e)
        /\ Keep

Spec == Init /\ [][Next]_vars

(* Both threads run, and the adapters carry what is posted.                *)
FairSpec ==
  /\ Spec /\ WF_vars(Client /\ Keep) /\ WF_vars(Worker /\ Keep)
  /\ \A e \in Ends : /\ WF_vars(Wake(e) /\ Keep) /\ WF_vars(Transmit(e) /\ Keep)
                     /\ WF_vars(Arrive(e) /\ Keep) /\ WF_vars(Ack(e) /\ Keep)

(* Over UC the clock runs too; no message need arrive.                     *)
FairUcSpec ==
  /\ Spec /\ WF_vars(Client /\ Keep) /\ WF_vars(Timeout /\ Keep)
  /\ \A e \in Ends : WF_vars(Wake(e) /\ Keep) /\ WF_vars(Transmit(e) /\ Keep)

-----------------------------------------------------------------------------
(***************************************************************************)
(* Properties.                                                             *)
(***************************************************************************)
(* When start_instance goes on to the next operation, the response in its  *)
(* buffer answers this one, although the two completions it took for the   *)
(* operation may have come in either order.                                *)
ResponseMatches == (cpc = "make" /\ op > 0) => got = op

(* As long as the queue pair works, the request main_job finds at          *)
(* request_count is the next that arrived, unless R more arrived since:    *)
(* the completions a worker takes, whatever they complete, and its count   *)
(* of requests stay in step with the receive queue.                        *)
FreshRequest ==
  (spc = "dispatch" /\ ~broken) =>
    /\ taken < Len(arrived)
    /\ Len(arrived) <= taken + R => ring[request_count] = arrived[taken + 1]

(* A message never finds its receiver without a buffer: over RC, where     *)
(* rnr_retry_count is 0, that would end the connection.                    *)
ReceiverReady == ~broken => \A e \in Ends : net[e] # <<>> => rq[Peer(e)] # <<>>

(* Nobody posts to a full queue, and no completion queue overflows, also   *)
(* not when the queue pair breaks and everything posted is flushed into    *)
(* it.                                                                     *)
QueuesFit ==
  /\ cpc = "receive" => ~Full("client")
  /\ spc = "prepare" => ~Full("server")
  /\ \A e \in Ends : sq[e] <= MaxWr
  /\ \A e \in Ends : Len(cq[e]) <= CqCapacity

(* Every operation of a client that lives on ends.                         *)
OpsComplete ==
  \A k \in 1 .. MaxOps : (op = k) ~> (op = k /\ cpc \in {"make", "dead"})

(* The client gives up only when MaxWr requests in excess of the responses *)
(* that arrived have been sent.  They add up over the whole connection: a  *)
(* buffer posted for a response that was lost stays posted, and each loss  *)
(* brings the end of the client closer.                                    *)
GivesUpOnlyUnanswered ==
  [][(cpc' = "failed" /\ cpc # "failed") => unanswered >= MaxWr]_vars

(* A loss never leaves the client waiting for ever: it sends again, goes   *)
(* on or gives up, until the bound on its retries.  A blocking client      *)
(* needs an adapter that raises an event for what is queued when armed.    *)
NeverStuck ==
  (cpc \in {"sending", "receiving"})
    ~> (cpc \notin {"sending", "receiving"} \/ retries = MaxRetries)

(* While the client lives and the queue pair works, the connection is the  *)
(* request-response service: every request is executed exactly once, and   *)
(* before the client goes on.                                              *)
Service == INSTANCE RequestResponse WITH
             called   <- op,
             done     <- Len(executed),
             returned <- IF cpc = "make" THEN op ELSE op - 1,
             sound    <- ~broken /\ cpc # "dead"

ImplementsService == Service!Spec
=============================================================================
