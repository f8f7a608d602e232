------------------------------- MODULE Connect -------------------------------
(***************************************************************************)
(* How clients connect: the accept loop of the server's main with          *)
(* rc_, uc_, ud_ and tcp_accept_new_connection, and the connecting side of *)
(* the clients.  One thread accepts all clients, one after the other.      *)
(*                                                                         *)
(* Over RC it waits on one event channel for the events of all             *)
(* connections, first for any CONNECT_REQUEST, then for any ESTABLISHED,   *)
(* and drops an event it does not expect.  Over UC and UD it accepts a     *)
(* socket and swaps queue pair attributes by a blocking read and a write.  *)
(*                                                                         *)
(* External: the connection manager.  The server's identifier of a client  *)
(* is requested, accepted (rdma_accept has answered), established (the     *)
(* client's last message has come), gone, or lost if its client went away  *)
(* before that; a lost one ends in an event whose status is an error,      *)
(* positive (rejected) or negative (timed out), and a request that is      *)
(* never answered in an error at the client.  For a socket only the        *)
(* listener's backlog matters. Allocating verbs resources, and accept,     *)
(* succeed.  connect_qp has no return statement for its success: the build *)
(* returns what ibv_modify_qp returned, 0.                                 *)
(***************************************************************************)
EXTENDS Integers, Sequences, FiniteSets, Functions

CONSTANTS Clients, \* clients that connect, each once
          Types,   \* the transports a server may be started with
          None

ASSUME TypesAssumption   == Types \subseteq {"TCP", "RC", "UC", "UD"}
ASSUME ClientsAssumption == IsFiniteSet(Clients) /\ None \notin Clients

VARIABLES
  type,      \* connection_type of the server and its clients
  chan,      \* event channel (RC), or backlog of the listening socket
  apc, cur,  \* main: control, and the client being accepted
  id,        \* the server's rdma_cm_id of each client
  cst,       \* how far each client is in connecting
  posted,    \* the clients for whom request buffers are posted
  workers,   \* the clients whose worker was started, in order
  disturbed  \* history: the clients for whose ESTABLISHED another event was
             \* taken

accepting == <<chan, apc, cur, posted, workers, disturbed>>
connVars  == <<type, accepting, id, cst>>

Event(kind, c) == [kind |-> kind, of |-> c]
Kinds == {"request", "established", "disconnected", "error"}
OverSocket == type \in {"UC", "UD"}

ConnTypeOK ==
  /\ type \in Types
  /\ chan \in Seq([kind : Kinds, of : Clients])
  /\ apc \in {"wait", "prepare", "accept", "established", "attrs", "qp", "crashed"}
  /\ cur \in Clients \cup {None}
  /\ id \in [Clients -> {"none", "requested", "accepted", "established", "gone",
                         "lost"}]
  /\ cst \in [Clients -> {"new", "writing", "connecting", "told", "connected",
                          "failed", "dead"}]
  /\ posted \subseteq Clients /\ disturbed \subseteq Clients
  /\ workers \in Seq(Clients)

(* server_init: main listens, for the transport chosen by the options.     *)
ServerInit ==
  /\ type \in Types
  /\ chan = <<>> /\ apc = "wait" /\ cur = None
  /\ posted = {} /\ workers = <<>> /\ disturbed = {}

ConnInit ==
  /\ ServerInit
  /\ id = [c \in Clients |-> "none"] /\ cst = [c \in Clients |-> "new"]

-----------------------------------------------------------------------------
(* The client's side.  client_prepare_connection has resolved the address  *)
(* and posted the response buffer; client_connect_to_server calls          *)
(* rdma_connect ...                                                        *)
RcConnect(c) ==
  /\ type = "RC" /\ cst[c] = "new"
  /\ cst' = [cst EXCEPT ![c] = "connecting"]
  /\ id' = [id EXCEPT ![c] = "requested"]
  /\ chan' = Append(chan, Event("request", c))
  /\ UNCHANGED <<type, apc, cur, posted, workers, disturbed>>

(* ... and waits for ESTABLISHED on a channel of its own ...               *)
RcConnected(c) ==
  /\ type = "RC" /\ cst[c] = "told"
  /\ cst' = [cst EXCEPT ![c] = "connected"]
  /\ UNCHANGED <<type, accepting, id>>

(* ... or gets an error instead, when the server has dropped its request   *)
(* or is down.                                                             *)
RcUnreachable(c) ==
  /\ type = "RC" /\ cst[c] = "connecting" /\ id[c] = "requested"
  /\ \/ apc = "crashed"
     \/ Event("request", c) \notin Range(chan)
          /\ ~(cur = c /\ apc \in {"prepare", "accept"})
  /\ cst' = [cst EXCEPT ![c] = "failed"]
  /\ UNCHANGED <<type, accepting, id>>

(* uc_client_connect_to_server connects a socket (the kernel answers as    *)
(* soon as the server listens) ...                                         *)
SocketConnect(c) ==
  /\ type # "RC" /\ cst[c] = "new"
  /\ cst' = [cst EXCEPT ![c] = IF type = "TCP" THEN "connected" ELSE "writing"]
  /\ chan' = Append(chan, Event("request", c))
  /\ UNCHANGED <<type, apc, cur, posted, workers, disturbed, id>>

(* ... writes its attributes ...                                           *)
WriteAttrs(c) ==
  /\ cst[c] = "writing"
  /\ cst' = [cst EXCEPT ![c] = "connecting"]
  /\ UNCHANGED <<type, accepting, id>>

(* ... reads the server's and connects its queue pair, or over UD makes an *)
(* address handle.                                                         *)
SocketConnected(c) ==
  /\ OverSocket /\ cst[c] = "told"
  /\ cst' = [cst EXCEPT ![c] = "connected"]
  /\ UNCHANGED <<type, accepting, id>>

Connect(c) == RcConnect(c) \/ SocketConnect(c)
Connecting(c) == RcConnected(c) \/ RcUnreachable(c) \/ WriteAttrs(c)
                 \/ SocketConnected(c)

(* A client that has begun to connect goes away.                           *)
Die(c) ==
  /\ cst[c] \notin {"new", "failed", "dead"}
  /\ cst' = [cst EXCEPT ![c] = "dead"]
  /\ UNCHANGED <<type, accepting, id>>

-----------------------------------------------------------------------------
(* External: the last message of the handshake reaches the server ...      *)
Establish(c) ==
  /\ type = "RC" /\ id[c] = "accepted" /\ cst[c] = "connected"
  /\ id' = [id EXCEPT ![c] = "established"]
  /\ chan' = Append(chan, Event("established", c))
  /\ UNCHANGED <<type, apc, cur, posted, workers, disturbed, cst>>

(* ... or the connection manager finds that the client has gone.           *)
Depart(c) ==
  /\ type = "RC" /\ cst[c] = "dead"
  /\ id[c] \in {"requested", "accepted", "established"}
  /\ id' = [id EXCEPT ![c] = IF @ = "established" THEN "gone" ELSE "lost"]
  /\ chan' = Append(chan, Event(IF id[c] = "established" THEN "disconnected"
                                                         ELSE "error", c))
  /\ UNCHANGED <<type, apc, cur, posted, workers, disturbed, cst>>

Manager(c) == Establish(c) \/ Depart(c)

-----------------------------------------------------------------------------
(* main goes back to wait for the next client ...                          *)
Again == apc' = "wait" /\ cur' = None

(* ... and starts a worker first, if accept_new_connection was successful. *)
StartWorker == Again /\ workers' = Append(workers, cur)

Answer(c) == cst' = [cst EXCEPT ![c] = IF @ = "connecting" THEN "told" ELSE @]

(* Faulty variant of RcWait: every event but a CONNECT_REQUEST is taken    *)
(* for a connection.                                                       *)
RcWaitTakesAny ==
  /\ type = "RC" /\ apc = "wait" /\ chan # <<>>
  /\ chan' = Tail(chan)
  /\ \/ /\ Head(chan).kind = "request"
        /\ cur' = Head(chan).of
        /\ apc' = "prepare"
     \/ Head(chan).kind # "request" /\ apc' = "crashed" /\ UNCHANGED cur
  /\ UNCHANGED <<type, posted, workers, disturbed, id, cst>>

(* rc_accept_new_connection: process_rdma_cm_event takes the next event,   *)
(* and drops it if it is not a CONNECT_REQUEST: main starts over.  For an  *)
(* event with an error status it returns -status: if that is positive,     *)
(* main takes it for a success, and the worker it starts on a connection   *)
(* that was never set up brings the server down.                           *)
RcWait ==
  /\ type = "RC" /\ apc = "wait" /\ chan # <<>>
  /\ chan' = Tail(chan)
  /\ \/ /\ Head(chan).kind = "request"
        /\ cur' = Head(chan).of
        /\ apc' = "prepare"
     \/ Head(chan).kind # "request" /\ Again
     \/ Head(chan).kind = "error" /\ apc' = "crashed" /\ UNCHANGED cur
  /\ UNCHANGED <<type, posted, workers, disturbed, id, cst>>

(* setup_rc_client_resources, then every request buffer is posted ...      *)
RcPost ==
  /\ type = "RC" /\ apc = "prepare"
  /\ posted' = posted \cup {cur}
  /\ apc' = "accept"
  /\ UNCHANGED <<type, chan, cur, workers, disturbed, id, cst>>

(* Faulty variant of RcAccept: the connection is accepted before the       *)
(* request buffers are posted.                                             *)
RcAcceptFirst ==
  /\ type = "RC"
  /\ \/ /\ apc = "prepare" /\ id[cur] = "requested"
        /\ id' = [id EXCEPT ![cur] = "accepted"]
        /\ Answer(cur)
        /\ UNCHANGED <<apc, cur>>
     \/ /\ apc = "accept" /\ id[cur] # "lost"
        /\ apc' = "established" /\ UNCHANGED <<cur, id, cst>>
     \/ apc = "accept" /\ id[cur] = "lost" /\ Again /\ UNCHANGED <<id, cst>>
  /\ UNCHANGED <<type, chan, posted, workers, disturbed>>

(* ... and only then rdma_accept answers the client, or fails if its       *)
(* request was withdrawn.                                                  *)
RcAccept ==
  /\ type = "RC" /\ apc = "accept"
  /\ \/ /\ id[cur] = "requested"
        /\ id' = [id EXCEPT ![cur] = "accepted"]
        /\ Answer(cur)
        /\ apc' = "established" /\ UNCHANGED cur
     \/ id[cur] = "lost" /\ Again /\ UNCHANGED <<id, cst>>
  /\ UNCHANGED <<type, chan, posted, workers, disturbed>>

(* Faulty variants of RcEstablished: other events are waited out, or every *)
(* connection is dropped.                                                  *)
RcEstablishedWaits ==
  /\ type = "RC" /\ apc = "established" /\ chan # <<>>
  /\ chan' = Tail(chan)
  /\ \/ Head(chan).kind = "established" /\ StartWorker
     \/ Head(chan).kind # "established" /\ UNCHANGED <<apc, cur, workers>>
  /\ UNCHANGED <<type, posted, disturbed, id, cst>>

RcEstablishedDrops ==
  /\ type = "RC" /\ apc = "established" /\ chan # <<>>
  /\ chan' = Tail(chan)
  /\ Again
  /\ disturbed' = IF Head(chan) = Event("established", cur) THEN disturbed
                  ELSE disturbed \cup {cur}
  /\ UNCHANGED <<type, posted, workers, id, cst>>

(* process_rdma_cm_event waits for ESTABLISHED, of whichever connection.   *)
(* Any other event makes rc_accept_new_connection return -errno: main      *)
(* drops the connection, or starts its worker if errno happens to be 0.    *)
RcEstablished ==
  /\ type = "RC" /\ apc = "established" /\ chan # <<>>
  /\ chan' = Tail(chan)
  /\ \/ Head(chan).kind = "established" /\ StartWorker
     \/ Head(chan).kind # "established" /\ StartWorker
     \/ Head(chan).kind # "established" /\ Again /\ UNCHANGED workers
  /\ disturbed' = IF Head(chan) = Event("established", cur) THEN disturbed
                  ELSE disturbed \cup {cur}
  /\ UNCHANGED <<type, posted, id, cst>>

(* tcp_accept_new_connection.                                              *)
TcpAccept ==
  /\ type = "TCP" /\ apc = "wait" /\ chan # <<>>
  /\ chan' = Tail(chan)
  /\ workers' = Append(workers, Head(chan).of)
  /\ UNCHANGED <<type, apc, cur, posted, disturbed, id, cst>>

(* uc_accept_new_connection has posted every request buffer when accept    *)
(* returns; over UD those of the ring were posted at the start.            *)
SocketAccept ==
  /\ OverSocket /\ apc = "wait" /\ chan # <<>>
  /\ chan' = Tail(chan)
  /\ cur' = Head(chan).of
  /\ posted' = posted \cup {Head(chan).of}
  /\ apc' = "attrs"
  /\ UNCHANGED <<type, workers, disturbed, id, cst>>

(* The attributes are read, which waits until the client has written or    *)
(* gone, and the server's are written; nobody looks at the results.        *)
SwapAttrs ==
  /\ OverSocket /\ apc = "attrs" /\ cst[cur] # "writing"
  /\ Answer(cur)
  /\ apc' = "qp"
  /\ UNCHANGED <<type, chan, cur, posted, workers, disturbed, id>>

(* connect_qp, or over UD the address handle: the client has been told     *)
(* before.  A positive result of connect_qp is no error to main; over UD   *)
(* the result of the last write, or a missing handle, is.                  *)
SocketFinish ==
  /\ OverSocket /\ apc = "qp"
  /\ \/ StartWorker
     \/ type = "UD" /\ cst[cur] = "dead" /\ Again /\ UNCHANGED workers
  /\ UNCHANGED <<type, chan, posted, disturbed, id, cst>>

Accept == RcWait \/ RcPost \/ RcAccept \/ RcEstablished \/ TcpAccept
          \/ SocketAccept \/ SwapAttrs \/ SocketFinish

-----------------------------------------------------------------------------
(***************************************************************************)
(* Properties.                                                             *)
(***************************************************************************)
(* A client that finds itself connected over RC or UC may send at once:    *)
(* the request buffers it needs have been posted.                          *)
BuffersFirst ==
  type \in {"RC", "UC"} =>
    \A c \in Clients : cst[c] = "connected" => c \in posted

(* Every client that finds itself connected gets a worker, unless it dies, *)
(* or another event was taken for its ESTABLISHED: then it may be left     *)
(* with a connection that nobody serves.  (Each of these lasts, so that    *)
(* "time and again nobody is without one" says that everybody gets one.)   *)
WorkerForEach ==
  []<>(\A c \in Clients : cst[c] = "connected" =>
         (c \in Range(workers) \/ c \in disturbed \/ apc = "crashed"))

(* The accept loop comes back from every client, also from one that goes   *)
(* away in the middle or whose event it has dropped.                       *)
LoopReturns == (apc \notin {"wait", "crashed"}) ~> (apc \in {"wait", "crashed"})

(* Clients that leave do not bring the server down, except one that goes   *)
(* away before its connection is established.                              *)
CrashOnlyIfLost == apc = "crashed" => \E c \in Clients : id[c] = "lost"
=============================================================================
