------------------------------ MODULE TcpSession ------------------------------
(***************************************************************************)
(* One connection of the server over TCP: a benchmark client               *)
(* (start_instance with tcp_client_utils.c) and the worker that serves it  *)
(* (main_job with tcp_server_utils.c).                                     *)
(*                                                                         *)
(* A request or a response is as many units as it has Parts in which it    *)
(* may travel, each marked with the number of the operation.  The sockets  *)
(* are external: a stream is delivered in order, in pieces of any size,    *)
(* and a read returns what is there, at most one message.  A write is      *)
(* complete: sockets block, and few messages are under way.  KV stands for *)
(* the methods of the hash table, PING for PING, SETOPT and UNK, which the *)
(* dispatcher answers before main_job answers them again; over TCP it does *)
(* not matter that UNK leaves request_count where it is, since every read  *)
(* goes where the next request is looked for.  EXIT ends the server, and   *)
(* another client may send it at any time.  No client sets                 *)
(* connection_close.                                                       *)
(***************************************************************************)
EXTENDS Integers, Sequences

CONSTANTS Parts,   \* pieces in which a message may travel
          Methods, \* the methods the client uses
          MaxOps   \* bound: operations of the client

ASSUME PartsAssumption   == Parts \in Nat /\ Parts > 0 /\ MaxOps \in Nat
ASSUME MethodsAssumption == Methods \subseteq {"KV", "PING", "EXIT"}

VARIABLES
  c2s, sbuf,   \* to the server: in flight, and in the buffer of its socket
  s2c, cbuf,   \* to the client: the same
  conn,        \* the connection as the client's socket sees it
  cpc, op, asked, got, \* client: control, operation, history of methods,
                       \* response buffer
  up,          \* the server process is there
  spc, request,\* worker: control, the request it has read
  executed,    \* history: the requests carried out
  short        \* history: a read has returned only a part of a message

stream == <<c2s, sbuf, s2c, cbuf>>
client == <<cpc, op, asked, got>>
worker == <<spc, request, executed>>
vars   == <<stream, conn, client, up, worker, short>>

Ops == 0 .. MaxOps
Message(k) == [i \in 1..Parts |-> k]
MethodOf(r) == asked[r[1]]
Smaller(i, j) == IF i < j THEN i ELSE j

(***************************************************************************)
(* Types of the variables.                                                 *)
(***************************************************************************)
TypeOK ==
  /\ \A s \in {c2s, sbuf, s2c, cbuf} : s \in Seq(Ops)
  /\ conn \in {"open", "fin", "reset"}
  /\ cpc \in {"make", "send", "receive", "failed", "killed", "closed"}
  /\ op \in Ops /\ asked \in Seq(Methods) /\ Len(asked) = op
  /\ got \in [1..Parts -> Ops] /\ request \in [1..Parts -> Ops]
  /\ up \in BOOLEAN /\ short \in BOOLEAN
  /\ spc \in {"select", "read", "dispatch", "execute", "send", "ended"}
  /\ executed \in Seq([1..Parts -> Ops])

(* main has accepted the connection and started the worker.                *)
Init ==
  /\ c2s = <<>> /\ sbuf = <<>> /\ s2c = <<>> /\ cbuf = <<>>
  /\ conn = "open" /\ up = TRUE /\ short = FALSE
  /\ cpc = "make" /\ op = 0 /\ asked = <<>> /\ got = Message(0)
  /\ spc = "select" /\ request = Message(0) /\ executed = <<>>

-----------------------------------------------------------------------------
(* start_instance makes the next request ...                               *)
Make ==
  /\ cpc = "make" /\ op < MaxOps
  /\ \E m \in Methods : asked' = Append(asked, m)
  /\ op' = op + 1
  /\ cpc' = "send"
  /\ UNCHANGED <<stream, conn, got, up, worker, short>>

(* ... tcp_send_request writes it; after the server has gone the first     *)
(* write is answered by a reset, and the next raises SIGPIPE, which no     *)
(* client handles ...                                                      *)
SendRequest ==
  /\ cpc = "send"
  /\ \/ /\ conn = "open"
        /\ c2s' = c2s \o Message(op)
        /\ cpc' = "receive" /\ UNCHANGED conn
     \/ /\ conn = "fin"
        /\ conn' = "reset"
        /\ cpc' = "receive" /\ UNCHANGED c2s
     \/ /\ conn = "reset"
        /\ cpc' = "killed" /\ UNCHANGED <<c2s, conn>>
  /\ UNCHANGED <<sbuf, s2c, cbuf, op, asked, got, up, worker, short>>

(* Faulty variant of ReceiveResponse: nothing is read.                     *)
ReceiveNothing ==
  /\ cpc = "receive" /\ cbuf # <<>>
  /\ cpc' = "make"
  /\ UNCHANGED <<stream, conn, op, asked, got, up, worker, short>>

(* ... and tcp_receive_response reads into the response buffer, and takes  *)
(* whatever came for the whole response.                                   *)
ReceiveResponse ==
  /\ cpc = "receive" /\ cbuf # <<>>
  /\ LET n == Smaller(Parts, Len(cbuf)) IN
       /\ got' = [i \in 1..Parts |-> IF i <= n THEN cbuf[i] ELSE got[i]]
       /\ cbuf' = SubSeq(cbuf, n + 1, Len(cbuf))
       /\ short' = (short \/ n < Parts)
  /\ cpc' = "make"
  /\ UNCHANGED <<c2s, sbuf, s2c, conn, op, asked, up, worker>>

(* When the server has gone the read fails, or returns 0.  Then the result *)
(* is -errno, which nobody has set: start_instance gives up, or takes a 0  *)
(* for a timeout and sends the request again.                              *)
ReceiveFails ==
  /\ cpc = "receive"
  /\ \/ conn = "reset" /\ cpc' = "failed"
     \/ /\ conn = "fin" /\ cbuf = <<>> /\ s2c = <<>>
        /\ cpc' \in {"failed", "send"}
  /\ UNCHANGED <<stream, conn, op, asked, got, up, worker, short>>

Client == SendRequest \/ ReceiveResponse \/ ReceiveFails

(* The client process ends, at any time, and with it the connection.       *)
Leave ==
  /\ cpc # "closed"
  /\ cpc' = "closed"
  /\ UNCHANGED <<stream, conn, op, asked, got, up, worker, short>>

-----------------------------------------------------------------------------
(* The server process ends.  Its socket says so by a reset if requests     *)
(* were not read.                                                          *)
Exit ==
  /\ up' = FALSE
  /\ conn' \in IF sbuf # <<>> THEN {"reset"}
               ELSE IF c2s # <<>> THEN {"fin", "reset"} ELSE {"fin"}

Stop ==
  /\ up /\ Exit
  /\ UNCHANGED <<stream, client, worker, short>>

(* Faulty variant of Select: a timeout ends the worker.                    *)
SelectEndsIdle ==
  /\ up /\ spc = "select"
  /\ spc' = IF sbuf = <<>> THEN "ended" ELSE "read"
  /\ UNCHANGED <<stream, conn, client, up, request, executed, short>>

(* connection_ready waits for the socket, at most TIMEOUT seconds.  A      *)
(* timeout makes select return 0, not -1, so that the worker goes on to a  *)
(* read that blocks, whether there is something to read or not.            *)
Select ==
  /\ up /\ spc = "select"
  /\ spc' = "read"
  /\ UNCHANGED <<stream, conn, client, up, request, executed, short>>

(* Faulty variant of Read: a part of a request is taken for a request.     *)
ReadAnyLength ==
  /\ up /\ spc = "read" /\ sbuf # <<>>
  /\ LET n == Smaller(Parts, Len(sbuf)) IN
       /\ request' = [i \in 1..Parts |-> IF i <= n THEN sbuf[i] ELSE request[i]]
       /\ sbuf' = SubSeq(sbuf, n + 1, Len(sbuf))
       /\ short' = (short \/ n < Parts)
  /\ spc' = "dispatch"
  /\ UNCHANGED <<c2s, s2c, cbuf, conn, client, up, executed>>

(* tcp_read_header reads a request.  If only a part of it has come         *)
(* main_job returns, and leaves the socket open.                           *)
Read ==
  /\ up /\ spc = "read" /\ sbuf # <<>>
  /\ LET n == Smaller(Parts, Len(sbuf)) IN
       /\ request' = [i \in 1..Parts |-> IF i <= n THEN sbuf[i] ELSE request[i]]
       /\ sbuf' = SubSeq(sbuf, n + 1, Len(sbuf))
       /\ short' = (short \/ n < Parts)
       /\ spc' = IF n = Parts THEN "dispatch" ELSE "ended"
  /\ UNCHANGED <<c2s, s2c, cbuf, conn, client, up, executed>>

(* Faulty variant of ReadClosed: the end of the stream is not noticed.     *)
ReadIgnoresEof ==
  /\ up /\ spc = "read" /\ cpc \in {"closed", "killed"}
  /\ sbuf = <<>> /\ c2s = <<>>
  /\ spc' = "select"
  /\ UNCHANGED <<stream, conn, client, up, request, executed, short>>

(* When the client has gone the read returns 0 at the end of the stream,   *)
(* or fails once the client's socket has refused a response.               *)
ReadClosed ==
  /\ up /\ spc = "read" /\ cpc \in {"closed", "killed"}
  /\ (sbuf = <<>> /\ c2s = <<>>) \/ s2c # <<>> \/ cbuf # <<>>
  /\ spc' = "ended"
  /\ UNCHANGED <<stream, conn, client, up, request, executed, short>>

(* Faulty variant of Dispatch: every request is answered before it is      *)
(* executed.                                                               *)
DispatchAnswersAll ==
  /\ up /\ spc = "dispatch"
  /\ spc' = "execute"
  /\ s2c' = s2c \o Message(request[1])
  /\ UNCHANGED <<executed, up, conn, c2s, sbuf, cbuf, client, request, short>>

(* request_dispatcher answers PING and the like, and EXIT, on which it     *)
(* ends the process.                                                       *)
Dispatch ==
  /\ up /\ spc = "dispatch"
  /\ spc' = "execute"
  /\ \/ MethodOf(request) = "KV" /\ UNCHANGED <<s2c, executed, up, conn>>
     \/ /\ MethodOf(request) # "KV"
        /\ s2c' = s2c \o Message(request[1])
        /\ executed' = Append(executed, request)
        /\ IF MethodOf(request) = "EXIT" THEN Exit ELSE UNCHANGED <<up, conn>>
  /\ UNCHANGED <<c2s, sbuf, cbuf, client, request, short>>

(* main_job executes a request for the hash table (see HashTable) ...      *)
Execute ==
  /\ up /\ spc = "execute"
  /\ executed' = IF MethodOf(request) = "KV" THEN Append(executed, request)
                                             ELSE executed
  /\ spc' = "send"
  /\ UNCHANGED <<stream, conn, client, up, request, short>>

(* ... and tcp_send_response writes the response, also to a client that    *)
(* has gone: SIGPIPE is ignored and nobody looks at the result.            *)
SendResponse ==
  /\ up /\ spc = "send"
  /\ s2c' = s2c \o Message(request[1])
  /\ spc' = "select"
  /\ UNCHANGED <<c2s, sbuf, cbuf, conn, client, up, request, executed, short>>

Worker == Select \/ Read \/ ReadClosed \/ Dispatch \/ Execute \/ SendResponse

-----------------------------------------------------------------------------
(* External: a piece of a stream arrives.                                  *)
ToServer ==
  /\ up /\ c2s # <<>>
  /\ \E n \in 1..Len(c2s) :
       /\ sbuf' = sbuf \o SubSeq(c2s, 1, n)
       /\ c2s' = SubSeq(c2s, n + 1, Len(c2s))
  /\ UNCHANGED <<s2c, cbuf, conn, client, up, worker, short>>

ToClient ==
  /\ cpc \notin {"closed", "killed"} /\ conn # "reset" /\ s2c # <<>>
  /\ \E n \in 1..Len(s2c) :
       /\ cbuf' = cbuf \o SubSeq(s2c, 1, n)
       /\ s2c' = SubSeq(s2c, n + 1, Len(s2c))
  /\ UNCHANGED <<c2s, sbuf, conn, client, up, worker, short>>

Next == Make \/ Client \/ Leave \/ Stop \/ Worker \/ ToServer \/ ToClient

Spec == Init /\ [][Next]_vars

(* Both threads run, and what is sent arrives.  The client need not make   *)
(* another request, nor leave, and the server need not stop.               *)
FairSpec == /\ Spec /\ WF_vars(Client) /\ WF_vars(Worker)
            /\ WF_vars(ToServer) /\ WF_vars(ToClient)

-----------------------------------------------------------------------------
(***************************************************************************)
(* Properties.                                                             *)
(***************************************************************************)
Gone  == {"failed", "killed", "closed"}
Plain == \A k \in 1..op : asked[k] = "KV"

(* Requests are carried out whole, in the order in which the client made   *)
(* them, and at most once, in whatever pieces they arrive and although the *)
(* client goes on after a part of a response and may send a request again. *)
WholeRequests ==
  \A i \in 1..Len(executed) : executed[i] = Message(i)

(* When start_instance goes on, its response buffer holds the response to  *)
(* this operation and nothing else, unless a message was cut in two or the *)
(* client has used a method that is answered twice.                        *)
ResponseMatches ==
  (cpc = "make" /\ op > 0 /\ ~short /\ Plain) => got = Message(op)

(* Every operation ends, also after the worker's select has timed out and  *)
(* when the server stops half way, unless a message was cut in two: then   *)
(* the worker has left, without closing the connection.                    *)
OpsComplete ==
  \A k \in 1..MaxOps :
    (op = k) ~> (op = k /\ cpc \in Gone \cup {"make"}) \/ short

(* A worker does not outlive its client.                                   *)
WorkerEnds == (cpc = "closed") ~> (spc = "ended" \/ ~up)

(* While no message is cut in two, nobody leaves and every method is       *)
(* answered once, the connection is the request-response service.          *)
Service == INSTANCE RequestResponse WITH
             called   <- op,
             done     <- Len(executed),
             returned <- IF cpc = "make" THEN op ELSE op - 1,
             sound    <- ~short /\ Plain /\ conn = "open" /\ cpc \notin Gone

ImplementsService == Service!Spec
=============================================================================
