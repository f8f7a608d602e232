------------------------------ MODULE TcpProofs ------------------------------
(***************************************************************************)
(* Proofs about TcpSession, for messages that travel in any number of      *)
(* pieces and for any number of operations: requests are carried out       *)
(* whole, in order and at most once, a response that was not cut in two is *)
(* the one the client waits for, and the connection implements the         *)
(* request-response service.                                               *)
(***************************************************************************)
EXTENDS TcpSession, SequenceTheorems, TLAPS

(* What is under way to the worker, and to the client, wherever the stream *)
(* has been cut.                                                           *)
Unread    == sbuf \o c2s
Responses == cbuf \o s2c

(* Requests the worker has read, and the ones it has answered for good.    *)
Taken   == Len(executed) +
           IF \/ spc = "dispatch"
              \/ spc = "execute" /\ MethodOf(request) = "KV" THEN 1 ELSE 0
Replied == Len(executed) - (IF spc = "send" THEN 1 ELSE 0)

(* Requests the client has written.                                        *)
Sent == IF cpc = "send" THEN op - 1 ELSE op

(* A stream that holds the messages k, k+1, ... from the start of one.     *)
MessagesFrom(s, k) ==
  \A q \in 0..Len(s), r \in 1..Parts :
    Parts * q + r <= Len(s) => s[Parts * q + r] = k + q

(* The server's socket goes with the process.                              *)
InvConn == up <=> conn = "open"

(* While the worker reads at all it reads from the start of a request, and *)
(* what is under way are whole requests, none missing and none twice.      *)
RequestsUnderWay ==
  /\ MessagesFrom(Unread, Taken + 1)
  /\ Len(Unread) <= Parts * (op - Taken)
  /\ cpc \in {"make", "send", "receive"} =>
       Taken <= Sent /\ Len(Unread) = Parts * (Sent - Taken)

InvRequests == (up /\ spc # "ended") => RequestsUnderWay

(* What the worker has in hand is the request after the ones it executed,  *)
(* or the last of them.                                                    *)
InvInHand ==
  /\ Taken <= op
  /\ spc \in {"dispatch", "execute", "send"} =>
       Taken > 0 /\ request = Message(Taken)

(* A client that sees whole responses, one for each request, and has not   *)
(* given up, is answered in step: there is a response only while it waits, *)
(* the one it waits for.                                                   *)
InvAnswers ==
  (~short /\ Plain /\ cpc \in {"make", "send", "receive"}) =>
    /\ spc # "ended"
    /\ Responses = <<>> \/ (cpc = "receive" /\ Responses = Message(op))
    /\ up => Replied = IF cpc = "make" \/ Responses # <<>> THEN op ELSE op - 1
    /\ (cpc = "make" /\ op > 0) => got = Message(op)

IInv == /\ TypeOK /\ InvConn /\ InvRequests /\ InvInHand /\ WholeRequests
        /\ InvAnswers

-----------------------------------------------------------------------------
(* A message is Parts units, all marked with its number.                   *)
LEMMA MessageParts ==
  ASSUME NEW k \in Ops
  PROVE  /\ Message(k) \in Seq(Ops) /\ Len(Message(k)) = Parts
         /\ Message(k) \in [1..Parts -> Ops]
         /\ \A j \in 1..Parts : Message(k)[j] = k
         /\ Message(k)[1] = k /\ Message(k) # <<>>
<1>1. /\ Message(k) \in [1..Parts -> Ops]
      /\ \A j \in 1..Parts : Message(k)[j] = k
  BY DEF Message
<1>2. Message(k) \in Seq(Ops) /\ Len(Message(k)) = Parts
  BY <1>1, PartsAssumption
<1> QED
  BY <1>1, <1>2, PartsAssumption

(* Cutting a stream elsewhere leaves the stream as it is.                  *)
LEMMA MoveCut ==
  ASSUME NEW S, NEW a \in Seq(S), NEW b \in Seq(S), NEW n \in 1..Len(b)
  PROVE  /\ a \o SubSeq(b, 1, n) \in Seq(S)
         /\ SubSeq(b, n + 1, Len(b)) \in Seq(S)
         /\ (a \o SubSeq(b, 1, n)) \o SubSeq(b, n + 1, Len(b)) = a \o b
<1> DEFINE p == SubSeq(b, 1, n)
           r == SubSeq(b, n + 1, Len(b))
<1>1. p \in Seq(S) /\ r \in Seq(S)
  OBVIOUS
<1>2. p \o r = b
  OBVIOUS
<1> HIDE DEF p, r
<1>3. \A x, y \in Seq(S) : (a \o x) \o y = a \o (x \o y) /\ a \o x \in Seq(S)
  OBVIOUS
<1>4. (a \o p) \o r = a \o (p \o r) /\ a \o p \in Seq(S)
  BY <1>1, <1>3, Zenon
<1> QED
  BY <1>1, <1>2, <1>4 DEF p, r

(* A read takes the front of a stream.                                     *)
LEMMA ReadFront ==
  \A a, b \in Seq(Ops) : \A n \in 0..Len(a) :
    /\ Len(SubSeq(a, n + 1, Len(a)) \o b) = Len(a \o b) - n
    /\ \A j \in 1..(Len(a \o b) - n) :
         (SubSeq(a, n + 1, Len(a)) \o b)[j] = (a \o b)[j + n]
<1> TAKE a, b \in Seq(Ops)
<1> TAKE n \in 0..Len(a)
<1>1. /\ SubSeq(a, n + 1, Len(a)) \in Seq(Ops)
      /\ Len(SubSeq(a, n + 1, Len(a))) = Len(a) - n
      /\ \A j \in 1..(Len(a) - n) : SubSeq(a, n + 1, Len(a))[j] = a[j + n]
  OBVIOUS
<1> QED
  BY <1>1

(* Multiples of Parts.                                                     *)
LEMMA Multiples ==
  /\ \A m \in Int : Parts * (m + 1) = Parts * m + Parts
  /\ \A m \in Int : Parts * (m - 1) = Parts * m - Parts
  /\ \A m, n \in Int : m <= n => Parts * m <= Parts * n
  /\ \A m \in Int : Parts * m \in Int
  /\ \A m \in Nat : m <= Parts * m
  /\ Parts * 0 = 0
  BY PartsAssumption

(* Streams are put together in any order.                                  *)
LEMMA Assoc == \A x, y, z \in Seq(Ops) : (x \o y) \o z = x \o (y \o z)
  OBVIOUS

(* A message written to the end of a stream of messages.                   *)
LEMMA AppendMessage ==
  ASSUME NEW s \in Seq(Ops), NEW k \in Nat, NEW m \in Nat, k + m \in Ops,
         MessagesFrom(s, k), Len(s) = Parts * m
  PROVE  /\ MessagesFrom(s \o Message(k + m), k)
         /\ Len(s \o Message(k + m)) = Parts * (m + 1)
<1> DEFINE t == s \o Message(k + m)
<1>1. /\ t \in Seq(Ops) /\ Len(t) = Len(s) + Parts /\ Len(s) \in Nat
      /\ \A j \in 1..Len(s) : t[j] = s[j]
      /\ \A j \in 1..Parts : t[Len(s) + j] = k + m
  <2>1. /\ Message(k + m) \in Seq(Ops) /\ Len(Message(k + m)) = Parts
        /\ \A j \in 1..Parts : Message(k + m)[j] = k + m
    BY MessageParts
  <2> QED
    BY <2>1, PartsAssumption
<1> HIDE DEF t
<1>2. Len(t) = Parts * (m + 1)
  BY <1>1, Multiples
<1>3. ASSUME NEW q \in 0..Len(t), NEW r \in 1..Parts, Parts * q + r <= Len(t)
      PROVE  t[Parts * q + r] = k + q
  <2>0. /\ q \in Nat /\ r \in Nat /\ r >= 1 /\ r <= Parts
        /\ Parts * q \in Int /\ Parts * (q + 1) = Parts * q + Parts
        /\ q <= Parts * q /\ Parts * (m + 1) = Parts * m + Parts
    BY <1>1, Multiples, PartsAssumption
  <2>1. CASE q < m
    <3>1. Parts * (q + 1) <= Parts * m
      BY <2>0, <2>1, Multiples
    <3>2. Parts * q + r \in 1..Len(s)
      BY <1>1, <2>0, <3>1, PartsAssumption
    <3>3. q \in 0..Len(s)
      <4>1. Len(s) \in Nat /\ q \in Nat /\ q <= Parts * q /\ r \in Nat
        BY <1>1, <2>0
      <4>2. Parts * q + r <= Len(s) /\ Parts * q \in Int
        BY <2>0, <3>2
      <4> QED
        BY <4>1, <4>2
    <3> QED
      BY <1>1, <3>2, <3>3 DEF MessagesFrom
  <2>2. CASE q = m
    BY <1>1, <2>0, <2>2
  <2>3. CASE q > m
    <3>1. Parts * (m + 1) <= Parts * q
      BY <2>0, <2>3, Multiples
    <3> QED
      BY <1>2, <1>3, <2>0, <3>1
  <2> QED
    BY <2>0, <2>1, <2>2, <2>3
<1> QED
  BY <1>2, <1>3 DEF t, MessagesFrom

(* What is left when a message has been read from its front.               *)
LEMMA DropMessage ==
  ASSUME NEW s \in Seq(Ops), NEW k \in Nat, MessagesFrom(s, k),
         NEW t \in Seq(Ops), Len(t) = Len(s) - Parts,
         \A j \in 1..Len(t) : t[j] = s[j + Parts]
  PROVE  MessagesFrom(t, k + 1)
<1> SUFFICES ASSUME NEW q \in 0..Len(t), NEW r \in 1..Parts,
                    Parts * q + r <= Len(t)
             PROVE  t[Parts * q + r] = k + 1 + q
  BY DEF MessagesFrom
<1> DEFINE x == Parts * q
<1>1. /\ q \in Nat /\ r \in Nat /\ r >= 1 /\ x \in Int /\ q <= x
      /\ Len(s) \in Nat /\ Len(t) \in Nat
  BY Multiples
<1>2. Parts * (q + 1) = x + Parts
  BY <1>1, Multiples
<1>3. x + r <= Len(t)
  OBVIOUS
<1> HIDE DEF x
<1>4. /\ x + r \in 1..Len(t) /\ q + 1 \in 0..Len(s)
      /\ Parts * (q + 1) + r = (x + r) + Parts
      /\ Parts * (q + 1) + r <= Len(s)
  BY <1>1, <1>2, <1>3, PartsAssumption
<1>5. s[Parts * (q + 1) + r] = k + (q + 1)
  BY <1>4 DEF MessagesFrom
<1>6. t[x + r] = k + 1 + q
  BY <1>1, <1>4, <1>5
<1> QED
  BY <1>6 DEF x

(* What a read takes, and what it leaves.                                  *)
LEMMA ReadTypes ==
  ASSUME NEW s \in Seq(Ops), NEW buf \in [1..Parts -> Ops],
         NEW n, n = Smaller(Parts, Len(s))
  PROVE  /\ n \in 0..Len(s) /\ n <= Parts
         /\ n < Parts => n = Len(s)
         /\ [i \in 1..Parts |-> IF i <= n THEN s[i] ELSE buf[i]] \in [1..Parts -> Ops]
         /\ SubSeq(s, n + 1, Len(s)) \in Seq(Ops)
<1>1. n \in 0..Len(s) /\ n <= Parts /\ (n < Parts => n = Len(s))
  BY PartsAssumption DEF Smaller
<1>2. \A i \in 1..Parts : i <= n => s[i] \in Ops
  BY <1>1
<1> QED
  BY <1>1, <1>2

(* The type invariant is inductive.                                        *)
LEMMA TypeInit == Init => TypeOK
<1>1. 0 \in Ops /\ Message(0) \in [1..Parts -> Ops]
  BY PartsAssumption DEF Ops, Message
<1>2. \A S : <<>> \in Seq(S) /\ Len(<<>>) = 0
  OBVIOUS
<1> SUFFICES ASSUME Init PROVE TypeOK
  OBVIOUS
<1>3. \A s \in {c2s, sbuf, s2c, cbuf} : s \in Seq(Ops)
  BY <1>2 DEF Init
<1>4. op \in Ops /\ asked \in Seq(Methods) /\ Len(asked) = op
  BY <1>1, <1>2 DEF Init
<1>5. executed \in Seq([1..Parts -> Ops])
  BY <1>2 DEF Init
<1> QED
  BY <1>1, <1>3, <1>4, <1>5 DEF Init, TypeOK

LEMMA TypeStep == TypeOK /\ [Next]_vars => TypeOK'
<1> SUFFICES ASSUME TypeOK, [Next]_vars PROVE TypeOK'
  OBVIOUS
<1>0. /\ c2s \in Seq(Ops) /\ sbuf \in Seq(Ops) /\ s2c \in Seq(Ops)
      /\ cbuf \in Seq(Ops) /\ op \in Ops
      /\ request \in [1..Parts -> Ops] /\ got \in [1..Parts -> Ops]
      /\ request[1] \in Ops
  BY PartsAssumption DEF TypeOK
<1>1. CASE Make
  BY <1>1, PartsAssumption DEF Make, TypeOK, stream, worker, Ops
<1>2. CASE SendRequest
  <2>1. c2s \o Message(op) \in Seq(Ops)
    BY <1>0, MessageParts, ConcatProperties
  <2> QED
    BY <1>2, <2>1 DEF SendRequest, TypeOK, worker
<1>3. CASE ReceiveResponse
  <2> DEFINE n == Smaller(Parts, Len(cbuf))
  <2>0. /\ [i \in 1..Parts |-> IF i <= n THEN cbuf[i] ELSE got[i]] \in [1..Parts -> Ops]
        /\ SubSeq(cbuf, n + 1, Len(cbuf)) \in Seq(Ops)
    BY <1>0, ReadTypes
  <2>1. got' \in [1..Parts -> Ops] /\ cbuf' \in Seq(Ops) /\ short' \in BOOLEAN
    BY <1>3, <2>0 DEF ReceiveResponse
  <2> QED
    BY <1>3, <2>1 DEF ReceiveResponse, TypeOK, worker
<1>4. CASE ReceiveFails \/ Leave
  BY <1>4 DEF ReceiveFails, Leave, TypeOK, stream, worker
<1>5. CASE Stop
  BY <1>5 DEF Stop, Exit, TypeOK, stream, worker, client
<1>6. CASE Select \/ ReadClosed
  BY <1>6 DEF Select, ReadClosed, TypeOK, stream, client
<1>7. CASE Read
  <2> DEFINE n == Smaller(Parts, Len(sbuf))
  <2>0. /\ [i \in 1..Parts |-> IF i <= n THEN sbuf[i] ELSE request[i]] \in [1..Parts -> Ops]
        /\ SubSeq(sbuf, n + 1, Len(sbuf)) \in Seq(Ops)
    BY <1>0, ReadTypes
  <2>1. /\ request' \in [1..Parts -> Ops] /\ sbuf' \in Seq(Ops) /\ short' \in BOOLEAN
        /\ spc' \in {"dispatch", "ended"}
    BY <1>7, <2>0 DEF Read
  <2> QED
    BY <1>7, <2>1 DEF Read, TypeOK, client
<1>8. CASE Dispatch
  <2>1. /\ s2c' \in Seq(Ops) /\ executed' \in Seq([1..Parts -> Ops])
        /\ up' \in BOOLEAN /\ conn' \in {"open", "fin", "reset"}
    <3>1. s2c \o Message(request[1]) \in Seq(Ops)
      BY <1>0, MessageParts, ConcatProperties
    <3>2. Append(executed, request) \in Seq([1..Parts -> Ops])
      BY <1>0 DEF TypeOK
    <3> QED
      BY <1>8, <3>1, <3>2 DEF Dispatch, TypeOK, Exit
  <2> QED
    BY <1>8, <2>1 DEF Dispatch, TypeOK, client
<1>9. CASE Execute
  BY <1>0, <1>9 DEF Execute, TypeOK, stream, client
<1>10. CASE SendResponse
  <2>1. s2c \o Message(request[1]) \in Seq(Ops)
    BY <1>0, MessageParts, ConcatProperties
  <2> QED
    BY <1>10, <2>1 DEF SendResponse, TypeOK, client
<1>11. CASE ToServer
  <2>1. sbuf' \in Seq(Ops) /\ c2s' \in Seq(Ops)
    BY <1>0, <1>11, MoveCut DEF ToServer
  <2> QED
    BY <1>11, <2>1 DEF ToServer, TypeOK, client, worker
<1>12. CASE ToClient
  <2>1. cbuf' \in Seq(Ops) /\ s2c' \in Seq(Ops)
    BY <1>0, <1>12, MoveCut DEF ToClient
  <2> QED
    BY <1>12, <2>1 DEF ToClient, TypeOK, client, worker
<1>13. CASE UNCHANGED vars
  BY <1>13 DEF TypeOK, vars, stream, client, worker
<1> QED
  BY <1>1, <1>2, <1>3, <1>4, <1>5, <1>6, <1>7, <1>8, <1>9, <1>10, <1>11,
     <1>12, <1>13 DEF Next, Client, Worker

-----------------------------------------------------------------------------
(* Types of the counts and streams in which the invariant is stated.       *)
LEMMA Counts ==
  ASSUME TypeOK
  PROVE  /\ Len(executed) \in Nat /\ op \in Nat /\ op \in Ops
         /\ Taken \in Nat /\ Replied \in Int /\ Sent \in Int
         /\ Unread \in Seq(Ops) /\ Len(Unread) \in Nat
         /\ Responses \in Seq(Ops) /\ Len(Responses) \in Nat
         /\ Len(Unread) = Len(sbuf) + Len(c2s)
<1>1. Len(executed) \in Nat /\ op \in Nat /\ op \in Ops
  BY PartsAssumption DEF TypeOK, Ops
<1>2. Taken \in Nat /\ Replied \in Int /\ Sent \in Int
  BY <1>1 DEF Taken, Replied, Sent
<1>3. /\ c2s \in Seq(Ops) /\ sbuf \in Seq(Ops) /\ s2c \in Seq(Ops)
      /\ cbuf \in Seq(Ops)
  BY DEF TypeOK
<1> QED
  BY <1>1, <1>2, <1>3, ConcatProperties, LenProperties DEF Unread, Responses

(* The request in hand is one the client has made, and its method does not *)
(* change when the client makes another.                                   *)
LEMMA InHand ==
  ASSUME TypeOK, InvInHand, spc \in {"dispatch", "execute", "send"}
  PROVE  /\ Taken \in 1..op /\ Taken \in Ops
         /\ request = Message(Taken) /\ request[1] = Taken
         /\ MethodOf(request) = asked[Taken]
         /\ Plain => MethodOf(request) = "KV"
         /\ \A m : Append(asked, m)[request[1]] = asked[request[1]]
<1>1. Taken \in 1..op
  BY Counts DEF InvInHand
<1>2. Taken \in Ops
  BY <1>1, PartsAssumption DEF TypeOK, Ops
<1>3. request = Message(Taken) /\ request[1] = Taken
  BY <1>2, MessageParts DEF InvInHand
<1>4. asked \in Seq(Methods) /\ Len(asked) = op
  BY DEF TypeOK
<1> HIDE DEF Taken
<1>5. \A m : Append(asked, m)[Taken] = asked[Taken]
  BY <1>1, <1>4
<1> QED
  BY <1>1, <1>2, <1>3, <1>5 DEF MethodOf, Plain

(* The invariant holds when the worker is started.                         *)
LEMMA InitIInv == Init => IInv
<1> SUFFICES ASSUME Init PROVE IInv
  OBVIOUS
<1>1. TypeOK
  BY TypeInit
<1>2. Len(executed) = 0 /\ Taken = 0 /\ Replied = 0 /\ Sent = 0
  BY DEF Init, Taken, Replied, Sent
<1>3. Unread = <<>> /\ Responses = <<>> /\ Len(Unread) = 0
  BY DEF Init, Unread, Responses
<1>4. InvConn /\ InvInHand /\ WholeRequests
  BY <1>2 DEF Init, InvConn, InvInHand, WholeRequests
<1>5. InvRequests
  BY <1>2, <1>3, PartsAssumption
  DEF Init, InvRequests, RequestsUnderWay, MessagesFrom
<1>6. InvAnswers
  BY <1>2, <1>3 DEF Init, InvAnswers
<1> QED
  BY <1>1, <1>4, <1>5, <1>6 DEF IInv

(* The client makes a request: what is under way stays what it is.         *)
LEMMA MakeStep == ASSUME IInv, TypeOK', Make PROVE IInv'
<1> USE DEF IInv
<1>1. UNCHANGED <<stream, conn, got, up, worker, short>> /\ op' = op + 1
  BY DEF Make
<1>2. Unread' = Unread /\ Responses' = Responses
  BY <1>1 DEF stream, Unread, Responses
<1>3. Taken' = Taken
  <2>1. CASE spc = "execute"
    <3>1. MethodOf(request)' = MethodOf(request)
      BY <1>1, <2>1, InHand DEF Make, MethodOf, worker
    <3> QED
      BY <1>1, <3>1 DEF Taken, worker
  <2> QED
    BY <1>1, <2>1 DEF Taken, worker
<1>4. Replied' = Replied /\ Sent' = Sent /\ Sent = op
  BY <1>1, Counts DEF Replied, Sent, Make, worker
<1>5. Plain' => Plain
  <2>1. \A k \in 1..op : asked'[k] = asked[k]
    BY DEF Make, TypeOK
  <2> QED
    BY <1>1, <2>1, Counts DEF Plain
<1>6. InvConn' /\ WholeRequests'
  BY <1>1 DEF InvConn, WholeRequests, worker
<1>7. InvInHand'
  BY <1>1, <1>3, Counts DEF InvInHand, worker
<1>8. InvRequests'
  <2>1. op - Taken \in Int /\ op' - Taken \in Int /\ op - Taken <= op' - Taken
    BY <1>1, Counts
  <2>2. Parts * (op - Taken) <= Parts * (op' - Taken)
    BY <2>1, Multiples
  <2>3. Parts * (op - Taken) \in Int /\ Parts * (op' - Taken) \in Int
    BY <2>1, Multiples
  <2> SUFFICES ASSUME RequestsUnderWay PROVE RequestsUnderWay'
    BY <1>1 DEF InvRequests, worker
  <2> QED
    BY <1>1, <1>2, <1>3, <1>4, <2>2, <2>3, Counts DEF RequestsUnderWay, Make
<1>9. InvAnswers'
  BY <1>1, <1>2, <1>4, <1>5, Counts DEF InvAnswers, Make, worker
<1> QED
  BY <1>6, <1>7, <1>8, <1>9

(* The client writes a request to a connection that is open, or finds that *)
(* it is not.                                                              *)
LEMMA SendRequestStep == ASSUME IInv, TypeOK', SendRequest PROVE IInv'
<1> USE DEF IInv
<1>1. /\ UNCHANGED <<sbuf, s2c, cbuf, op, asked, got, up, worker, short>>
      /\ cpc = "send" /\ cpc' \in {"receive", "killed"}
  BY DEF SendRequest
<1>2. /\ Responses' = Responses /\ Taken' = Taken /\ Replied' = Replied
      /\ Plain' = Plain
  BY <1>1 DEF Responses, Taken, Replied, Plain, MethodOf, worker
<1>3. InvConn' /\ WholeRequests' /\ InvInHand'
  BY <1>1, <1>2 DEF SendRequest, InvConn, WholeRequests, InvInHand, worker
<1>4. InvRequests'
  <2> SUFFICES ASSUME up, spc # "ended", RequestsUnderWay PROVE RequestsUnderWay'
    BY <1>1 DEF InvRequests, worker
  <2>1. c2s' = c2s \o Message(op) /\ cpc' = "receive"
    BY DEF SendRequest, InvConn
  <2> DEFINE m == op - 1 - Taken
  <2>2. /\ m \in Nat /\ (Taken + 1) + m = op /\ m + 1 = op - Taken
        /\ Len(Unread) = Parts * m /\ Taken + 1 \in Nat
    BY <1>1, Counts DEF RequestsUnderWay, Sent
  <2>3. Unread' = Unread \o Message(op)
    <3>1. sbuf \in Seq(Ops) /\ c2s \in Seq(Ops) /\ Message(op) \in Seq(Ops)
      BY Counts, MessageParts DEF TypeOK
    <3>2. (sbuf \o c2s) \o Message(op) = sbuf \o (c2s \o Message(op))
      BY <3>1, Assoc, Zenon
    <3> QED
      BY <1>1, <2>1, <3>2 DEF Unread
  <2> HIDE DEF m
  <2>4. MessagesFrom(Unread', Taken + 1) /\ Len(Unread') = Parts * (op - Taken)
    <3>1. /\ Unread \in Seq(Ops) /\ (Taken + 1) + m \in Ops
          /\ MessagesFrom(Unread, Taken + 1)
      BY <2>2, Counts DEF RequestsUnderWay
    <3>2. /\ MessagesFrom(Unread \o Message((Taken + 1) + m), Taken + 1)
          /\ Len(Unread \o Message((Taken + 1) + m)) = Parts * (m + 1)
      BY <2>2, <3>1, AppendMessage
    <3> QED
      BY <2>2, <2>3, <3>2
  <2>5. Sent' = op /\ Taken <= op
    BY <1>1, <2>1 DEF Sent, InvInHand
  <2>6. Len(Unread') \in Int
    BY Counts, <2>4, Multiples
  <2> QED
    BY <1>1, <1>2, <2>4, <2>5, <2>6 DEF RequestsUnderWay
<1>5. InvAnswers'
  BY <1>1, <1>2, Counts DEF InvAnswers, worker
<1> QED
  BY <1>3, <1>4, <1>5

(* The client reads what has come.  What was not cut in two is the whole   *)
(* response it waits for, and nothing is left.                             *)
LEMMA ReceiveResponseStep == ASSUME IInv, TypeOK', ReceiveResponse PROVE IInv'
<1> USE DEF IInv
<1> DEFINE n == Smaller(Parts, Len(cbuf))
<1>1. /\ UNCHANGED <<c2s, sbuf, s2c, conn, op, asked, up, worker>>
      /\ cpc = "receive" /\ cpc' = "make" /\ cbuf # <<>>
      /\ got' = [i \in 1..Parts |-> IF i <= n THEN cbuf[i] ELSE got[i]]
      /\ cbuf' = SubSeq(cbuf, n + 1, Len(cbuf))
      /\ short' = (short \/ n < Parts)
  BY DEF ReceiveResponse
<1>2. /\ Unread' = Unread /\ Taken' = Taken /\ Replied' = Replied
      /\ Plain' = Plain /\ Sent' = Sent
  BY <1>1 DEF Unread, Taken, Replied, Plain, Sent, MethodOf, worker
<1>3. InvConn' /\ WholeRequests' /\ InvInHand'
  BY <1>1, <1>2 DEF InvConn, WholeRequests, InvInHand, worker
<1>4. InvRequests'
  BY <1>1, <1>2 DEF InvRequests, RequestsUnderWay, worker
<1>5. InvAnswers'
  <2> SUFFICES ASSUME ~short', Plain
               PROVE  /\ spc # "ended" /\ Responses' = <<>>
                      /\ up => Replied = op
                      /\ op > 0 => got' = Message(op)
    BY <1>1, <1>2 DEF InvAnswers, worker
  <2>0. cbuf \in Seq(Ops) /\ s2c \in Seq(Ops) /\ got \in [1..Parts -> Ops]
    BY DEF TypeOK
  <2>1. n = Parts /\ ~short /\ Parts \in 0..Len(cbuf)
    <3>1. n \in 0..Len(cbuf) /\ n <= Parts
      BY <2>0, ReadTypes
    <3> HIDE DEF n
    <3>2. ~short /\ ~(n < Parts)
      BY <1>1, Zenon
    <3> QED
      BY <3>1, <3>2, PartsAssumption
  <2>2. Responses # <<>>
    BY <1>1, <2>0 DEF Responses
  <2>3. spc # "ended" /\ Responses = Message(op) /\ (up => Replied = op)
    BY <1>1, <2>1, <2>2 DEF InvAnswers
  <2>4. Len(Responses) = Parts /\ \A j \in 1..Parts : Responses[j] = op
    BY <2>3, MessageParts, Counts
  <2>5. \A j \in 1..Parts : cbuf[j] = op
    BY <2>0, <2>1, <2>4 DEF Responses
  <2>6. got' = Message(op)
    BY <1>1, <2>1, <2>5 DEF Message
  <2>7. Len(Responses') = 0
    BY <1>1, <2>0, <2>1, <2>4, ReadFront, PartsAssumption DEF Responses
  <2>8. Responses' \in Seq(Ops)
    BY ConcatProperties DEF Responses, TypeOK
  <2>9. Responses' = <<>>
    BY <2>7, <2>8
  <2> QED
    BY <2>3, <2>6, <2>9
<1> QED
  BY <1>3, <1>4, <1>5

(* The client gives up, sends once more to a server that has gone, or      *)
(* leaves.                                                                 *)
LEMMA ClientEndsStep == ASSUME IInv, TypeOK', ReceiveFails \/ Leave PROVE IInv'
<1> USE DEF IInv
<1>1. /\ UNCHANGED <<stream, conn, op, asked, got, up, worker, short>>
      /\ \/ cpc' \in Gone
         \/ cpc' = "send" /\ cpc = "receive" /\ conn = "fin" /\ cbuf = <<>> /\ s2c = <<>>
  BY DEF ReceiveFails, Leave, Gone
<1>2. /\ Unread' = Unread /\ Responses' = Responses /\ Taken' = Taken
      /\ Replied' = Replied /\ Plain' = Plain
  BY <1>1 DEF Unread, Responses, Taken, Replied, Plain, MethodOf, worker, stream
<1>3. InvConn' /\ WholeRequests' /\ InvInHand'
  BY <1>1, <1>2 DEF InvConn, WholeRequests, InvInHand, worker
<1>4. InvRequests'
  BY <1>1, <1>2 DEF InvRequests, RequestsUnderWay, InvConn, Gone, worker
<1>5. InvAnswers'
  <2>1. cpc' \notin Gone => Responses = <<>> /\ ~up
    BY <1>1 DEF Gone, Responses, InvConn
  <2> QED
    BY <1>1, <1>2, <2>1 DEF InvAnswers, Gone, worker
<1> QED
  BY <1>3, <1>4, <1>5

(* The server process ends.                                                *)
LEMMA StopStep == ASSUME IInv, TypeOK', Stop PROVE IInv'
<1> USE DEF IInv
<1>1. UNCHANGED <<stream, client, worker, short>> /\ ~up' /\ conn' # "open"
  BY DEF Stop, Exit
<1>2. /\ Unread' = Unread /\ Responses' = Responses /\ Taken' = Taken
      /\ Replied' = Replied /\ Plain' = Plain
  BY <1>1 DEF Unread, Responses, Taken, Replied, Plain, MethodOf, worker,
              stream, client
<1>3. InvConn' /\ WholeRequests' /\ InvInHand' /\ InvRequests'
  BY <1>1, <1>2 DEF InvConn, WholeRequests, InvInHand, InvRequests, worker, client
<1>4. InvAnswers'
  BY <1>1, <1>2 DEF InvAnswers, worker, client
<1> QED
  BY <1>3, <1>4

(* The worker waits, or finds that the client has gone.                    *)
LEMMA WaitStep == ASSUME IInv, TypeOK', Select \/ ReadClosed PROVE IInv'
<1> USE DEF IInv
<1>1. /\ UNCHANGED <<stream, conn, client, up, request, executed, short>>
      /\ spc \in {"select", "read"}
      /\ spc' = "read" \/ (spc' = "ended" /\ cpc \in {"closed", "killed"})
  BY DEF Select, ReadClosed
<1>2. /\ Unread' = Unread /\ Responses' = Responses /\ Taken' = Taken
      /\ Replied' = Replied /\ Plain' = Plain /\ Sent' = Sent
  BY <1>1 DEF Unread, Responses, Taken, Replied, Plain, Sent, stream, client
<1>3. InvConn' /\ WholeRequests' /\ InvInHand'
  BY <1>1, <1>2 DEF InvConn, WholeRequests, InvInHand, client
<1>4. InvRequests'
  BY <1>1, <1>2 DEF InvRequests, RequestsUnderWay, client
<1>5. InvAnswers'
  BY <1>1, <1>2 DEF InvAnswers, client
<1> QED
  BY <1>3, <1>4, <1>5

(* A whole request is read from the start of the stream, and the stream    *)
(* starts with the next one; or the worker gives up.                       *)
LEMMA ReadStep == ASSUME IInv, TypeOK', Read PROVE IInv'
<1> USE DEF IInv
<1> DEFINE n == Smaller(Parts, Len(sbuf))
<1>1. /\ UNCHANGED <<c2s, s2c, cbuf, conn, client, up, executed>>
      /\ up /\ spc = "read" /\ sbuf # <<>>
      /\ request' = [i \in 1..Parts |-> IF i <= n THEN sbuf[i] ELSE request[i]]
      /\ sbuf' = SubSeq(sbuf, n + 1, Len(sbuf))
      /\ short' = (short \/ n < Parts)
      /\ spc' = IF n = Parts THEN "dispatch" ELSE "ended"
  BY DEF Read
<1>2. /\ n \in 0..Len(sbuf) /\ n <= Parts /\ sbuf \in Seq(Ops) /\ c2s \in Seq(Ops)
  BY ReadTypes DEF TypeOK
<1> HIDE DEF n
<1>3. /\ Responses' = Responses /\ Plain' = Plain /\ Replied' = Replied
      /\ Sent' = Sent /\ Taken = Len(executed)
  BY <1>1, Counts DEF Responses, Plain, Replied, Sent, Taken, client
<1>4. InvConn' /\ WholeRequests'
  BY <1>1 DEF InvConn, WholeRequests
<1>5. InvAnswers'
  <2>0. ~short' => ~(n < Parts) /\ ~short
    BY <1>1, Zenon
  <2>1. ~short' => n = Parts /\ ~short
    BY <1>2, <2>0, PartsAssumption
  <2> QED
    BY <1>1, <1>3, <2>1 DEF InvAnswers, client
<1>6. CASE n # Parts
  <2>1. spc' = "ended" /\ Taken' = Taken
    BY <1>1, <1>3, <1>6 DEF Taken
  <2>2. InvInHand' /\ InvRequests'
    BY <1>1, <2>1 DEF InvInHand, InvRequests, client
  <2> QED
    BY <1>4, <1>5, <2>2
<1>7. CASE n = Parts
  <2>1. spc' = "dispatch" /\ Taken' = Taken + 1
    BY <1>1, <1>3, <1>7 DEF Taken
  <2>2. RequestsUnderWay
    BY <1>1 DEF InvRequests
  <2>3. /\ Unread \in Seq(Ops) /\ Len(Unread) \in Nat /\ Taken \in Nat
        /\ op \in Nat /\ Len(Unread) >= Parts /\ Sent \in Int
        /\ \A j \in 1..Parts : Unread[j] = sbuf[j]
    BY <1>2, <1>7, Counts, PartsAssumption DEF Unread
  <2>4. \A j \in 1..Parts : Unread[j] = Taken + 1
    <3> SUFFICES ASSUME NEW j \in 1..Parts PROVE Unread[j] = Taken + 1
      OBVIOUS
    <3>1. Parts * 0 + j = j /\ 0 \in 0..Len(Unread) /\ Parts * 0 + j <= Len(Unread)
      BY <2>3, Multiples, PartsAssumption
    <3>2. Unread[Parts * 0 + j] = (Taken + 1) + 0
      BY <2>2, <3>1 DEF RequestsUnderWay, MessagesFrom
    <3> QED
      BY <2>3, <3>1, <3>2
  <2>5. request' = Message(Taken + 1)
    BY <1>1, <1>7, <2>3, <2>4 DEF Message
  <2>6. /\ Unread' \in Seq(Ops) /\ Len(Unread') = Len(Unread) - Parts
        /\ \A j \in 1..Len(Unread') : Unread'[j] = Unread[j + Parts]
    <3>1. Unread' \in Seq(Ops)
      BY ConcatProperties DEF Unread, TypeOK
    <3> DEFINE rest == SubSeq(sbuf, n + 1, Len(sbuf)) \o c2s
    <3>2. /\ Len(rest) = Len(sbuf \o c2s) - n
          /\ \A j \in 1..(Len(sbuf \o c2s) - n) : rest[j] = (sbuf \o c2s)[j + n]
      BY <1>2, ReadFront, Zenon
    <3>3. Unread' = rest
      BY <1>1 DEF Unread
    <3> HIDE DEF rest
    <3> QED
      BY <1>7, <3>1, <3>2, <3>3 DEF Unread
  <2>7. MessagesFrom(Unread', Taken' + 1)
    BY <2>1, <2>2, <2>3, <2>6, DropMessage DEF RequestsUnderWay
  <2>8. op - Taken \in Int /\ Sent - Taken \in Int
    BY <2>3
  <2>9. /\ Parts * (op - Taken - 1) = Parts * (op - Taken) - Parts
        /\ Parts * (Sent - Taken - 1) = Parts * (Sent - Taken) - Parts
        /\ Parts * (op - Taken) \in Int /\ Parts * (Sent - Taken) \in Int
    BY <2>8, Multiples
  <2>10. Parts * (op - Taken) >= Parts
    BY <2>2, <2>3, <2>9, PartsAssumption DEF RequestsUnderWay
  <2>11. op - Taken > 0
    <3>1. ~(op - Taken <= 0)
      BY <2>8, <2>9, <2>10, Multiples, PartsAssumption
    <3> QED
      BY <2>8, <3>1
  <2>12. InvInHand'
    <3>1. Taken' \in Nat /\ Taken' > 0 /\ Taken' <= op /\ op' = op
      BY <1>1, <2>1, <2>3, <2>11 DEF client
    <3>2. request' = Message(Taken')
      BY <2>1, <2>5
    <3> QED
      BY <3>1, <3>2 DEF InvInHand, Message
  <2>13. InvRequests'
    <3>1. Len(Unread') <= Parts * (op' - Taken')
      BY <1>1, <2>1, <2>2, <2>3, <2>6, <2>9, PartsAssumption
      DEF RequestsUnderWay, client
    <3>2. ASSUME cpc \in {"make", "send", "receive"}
          PROVE  Taken' <= Sent /\ Len(Unread') = Parts * (Sent - Taken')
      <4>1. Taken <= Sent /\ Len(Unread) = Parts * (Sent - Taken)
        BY <2>2, <3>2 DEF RequestsUnderWay
      <4>2. Taken # Sent
        BY <2>3, <4>1, Multiples, PartsAssumption
      <4> QED
        BY <2>1, <2>3, <2>6, <2>9, <4>1, <4>2, PartsAssumption
    <3> QED
      BY <1>1, <1>3, <2>7, <3>1, <3>2 DEF InvRequests, RequestsUnderWay, client
  <2> QED
    BY <1>4, <1>5, <2>12, <2>13
<1> QED
  BY <1>6, <1>7

(* A request carried out is the next one.                                  *)
LEMMA Executed ==
  ASSUME TypeOK, WholeRequests, request = Message(Len(executed) + 1),
         executed' = Append(executed, request)
  PROVE  WholeRequests' /\ Len(executed') = Len(executed) + 1
<1>1. executed \in Seq([1..Parts -> Ops])
  BY DEF TypeOK
<1> DEFINE S == [1..Parts -> Ops]
<1> HIDE DEF S
<1>2. /\ Len(executed') = Len(executed) + 1 /\ Len(executed) \in Nat
      /\ \A k \in 1..Len(executed) : executed'[k] = executed[k]
      /\ executed'[Len(executed) + 1] = request
  BY <1>1 DEF S
<1>3. \A k \in 1..Len(executed') : k \in 1..Len(executed) \/ k = Len(executed) + 1
  BY <1>2
<1> QED
  BY <1>2, <1>3 DEF WholeRequests, Message

(* The dispatcher carries out what is not for the hash table, and answers  *)
(* it.                                                                     *)
LEMMA DispatchStep == ASSUME IInv, TypeOK', Dispatch PROVE IInv'
<1> USE DEF IInv
<1>1. /\ UNCHANGED <<c2s, sbuf, cbuf, client, request, short>>
      /\ up /\ spc = "dispatch" /\ spc' = "execute"
  BY DEF Dispatch
<1>2. /\ Unread' = Unread /\ Plain' = Plain /\ Sent' = Sent
      /\ MethodOf(request)' = MethodOf(request) /\ op' = op /\ cpc' = cpc
      /\ got' = got
  BY <1>1 DEF Unread, Plain, Sent, MethodOf, client
<1>3. /\ Taken = Len(executed) + 1 /\ Len(executed) \in Nat
      /\ request = Message(Len(executed) + 1)
      /\ Plain => MethodOf(request) = "KV"
  BY <1>1, Counts, InHand DEF Taken
<1>4. InvConn'
  BY <1>1 DEF Dispatch, InvConn, Exit
<1>5. CASE MethodOf(request) = "KV"
  <2>1. UNCHANGED <<s2c, executed, up, conn>>
    BY <1>5 DEF Dispatch
  <2>2. Taken' = Taken /\ Responses' = Responses /\ Replied' = Replied
    BY <1>1, <1>2, <1>5, <2>1, Counts DEF Taken, Responses, Replied
  <2>3. WholeRequests' /\ InvInHand'
    BY <1>1, <1>2, <2>1, <2>2 DEF WholeRequests, InvInHand
  <2>4. InvRequests'
    BY <1>1, <1>2, <2>1, <2>2 DEF InvRequests, RequestsUnderWay
  <2>5. InvAnswers'
    BY <1>1, <1>2, <2>1, <2>2 DEF InvAnswers
  <2> QED
    BY <1>4, <2>3, <2>4, <2>5
<1>6. CASE MethodOf(request) # "KV"
  <2>1. executed' = Append(executed, request) /\ (up' => up)
    BY <1>1, <1>6 DEF Dispatch
  <2>2. WholeRequests' /\ Len(executed') = Len(executed) + 1
    BY <1>3, <2>1, Executed
  <2>3. Taken' = Taken
    BY <1>1, <1>2, <1>3, <1>6, <2>2 DEF Taken
  <2>4. InvInHand'
    BY <1>1, <1>2, <2>3 DEF InvInHand
  <2>5. InvRequests'
    BY <1>1, <1>2, <2>1, <2>3 DEF InvRequests, RequestsUnderWay
  <2>6. InvAnswers'
    BY <1>2, <1>3, <1>6 DEF InvAnswers
  <2> QED
    BY <1>4, <2>2, <2>4, <2>5, <2>6
<1> QED
  BY <1>5, <1>6

(* main_job carries out what is for the hash table.                        *)
LEMMA ExecuteStep == ASSUME IInv, TypeOK', Execute PROVE IInv'
<1> USE DEF IInv
<1>1. /\ UNCHANGED <<stream, conn, client, up, request, short>>
      /\ up /\ spc = "execute" /\ spc' = "send"
  BY DEF Execute
<1>2. /\ Unread' = Unread /\ Responses' = Responses /\ Plain' = Plain
      /\ Sent' = Sent /\ op' = op /\ cpc' = cpc /\ got' = got
  BY <1>1 DEF Unread, Responses, Plain, Sent, stream, client
<1>3. Len(executed) \in Nat /\ (Plain => MethodOf(request) = "KV")
  BY <1>1, Counts, InHand
<1>4. InvConn'
  BY <1>1 DEF InvConn
<1>5. WholeRequests' /\ Taken' = Taken /\ (Plain => Replied' = Replied)
  <2>1. CASE MethodOf(request) = "KV"
    <3>1. Taken = Len(executed) + 1 /\ executed' = Append(executed, request)
      BY <1>1, <2>1 DEF Taken, Execute
    <3>2. request = Message(Len(executed) + 1)
      BY <1>1, <3>1, InHand
    <3>3. WholeRequests' /\ Len(executed') = Len(executed) + 1
      BY <3>1, <3>2, Executed
    <3> QED
      BY <1>1, <1>3, <3>1, <3>3 DEF Taken, Replied
  <2>2. CASE MethodOf(request) # "KV"
    <3>1. executed' = executed
      BY <2>2 DEF Execute
    <3> QED
      BY <1>1, <1>3, <2>2, <3>1 DEF Taken, WholeRequests
  <2> QED
    BY <2>1, <2>2
<1>6. InvInHand'
  BY <1>1, <1>2, <1>5 DEF InvInHand
<1>7. InvRequests'
  BY <1>1, <1>2, <1>5 DEF InvRequests, RequestsUnderWay
<1>8. InvAnswers'
  BY <1>1, <1>2, <1>5 DEF InvAnswers
<1> QED
  BY <1>4, <1>5, <1>6, <1>7, <1>8

(* The response is the one the client waits for.                           *)
LEMMA SendResponseStep == ASSUME IInv, TypeOK', SendResponse PROVE IInv'
<1> USE DEF IInv
<1>1. /\ UNCHANGED <<c2s, sbuf, cbuf, conn, client, up, request, executed, short>>
      /\ up /\ spc = "send" /\ spc' = "select"
      /\ s2c' = s2c \o Message(request[1])
  BY DEF SendResponse
<1>2. /\ Unread' = Unread /\ Plain' = Plain /\ Sent' = Sent /\ op' = op
      /\ cpc' = cpc /\ got' = got
  BY <1>1 DEF Unread, Plain, Sent, client
<1>3. /\ Len(executed) \in Nat /\ op \in Nat /\ Taken = Len(executed)
      /\ Taken' = Taken /\ Replied = Taken - 1 /\ Replied' = Taken
      /\ request[1] = Taken
  BY <1>1, Counts, InHand DEF Taken, Replied
<1>4. InvConn' /\ WholeRequests' /\ InvInHand'
  BY <1>1, <1>2, <1>3 DEF InvConn, WholeRequests, InvInHand
<1>5. InvRequests'
  BY <1>1, <1>2, <1>3 DEF InvRequests, RequestsUnderWay
<1>6. InvAnswers'
  <2> SUFFICES ASSUME ~short, Plain, cpc \in {"make", "send", "receive"}
               PROVE  cpc = "receive" /\ Taken = op /\ Responses' = Message(op)
    <3>1. Message(op) # <<>>
      BY Counts, MessageParts
    <3> QED
      BY <1>1, <1>2, <1>3, <3>1 DEF InvAnswers, Message
  <2>1. Taken <= Sent
    BY <1>1 DEF InvRequests, RequestsUnderWay
  <2>2. cpc = "receive" /\ Responses = <<>> /\ Taken = op
    BY <1>1, <1>3, <2>1 DEF InvAnswers, Sent
  <2>3. cbuf = <<>> /\ s2c = <<>>
    <3>1. cbuf \in Seq(Ops) /\ s2c \in Seq(Ops)
      BY DEF TypeOK
    <3>2. Len(cbuf) + Len(s2c) = 0
      BY <2>2, <3>1 DEF Responses
    <3> QED
      BY <3>1, <3>2
  <2>4. <<>> \o (<<>> \o Message(op)) = Message(op)
    BY Counts, MessageParts, ConcatEmptySeq
  <2> QED
    BY <1>1, <1>3, <2>2, <2>3, <2>4 DEF Responses
<1> QED
  BY <1>4, <1>5, <1>6

(* A piece of a stream arrives.                                            *)
LEMMA ArriveStep == ASSUME IInv, TypeOK', ToServer \/ ToClient PROVE IInv'
<1> USE DEF IInv
<1>1. UNCHANGED <<conn, client, up, worker, short>>
  BY DEF ToServer, ToClient
<1>2. Unread' = Unread /\ Responses' = Responses
  <2>1. /\ c2s \in Seq(Ops) /\ sbuf \in Seq(Ops) /\ s2c \in Seq(Ops)
        /\ cbuf \in Seq(Ops)
    BY DEF TypeOK
  <2>2. CASE ToServer
    <3>1. PICK n \in 1..Len(c2s) : /\ sbuf' = sbuf \o SubSeq(c2s, 1, n)
                                   /\ c2s' = SubSeq(c2s, n + 1, Len(c2s))
      BY <2>2 DEF ToServer
    <3>2. (sbuf \o SubSeq(c2s, 1, n)) \o SubSeq(c2s, n + 1, Len(c2s)) = sbuf \o c2s
      BY <2>1, MoveCut
    <3> QED
      BY <2>2, <3>1, <3>2 DEF ToServer, Unread, Responses
  <2>3. CASE ToClient
    <3>1. PICK n \in 1..Len(s2c) : /\ cbuf' = cbuf \o SubSeq(s2c, 1, n)
                                   /\ s2c' = SubSeq(s2c, n + 1, Len(s2c))
      BY <2>3 DEF ToClient
    <3>2. (cbuf \o SubSeq(s2c, 1, n)) \o SubSeq(s2c, n + 1, Len(s2c)) = cbuf \o s2c
      BY <2>1, MoveCut
    <3> QED
      BY <2>3, <3>1, <3>2 DEF ToClient, Unread, Responses
  <2> QED
    BY <2>2, <2>3
<1>3. Taken' = Taken /\ Replied' = Replied /\ Plain' = Plain /\ Sent' = Sent
  BY <1>1 DEF Taken, Replied, Plain, Sent, MethodOf, client, worker
<1>4. InvConn' /\ WholeRequests' /\ InvInHand'
  BY <1>1, <1>3 DEF InvConn, WholeRequests, InvInHand, worker, client
<1>5. InvRequests'
  BY <1>1, <1>2, <1>3 DEF InvRequests, RequestsUnderWay, worker, client
<1>6. InvAnswers'
  BY <1>1, <1>2, <1>3 DEF InvAnswers, worker, client
<1> QED
  BY <1>4, <1>5, <1>6

LEMMA StutterStep == ASSUME IInv, UNCHANGED vars PROVE IInv'
<1> USE DEF IInv, vars, stream, client, worker
<1>1. /\ Unread' = Unread /\ Responses' = Responses /\ Taken' = Taken
      /\ Replied' = Replied /\ Plain' = Plain /\ Sent' = Sent
  BY DEF Unread, Responses, Taken, Replied, Plain, Sent, MethodOf
<1>2. TypeOK' /\ InvConn' /\ WholeRequests' /\ InvInHand'
  BY <1>1 DEF TypeOK, InvConn, WholeRequests, InvInHand
<1>3. InvRequests' /\ InvAnswers'
  BY <1>1 DEF InvRequests, RequestsUnderWay, InvAnswers
<1> QED
  BY <1>2, <1>3

LEMMA NextIInv == IInv /\ [Next]_vars => IInv'
<1> SUFFICES ASSUME IInv, [Next]_vars PROVE IInv'
  OBVIOUS
<1>1. TypeOK'
  BY TypeStep DEF IInv
<1> QED
  BY <1>1, MakeStep, SendRequestStep, ReceiveResponseStep, ClientEndsStep,
     StopStep, WaitStep, ReadStep, DispatchStep, ExecuteStep, SendResponseStep,
     ArriveStep, StutterStep
  DEF Next, Client, Worker

-----------------------------------------------------------------------------
(* The inductive invariant holds in every state of every behaviour.        *)
THEOREM Invariance == Spec => []IInv
  BY InitIInv, NextIInv, PTL DEF Spec

(* The variables have their types: no unit of a message is ever made up,   *)
(* and there is an operation for every request.                            *)
THEOREM TypeCorrect == Spec => []TypeOK
<1>1. IInv => TypeOK
  BY DEF IInv
<1> QED
  BY <1>1, Invariance, PTL

(* The worker of tcp_server_utils.c carries out whole requests, in the     *)
(* order in which tcp_send_request wrote them, each at most once.          *)
THEOREM RequestsWhole == Spec => []WholeRequests
<1>1. IInv => WholeRequests
  BY DEF IInv
<1> QED
  BY <1>1, Invariance, PTL

(* When start_instance goes on after tcp_receive_response, its buffer      *)
(* holds the response to this operation, unless a message was cut in two   *)
(* or a method was used that is answered twice.                            *)
THEOREM ResponsesMatch == Spec => []ResponseMatches
<1>1. IInv => ResponseMatches
  BY DEF IInv, InvAnswers, ResponseMatches
<1> QED
  BY <1>1, Invariance, PTL

-----------------------------------------------------------------------------
(* Sound connections do not become sound again: what has been cut, used or *)
(* closed stays so.                                                        *)
Sound == ~short /\ Plain /\ conn = "open" /\ cpc \notin Gone

LEMMA SoundBefore == ASSUME IInv, Next, Sound' PROVE Sound
<1> USE DEF IInv
<1>1. ~short
  BY DEF Next, Client, Worker, Sound, Make, SendRequest, ReceiveResponse,
         ReceiveFails, Leave, Stop, Select, Read, ReadClosed, Dispatch, Execute,
         SendResponse, ToServer, ToClient
<1>2. conn = "open" /\ cpc \notin Gone
  BY DEF Next, Client, Worker, Sound, Gone, InvConn, Make, SendRequest,
         ReceiveResponse, ReceiveFails, Leave, Stop, Exit, Select, Read, ReadClosed,
         Dispatch, Execute, SendResponse, ToServer, ToClient, client
<1>3. Plain
  <2>1. CASE Make
    <3>1. op' = op + 1 /\ \A k \in 1..op : asked'[k] = asked[k]
      BY <2>1 DEF Make, TypeOK
    <3> QED
      BY <3>1, Counts DEF Sound, Plain
  <2>2. CASE ~Make
    <3>1. op' = op /\ asked' = asked
      BY <2>2 DEF Next, Client, Worker, SendRequest, ReceiveResponse,
         ReceiveFails, Leave, Stop, Select, Read, ReadClosed, Dispatch, Execute,
         SendResponse, ToServer, ToClient, client
    <3> QED
      BY <3>1 DEF Sound, Plain
  <2> QED
    BY <2>1, <2>2
<1> QED
  BY <1>1, <1>2, <1>3 DEF Sound

(* In step with the service: the calls that have returned, and how far a   *)
(* sound connection is.                                                    *)
Returned == IF cpc = "make" THEN op ELSE op - 1

LEMMA SoundCounts ==
  ASSUME IInv, Sound
  PROVE  /\ Len(executed) <= op
         /\ spc \in {"dispatch", "execute"} => MethodOf(request) = "KV"
         /\ spc = "execute" => Len(executed) < op
         /\ (cpc = "receive" /\ cbuf # <<>>) => Len(executed) = op
<1> USE DEF IInv
<1>1. /\ Len(executed) \in Nat /\ op \in Nat /\ Taken \in Nat /\ Taken <= op
  BY Counts DEF InvInHand
<1>2. spc \in {"dispatch", "execute"} => MethodOf(request) = "KV"
  BY InHand DEF Sound
<1>3. /\ Len(executed) <= op /\ (spc = "execute" => Len(executed) < op)
  BY <1>1, <1>2 DEF Taken
<1>4. ASSUME cpc = "receive", cbuf # <<>> PROVE Len(executed) = op
  <2>1. cbuf \in Seq(Ops) /\ s2c \in Seq(Ops)
    BY DEF TypeOK
  <2>2. Responses # <<>>
    BY <1>4, <2>1 DEF Responses
  <2>3. Replied = op
    BY <1>4, <2>2 DEF InvAnswers, InvConn, Sound
  <2> QED
    BY <1>1, <1>3, <2>3 DEF Replied
<1> QED
  BY <1>2, <1>3, <1>4

LEMMA ServiceInit == Init => Service!Init
<1> SUFFICES ASSUME Init PROVE Service!Init
  OBVIOUS
<1>1. Sound = TRUE
  BY DEF Init, Sound, Plain, Gone
<1> QED
  BY <1>1 DEF Init, Service!Init, Sound

LEMMA ServiceStep ==
  ASSUME IInv, [Next]_vars PROVE [Service!Next]_(Service!vars)
<1> USE DEF IInv
<1>1. CASE UNCHANGED vars
  BY <1>1 DEF vars, stream, client, worker, Service!vars, Plain
<1>2. CASE Next /\ ~Sound'
  BY <1>2 DEF Service!Next, Sound
<1>3. CASE Next /\ Sound'
  <2>1. Sound
    BY <1>3, SoundBefore
  <2>2. /\ Len(executed) \in Nat /\ op \in Nat /\ op \in Ops
    BY Counts
  <2>3. (~short /\ Plain /\ conn = "open" /\ cpc \notin Gone)'
        = (~short /\ Plain /\ conn = "open" /\ cpc \notin Gone)
    BY <1>3, <2>1 DEF Sound
  <2>4. CASE Make
    <3>1. Service!Call
      BY <2>2, <2>4 DEF Make, worker, Service!Call
    <3> QED
      BY <1>3, <2>1, <3>1 DEF Service!Next, Sound
  <2>5. CASE ReceiveResponse
    <3>1. Service!Return
      BY <2>1, <2>2, <2>5, SoundCounts DEF ReceiveResponse, worker, Service!Return
    <3> QED
      BY <1>3, <2>1, <3>1 DEF Service!Next, Sound
  <2>6. CASE Execute
    <3>1. executed' = Append(executed, request) /\ Len(executed) < op
      BY <2>1, <2>6, SoundCounts DEF Execute
    <3>2. Len(executed') = Len(executed) + 1
      BY <3>1 DEF TypeOK
    <3>3. Service!Do
      BY <2>2, <2>6, <3>1, <3>2 DEF Execute, client, Service!Do
    <3> QED
      BY <1>3, <2>1, <3>3 DEF Service!Next, Sound
  <2>7. ASSUME op' = op, Returned' = Returned, executed' = executed
        PROVE  UNCHANGED Service!vars
    BY <2>3, <2>7 DEF Service!vars, Returned
  <2>8. CASE Dispatch
    <3>1. executed' = executed
      BY <2>1, <2>8, SoundCounts DEF Dispatch
    <3> QED
      BY <2>7, <2>8, <3>1 DEF Dispatch, client, Returned
  <2>9. CASE SendRequest \/ ReceiveFails \/ Leave \/ Stop \/ Select \/ Read
             \/ ReadClosed \/ SendResponse \/ ToServer \/ ToClient
    <3>1. op' = op /\ executed' = executed
      BY <2>9 DEF SendRequest, ReceiveFails, Leave, Stop, Select, Read,
                  ReadClosed, SendResponse, ToServer, ToClient, client, worker
    <3>2. Returned' = Returned
      BY <1>3, <2>9, <3>1 DEF SendRequest, ReceiveFails, Leave, Stop, Select, Read,
                  ReadClosed, SendResponse, ToServer, ToClient, client, Returned,
                  Sound, Gone
    <3> QED
      BY <2>7, <3>1, <3>2
  <2> QED
    BY <1>3, <2>4, <2>5, <2>6, <2>8, <2>9 DEF Next, Client, Worker
<1> QED
  BY <1>1, <1>2, <1>3

(* Over TCP the client, the worker and the sockets between them implement  *)
(* the request-response service.                                           *)
THEOREM TcpImplementsService == Spec => ImplementsService
<1>1. Spec => Service!Init /\ [][Service!Next]_(Service!vars)
  BY ServiceInit, ServiceStep, Invariance, PTL DEF Spec
<1> QED
  BY <1>1 DEF ImplementsService, Service!Spec
=============================================================================
