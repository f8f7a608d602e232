---------------------------- MODULE SessionProofs ----------------------------
(***************************************************************************)
(* Proofs about Session, for every size of the ring and of the queues, and *)
(* any number of operations and retries.  Over RC and UC the worker counts *)
(* completions without looking at which buffer they are for, and is still  *)
(* in step with what arrives; a client gives up only when its queue is     *)
(* full of missing responses.  Over RC the client takes two completions in *)
(* either order and never looks at which is which; still the response it   *)
(* goes on with is the right one, every receiver has a buffer, no queue    *)
(* overflows and the connection is the request-response service.           *)
(***************************************************************************)
EXTENDS Session, SequenceTheorems, TLAPS

(***************************************************************************)
(* For any use of the connection, over RC and UC.                          *)
(***************************************************************************)
(* Requests in the network and in the ring were made; over UC nothing is   *)
(* acknowledged; the queue pair breaks only after the client died.         *)
InvMade ==
  /\ op = 0 => cpc \in {"make", "dead"} /\ sq["client"] = 0
  /\ \A i \in 1..Len(net["client"]) : net["client"][i] \in 1..op
  /\ \A s \in Slots : ring[s] \in 0..op
  /\ ~Reliable => acks["client"] = 0 /\ acks["server"] = 0
  /\ broken => cpc = "dead"

TInv == TypeOK /\ InvMade

(* The buffers posted for responses are no more than the requests still    *)
(* unanswered, but for the one posted when the connection was made.        *)
InvGivesUp ==
  /\ Len(rq["client"]) <= unanswered + 1
  /\ cpc \in {"sending", "receive"} => Len(rq["client"]) <= unanswered

(* The completions that the worker has or will get: one for every request  *)
(* it has not begun, and one for every response it waits for.              *)
Completions ==
  Len(cq["server"]) + sq["server"]
    + (IF Reliable THEN Len(net["server"]) + acks["server"] ELSE 0)

(* Requests arrive in the buffers in turn, and the worker follows: what it *)
(* still gets and what it has posted, at every stage of its loop.          *)
Buffer(n) == n % R
Begun == spc \in {"dispatched", "execute"}

InvStage ==
  LET due == Len(arrived) - taken
      posted == Len(rq["server"]) - R + due
  IN /\ spc \in {"prepare", "execute", "send"} =>
          Completions = due /\ due >= 0 /\ posted = 0
     /\ spc = "header" => Completions = due /\ due >= 0 /\ posted = 1
     /\ spc = "dispatch" => Completions = due - 1 /\ due >= 1 /\ posted = 1
     /\ spc \in {"dispatched", "sent"} =>
          Completions = due + 1 /\ due >= 0 /\ posted = 0
     /\ Begun => taken >= 1 /\ request_count = Buffer(taken - 1) /\ slot = request_count
     /\ ~Begun => request_count = Buffer(taken)

InvRing ==
  /\ \A i \in 1..Len(rq["server"]) : rq["server"][i] = Buffer(Len(arrived) + i - 1)
  /\ \A k \in 1..Len(arrived) :
       /\ ring[Buffer(k - 1)] >= 1
       /\ k > Len(arrived) - R => ring[Buffer(k - 1)] = arrived[k]

InvStep == ~broken => InvStage /\ InvRing

(***************************************************************************)
(* Over RC, with requests for the hash table only.                         *)
(***************************************************************************)
(* A request that is not answered is in one place: on its way, in the      *)
(* ring, at the worker, or its response is on its way.                     *)
Outstanding ==
  sq["client"] + Len(net["client"]) + (Len(arrived) - taken)
    + sq["server"] + Len(net["server"])

InvToken ==
  /\ unanswered \in {0, 1}
  /\ ~broken =>
       /\ spc # "dispatched"
       /\ spc \in {"execute", "send"} => unanswered = Outstanding + 1
       /\ spc \notin {"execute", "send"} => unanswered = Outstanding

(* The completions the client has or will get: two for an operation, one   *)
(* of its send and one of the response.                                    *)
ToClient ==
  Len(cq["client"]) + sq["client"] + Len(net["client"]) + acks["client"] + unanswered

InvClient ==
  /\ cpc \in {"make", "send"} => ToClient = 0
  /\ cpc = "sending" => ToClient = 2
  /\ cpc \in {"receive", "receiving"} => ToClient = 1
  /\ ToClient <= 2 /\ cpc # "failed"
  /\ unanswered <= Len(rq["client"]) /\ Len(rq["client"]) <= unanswered + 1
  /\ cpc \in {"make", "send", "receiving"} => Len(rq["client"]) = unanswered + 1
  /\ cpc \in {"sending", "receive"} => Len(rq["client"]) = unanswered

(* Requests are sent and arrive one after the other, and the response in   *)
(* the buffer answers the last one unless it is still unanswered.          *)
Sent == Len(arrived) + Len(net["client"]) + sq["client"]

InvSent ==
  /\ Sent <= op
  /\ cpc \notin {"send", "dead"} => Sent = op
  /\ cpc = "send" => Sent + 1 = op
  /\ \A i \in 1..Len(net["client"]) : net["client"][i] = Len(arrived) + i
  /\ \A k \in 1..Len(arrived) : arrived[k] = k
  /\ (cpc \notin {"send", "dead"} /\ unanswered = 0 /\ op > 0) => got = op

(* The worker executes each of them once and answers it.                   *)
InvDone ==
  ~broken =>
    /\ spc = "execute" => Len(executed) = taken - 1 /\ ring[slot] = taken
    /\ spc # "execute" => Len(executed) = taken
    /\ (spc = "send" \/ sq["server"] > 0) => response = taken
    /\ \A i \in 1..Len(net["server"]) : net["server"][i] = taken

(* What is left after the queue pair broke: a full ring of flushed buffers *)
(* in the completion queue, and one more that the worker waits for.        *)
InvBroken ==
  broken =>
    /\ rq["server"] = <<>> /\ net["server"] = <<>>
    /\ sq["server"] = 0 /\ acks["server"] = 0
    /\ spc \in {"header", "dispatched", "sent"} => Len(cq["server"]) = R + 1
    /\ spc \notin {"header", "dispatched", "sent"} => Len(cq["server"]) = R

RcInv == InvToken /\ InvClient /\ InvSent /\ InvDone /\ InvBroken

-----------------------------------------------------------------------------
(* Counting modulo R, without division.                                    *)
LEMMA Remainder ==
  ASSUME NEW x \in Nat, NEW q \in Nat, NEW r \in 0..R-1, x = R * q + r
  PROVE  x % R = r
  BY RAssumption

LEMMA Division ==
  ASSUME NEW x \in Nat
  PROVE  /\ x % R \in Slots
         /\ \E q \in Nat : x = R * q + (x % R)
<1> DEFINE q == x \div R
<1>1. q \in Nat /\ R * q <= x /\ x < R * (q + 1) /\ R * (q + 1) = R * q + R
  <2>1. q \in Nat
    BY RAssumption
  <2>2. R * q <= x /\ x < R * (q + 1)
    BY RAssumption
  <2> HIDE DEF q
  <2>3. R * (q + 1) = R * q + R
    BY <2>1, RAssumption
  <2> QED
    BY <2>1, <2>2, <2>3
<1> HIDE DEF q
<1>2. R * q \in Int
  BY <1>1, RAssumption
<1> DEFINE p == R * q
           r == x - p
<1>3. p \in Int /\ p <= x /\ x < p + R
  BY <1>1, <1>2
<1> HIDE DEF p
<1>4. r \in 0..R-1 /\ x = p + r
  BY <1>3, RAssumption
<1> HIDE DEF r
<1>5. x % R = r
  BY <1>1, <1>4, Remainder DEF p
<1>6. x % R \in Slots
  BY <1>4, <1>5 DEF Slots
<1>7. q \in Nat /\ x = R * q + (x % R)
  BY <1>1, <1>4, <1>5, Zenon DEF p
<1> QED
  BY <1>6, <1>7, Zenon

(* The next number is in the next buffer, and numbers less than R apart    *)
(* are in different ones.                                                  *)
LEMMA NextBuffer ==
  ASSUME NEW x \in Nat
  PROVE  (x + 1) % R = ((x % R) + 1) % R
<1>1. PICK q \in Nat : x = R * q + (x % R)
  BY Division
<1> DEFINE r == x % R
<1>2. r \in 0..R-1
  BY Division DEF Slots
<1> HIDE DEF r
<1>3. CASE r = R - 1
  <2>1. R * (q + 1) = R * q + R
    BY RAssumption
  <2>2. x + 1 = R * (q + 1) + 0
    <3> DEFINE a == R * q
    <3>1. a \in Int /\ R * (q + 1) = a + R /\ R \in Int
      BY <2>1, RAssumption
    <3>2. x = a + r
      BY <1>1, Zenon DEF r
    <3> HIDE DEF a
    <3> QED
      BY <1>3, <3>1, <3>2
  <2>6. x + 1 \in Nat /\ q + 1 \in Nat /\ 0 \in 0..R-1
    BY RAssumption
  <2>3. (x + 1) % R = 0
    BY <2>2, <2>6, Remainder, Zenon
  <2>4. R = R * 1 + 0
    BY RAssumption
  <2>5. R % R = 0
    BY <2>4, Remainder, RAssumption
  <2> QED
    BY <1>3, <2>3, <2>5, RAssumption DEF r
<1>4. CASE r # R - 1
  <2>1. r + 1 \in 0..R-1 /\ r + 1 \in Nat /\ R * q \in Int
    BY <1>2, <1>4, RAssumption
  <2>2. x + 1 = R * q + (r + 1) /\ x + 1 \in Nat
    <3> DEFINE a == R * q
    <3>1. a \in Int /\ r \in Int
      BY <1>2, <2>1, RAssumption
    <3>3. x = a + r
      BY <1>1, Zenon DEF r
    <3> HIDE DEF a
    <3>2. x + 1 = a + (r + 1)
      BY <3>1, <3>3
    <3> QED
      BY <3>2 DEF a
  <2>3. (x + 1) % R = r + 1
    BY <2>1, <2>2, Remainder, Zenon
  <2>4. r + 1 = R * 0 + (r + 1)
    BY <2>1, RAssumption
  <2>5. (r + 1) % R = r + 1
    BY <2>1, <2>4, Remainder
  <2> QED
    BY <2>3, <2>5 DEF r
<1> QED
  BY <1>3, <1>4

LEMMA OtherBuffer ==
  ASSUME NEW x \in Nat, NEW y \in Nat, x < y, y < x + R
  PROVE  x % R # y % R
<1> SUFFICES ASSUME x % R = y % R PROVE FALSE
  OBVIOUS
<1> DEFINE r == x % R
<1>0. \A z \in Nat : \E q \in Nat : z = R * q + (z % R)
  BY Division, Zenon
<1>1. PICK p \in Nat : x = R * p + r
  BY <1>0, Zenon
<1>2. PICK q \in Nat : y = R * q + r
  BY <1>0, Zenon
<1>3. r \in Int
  BY Division, RAssumption DEF Slots
<1> HIDE DEF r
<1>4. R * p \in Int /\ R * q \in Int /\ R * p < R * q /\ R * q < R * p + R
  <2>1. R * p \in Int /\ R * q \in Int
    BY RAssumption
  <2> QED
    BY <1>1, <1>2, <1>3, <2>1, RAssumption
<1>5. CASE q <= p
  <2>1. R * q <= R * p
    BY <1>5, RAssumption
  <2> QED
    BY <1>4, <2>1
<1>6. CASE q >= p + 1
  <2>1. R * q >= R * (p + 1) /\ R * (p + 1) = R * p + R
    BY <1>6, RAssumption
  <2> QED
    BY <1>4, <2>1, RAssumption
<1> QED
  BY <1>5, <1>6

LEMMA Buffers ==
  /\ \A n \in Nat : Buffer(n) \in Slots
  /\ \A n \in Nat : Buffer(n + 1) = (Buffer(n) + 1) % R
  /\ \A n \in Nat : Buffer(n + R) = Buffer(n)
  /\ \A m, n \in Nat : m < n /\ n < m + R => Buffer(m) # Buffer(n)
<1>1. \A n \in Nat : n % R \in Slots
  BY Division
<1>2. \A n \in Nat : (n + 1) % R = ((n % R) + 1) % R
  BY NextBuffer
<1>3. \A m, n \in Nat : m < n /\ n < m + R => m % R # n % R
  BY OtherBuffer
<1>4. ASSUME NEW n \in Nat PROVE (n + R) % R = n % R
  <2>1. PICK q \in Nat : n = R * q + (n % R)
    BY Division
  <2> DEFINE r == n % R
             a == R * q
  <2>2. a \in Int /\ R * (q + 1) = a + R /\ R \in Int /\ q + 1 \in Nat /\ n + R \in Nat
    BY RAssumption
  <2>3. r \in 0..R-1 /\ n = a + r
    BY <1>1, <2>1 DEF Slots
  <2> HIDE DEF a, r
  <2>4. n + R = (a + R) + r
    BY <2>2, <2>3
  <2>5. n + R = R * (q + 1) + r
    BY <2>2, <2>4, Zenon
  <2>6. (n + R) % R = r
    BY <2>2, <2>3, <2>5, Remainder, Zenon
  <2> QED
    BY <2>6 DEF r
<1> QED
  BY <1>1, <1>2, <1>3, <1>4, Zenon DEF Buffer

-----------------------------------------------------------------------------
LEMMA Constants ==
  /\ R \in Nat /\ R > 0 /\ MaxWr \in Nat /\ R < MaxWr
  /\ MaxOps \in Nat /\ MaxRetries \in Nat /\ Reliable \in BOOLEAN
  /\ "client" \in Ends /\ "server" \in Ends
  /\ \A e \in Ends : e = "client" \/ e = "server"
  /\ Peer("client") = "server" /\ Peer("server") = "client"
  BY RAssumption, BoundsAssumption, FlagsAssumption DEF Ends, Peer

(* Completions are queued, and taken one by one.                           *)
LEMMA Completed ==
  ASSUME ComplOK, NEW e \in Ends, NEW s \in Seq({"recv", "send", "err"}),
         Complete(e, s)
  PROVE  /\ ComplOK' /\ Len(cq'[e]) = Len(cq[e]) + Len(s)
         /\ \A d \in Ends : d # e => cq'[d] = cq[d]
<1> DEFINE C == Seq({"recv", "send", "err"})
<1>1. /\ cq \in [Ends -> C] /\ cq' = [cq EXCEPT ![e] = cq[e] \o s]
  BY DEF ComplOK, Complete
<1>2. cq[e] \o s \in C /\ Len(cq[e] \o s) = Len(cq[e]) + Len(s)
  <2>1. cq[e] \in C
    BY <1>1
  <2> QED
    BY <2>1, ConcatProperties
<1> HIDE DEF C
<1>4. cq' \in [Ends -> C]
  BY <1>1, <1>2
<1>5. Len(cq'[e]) = Len(cq[e]) + Len(s) /\ \A d \in Ends : d # e => cq'[d] = cq[d]
  BY <1>1, <1>2
<1>6. events' \in [Ends -> Nat]
  BY DEF ComplOK, Complete
<1>7. armed' \in [Ends -> BOOLEAN] /\ woken' \in [Ends -> BOOLEAN]
  BY DEF ComplOK, Complete
<1> QED
  BY <1>4, <1>5, <1>6, <1>7 DEF ComplOK, C

LEMMA Took ==
  ASSUME ComplOK, NEW e \in Ends, Take(e)
  PROVE  /\ ComplOK' /\ Len(cq[e]) >= 1 /\ Len(cq'[e]) = Len(cq[e]) - 1
         /\ \A d \in Ends : d # e => cq'[d] = cq[d]
<1> DEFINE C == {"recv", "send", "err"}
<1>1. /\ cq \in [Ends -> Seq(C)] /\ cq' = [cq EXCEPT ![e] = Tail(cq[e])]
      /\ cq[e] # <<>>
  BY DEF ComplOK, Take
<1> HIDE DEF C
<1>2. /\ Tail(cq[e]) \in Seq(C) /\ Len(cq[e]) >= 1
      /\ Len(Tail(cq[e])) = Len(cq[e]) - 1
  BY <1>1
<1>4. cq' \in [Ends -> Seq(C)]
  BY <1>1, <1>2
<1>5. Len(cq'[e]) = Len(cq[e]) - 1 /\ \A d \in Ends : d # e => cq'[d] = cq[d]
  BY <1>1, <1>2
<1>6. events' \in [Ends -> Nat] /\ armed' \in [Ends -> BOOLEAN]
      /\ woken' \in [Ends -> BOOLEAN]
  BY DEF ComplOK, Take
<1> QED
  BY <1>2, <1>4, <1>5, <1>6 DEF ComplOK, C

(* A send is posted, or flushed at once.                                   *)
LEMMA Posted ==
  ASSUME LinkOK, ComplOK, NEW e \in Ends, PostSend(e)
  PROVE  /\ LinkOK' /\ ComplOK' /\ UNCHANGED <<rq, net, acks>>
         /\ \A d \in Ends : d # e => cq'[d] = cq[d] /\ sq'[d] = sq[d]
         /\ IF e = "server" /\ broken
              THEN sq' = sq /\ Len(cq'[e]) = Len(cq[e]) + 1
              ELSE sq'[e] = sq[e] + 1 /\ cq' = cq
<1>1. CASE e = "server" /\ broken
  <2>1. Complete(e, <<"err">>) /\ UNCHANGED <<rq, sq, net, acks>>
    BY <1>1 DEF PostSend, link
  <2>2. <<"err">> \in Seq({"recv", "send", "err"}) /\ Len(<<"err">>) = 1
    OBVIOUS
  <2>3. /\ ComplOK' /\ Len(cq'[e]) = Len(cq[e]) + 1
        /\ \A d \in Ends : d # e => cq'[d] = cq[d]
    BY <2>1, <2>2, Completed
  <2>4. LinkOK'
    BY <2>1 DEF LinkOK
  <2> QED
    BY <1>1, <2>1, <2>3, <2>4, Zenon
<1>2. CASE ~(e = "server" /\ broken)
  <2>1. /\ sq' = [sq EXCEPT ![e] = sq[e] + 1]
        /\ UNCHANGED <<rq, net, acks, cq, armed, events, woken>>
    BY <1>2 DEF PostSend, compl
  <2>2. LinkOK' /\ ComplOK'
    BY <2>1 DEF LinkOK, ComplOK
  <2> QED
    BY <1>2, <2>1, <2>2 DEF LinkOK
<1> QED
  BY <1>1, <1>2

(* What a step does not touch keeps its type.                              *)
LEMMA Kept ==
  ASSUME TypeOK
  PROVE  /\ UNCHANGED <<rq, sq, net, acks>> => LinkOK'
         /\ UNCHANGED <<cq, armed, events, woken>> => ComplOK'
         /\ UNCHANGED <<cpc, op, asked, retries>> => ClientOK'
         /\ UNCHANGED <<spc, request_count, slot, response, taken, executed>> => WorkerOK'
         /\ UNCHANGED <<ring, arrived, got, unanswered>> => MemoryOK'
<1>1. UNCHANGED <<rq, sq, net, acks>> => LinkOK'
  BY DEF TypeOK, LinkOK
<1>2. UNCHANGED <<cq, armed, events, woken>> => ComplOK'
  BY DEF TypeOK, ComplOK
<1>3. UNCHANGED <<cpc, op, asked, retries>> => ClientOK'
  BY DEF TypeOK, ClientOK
<1>4. UNCHANGED <<spc, request_count, slot, response, taken, executed>> => WorkerOK'
  BY DEF TypeOK, WorkerOK
<1>5. UNCHANGED <<ring, arrived, got, unanswered>> => MemoryOK'
  BY DEF TypeOK, MemoryOK
<1> QED
  BY <1>1, <1>2, <1>3, <1>4, <1>5

LEMMA TypeParts ==
  ASSUME LinkOK', ComplOK', ClientOK', WorkerOK', MemoryOK', TypeOK, Keep,
         broken' \in BOOLEAN
  PROVE  TypeOK'
  BY Zenon DEF TypeOK, Keep

(* The steps that touch no request: the client's ...                       *)
LEMMA ClientTInv ==
  ASSUME TInv, Keep, Client \/ Timeout \/ Crash PROVE TInv'
<1> USE DEF TInv
<1>0. /\ UNCHANGED <<spc, request_count, slot, response, taken, executed, ring, arrived,
                     got, net, acks, broken>>
      /\ broken \in BOOLEAN
  <2>1. UNCHANGED <<spc, request_count, slot, response, taken, executed, ring, arrived,
                     got, net, acks, broken>>
    BY Posted, Constants DEF Client, Timeout, Crash, Make, SendRequest, RequestSent, PostResponse,
           ResponseReceived, link, compl, worker, memory, TypeOK
  <2> QED
    BY <2>1 DEF TypeOK
<1>1. WorkerOK' /\ broken' \in BOOLEAN
  BY <1>0, Kept
<1>2. MemoryOK'
  <2>1. unanswered' \in Int
    BY DEF Client, Timeout, Crash, Make, SendRequest, RequestSent, PostResponse,
           ResponseReceived, memory, TypeOK, MemoryOK
  <2> QED
    BY <1>0, <2>1 DEF TypeOK, MemoryOK
<1>3. LinkOK'
  <2>1. CASE PostResponse
    <3>1. rq["client"] \in Seq(Slots) /\ 0 \in Slots
      BY Constants DEF TypeOK, LinkOK, Slots
    <3>2. Append(rq["client"], 0) \in Seq(Slots)
      BY <3>1
    <3>3. rq' \in [Ends -> Seq(Slots)] /\ sq' = sq
      BY <2>1, <3>2, Constants DEF PostResponse, PostReceive, TypeOK, LinkOK
    <3> QED
      BY <1>0, <3>3 DEF TypeOK, LinkOK
  <2>2. CASE SendRequest
    BY <2>2, Posted, Constants DEF SendRequest, TypeOK
  <2> QED
    BY <2>1, <2>2, Kept DEF Client, Timeout, Crash, Make, RequestSent, ResponseReceived,
                            link
<1>4. ComplOK'
  <2>1. CASE SendRequest
    BY <2>1, Posted, Constants DEF SendRequest, TypeOK
  <2>2. CASE RequestSent \/ ResponseReceived
    BY <2>2, Took, Constants DEF RequestSent, ResponseReceived, TypeOK
  <2>3. CASE Timeout
    <3>1. woken' = [woken EXCEPT !["client"] = FALSE] /\ UNCHANGED <<cq, armed, events>>
      BY <2>3 DEF Timeout, TimedOut
    <3> QED
      BY <3>1 DEF TypeOK, ComplOK
  <2> QED
    BY <2>1, <2>2, <2>3, Kept DEF Client, Crash, Make, PostResponse, compl
<1>5. ClientOK' /\ op' >= op
  <2>1. CASE Make
    <3>1. PICK m \in Methods : asked' = Append(asked, m)
      BY <2>1 DEF Make
    <3>2. asked' \in Seq(Methods) /\ Len(asked') = Len(asked) + 1
      BY <3>1 DEF TypeOK, ClientOK
    <3> QED
      BY <2>1, <3>2, Constants DEF Make, TypeOK, ClientOK
  <2>2. CASE ~Make
    <3>1. UNCHANGED <<op, asked>> /\ op >= op
      BY <2>2, Constants DEF Client, Timeout, Crash, SendRequest, RequestSent, PostResponse,
             ResponseReceived, TypeOK, ClientOK
    <3>2. retries' \in 0..MaxRetries
      BY <2>2, Constants DEF Client, Timeout, Crash, SendRequest, RequestSent, PostResponse,
             ResponseReceived, TypeOK, ClientOK
    <3>3. cpc' \in {"make", "send", "sending", "receive", "receiving", "failed", "dead"}
      BY <2>2 DEF Client, Timeout, Crash, SendRequest, RequestSent, PostResponse,
             ResponseReceived
    <3> QED
      BY <3>1, <3>2, <3>3 DEF TypeOK, ClientOK
  <2> QED
    BY <2>1, <2>2
<1>6. InvMade'
  <2>1. op' = 0 => cpc' \in {"make", "dead"} /\ sq'["client"] = 0
    <3>1. CASE Make
      BY <3>1, Constants DEF Make, TypeOK, ClientOK
    <3>2. CASE ~Make
      BY <3>2 DEF Client, Timeout, Crash, SendRequest, RequestSent, PostResponse,
                  ResponseReceived, InvMade, link
    <3> QED
      BY <3>1, <3>2
  <2>2. broken' => cpc' = "dead"
    <3>1. cpc = "dead" => cpc' = "dead"
      BY DEF Client, Timeout, Crash, Make, SendRequest, RequestSent, PostResponse,
             ResponseReceived
    <3>2. broken' = broken
      BY <1>0
    <3> QED
      BY <3>1, <3>2 DEF InvMade
  <2>3. /\ \A j \in 1..Len(net["client"]) : net["client"][j] \in 1..op'
        /\ \A s \in Slots : ring[s] \in 0..op'
    BY <1>5, Constants DEF InvMade, TypeOK, ClientOK
  <2> QED
    BY <1>0, <2>1, <2>2, <2>3 DEF InvMade
<1> QED
  BY <1>1, <1>2, <1>3, <1>4, <1>5, <1>6, TypeParts

(* ... the worker's ...                                                    *)
LEMMA WorkerFrame ==
  ASSUME TInv, Worker
  PROVE  /\ UNCHANGED <<cpc, op, asked, retries, got, ring, arrived, unanswered,
                        net, acks, broken>>
         /\ sq'["client"] = sq["client"] /\ rq'["client"] = rq["client"]
         /\ cq'["client"] = cq["client"]
<1> USE DEF TInv
<1>1. UNCHANGED <<cpc, op, asked, retries, got, ring, arrived, unanswered, broken>>
  BY DEF Worker, Prepare, Header, Dispatch, Dispatched, Execute, SendResponse,
         ResponseSent, client, memory
<1>2. LinkOK /\ ComplOK /\ broken \in BOOLEAN
  BY DEF TypeOK
<1>3. CASE Prepare
  <2>1. UNCHANGED <<sq, net, acks>>
    BY <1>3 DEF Prepare
  <2>2. rq'["client"] = rq["client"]
    BY <1>2, <1>3, Constants DEF Prepare, PostReceive, LinkOK
  <2>3. cq'["client"] = cq["client"]
    BY <1>2, <1>3, Constants DEF Prepare, Complete, ComplOK, compl
  <2> QED
    BY <1>1, <2>1, <2>2, <2>3
<1>4. CASE Header \/ Dispatched \/ ResponseSent
  <2>1. Take("server") /\ UNCHANGED link
    BY <1>4 DEF Header, Dispatched, ResponseSent
  <2> QED
    BY <1>1, <1>2, <2>1, Took, Constants DEF link
<1>5. CASE Dispatch \/ Execute \/ SendResponse
  <2>1. PostSend("server") \/ UNCHANGED <<link, compl>>
    BY <1>5 DEF Dispatch, Execute, SendResponse
  <2>2. CASE PostSend("server")
    BY <1>1, <1>2, <2>2, Posted, Constants
  <2>3. CASE UNCHANGED <<link, compl>>
    BY <1>1, <2>3 DEF link, compl
  <2> QED
    BY <2>1, <2>2, <2>3
<1> QED
  BY <1>3, <1>4, <1>5 DEF Worker

LEMMA WorkerTInv ==
  ASSUME TInv, Keep, Worker PROVE TInv'
<1> USE DEF TInv
<1>0. LinkOK /\ ComplOK /\ WorkerOK /\ MemoryOK /\ broken \in BOOLEAN
  BY DEF TypeOK
<1>1. ClientOK' /\ MemoryOK' /\ broken' \in BOOLEAN
  BY <1>0, WorkerFrame, Kept
<1>2. LinkOK' /\ ComplOK'
  <2>1. CASE Prepare
    <3>1. LinkOK'
      <4>1. rq["server"] \in Seq(Slots) /\ request_count \in Slots
        BY <1>0, Constants DEF LinkOK, WorkerOK
      <4>2. Append(rq["server"], request_count) \in Seq(Slots)
        BY <4>1
      <4>3. rq' \in [Ends -> Seq(Slots)]
        BY <1>0, <2>1, <4>2, Constants DEF Prepare, PostReceive, LinkOK
      <4> QED
        BY <1>0, <2>1, <4>3 DEF LinkOK, Prepare
    <3>2. ComplOK'
      <4>1. <<"err">> \in Seq({"recv", "send", "err"})
        OBVIOUS
      <4>2. Complete("server", <<"err">>) \/ UNCHANGED <<cq, armed, events, woken>>
        BY <2>1 DEF Prepare, compl
      <4> QED
        BY <1>0, <4>1, <4>2, Kept, Completed, Constants
    <3> QED
      BY <3>1, <3>2
  <2>2. CASE Header \/ Dispatched \/ ResponseSent
    <3>1. Take("server") /\ UNCHANGED link
      BY <2>2 DEF Header, Dispatched, ResponseSent
    <3> QED
      BY <1>0, <3>1, Took, Kept, Constants DEF link
  <2>3. CASE Dispatch \/ Execute \/ SendResponse
    <3>1. PostSend("server") \/ UNCHANGED <<link, compl>>
      BY <2>3 DEF Dispatch, Execute, SendResponse
    <3> QED
      BY <1>0, <3>1, Posted, Kept, Constants DEF link, compl
  <2> QED
    BY <2>1, <2>2, <2>3 DEF Worker
<1>3. WorkerOK'
  <2>1. CASE Execute
    <3>1. ring[slot] \in 0..MaxOps
      BY <1>0 DEF WorkerOK, MemoryOK
    <3>2. request_count' \in Slots
      <4>1. request_count + 1 \in Nat
        BY <1>0, Constants DEF WorkerOK, Slots
      <4>2. (request_count + 1) % R \in Slots
        BY <4>1, Division
      <4> QED
        BY <1>0, <2>1, <4>2 DEF Execute, WorkerOK
    <3>3. executed' \in Seq(1..MaxOps)
      <4>1. MethodOf(ring[slot]) = "KV" => ring[slot] # 0
        BY DEF MethodOf
      <4>2. MethodOf(ring[slot]) = "KV" => ring[slot] \in 1..MaxOps
        BY <3>1, <4>1, Constants
      <4>3. executed' = IF MethodOf(ring[slot]) = "KV" THEN Append(executed, ring[slot])
                                                       ELSE executed
        BY <2>1 DEF Execute
      <4> DEFINE S == 1..MaxOps
      <4>4. executed \in Seq(S) /\ (MethodOf(ring[slot]) = "KV" => ring[slot] \in S)
        BY <1>0, <4>2 DEF WorkerOK
      <4> HIDE DEF S
      <4>5. executed' \in Seq(S)
        BY <4>3, <4>4
      <4> QED
        BY <4>5 DEF S
    <3> QED
      BY <1>0, <2>1, <3>1, <3>2, <3>3 DEF Execute, WorkerOK
  <2>2. CASE Dispatch
    BY <1>0, <2>2 DEF Dispatch, WorkerOK, MemoryOK
  <2>3. CASE ~Execute /\ ~Dispatch
    <3>1. UNCHANGED <<request_count, slot, response, taken, executed>>
      BY <2>3 DEF Worker, Prepare, Header, Dispatched, SendResponse, ResponseSent
    <3>2. spc' \in {"prepare", "header", "dispatch", "dispatched", "execute", "send",
                    "sent"}
      BY <2>3 DEF Worker, Prepare, Header, Dispatched, SendResponse, ResponseSent
    <3> QED
      BY <1>0, <3>1, <3>2 DEF WorkerOK
  <2> QED
    BY <2>1, <2>2, <2>3
<1>4. InvMade'
  BY WorkerFrame DEF InvMade
<1> QED
  BY <1>1, <1>2, <1>3, <1>4, TypeParts

(* ... and those of the adapters.                                          *)
LEMMA AdapterTInv ==
  ASSUME TInv, Keep, NEW e \in Ends, Wake(e) \/ Ack(e) \/ Lose(e) PROVE TInv'
<1> USE DEF TInv
<1>0. LinkOK /\ ComplOK /\ ClientOK /\ MemoryOK /\ broken \in BOOLEAN
  BY DEF TypeOK
<1>1. /\ UNCHANGED <<spc, request_count, slot, response, taken, executed, cpc, op, asked,
                     retries, got, ring, arrived, unanswered, broken, sq, rq>>
  BY DEF Wake, Ack, Lose, client, worker, memory, link
<1>2. ClientOK' /\ WorkerOK' /\ MemoryOK' /\ broken' \in BOOLEAN
  BY <1>0, <1>1, Kept
<1>3. /\ LinkOK' /\ (~Reliable => acks' = acks)
      /\ \A i \in 1..Len(net'["client"]) : net'["client"][i] \in 1..op
  <2>1. CASE Wake(e)
    BY <1>0, <2>1, Kept DEF Wake, link, InvMade
  <2>2. CASE Ack(e)
    <3>1. acks' \in [Ends -> Nat] /\ net' = net
      BY <1>0, <2>2 DEF Ack, LinkOK
    <3>2. ~Reliable => acks' = acks
      BY <2>2, Constants DEF Ack, InvMade
    <3> QED
      BY <1>0, <1>1, <3>1, <3>2 DEF LinkOK, InvMade
  <2>3. CASE Lose(e)
    <3>1. acks' = acks /\ net' = [net EXCEPT ![e] = Tail(net[e])]
      BY <2>3 DEF Lose
    <3>2. net \in [Ends -> Seq(0..MaxOps)] /\ net[e] \in Seq(0..MaxOps) /\ net[e] # <<>>
      BY <1>0, <2>3 DEF LinkOK, Lose
    <3> DEFINE S == 0..MaxOps
    <3> HIDE DEF S
    <3>3. /\ Tail(net[e]) \in Seq(S) /\ Len(Tail(net[e])) = Len(net[e]) - 1
          /\ Len(net[e]) \in Nat
          /\ \A i \in 1..Len(net[e]) - 1 : Tail(net[e])[i] = net[e][i + 1]
      BY <3>2 DEF S
    <3>4. net' \in [Ends -> Seq(S)]
      BY <3>1, <3>2, <3>3 DEF S
    <3>5. \A i \in 1..Len(net'["client"]) : net'["client"][i] \in 1..op
      <4>1. \A i \in 1..Len(net["client"]) : net["client"][i] \in 1..op
        BY DEF InvMade
      <4>2. CASE e = "client"
        BY <3>1, <3>2, <3>3, <4>1, <4>2
      <4>3. CASE e # "client"
        BY <3>1, <3>2, <4>1, <4>3, Constants
      <4> QED
        BY <4>2, <4>3
    <3> QED
      BY <1>0, <1>1, <3>1, <3>4, <3>5 DEF LinkOK, S
  <2> QED
    BY <2>1, <2>2, <2>3
<1>4. ComplOK'
  <2>1. CASE Wake(e)
    <3>1. /\ cq' = cq /\ woken' = [woken EXCEPT ![e] = TRUE]
          /\ events[e] > 0
          /\ events' = [events EXCEPT ![e] = IF EventOnArm /\ cq[e] # <<>> THEN @ ELSE @ - 1]
          /\ armed' = [armed EXCEPT ![e] = ~(EventOnArm /\ cq[e] # <<>>)]
      BY <2>1 DEF Wake
    <3>2. events' \in [Ends -> Nat]
      BY <1>0, <3>1 DEF ComplOK
    <3>3. woken' \in [Ends -> BOOLEAN]
      BY <1>0, <3>1 DEF ComplOK
    <3>4. armed' \in [Ends -> BOOLEAN]
      BY <1>0, <3>1 DEF ComplOK
    <3> QED
      BY <1>0, <3>1, <3>2, <3>3, <3>4 DEF ComplOK
  <2>2. CASE Ack(e)
    <3>1. <<"send">> \in Seq({"recv", "send", "err"})
      OBVIOUS
    <3> QED
      BY <1>0, <2>2, <3>1, Completed DEF Ack
  <2>3. CASE Lose(e)
    BY <1>0, <2>3, Kept DEF Lose, compl
  <2> QED
    BY <2>1, <2>2, <2>3
<1>5. InvMade'
  BY <1>1, <1>3 DEF InvMade
<1> QED
  BY <1>2, <1>3, <1>4, <1>5, TypeParts

LEMMA Transmitted ==
  ASSUME TInv, NEW e \in Ends, Transmit(e)
  PROVE  /\ LinkOK' /\ ComplOK' /\ sq[e] >= 1 /\ sq'[e] = sq[e] - 1
         /\ Len(net'[e]) = Len(net[e]) + 1
         /\ \A i \in 1..Len(net[e]) : net'[e][i] = net[e][i]
         /\ net'[e][Len(net[e]) + 1] = IF e = "client" THEN op ELSE response
         /\ \A d \in Ends : d # e => sq'[d] = sq[d] /\ net'[d] = net[d] /\ cq'[d] = cq[d]
         /\ Reliable => cq' = cq
         /\ ~Reliable => Len(cq'[e]) = Len(cq[e]) + 1
         /\ UNCHANGED <<rq, acks, cpc, op, asked, retries, got, spc, request_count, slot,
                        response, taken, executed, ring, arrived, unanswered, broken>>
<1> USE DEF TInv
<1>0. LinkOK /\ ComplOK /\ op \in 0..MaxOps /\ response \in 0..MaxOps
  BY DEF TypeOK, ClientOK, WorkerOK
<1> DEFINE m == IF e = "client" THEN op ELSE response
           S == 0..MaxOps
<1>1. m \in S
  BY <1>0
<1>2. net \in [Ends -> Seq(S)] /\ net[e] \in Seq(S)
  BY <1>0 DEF LinkOK
<1>3. /\ net' = [net EXCEPT ![e] = Append(net[e], m)]
      /\ sq' = [sq EXCEPT ![e] = sq[e] - 1] /\ sq[e] > 0
      /\ UNCHANGED <<rq, acks, cpc, op, asked, retries, got, spc, request_count, slot,
                     response, taken, executed, ring, arrived, unanswered, broken>>
  BY DEF Transmit, client, worker, memory
<1> HIDE DEF m, S
<1>4. /\ Append(net[e], m) \in Seq(S) /\ Len(Append(net[e], m)) = Len(net[e]) + 1
      /\ \A i \in 1..Len(net[e]) : Append(net[e], m)[i] = net[e][i]
      /\ Append(net[e], m)[Len(net[e]) + 1] = m
  BY <1>1, <1>2
<1>5. /\ net' \in [Ends -> Seq(S)] /\ net'[e] = Append(net[e], m)
      /\ \A d \in Ends : d # e => net'[d] = net[d]
  BY <1>2, <1>3, <1>4
<1>6. /\ sq' \in [Ends -> Nat] /\ sq'[e] = sq[e] - 1 /\ sq[e] >= 1
      /\ \A d \in Ends : d # e => sq'[d] = sq[d]
  BY <1>0, <1>3 DEF LinkOK
<1>7. LinkOK'
  BY <1>0, <1>3, <1>5, <1>6 DEF LinkOK, S
<1>8. /\ ComplOK' /\ (Reliable => cq' = cq) /\ (~Reliable => Len(cq'[e]) = Len(cq[e]) + 1)
      /\ \A d \in Ends : d # e => cq'[d] = cq[d]
  <2>1. CASE Reliable
    BY <1>0, <2>1, Kept DEF Transmit, compl
  <2>2. CASE ~Reliable
    <3>1. /\ <<"send">> \in Seq({"recv", "send", "err"}) /\ Len(<<"send">>) = 1
          /\ Complete(e, <<"send">>)
      BY <2>2 DEF Transmit
    <3> QED
      BY <1>0, <2>2, <3>1, Completed
  <2> QED
    BY <2>1, <2>2
<1> QED
  BY <1>3, <1>4, <1>5, <1>6, <1>7, <1>8 DEF m

LEMMA TransmitTInv ==
  ASSUME TInv, Keep, NEW e \in Ends, Transmit(e) PROVE TInv'
<1> USE DEF TInv
<1>1. ClientOK' /\ WorkerOK' /\ MemoryOK' /\ broken' \in BOOLEAN
  BY Transmitted, Kept DEF TypeOK
<1>2. TypeOK'
  BY <1>1, Transmitted, TypeParts
<1>3. /\ op \in 0..MaxOps /\ (op = 0 => sq["client"] = 0)
      /\ net["client"] \in Seq(0..MaxOps) /\ Len(net["client"]) \in Nat
  BY Constants DEF InvMade, TypeOK, ClientOK, LinkOK
<1>4. \A i \in 1..Len(net'["client"]) : net'["client"][i] \in 1..op
  <2>1. \A i \in 1..Len(net["client"]) : net["client"][i] \in 1..op
    BY DEF InvMade
  <2>2. CASE e = "client"
    <3>1. /\ Len(net'["client"]) = Len(net["client"]) + 1
          /\ \A i \in 1..Len(net["client"]) : net'["client"][i] = net["client"][i]
          /\ net'["client"][Len(net["client"]) + 1] = op
          /\ op # 0
      BY <1>3, <2>2, Transmitted
    <3> QED
      BY <1>3, <2>1, <3>1
  <2>3. CASE e # "client"
    BY <2>1, <2>3, Transmitted, Constants
  <2> QED
    BY <2>2, <2>3
<1>5. op = 0 => cpc \in {"make", "dead"} /\ sq'["client"] = 0
  <2>1. CASE e = "client"
    BY <1>3, <2>1, Transmitted
  <2>2. CASE e # "client"
    BY <2>2, Transmitted, Constants DEF InvMade
  <2> QED
    BY <2>1, <2>2
<1>6. InvMade'
  BY <1>4, <1>5, Transmitted DEF InvMade
<1> QED
  BY <1>2, <1>6

(* A message arrives in the first buffer posted.                           *)
LEMMA Delivered ==
  ASSUME TInv, NEW e \in Ends, Arrive(e)
  PROVE  /\ LinkOK' /\ ComplOK' /\ net[e] # <<>> /\ Len(net[e]) >= 1
         /\ Len(net'[e]) = Len(net[e]) - 1 /\ Head(net[e]) = net[e][1]
         /\ \A i \in 1..Len(net[e]) - 1 : net'[e][i] = net[e][i + 1]
         /\ Len(rq[Peer(e)]) >= 1 /\ Len(rq'[Peer(e)]) = Len(rq[Peer(e)]) - 1
         /\ Head(rq[Peer(e)]) = rq[Peer(e)][1] /\ rq[Peer(e)][1] \in Slots
         /\ \A i \in 1..Len(rq[Peer(e)]) - 1 : rq'[Peer(e)][i] = rq[Peer(e)][i + 1]
         /\ Len(cq'[Peer(e)]) = Len(cq[Peer(e)]) + 1
         /\ Reliable => acks'[e] = acks[e] + 1
         /\ ~Reliable => acks' = acks
         /\ \A d \in Ends : d # e => net'[d] = net[d] /\ acks'[d] = acks[d]
         /\ \A d \in Ends : d # Peer(e) => rq'[d] = rq[d] /\ cq'[d] = cq[d]
         /\ UNCHANGED <<sq, cpc, op, asked, retries, spc, request_count, slot, response,
                        taken, executed, broken>>
<1> USE DEF TInv
<1> DEFINE p == Peer(e)
           S == 0..MaxOps
<1>0. LinkOK /\ ComplOK /\ p \in Ends
  BY Constants DEF TypeOK
<1>1. /\ net' = [net EXCEPT ![e] = Tail(net[e])] /\ net[e] # <<>>
      /\ rq' = [rq EXCEPT ![p] = Tail(rq[p])] /\ rq[p] # <<>>
      /\ acks' = [acks EXCEPT ![e] = IF Reliable THEN acks[e] + 1 ELSE acks[e]]
      /\ Complete(p, <<"recv">>)
      /\ UNCHANGED <<sq, cpc, op, asked, retries, spc, request_count, slot, response,
                     taken, executed, broken>>
  BY DEF Arrive, worker
<1>2. /\ net \in [Ends -> Seq(S)] /\ net[e] \in Seq(S)
      /\ rq \in [Ends -> Seq(Slots)] /\ rq[p] \in Seq(Slots)
      /\ acks \in [Ends -> Nat] /\ sq \in [Ends -> Nat]
  BY <1>0 DEF LinkOK
<1> HIDE DEF p, S
<1>3. /\ Tail(net[e]) \in Seq(S) /\ Len(net[e]) >= 1 /\ Len(Tail(net[e])) = Len(net[e]) - 1
      /\ Head(net[e]) = net[e][1]
      /\ \A i \in 1..Len(net[e]) - 1 : Tail(net[e])[i] = net[e][i + 1]
  BY <1>1, <1>2
<1>4. /\ Tail(rq[p]) \in Seq(Slots) /\ Len(rq[p]) >= 1 /\ Len(Tail(rq[p])) = Len(rq[p]) - 1
      /\ Head(rq[p]) = rq[p][1] /\ rq[p][1] \in Slots
      /\ \A i \in 1..Len(rq[p]) - 1 : Tail(rq[p])[i] = rq[p][i + 1]
  BY <1>1, <1>2
<1>5. /\ net' \in [Ends -> Seq(S)] /\ net'[e] = Tail(net[e])
      /\ \A d \in Ends : d # e => net'[d] = net[d]
  BY <1>1, <1>2, <1>3
<1>6. /\ rq' \in [Ends -> Seq(Slots)] /\ rq'[p] = Tail(rq[p])
      /\ \A d \in Ends : d # p => rq'[d] = rq[d]
  BY <1>0, <1>1, <1>2, <1>4
<1>7. /\ acks' \in [Ends -> Nat] /\ (Reliable => acks'[e] = acks[e] + 1)
      /\ (~Reliable => acks' = acks) /\ \A d \in Ends : d # e => acks'[d] = acks[d]
  BY <1>1, <1>2
<1>8. LinkOK'
  BY <1>1, <1>2, <1>5, <1>6, <1>7 DEF LinkOK, S
<1>9. /\ ComplOK' /\ Len(cq'[p]) = Len(cq[p]) + 1
      /\ \A d \in Ends : d # p => cq'[d] = cq[d]
  <2>1. <<"recv">> \in Seq({"recv", "send", "err"}) /\ Len(<<"recv">>) = 1
    OBVIOUS
  <2> QED
    BY <1>0, <1>1, <2>1, Completed
<1> QED
  BY <1>1, <1>3, <1>4, <1>5, <1>6, <1>7, <1>8, <1>9 DEF p

LEMMA RequestArrives ==
  ASSUME TInv, Arrive("client")
  PROVE  /\ net["client"][1] \in 1..op /\ net["client"][1] \in 1..MaxOps
         /\ ring' = [ring EXCEPT ![rq["server"][1]] = net["client"][1]]
         /\ arrived' \in Seq(1..MaxOps) /\ Len(arrived') = Len(arrived) + 1
         /\ \A i \in 1..Len(arrived) : arrived'[i] = arrived[i]
         /\ arrived'[Len(arrived) + 1] = net["client"][1]
         /\ UNCHANGED <<got, unanswered>>
<1> USE DEF TInv
<1>1. /\ net["client"] # <<>> /\ Len(net["client"]) >= 1
      /\ Head(net["client"]) = net["client"][1]
      /\ Head(rq["server"]) = rq["server"][1]
  BY Delivered, Constants
<1>2. /\ ring' = [ring EXCEPT ![rq["server"][1]] = net["client"][1]]
      /\ arrived' = Append(arrived, net["client"][1])
      /\ UNCHANGED <<got, unanswered>>
  BY <1>1 DEF Arrive
<1>3. net["client"][1] \in 1..op
  <2>1. Len(net["client"]) \in Nat
    BY Constants DEF TypeOK, LinkOK
  <2> QED
    BY <1>1, <2>1 DEF InvMade
<1>4. net["client"][1] \in 1..MaxOps
  BY <1>3, Constants DEF TypeOK, ClientOK
<1> DEFINE S == 1..MaxOps
<1>5. arrived \in Seq(S) /\ net["client"][1] \in S
  BY <1>4 DEF TypeOK, MemoryOK
<1> HIDE DEF S
<1>6. /\ arrived' \in Seq(S) /\ Len(arrived') = Len(arrived) + 1
      /\ \A i \in 1..Len(arrived) : arrived'[i] = arrived[i]
      /\ arrived'[Len(arrived) + 1] = net["client"][1]
  BY <1>2, <1>5
<1> QED
  BY <1>2, <1>3, <1>4, <1>6 DEF S

LEMMA ResponseArrives ==
  ASSUME TInv, Arrive("server")
  PROVE  /\ got' = net["server"][1] /\ unanswered' = unanswered - 1 /\ cpc # "dead"
         /\ UNCHANGED <<ring, arrived>>
  BY Delivered, Constants DEF Arrive

LEMMA ArriveTInv ==
  ASSUME TInv, Keep, NEW e \in Ends, Arrive(e) PROVE TInv'
<1> USE DEF TInv
<1>1. /\ ClientOK' /\ WorkerOK' /\ broken' \in BOOLEAN /\ LinkOK' /\ ComplOK'
  BY Delivered, Kept DEF TypeOK
<1>2. MemoryOK' /\ \A s \in Slots : ring'[s] \in 0..op
  <2>0. MemoryOK /\ \A s \in Slots : ring[s] \in 0..op
    BY DEF TypeOK, InvMade
  <2>1. CASE e = "client"
    <3> DEFINE i == rq["server"][1]
               m == net["client"][1]
    <3>1. /\ i \in Slots /\ m \in 1..MaxOps /\ m \in 1..op
          /\ ring' = [ring EXCEPT ![i] = m]
      BY <2>1, Delivered, RequestArrives, Constants
    <3> HIDE DEF i, m
    <3>2. ring' \in [Slots -> 0..MaxOps] /\ \A s \in Slots : ring'[s] \in 0..op
      <4>1. m \in 0..MaxOps /\ m \in 0..op
        BY <3>1, Constants DEF TypeOK, ClientOK
      <4> QED
        BY <2>0, <3>1, <4>1 DEF MemoryOK
    <3>3. arrived' \in Seq(1..MaxOps) /\ UNCHANGED <<got, unanswered>>
      BY <2>1, RequestArrives
    <3> QED
      BY <2>0, <3>2, <3>3 DEF MemoryOK
  <2>2. CASE e = "server"
    <3>1. got' \in 0..MaxOps
      <4> DEFINE S == 0..MaxOps
      <4>1. net["server"] \in Seq(S) /\ Len(net["server"]) >= 1
        BY <2>2, Delivered, Constants DEF TypeOK, LinkOK
      <4> HIDE DEF S
      <4>3. net["server"][1] \in S
        BY <4>1
      <4>2. net["server"][1] \in 0..MaxOps
        BY <4>3 DEF S
      <4> QED
        BY <2>2, <4>2, ResponseArrives
    <3>2. unanswered' \in Int /\ UNCHANGED <<ring, arrived>>
      BY <2>0, <2>2, ResponseArrives DEF MemoryOK
    <3> QED
      BY <2>0, <3>1, <3>2 DEF MemoryOK
  <2> QED
    BY <2>1, <2>2, Constants
<1>3. \A i \in 1..Len(net'["client"]) : net'["client"][i] \in 1..op
  <2>1. \A i \in 1..Len(net["client"]) : net["client"][i] \in 1..op
    BY DEF InvMade
  <2>2. CASE e = "client"
    <3>1. Len(net["client"]) \in Nat
      BY Constants DEF TypeOK, LinkOK
    <3>2. /\ Len(net'["client"]) = Len(net["client"]) - 1
          /\ \A i \in 1..Len(net["client"]) - 1 : net'["client"][i] = net["client"][i + 1]
      BY <2>2, Delivered
    <3> QED
      BY <2>1, <3>1, <3>2
  <2>3. CASE e # "client"
    BY <2>1, <2>3, Delivered, Constants
  <2> QED
    BY <2>2, <2>3
<1>4. InvMade'
  <2>1. ~Reliable => acks' = acks
    BY Delivered
  <2> QED
    BY <1>2, <1>3, <2>1, Delivered DEF InvMade
<1>5. TypeOK'
  BY <1>1, <1>2, TypeParts
<1> QED
  BY <1>4, <1>5

(* The queue pair breaks: everything posted is flushed.                    *)
LEMMA Broke ==
  ASSUME TInv, Break
  PROVE  /\ LinkOK' /\ ComplOK' /\ broken' = TRUE /\ ~broken
         /\ cpc = "dead" /\ net["server"] # <<>> /\ Len(net["server"]) >= 1
         /\ Len(cq'["server"]) = Len(cq["server"]) + sq["server"] + Len(net["server"])
                                   + Len(rq["server"])
         /\ net'["server"] = <<>> /\ rq'["server"] = <<>> /\ sq'["server"] = 0
         /\ net'["client"] = net["client"] /\ rq'["client"] = rq["client"]
         /\ sq'["client"] = sq["client"] /\ cq'["client"] = cq["client"]
         /\ UNCHANGED <<acks, cpc, op, asked, retries, got, spc, request_count, slot,
                        response, taken, executed, ring, arrived, unanswered>>
<1> USE DEF TInv
<1>0. LinkOK /\ ComplOK
  BY DEF TypeOK
<1> DEFINE n == sq["server"] + Len(net["server"]) + Len(rq["server"])
           s == [i \in 1..n |-> "err"]
<1>1. /\ net["server"] \in Seq(0..MaxOps) /\ rq["server"] \in Seq(Slots)
      /\ sq["server"] \in Nat /\ net["server"] # <<>>
  BY <1>0, Constants DEF LinkOK, Break
<1>2. n \in Nat /\ Len(net["server"]) >= 1
  BY <1>1
<1>3. /\ Complete("server", s) /\ broken' = TRUE /\ ~broken /\ cpc = "dead"
      /\ net' = [net EXCEPT !["server"] = <<>>]
      /\ rq' = [rq EXCEPT !["server"] = <<>>]
      /\ sq' = [sq EXCEPT !["server"] = 0]
      /\ UNCHANGED <<acks, cpc, op, asked, retries, got, spc, request_count, slot,
                     response, taken, executed, ring, arrived, unanswered>>
  BY DEF Break, client, worker, memory
<1>4. /\ LinkOK'
      /\ net'["server"] = <<>> /\ rq'["server"] = <<>> /\ sq'["server"] = 0
      /\ net'["client"] = net["client"] /\ rq'["client"] = rq["client"]
      /\ sq'["client"] = sq["client"]
  <2> DEFINE S == 0..MaxOps
  <2>1. net \in [Ends -> Seq(S)] /\ rq \in [Ends -> Seq(Slots)] /\ sq \in [Ends -> Nat]
    BY <1>0 DEF LinkOK
  <2> HIDE DEF S
  <2>2. <<>> \in Seq(S) /\ <<>> \in Seq(Slots)
    OBVIOUS
  <2>3. net' \in [Ends -> Seq(S)] /\ net'["server"] = <<>> /\ net'["client"] = net["client"]
    BY <1>3, <2>1, <2>2, Constants
  <2>4. rq' \in [Ends -> Seq(Slots)] /\ rq'["server"] = <<>> /\ rq'["client"] = rq["client"]
    BY <1>3, <2>1, <2>2, Constants
  <2>5. sq' \in [Ends -> Nat] /\ sq'["server"] = 0 /\ sq'["client"] = sq["client"]
    BY <1>3, <2>1, Constants
  <2> QED
    BY <1>0, <1>3, <2>3, <2>4, <2>5 DEF LinkOK, S
<1> HIDE DEF n
<1>5. s \in Seq({"recv", "send", "err"}) /\ Len(s) = n
  BY <1>2
<1> HIDE DEF s
<1>6. /\ ComplOK' /\ Len(cq'["server"]) = Len(cq["server"]) + n
      /\ cq'["client"] = cq["client"]
  BY <1>0, <1>3, <1>5, Completed, Constants
<1>7. Len(cq'["server"]) = Len(cq["server"]) + sq["server"] + Len(net["server"])
                                   + Len(rq["server"])
  <2>1. Len(cq["server"]) \in Nat
    BY <1>0, Constants DEF ComplOK
  <2> QED
    BY <1>1, <1>6, <2>1 DEF n
<1> QED
  BY <1>1, <1>2, <1>3, <1>4, <1>6, <1>7

LEMMA BreakTInv ==
  ASSUME TInv, Keep, Break PROVE TInv'
<1> USE DEF TInv
<1>1. /\ ClientOK' /\ WorkerOK' /\ MemoryOK' /\ broken' \in BOOLEAN /\ LinkOK' /\ ComplOK'
  BY Broke, Kept
<1>2. InvMade'
  BY Broke DEF InvMade
<1> QED
  BY <1>1, <1>2, TypeParts

LEMMA InitTInv ==
  ASSUME Init PROVE TInv
<1>1. LinkOK
  <2>1. ServerPosted \in Seq(Slots)
    BY Constants DEF ServerPosted, Slots
  <2>2. ClientPosted \in Seq(Slots)
    BY Constants DEF ClientPosted, Slots
  <2>3. rq \in [Ends -> Seq(Slots)]
    BY <2>1, <2>2 DEF Init
  <2> DEFINE S == 0..MaxOps
  <2>4. <<>> \in Seq(S)
    OBVIOUS
  <2>5. net \in [Ends -> Seq(S)]
    BY <2>4 DEF Init
  <2>6. sq \in [Ends -> Nat] /\ acks \in [Ends -> Nat]
    BY DEF Init
  <2> QED
    BY <2>3, <2>5, <2>6 DEF LinkOK
<1>2. ComplOK
  <2> DEFINE C == {"recv", "send", "err"}
  <2>1. <<>> \in Seq(C)
    OBVIOUS
  <2> HIDE DEF C
  <2>2. cq \in [Ends -> Seq(C)] /\ events \in [Ends -> Nat]
    BY <2>1 DEF Init, CompletionInit
  <2>3. armed \in [Ends -> BOOLEAN] /\ woken \in [Ends -> BOOLEAN]
    BY DEF Init, CompletionInit
  <2> QED
    BY <2>2, <2>3 DEF ComplOK, C
<1>3. ClientOK
  BY Constants DEF Init, ClientOK
<1>4. WorkerOK
  BY Constants DEF Init, WorkerOK, Slots
<1>5. MemoryOK
  BY Constants DEF Init, MemoryOK
<1>6. blocking \in [Ends -> BOOLEAN] /\ broken \in BOOLEAN
  BY FlagsAssumption DEF Init
<1>7. InvMade
  BY Constants DEF Init, InvMade
<1> QED
  BY <1>1, <1>2, <1>3, <1>4, <1>5, <1>6, <1>7 DEF TInv, TypeOK

LEMMA NextTInv ==
  ASSUME TInv, [Next]_vars PROVE TInv'
<1>1. CASE UNCHANGED vars
  <2>1. UNCHANGED <<blocking, rq, sq, net, acks, cq, armed, events, woken, cpc, op, asked,
                    got, retries, spc, request_count, slot, response, taken, executed,
                    ring, arrived, unanswered, broken>>
    BY <1>1 DEF vars, link, compl, client, worker, memory
  <2>2. TypeOK'
    BY <2>1, Kept, TypeParts DEF TInv, TypeOK, Keep
  <2> QED
    BY <2>1, <2>2 DEF TInv, InvMade
<1>2. CASE Next
  BY <1>2, ClientTInv, WorkerTInv, AdapterTInv, TransmitTInv, ArriveTInv, BreakTInv
     DEF Next, Adapter
<1> QED
  BY <1>1, <1>2

(* Types, and requests only in the network or the ring if send_request     *)
(* made them, in every state of every behaviour, over RC and UC.           *)
THEOREM Invariance == Spec => []TInv
<1>1. Init => TInv
  BY InitTInv
<1>2. TInv /\ [Next]_vars => TInv'
  BY NextTInv
<1> QED
  BY <1>1, <1>2, PTL DEF Spec

(* Every variable keeps its type: in particular every buffer posted is one *)
(* the end has, and a worker only executes requests that were made.        *)
THEOREM TypeCorrect == Spec => []TypeOK
<1>1. TInv => TypeOK
  BY DEF TInv
<1> QED
  BY <1>1, Invariance, PTL

-----------------------------------------------------------------------------
(* InvGivesUp: a buffer is posted for a request that was sent, and a       *)
(* response takes one away.                                                *)
LEMMA InitGivesUp ==
  ASSUME Init PROVE InvGivesUp
<1>1. rq["client"] = <<0>> /\ unanswered = 0 /\ cpc = "make"
  BY Constants DEF Init, ClientPosted
<1> QED
  BY <1>1 DEF InvGivesUp

LEMMA NextGivesUp ==
  ASSUME TInv, InvGivesUp, [Next]_vars PROVE InvGivesUp'
<1> USE DEF TInv
<1>0. /\ rq["client"] \in Seq(Slots) /\ Len(rq["client"]) \in Nat /\ unanswered \in Int
      /\ LinkOK /\ ComplOK
  BY Constants DEF TypeOK, LinkOK, MemoryOK
<1>1. ASSUME UNCHANGED <<cpc, unanswered>>, rq'["client"] = rq["client"] PROVE InvGivesUp'
  BY <1>1 DEF InvGivesUp
<1>2. CASE SendRequest
  <2>1. rq' = rq
    BY <1>0, <1>2, Posted, Constants DEF SendRequest
  <2> QED
    BY <1>0, <1>2, <2>1 DEF SendRequest, InvGivesUp
<1>3. CASE PostResponse
  <2>1. rq'["client"] = rq["client"] \/ rq'["client"] = Append(rq["client"], 0)
    BY <1>3, Constants DEF PostResponse, PostReceive, TypeOK, LinkOK
  <2>2. Len(rq'["client"]) <= Len(rq["client"]) + 1 /\ Len(rq'["client"]) \in Nat
    <3>1. 0 \in Slots
      BY Constants DEF Slots
    <3> QED
      BY <1>0, <2>1, <3>1
  <2>3. unanswered' = unanswered /\ cpc = "receive" /\ cpc' \notin {"sending", "receive"}
    BY <1>3 DEF PostResponse, memory
  <2> QED
    BY <1>0, <2>2, <2>3 DEF InvGivesUp
<1>4. CASE Make \/ RequestSent \/ ResponseReceived \/ Timeout \/ Crash
  <2>1. rq' = rq /\ unanswered' = unanswered
    BY <1>4 DEF Make, RequestSent, ResponseReceived, Timeout, Crash, link, memory
  <2>2. cpc' \in {"sending", "receive"} => cpc \in {"sending", "receive"}
    BY <1>4 DEF Make, RequestSent, ResponseReceived, Timeout, Crash
  <2> QED
    BY <1>0, <2>1, <2>2 DEF InvGivesUp
<1>5. CASE Worker
  BY <1>1, <1>5, WorkerFrame
<1>6. ASSUME NEW e \in Ends, Wake(e) \/ Ack(e) \/ Lose(e) \/ Transmit(e) PROVE InvGivesUp'
  BY <1>1, <1>6 DEF Wake, Ack, Lose, Transmit, link, client, memory
<1>7. CASE Arrive("client")
  BY <1>1, <1>7, Delivered, RequestArrives, Constants
<1>8. CASE Arrive("server")
  <2>1. Len(rq'["client"]) = Len(rq["client"]) - 1 /\ cpc' = cpc
    BY <1>8, Delivered, Constants
  <2>2. unanswered' = unanswered - 1
    BY <1>8, ResponseArrives
  <2> QED
    BY <1>0, <2>1, <2>2 DEF InvGivesUp
<1>9. CASE Break
  BY <1>1, <1>9, Broke
<1>10. CASE UNCHANGED vars
  BY <1>1, <1>10 DEF vars, link, client, memory
<1> QED
  BY <1>2, <1>3, <1>4, <1>5, <1>6, <1>7, <1>8, <1>9, <1>10, Constants
     DEF Next, Client, Adapter

(* A client gives up, on a queue full of buffers for responses, only when  *)
(* MaxWr requests were sent in excess of the responses that arrived.       *)
THEOREM GivesUpLate == Spec => GivesUpOnlyUnanswered
<1>1. Init => InvGivesUp
  BY InitGivesUp
<1>2. TInv /\ InvGivesUp /\ [Next]_vars => InvGivesUp'
  BY NextGivesUp
<1>3. ASSUME TInv, InvGivesUp, Next, cpc' = "failed", cpc # "failed"
      PROVE  unanswered >= MaxWr
  <2>1. PostResponse /\ Full("client") /\ cpc = "receive"
    <3>1. PostResponse
      <4>1. ~Worker
        BY <1>3, WorkerFrame
      <4> QED
        BY <1>3, <4>1 DEF Next, Client, Timeout, Crash, Break, Make, SendRequest,
             RequestSent, ResponseReceived, Wake, Adapter, Transmit, Arrive, Ack, Lose, client
    <3> QED
      BY <1>3, <3>1 DEF PostResponse
  <2>2. /\ Len(rq["client"]) \in Nat /\ unanswered \in Int
        /\ Len(rq["client"]) >= MaxWr /\ Len(rq["client"]) <= unanswered
    <3>1. rq["client"] \in Seq(Slots) /\ unanswered \in Int
      BY <1>3, Constants DEF TInv, TypeOK, LinkOK, MemoryOK
    <3>2. Len(rq["client"]) <= unanswered
      BY <1>3, <2>1 DEF InvGivesUp
    <3> QED
      BY <2>1, <3>1, <3>2 DEF Full
  <2> QED
    BY <2>2, Constants
<1>4. TInv /\ InvGivesUp /\ [Next]_vars
        => [(cpc' = "failed" /\ cpc # "failed") => unanswered >= MaxWr]_vars
  BY <1>3
<1> QED
  BY <1>1, <1>2, <1>4, Invariance, PTL DEF Spec, GivesUpOnlyUnanswered

-----------------------------------------------------------------------------
(* InvStep: the worker is in step with the completions and the buffers.    *)
LEMMA ServerTypes ==
  ASSUME TInv
  PROVE  /\ LinkOK /\ ComplOK /\ broken \in BOOLEAN
         /\ cq["server"] \in Seq({"recv", "send", "err"}) /\ Len(cq["server"]) \in Nat
         /\ cq["client"] \in Seq({"recv", "send", "err"}) /\ Len(cq["client"]) \in Nat
         /\ sq["server"] \in Nat /\ acks["server"] \in Nat /\ Len(net["server"]) \in Nat
         /\ sq["client"] \in Nat /\ acks["client"] \in Nat /\ Len(net["client"]) \in Nat
         /\ Len(rq["server"]) \in Nat /\ Len(rq["client"]) \in Nat
         /\ Len(arrived) \in Nat /\ taken \in Nat /\ unanswered \in Int
         /\ Completions \in Nat
<1>1. /\ LinkOK /\ ComplOK /\ broken \in BOOLEAN
      /\ arrived \in Seq(1..MaxOps) /\ taken \in Nat /\ unanswered \in Int
  BY DEF TInv, TypeOK, MemoryOK, WorkerOK
<1>2. /\ cq["server"] \in Seq({"recv", "send", "err"}) /\ sq["server"] \in Nat
      /\ acks["server"] \in Nat /\ net["server"] \in Seq(0..MaxOps)
      /\ cq["client"] \in Seq({"recv", "send", "err"}) /\ sq["client"] \in Nat
      /\ acks["client"] \in Nat /\ net["client"] \in Seq(0..MaxOps)
      /\ rq["server"] \in Seq(Slots) /\ rq["client"] \in Seq(Slots)
  BY <1>1, Constants DEF LinkOK, ComplOK
<1>3. /\ Len(cq["server"]) \in Nat /\ Len(net["server"]) \in Nat
      /\ Len(cq["client"]) \in Nat /\ Len(net["client"]) \in Nat
      /\ Len(rq["server"]) \in Nat /\ Len(rq["client"]) \in Nat /\ Len(arrived) \in Nat
  BY <1>1, <1>2
<1>4. Completions \in Nat
  <2>1. CASE Reliable
    <3> DEFINE c == Len(cq["server"])
               q == sq["server"]
               n == Len(net["server"])
               a == acks["server"]
    <3>1. c \in Nat /\ q \in Nat /\ n \in Nat /\ a \in Nat
      BY <1>2, <1>3
    <3>2. Completions = c + q + (n + a)
      BY <2>1 DEF Completions
    <3> HIDE DEF c, q, n, a
    <3> QED
      BY <3>1, <3>2
  <2>2. CASE ~Reliable
    <3>1. Completions = Len(cq["server"]) + sq["server"] + 0
      BY <2>2 DEF Completions
    <3> QED
      BY <1>2, <1>3, <3>1
  <2> QED
    BY <2>1, <2>2
<1> QED
  BY <1>1, <1>2, <1>3, <1>4

LEMMA CompletionsStep ==
  ASSUME TInv, TInv', ~broken
  PROVE  /\ Take("server") /\ UNCHANGED link =>
              Completions >= 1 /\ Completions' = Completions - 1
         /\ PostSend("server") => Completions' = Completions + 1
         /\ Arrive("client") => Completions' = Completions + 1
         /\ (Ack("server") \/ Lose("server") \/ Transmit("server") \/ Arrive("server")) =>
              Completions' = Completions
<1> DEFINE c == Len(cq["server"])
           q == sq["server"]
           n == Len(net["server"])
           a == acks["server"]
<1>1. /\ c \in Nat /\ q \in Nat /\ n \in Nat /\ a \in Nat /\ LinkOK /\ ComplOK
      /\ c' \in Nat /\ q' \in Nat /\ n' \in Nat /\ a' \in Nat
  <2>1. LinkOK' /\ ComplOK'
    BY DEF TInv, TypeOK
  <2>2. cq'["server"] \in Seq({"recv", "send", "err"}) /\ net'["server"] \in Seq(0..MaxOps)
    BY <2>1, Constants DEF LinkOK, ComplOK
  <2>3. c' \in Nat /\ n' \in Nat
    BY <2>2
  <2>4. q' \in Nat /\ a' \in Nat
    BY <2>1, Constants DEF LinkOK
  <2> QED
    BY <2>3, <2>4, ServerTypes
<1>2. /\ Reliable => Completions = c + q + n + a /\ Completions' = c' + q' + n' + a'
      /\ ~Reliable => Completions = c + q /\ Completions' = c' + q'
  <2>1. /\ Reliable => Completions = c + q + (n + a) /\ Completions' = c' + q' + (n' + a')
        /\ ~Reliable => Completions = c + q + 0 /\ Completions' = c' + q' + 0
    BY Zenon DEF Completions
  <2> HIDE DEF c, q, n, a
  <2> QED
    BY <1>1, <2>1
<1>3. ASSUME Take("server"), UNCHANGED link
      PROVE  c >= 1 /\ c' = c - 1 /\ q' = q /\ n' = n /\ a' = a
  <2>1. c >= 1 /\ c' = c - 1
    BY <1>1, <1>3, Took, Constants
  <2> QED
    BY <1>3, <2>1 DEF link
<1>4. ASSUME PostSend("server")
      PROVE  q' = q + 1 /\ c' = c /\ n' = n /\ a' = a
  BY <1>1, <1>4, Posted, Constants
<1>5. ASSUME Arrive("client")
      PROVE  q' = q /\ c' = c + 1 /\ n' = n /\ a' = a
  BY <1>5, Delivered, Constants
<1>6. ASSUME Ack("server")
      PROVE  q' = q /\ c' = c + 1 /\ n' = n /\ a' = a - 1 /\ Reliable
  <2>1. /\ <<"send">> \in Seq({"recv", "send", "err"}) /\ Len(<<"send">>) = 1
        /\ Complete("server", <<"send">>)
    BY <1>6 DEF Ack
  <2>2. c' = c + 1
    BY <1>1, <2>1, Completed, Constants
  <2>3. q' = q /\ n' = n /\ a' = a - 1 /\ a > 0
    BY <1>1, <1>6, Constants DEF Ack, LinkOK
  <2>4. Reliable
    BY <2>3 DEF TInv, InvMade
  <2> QED
    BY <2>2, <2>3, <2>4
<1>7. ASSUME Lose("server") PROVE q' = q /\ c' = c /\ ~Reliable
  BY <1>7 DEF Lose, compl
<1>8. ASSUME Transmit("server")
      PROVE  /\ q' = q - 1 /\ n' = n + 1 /\ a' = a
             /\ (Reliable => c' = c) /\ (~Reliable => c' = c + 1)
  BY <1>8, Transmitted, Constants
<1>9. ASSUME Arrive("server")
      PROVE  /\ q' = q /\ n' = n - 1 /\ c' = c
             /\ (Reliable => a' = a + 1)
  BY <1>9, Delivered, Constants
<1> HIDE DEF c, q, n, a
<1>10. Take("server") /\ UNCHANGED link =>
              Completions >= 1 /\ Completions' = Completions - 1
  BY <1>1, <1>2, <1>3
<1>11. PostSend("server") => Completions' = Completions + 1
  BY <1>1, <1>2, <1>4
<1>12. Arrive("client") => Completions' = Completions + 1
  BY <1>1, <1>2, <1>5
<1>13. Ack("server") \/ Lose("server") => Completions' = Completions
  BY <1>1, <1>2, <1>6, <1>7
<1>14. Transmit("server") => Completions' = Completions
  BY <1>1, <1>2, <1>8
<1>15. Arrive("server") => Completions' = Completions
  BY <1>1, <1>2, <1>9
<1> QED
  BY <1>10, <1>11, <1>12, <1>13, <1>14, <1>15

(* The client touches nothing of the worker's.                             *)
LEMMA ClientFrame ==
  ASSUME TInv, Client \/ Timeout \/ Crash
  PROVE  /\ UNCHANGED <<spc, request_count, slot, response, taken, executed, ring, arrived,
                        got, net, acks, broken>>
         /\ rq'["server"] = rq["server"] /\ cq'["server"] = cq["server"]
         /\ sq'["server"] = sq["server"]
<1> DEFINE Frame == UNCHANGED <<spc, request_count, slot, response, taken, executed, ring,
                                arrived, got, net, acks, broken>>
<1>0. LinkOK /\ ComplOK
  BY ServerTypes
<1>1. CASE SendRequest
  <2>1. PostSend("client")
    BY <1>1 DEF SendRequest
  <2>2. /\ UNCHANGED <<rq, net, acks>>
        /\ cq'["server"] = cq["server"] /\ sq'["server"] = sq["server"]
    BY <1>0, <2>1, Posted, Constants
  <2> QED
    BY <1>1, <2>2 DEF SendRequest, worker
<1>2. CASE PostResponse
  <2>1. Frame /\ UNCHANGED <<sq, cq>>
    BY <1>2 DEF PostResponse, worker, memory, compl
  <2>2. rq'["server"] = rq["server"]
    BY <1>0, <1>2, Constants DEF PostResponse, PostReceive, LinkOK
  <2> QED
    BY <2>1, <2>2
<1>3. CASE RequestSent \/ ResponseReceived
  <2>1. Frame /\ UNCHANGED <<rq, sq>> /\ Take("client")
    BY <1>3 DEF RequestSent, ResponseReceived, worker, memory, link
  <2>2. cq'["server"] = cq["server"]
    BY <1>0, <2>1, Took, Constants
  <2> QED
    BY <2>1, <2>2
<1>4. CASE Make \/ Timeout \/ Crash
  BY <1>4 DEF Make, Timeout, Crash, worker, memory, link, compl
<1> QED
  BY <1>1, <1>2, <1>3, <1>4 DEF Client

(* A step that leaves what the worker has alone.                           *)
LEMMA StepKept ==
  ASSUME TInv, InvStep, rq'["server"] = rq["server"],
         ~broken => Completions' = Completions,
         UNCHANGED <<spc, taken, arrived, ring, request_count, slot, broken>>
  PROVE  InvStep'
<1> SUFFICES ASSUME ~broken PROVE InvStage' /\ InvRing'
  BY DEF InvStep
<1>1. InvStage /\ InvRing /\ Completions' = Completions
  BY DEF InvStep
<1>2. InvStage'
  BY <1>1 DEF InvStage, Begun
<1>3. InvRing'
  BY <1>1 DEF InvRing
<1> QED
  BY <1>2, <1>3

LEMMA OthersStep ==
  ASSUME TInv, TInv', InvStep, NEW e \in Ends,
         Client \/ Timeout \/ Crash \/ Wake(e) \/ Ack(e) \/ Lose(e) \/ Transmit(e)
           \/ Arrive("server") \/ Break \/ UNCHANGED vars
  PROVE  InvStep'
<1> DEFINE Frame == UNCHANGED <<spc, taken, arrived, ring, request_count, slot, broken>>
<1>0. LinkOK /\ ComplOK
  BY ServerTypes
<1>1. ASSUME Frame, rq'["server"] = rq["server"], cq'["server"] = cq["server"],
             sq'["server"] = sq["server"], net'["server"] = net["server"],
             acks'["server"] = acks["server"]
      PROVE  InvStep'
  <2>1. Completions' = Completions
    BY <1>1 DEF Completions
  <2> QED
    BY <1>1, <2>1, StepKept
<1>2. CASE Client \/ Timeout \/ Crash
  BY <1>1, <1>2, ClientFrame
<1>3. CASE Wake(e) \/ UNCHANGED vars
  <2>1. Frame /\ UNCHANGED <<rq, sq, net, acks, cq>>
    BY <1>3 DEF Wake, vars, worker, memory, link, compl
  <2> QED
    BY <1>1, <2>1
<1>4. CASE Ack(e) \/ Lose(e) \/ Transmit(e)
  <2>1. Frame /\ rq' = rq
    BY <1>4 DEF Ack, Lose, Transmit, worker, memory
  <2>2. CASE e = "server"
    BY <1>4, <2>1, <2>2, CompletionsStep, StepKept
  <2>3. CASE e = "client"
    <3>1. Ack(e) => cq'["server"] = cq["server"] /\ sq' = sq /\ net' = net
                      /\ acks'["server"] = acks["server"]
      <4>1. <<"send">> \in Seq({"recv", "send", "err"})
        OBVIOUS
      <4> QED
        BY <1>0, <2>3, <4>1, Completed, Constants DEF Ack, LinkOK
    <3>2. Lose(e) => cq' = cq /\ sq' = sq /\ net'["server"] = net["server"]
                      /\ acks' = acks
      BY <1>0, <2>3, Constants DEF Lose, LinkOK, compl
    <3>3. Transmit(e) => /\ cq'["server"] = cq["server"] /\ sq'["server"] = sq["server"]
                         /\ net'["server"] = net["server"] /\ acks' = acks
      BY <2>3, Transmitted, Constants
    <3> QED
      BY <1>1, <1>4, <2>1, <3>1, <3>2, <3>3
  <2> QED
    BY <2>2, <2>3, Constants
<1>5. CASE Arrive("server")
  <2>1. Frame /\ rq'["server"] = rq["server"]
    BY <1>5, Delivered, ResponseArrives, Constants
  <2> QED
    BY <1>5, <2>1, CompletionsStep, StepKept
<1>6. CASE Break
  BY <1>6, Broke DEF InvStep
<1> QED
  BY <1>2, <1>3, <1>4, <1>5, <1>6

(* A request arrives in the buffer that is next in turn, which none of the *)
(* R - 1 requests before it occupies.                                      *)
LEMMA RequestStep ==
  ASSUME TInv, TInv', InvStep, Arrive("client") PROVE InvStep'
<1> SUFFICES ASSUME ~broken' PROVE InvStage' /\ InvRing'
  BY DEF InvStep
<1> DEFINE L == Len(arrived)
           Q == Len(rq["server"])
           m == net["client"][1]
<1>0. /\ UNCHANGED <<spc, taken, request_count, slot, broken>>
      /\ L' = L + 1 /\ Q >= 1 /\ Q' = Q - 1 /\ rq["server"][1] \in Slots
      /\ \A i \in 1..Q - 1 : rq'["server"][i] = rq["server"][i + 1]
      /\ m \in 1..MaxOps /\ ring' = [ring EXCEPT ![rq["server"][1]] = m]
      /\ \A i \in 1..L : arrived'[i] = arrived[i]
      /\ arrived'[L + 1] = m
  BY Delivered, RequestArrives, Constants
<1>1. InvStage /\ InvRing /\ Completions' = Completions + 1
  BY <1>0, CompletionsStep DEF InvStep
<1>2. L \in Nat /\ Q \in Nat /\ taken \in Nat /\ Completions \in Nat
  BY ServerTypes
<1>3. InvStage'
  <2>1. L' - taken' = (L - taken) + 1 /\ Q' - R + (L' - taken') = Q - R + (L - taken)
    <3> HIDE DEF L, Q
    <3> QED
      BY <1>0, <1>2, Constants
  <2> DEFINE due == L - taken
             posted == Q - R + due
  <2>2. due \in Int /\ posted \in Int /\ due' = due + 1 /\ posted' = posted
    BY <1>2, <2>1, Constants
  <2>3. Begun' = Begun
    BY <1>0 DEF Begun
  <2> HIDE DEF due, posted
  <2>4. /\ spc \in {"prepare", "execute", "send"} =>
             Completions = due /\ due >= 0 /\ posted = 0
        /\ spc = "header" => Completions = due /\ due >= 0 /\ posted = 1
        /\ spc = "dispatch" => Completions = due - 1 /\ due >= 1 /\ posted = 1
        /\ spc \in {"dispatched", "sent"} =>
             Completions = due + 1 /\ due >= 0 /\ posted = 0
    BY <1>1 DEF InvStage, due, posted
  <2>5. /\ spc' \in {"prepare", "execute", "send"} =>
             Completions' = due' /\ due' >= 0 /\ posted' = 0
        /\ spc' = "header" => Completions' = due' /\ due' >= 0 /\ posted' = 1
        /\ spc' = "dispatch" => Completions' = due' - 1 /\ due' >= 1 /\ posted' = 1
        /\ spc' \in {"dispatched", "sent"} =>
             Completions' = due' + 1 /\ due' >= 0 /\ posted' = 0
    BY <1>0, <1>1, <1>2, <2>2, <2>4
  <2>6. /\ Begun' => taken' >= 1 /\ request_count' = Buffer(taken' - 1)
                       /\ slot' = request_count'
        /\ ~Begun' => request_count' = Buffer(taken')
    BY <1>0, <1>1, <2>3 DEF InvStage
  <2> QED
    BY <2>5, <2>6 DEF InvStage, due, posted
<1>5. \A i \in 1..Q : rq["server"][i] = Buffer(L + i - 1)
  BY <1>1 DEF InvRing
<1>6. \A i \in 1..Q' : rq'["server"][i] = Buffer(L' + i - 1)
  <2> HIDE DEF L, Q
  <2> SUFFICES ASSUME NEW i \in 1..Q' PROVE rq'["server"][i] = Buffer(L' + i - 1)
    OBVIOUS
  <2>1. i \in 1..Q-1 /\ i + 1 \in 1..Q /\ L + (i + 1) - 1 = L' + i - 1
    BY <1>0, <1>2
  <2>2. rq'["server"][i] = rq["server"][i + 1]
    BY <1>0, <2>1
  <2>3. rq["server"][i + 1] = Buffer(L + (i + 1) - 1)
    BY <1>5, <2>1
  <2> QED
    BY <2>1, <2>2, <2>3
<1>7. rq["server"][1] = Buffer(L)
  <2>1. rq["server"][1] = Buffer(L + 1 - 1) /\ L + 1 - 1 = L
    <3> HIDE DEF L, Q
    <3> QED
      BY <1>0, <1>2, <1>5
  <2> QED
    BY <2>1
<1>8. \A k \in 1..L' : /\ ring'[Buffer(k - 1)] >= 1
                       /\ k > L' - R => ring'[Buffer(k - 1)] = arrived'[k]
  <2>1. /\ \A k \in 1..L : /\ ring[Buffer(k - 1)] >= 1
                           /\ k > L - R => ring[Buffer(k - 1)] = arrived[k]
        /\ ring \in [Slots -> 0..MaxOps]
    BY <1>1 DEF InvRing, TInv, TypeOK, MemoryOK
  <2> HIDE DEF L, Q, m
  <2> SUFFICES ASSUME NEW k \in 1..L'
               PROVE  /\ ring'[Buffer(k - 1)] >= 1
                      /\ k > L' - R => ring'[Buffer(k - 1)] = arrived'[k]
    OBVIOUS
  <2>2. k - 1 \in Nat /\ Buffer(k - 1) \in Slots /\ Buffer(L) \in Slots
    BY <1>0, <1>2, Buffers
  <2>3. ring'[Buffer(L)] = m /\ m >= 1
    BY <1>0, <1>7, <2>1, <2>2, Constants
  <2>4. CASE k = L + 1
    <3>1. k - 1 = L
      BY <1>2, <2>4
    <3> QED
      BY <1>0, <2>3, <2>4, <3>1
  <2>5. CASE k # L + 1
    <3>1. k \in 1..L /\ k - 1 < L /\ (k > L' - R => L < (k - 1) + R /\ k > L - R)
      BY <1>0, <1>2, <2>5, Constants
    <3>2. k > L' - R => Buffer(k - 1) # Buffer(L)
      BY <1>2, <2>2, <3>1, Buffers
    <3>3. Buffer(k - 1) # Buffer(L) => ring'[Buffer(k - 1)] = ring[Buffer(k - 1)]
      BY <1>0, <1>7, <2>1, <2>2
    <3>4. ring[Buffer(k - 1)] >= 1 /\ (k > L - R => ring[Buffer(k - 1)] = arrived[k])
      BY <2>1, <3>1
    <3>5. arrived'[k] = arrived[k]
      BY <1>0, <3>1
    <3>6. ring'[Buffer(k - 1)] >= 1
      BY <2>3, <3>3, <3>4
    <3> QED
      BY <3>1, <3>2, <3>3, <3>4, <3>5, <3>6
  <2> QED
    BY <2>4, <2>5
<1> QED
  BY <1>3, <1>6, <1>8 DEF InvRing

(* The worker goes from one stage to the next.                             *)
LEMMA WorkerStep ==
  ASSUME "UNK" \notin Methods, TInv, TInv', InvStep, Worker PROVE InvStep'
<1> SUFFICES ASSUME ~broken' PROVE InvStage' /\ InvRing'
  BY DEF InvStep
<1> DEFINE due == Len(arrived) - taken
           Q == Len(rq["server"])
           posted == Q - R + due
<1>0. /\ UNCHANGED <<op, asked, ring, arrived, broken>>
  BY WorkerFrame
<1>1. InvStage /\ InvRing /\ ~broken
  BY <1>0 DEF InvStep
<1>2. /\ Q \in Nat /\ taken \in Nat /\ Completions \in Nat /\ due \in Int /\ posted \in Int
      /\ R \in Nat /\ Len(arrived) \in Nat
  BY ServerTypes, Constants
<1>3. ASSUME rq' = rq PROVE InvRing'
  BY <1>0, <1>1, <1>3 DEF InvRing
<1>4. CASE Prepare
  <2>1. /\ spc = "prepare" /\ spc' = "header"
        /\ PostReceive("server", request_count)
        /\ UNCHANGED <<sq, net, acks, cq, request_count, slot, taken>>
    BY <1>1, <1>4 DEF Prepare, compl
  <2>2. Completions = due /\ due >= 0 /\ posted = 0 /\ request_count = Buffer(taken)
    BY <1>1, <2>1 DEF InvStage, Begun
  <2>3. rq'["server"] = Append(rq["server"], request_count)
    <3>1. Q <= R
      <4> HIDE DEF Q, due
      <4> QED
        BY <1>2, <2>2
    <3>2. ~Full("server")
      BY <1>2, <3>1, Constants DEF Full
    <3> QED
      BY <2>1, <3>2, Constants DEF PostReceive, TInv, TypeOK, LinkOK
  <2>4. /\ Q' = Q + 1 /\ rq'["server"][Q + 1] = request_count
        /\ \A i \in 1..Q : rq'["server"][i] = rq["server"][i]
    <3>1. rq["server"] \in Seq(Slots) /\ request_count \in Slots
      BY Constants DEF TInv, TypeOK, LinkOK, WorkerOK
    <3> QED
      BY <2>3, <3>1
  <2>5. Completions' = Completions
    BY <2>1 DEF Completions
  <2>6. due' = due /\ posted' = 1
    <3>1. due' = due
      BY <1>0, <2>1
    <3>2. posted' = Q' - R + due'
      OBVIOUS
    <3> HIDE DEF Q, due
    <3> QED
      BY <1>2, <2>2, <2>4, <3>1, <3>2
  <2>7. InvStage'
    BY <2>1, <2>2, <2>5, <2>6 DEF InvStage, Begun
  <2>8. InvRing'
    <3> DEFINE L == Len(arrived)
    <3>1. L + (Q + 1) - 1 = taken + R
      <4>1. posted = Q - R + (L - taken)
        OBVIOUS
      <4> HIDE DEF L, Q
      <4> QED
        BY <1>2, <2>2, <4>1 DEF L
    <3>2. request_count = Buffer(L + (Q + 1) - 1)
      BY <1>2, <2>2, <3>1, Buffers
    <3>3. \A i \in 1..Q : rq["server"][i] = Buffer(L + i - 1)
      BY <1>1 DEF InvRing
    <3>4. \A i \in 1..Q' : rq'["server"][i] = Buffer(L + i - 1)
      <4> HIDE DEF L, Q
      <4> QED
        BY <1>2, <2>4, <3>2, <3>3
    <3> QED
      BY <1>0, <1>1, <3>4 DEF InvRing
  <2> QED
    BY <2>7, <2>8
<1>5. CASE Header \/ Dispatched \/ ResponseSent
  <2>1. /\ Take("server") /\ UNCHANGED <<link, request_count, slot, taken>>
        /\ \/ spc = "header" /\ spc' = "dispatch"
           \/ spc = "dispatched" /\ spc' = "execute"
           \/ spc = "sent" /\ spc' = "prepare"
    BY <1>5 DEF Header, Dispatched, ResponseSent
  <2>2. Completions >= 1 /\ Completions' = Completions - 1
    BY <1>1, <2>1, CompletionsStep
  <2>3. rq' = rq /\ due' = due /\ posted' = posted
    BY <1>0, <2>1 DEF link
  <2>4. InvStage'
    <3> HIDE DEF due, posted
    <3>1. CASE spc = "header" /\ spc' = "dispatch"
      <4>1. Completions = due /\ due >= 0 /\ posted = 1 /\ request_count = Buffer(taken)
        BY <1>1, <3>1 DEF InvStage, Begun, due, posted
      <4>2. Completions' = due' - 1 /\ due' >= 1 /\ posted' = 1
        BY <1>2, <2>2, <2>3, <4>1
      <4> QED
        BY <2>1, <3>1, <4>1, <4>2 DEF InvStage, Begun, due, posted
    <3>2. CASE spc = "dispatched" /\ spc' = "execute"
      <4>1. /\ Completions = due + 1 /\ due >= 0 /\ posted = 0
            /\ taken >= 1 /\ request_count = Buffer(taken - 1) /\ slot = request_count
        BY <1>1, <3>2 DEF InvStage, Begun, due, posted
      <4>2. Completions' = due' /\ due' >= 0 /\ posted' = 0
        BY <1>2, <2>2, <2>3, <4>1
      <4> QED
        BY <2>1, <3>2, <4>1, <4>2 DEF InvStage, Begun, due, posted
    <3>3. CASE spc = "sent" /\ spc' = "prepare"
      <4>1. /\ Completions = due + 1 /\ due >= 0 /\ posted = 0
            /\ request_count = Buffer(taken)
        BY <1>1, <3>3 DEF InvStage, Begun, due, posted
      <4>2. Completions' = due' /\ due' >= 0 /\ posted' = 0
        BY <1>2, <2>2, <2>3, <4>1
      <4> QED
        BY <2>1, <3>3, <4>1, <4>2 DEF InvStage, Begun, due, posted
    <3> QED
      BY <2>1, <3>1, <3>2, <3>3
  <2> QED
    BY <1>3, <2>3, <2>4
<1>6. CASE Dispatch
  <2>1. /\ spc = "dispatch" /\ slot' = request_count /\ taken' = taken + 1
        /\ UNCHANGED request_count
        /\ \/ spc' = "execute" /\ UNCHANGED <<link, compl>>
           \/ spc' = "dispatched" /\ PostSend("server")
    BY <1>6 DEF Dispatch
  <2>2. /\ Completions = due - 1 /\ due >= 1 /\ posted = 1
        /\ request_count = Buffer(taken)
    BY <1>1, <2>1 DEF InvStage, Begun
  <2>3. /\ rq' = rq
        /\ \/ spc' = "execute" /\ Completions' = Completions
           \/ spc' = "dispatched" /\ Completions' = Completions + 1
    <3>1. CASE spc' = "execute" /\ UNCHANGED <<link, compl>>
      BY <3>1 DEF link, compl, Completions
    <3>2. CASE spc' = "dispatched" /\ PostSend("server")
      BY <1>1, <3>2, CompletionsStep, Posted, ServerTypes, Constants
    <3> QED
      BY <2>1, <3>1, <3>2
  <2>4. due' = due - 1 /\ posted' = 0 /\ taken' >= 1 /\ taken' - 1 = taken
    <3>1. due' = Len(arrived) - taken' /\ posted' = Q - R + due'
      BY <1>0, <2>3
    <3>2. due = Len(arrived) - taken /\ posted = Q - R + due
      OBVIOUS
    <3> HIDE DEF due, posted, Q
    <3> QED
      BY <1>2, <2>1, <2>2, <3>1, <3>2
  <2>5. /\ spc' = "execute" => Completions' = due' /\ due' >= 0
        /\ spc' = "dispatched" => Completions' = due' + 1 /\ due' >= 0
    <3> HIDE DEF due, posted, Q
    <3> QED
      BY <1>2, <2>2, <2>3, <2>4
  <2>6. request_count' = Buffer(taken' - 1)
    BY <2>1, <2>2, <2>4
  <2>7. InvStage'
    BY <2>1, <2>3, <2>4, <2>5, <2>6 DEF InvStage, Begun
  <2> QED
    BY <1>3, <2>3, <2>7
<1>7. CASE Execute
  <2>1. /\ spc = "execute" /\ spc' = "send" /\ UNCHANGED <<rq, sq, net, acks, cq, taken>>
        /\ request_count' = IF MethodOf(ring[slot]) = "UNK" THEN request_count
                                                            ELSE (request_count + 1) % R
    BY <1>7 DEF Execute, link, compl
  <2>2. /\ Completions = due /\ due >= 0 /\ posted = 0
        /\ taken >= 1 /\ request_count = Buffer(taken - 1) /\ slot = request_count
    BY <1>1, <2>1 DEF InvStage, Begun
  <2>3. taken \in 1..Len(arrived) /\ taken - 1 \in Nat /\ (taken - 1) + 1 = taken
    <3>1. due = Len(arrived) - taken
      OBVIOUS
    <3> HIDE DEF due
    <3> QED
      BY <1>2, <2>2, <3>1
  <2>4. MethodOf(ring[slot]) # "UNK"
    <3>1. ring[slot] >= 1
      BY <1>1, <2>2, <2>3 DEF InvRing
    <3>2. ring[slot] \in 0..op /\ asked \in Seq(Methods) /\ Len(asked) = op
      BY DEF TInv, InvMade, TypeOK, WorkerOK, ClientOK
    <3>3. asked[ring[slot]] \in Methods /\ ring[slot] # 0
      BY <3>1, <3>2
    <3> QED
      BY <3>3 DEF MethodOf
  <2>5. request_count' = Buffer(taken')
    BY <2>1, <2>2, <2>3, <2>4, Buffers
  <2>6. Completions' = Completions /\ due' = due /\ posted' = posted
    BY <1>0, <2>1 DEF Completions
  <2>7. InvStage'
    BY <2>1, <2>2, <2>5, <2>6 DEF InvStage, Begun
  <2> QED
    BY <1>3, <2>1, <2>7
<1>8. CASE SendResponse
  <2>1. /\ spc = "send" /\ spc' = "sent" /\ PostSend("server")
        /\ UNCHANGED <<request_count, slot, taken>>
    BY <1>8 DEF SendResponse
  <2>2. /\ Completions = due /\ due >= 0 /\ posted = 0
        /\ request_count = Buffer(taken)
    BY <1>1, <2>1 DEF InvStage, Begun
  <2>3. rq' = rq /\ Completions' = Completions + 1
    BY <1>1, <2>1, CompletionsStep, Posted, ServerTypes, Constants
  <2>4. due' = due /\ posted' = posted
    BY <1>0, <2>1, <2>3
  <2>5. Completions' = due' + 1
    BY <2>2, <2>3, <2>4
  <2>6. InvStage'
    BY <2>1, <2>2, <2>4, <2>5 DEF InvStage, Begun
  <2> QED
    BY <1>3, <2>3, <2>6
<1> QED
  BY <1>4, <1>5, <1>6, <1>7, <1>8 DEF Worker

LEMMA InitStep ==
  ASSUME Init PROVE InvStep
<1>1. /\ rq["server"] = ServerPosted /\ cq["server"] = <<>> /\ sq["server"] = 0
      /\ net["server"] = <<>> /\ acks["server"] = 0 /\ spc = "prepare" /\ taken = 0
      /\ arrived = <<>> /\ request_count = 0
  BY Constants DEF Init, CompletionInit
<1>2. Len(ServerPosted) = R /\ \A i \in 1..R : ServerPosted[i] = i - 1
  BY Constants DEF ServerPosted
<1>3. Completions = 0
  BY <1>1 DEF Completions
<1>4. \A n \in 0..R-1 : Buffer(n) = n
  <2> SUFFICES ASSUME NEW n \in 0..R-1 PROVE n % R = n
    BY DEF Buffer
  <2>1. n = R * 0 + n /\ n \in Nat
    BY Constants
  <2> QED
    BY <2>1, Remainder
<1>5. Len(arrived) = 0 /\ Buffer(0) = 0
  BY <1>1, <1>4, Constants
<1>6. InvStage
  BY <1>1, <1>2, <1>3, <1>5, Constants DEF InvStage, Begun
<1>7. InvRing
  <2>1. \A i \in 1..R : ServerPosted[i] = Buffer(0 + i - 1)
    <3> SUFFICES ASSUME NEW i \in 1..R PROVE ServerPosted[i] = Buffer(0 + i - 1)
      OBVIOUS
    <3>1. 0 + i - 1 = i - 1 /\ i - 1 \in 0..R-1
      BY Constants
    <3> QED
      BY <1>2, <1>4, <3>1
  <2> QED
    BY <1>1, <1>2, <1>5, <2>1 DEF InvRing
<1> QED
  BY <1>6, <1>7 DEF InvStep

LEMMA NextStep ==
  ASSUME "UNK" \notin Methods, TInv, TInv', InvStep, [Next]_vars PROVE InvStep'
<1>1. CASE Worker
  BY <1>1, WorkerStep
<1>2. CASE Arrive("client")
  BY <1>2, RequestStep
<1>3. ASSUME Client \/ Timeout \/ Crash \/ Arrive("server") \/ Break \/ UNCHANGED vars
      PROVE  InvStep'
  BY <1>3, OthersStep, Constants
<1>4. ASSUME NEW e \in Ends, Wake(e) \/ Ack(e) \/ Lose(e) \/ Transmit(e) PROVE InvStep'
  BY <1>4, OthersStep
<1> QED
  BY <1>1, <1>2, <1>3, <1>4, Constants DEF Next, Adapter

(* As long as the queue pair works, the completions the worker has or will *)
(* get match the requests and responses it has not finished, and requests  *)
(* lie in the ring in the order in which they arrived.                     *)
THEOREM StepInvariance ==
  ASSUME "UNK" \notin Methods
  PROVE  Spec => []InvStep
<1>1. Init => InvStep
  BY InitStep
<1>2. TInv /\ TInv' /\ InvStep /\ [Next]_vars => InvStep'
  BY NextStep
<1> QED
  BY <1>1, <1>2, Invariance, PTL DEF Spec

(* Over RC and UC, whatever is lost and sent again, and with methods the   *)
(* dispatcher answers by itself as well: the request the worker finds at   *)
(* request_count is the next that arrived, unless R more arrived since.    *)
(* No client of the repository sends a request of unknown method, on which *)
(* request_count would stand still.                                        *)
THEOREM WorkerInStep ==
  ASSUME "UNK" \notin Methods
  PROVE  Spec => []FreshRequest
<1>1. TInv /\ InvStep => FreshRequest
  <2> SUFFICES ASSUME TInv, InvStep, spc = "dispatch", ~broken
               PROVE  /\ taken < Len(arrived)
                      /\ Len(arrived) <= taken + R => ring[request_count] = arrived[taken + 1]
    BY DEF FreshRequest
  <2>1. InvStage /\ InvRing /\ Len(arrived) \in Nat /\ taken \in Nat /\ R \in Nat
    BY ServerTypes, Constants DEF InvStep
  <2>2. Len(arrived) - taken >= 1 /\ request_count = Buffer(taken)
    BY <2>1 DEF InvStage, Begun
  <2>3. /\ taken < Len(arrived) /\ taken + 1 \in 1..Len(arrived) /\ (taken + 1) - 1 = taken
        /\ (Len(arrived) <= taken + R => taken + 1 > Len(arrived) - R)
    BY <2>1, <2>2
  <2>4. taken + 1 > Len(arrived) - R => ring[Buffer((taken + 1) - 1)] = arrived[taken + 1]
    BY <2>1, <2>3 DEF InvRing
  <2> QED
    BY <2>2, <2>3, <2>4
<1> QED
  BY <1>1, Invariance, StepInvariance, PTL

-----------------------------------------------------------------------------
(* RcInv: over RC, with requests for the hash table only.                  *)
LEMMA RcTypes ==
  ASSUME TInv
  PROVE  op \in Nat /\ Len(executed) \in Nat /\ Outstanding \in Int /\ ToClient \in Int
         /\ Sent \in Nat
<1>1. op \in Nat
  BY Constants DEF TInv, TypeOK, ClientOK
<1>2. Len(executed) \in Nat
  BY DEF TInv, TypeOK, WorkerOK
<1>3. \A v, w, x, y, z \in Int : v + w + x + y + z \in Int
  OBVIOUS
<1>4. /\ Len(cq["client"]) \in Int /\ sq["client"] \in Int /\ Len(net["client"]) \in Int
      /\ acks["client"] \in Int /\ unanswered \in Int /\ Len(arrived) - taken \in Int
      /\ sq["server"] \in Int /\ Len(net["server"]) \in Int
  BY ServerTypes
<1>5. Outstanding \in Int /\ ToClient \in Int
  BY <1>3, <1>4, Zenon DEF Outstanding, ToClient
<1>6. Sent \in Nat
  BY ServerTypes DEF Sent
<1> QED
  BY <1>1, <1>2, <1>5, <1>6

(* The client sends a request when none is outstanding, and waits for its  *)
(* two completions.                                                        *)
LEMMA ClientRc ==
  ASSUME Reliable, TInv, RcInv, Client \/ Timeout \/ Crash PROVE RcInv'
<1> DEFINE c == Len(cq["client"])
           q == sq["client"]
           n == Len(net["client"])
           a == acks["client"]
           r == Len(rq["client"])
           L == Len(arrived)
<1>0. /\ UNCHANGED <<spc, slot, response, taken, executed, ring, arrived, got, net, acks,
                     broken>>
      /\ rq'["server"] = rq["server"] /\ cq'["server"] = cq["server"]
      /\ sq'["server"] = sq["server"]
  BY ClientFrame
<1>1. InvDone' /\ InvBroken'
  <2>1. InvDone'
    BY <1>0 DEF RcInv, InvDone
  <2>2. InvBroken'
    BY <1>0 DEF RcInv, InvBroken
  <2> QED
    BY <2>1, <2>2
<1>2. /\ c \in Nat /\ q \in Nat /\ n \in Nat /\ a \in Nat /\ r \in Nat /\ L \in Nat
      /\ unanswered \in {0, 1} /\ op \in Nat /\ Outstanding \in Int
  BY ServerTypes, RcTypes DEF RcInv, InvToken
<1>3. n' = n /\ a' = a /\ L' = L
  BY <1>0
<1>4. /\ ToClient = c + q + n + a + unanswered
      /\ ToClient' = c' + q' + n + a + unanswered'
      /\ Sent = L + n + q /\ Sent' = L + n + q'
  BY <1>0 DEF ToClient, Sent
<1>5. InvClient /\ InvToken /\ InvSent
  BY DEF RcInv
<1>6. ASSUME q' = q, unanswered' = unanswered PROVE InvToken'
  BY <1>0, <1>5, <1>6 DEF InvToken, Outstanding
<1>7. CASE Make
  <2>1. /\ cpc = "make" /\ cpc' = "send" /\ op' = op + 1
        /\ c' = c /\ q' = q /\ r' = r /\ unanswered' = unanswered
    BY <1>7 DEF Make, link, compl, memory
  <2>2. ToClient = 0 /\ r = unanswered + 1 /\ Sent = op
    BY <1>5, <2>1 DEF InvClient, InvSent
  <2>3. ToClient' = 0 /\ ToClient' <= 2 /\ Sent' + 1 = op' /\ Sent' <= op'
    <3> HIDE DEF c, q, n, a, r, L
    <3> QED
      BY <1>2, <1>4, <2>1, <2>2
  <2>4. InvClient'
    BY <1>2, <2>1, <2>2, <2>3 DEF InvClient
  <2>5. InvSent'
    BY <1>0, <1>5, <2>1, <2>3 DEF InvSent
  <2> QED
    BY <1>1, <1>6, <2>1, <2>4, <2>5 DEF RcInv
<1>8. CASE SendRequest
  <2>1. /\ cpc = "send" /\ cpc' = "sending" /\ op' = op /\ PostSend("client")
        /\ unanswered' = unanswered + 1
    BY <1>8 DEF SendRequest
  <2>2. c' = c /\ q' = q + 1 /\ r' = r
    BY <2>1, Posted, ServerTypes, Constants
  <2>3. ToClient = 0 /\ r = unanswered + 1 /\ Sent + 1 = op
    BY <1>5, <2>1 DEF InvClient, InvSent
  <2>4. /\ ToClient' = 2 /\ Sent' = op' /\ Sent' <= op' /\ unanswered' = 1
        /\ r' = unanswered' /\ r' <= unanswered' + 1
    <3> HIDE DEF c, q, n, a, r, L
    <3> QED
      BY <1>2, <1>4, <2>1, <2>2, <2>3
  <2>5. InvClient'
    BY <2>1, <2>4 DEF InvClient
  <2>6. InvSent'
    BY <1>0, <1>5, <2>1, <2>4 DEF InvSent
  <2>7. Outstanding' = Outstanding + 1
    <3> DEFINE t == Len(arrived) - taken
               x == sq["server"]
               y == Len(net["server"])
    <3>1. t \in Int /\ x \in Nat /\ y \in Nat
      BY ServerTypes
    <3>2. Outstanding = q + n + t + x + y /\ Outstanding' = q' + n + t + x + y
      BY <1>0 DEF Outstanding
    <3> HIDE DEF t, x, y, q, n
    <3> QED
      BY <1>2, <2>2, <3>1, <3>2
  <2>8. InvToken'
    <3>1. unanswered' \in {0, 1}
      BY <2>4
    <3> QED
      BY <1>0, <1>2, <1>5, <2>1, <2>7, <3>1 DEF InvToken
  <2> QED
    BY <1>1, <2>5, <2>6, <2>8 DEF RcInv
<1>9. CASE RequestSent \/ ResponseReceived
  <2>1. /\ Take("client") /\ UNCHANGED <<link, op, unanswered>>
        /\ \/ cpc = "sending" /\ cpc' = "receive"
           \/ cpc = "receiving" /\ cpc' = "make"
    BY <1>9 DEF RequestSent, ResponseReceived, memory
  <2>2. c >= 1 /\ c' = c - 1 /\ q' = q /\ r' = r
    BY <2>1, Took, ServerTypes, Constants DEF link
  <2>3. /\ cpc' = "receive" => ToClient' = 1 /\ r' = unanswered'
        /\ cpc' = "make" => ToClient' = 0 /\ r' = unanswered' + 1
        /\ ToClient' <= 2 /\ r' <= unanswered' + 1 /\ unanswered' <= r'
        /\ Sent' = op' /\ Sent' <= op'
    <3>1. /\ cpc = "sending" => ToClient = 2 /\ r = unanswered
          /\ cpc = "receiving" => ToClient = 1 /\ r = unanswered + 1
          /\ Sent = op /\ ToClient <= 2
      BY <1>5, <2>1 DEF InvClient, InvSent
    <3> HIDE DEF c, q, n, a, r, L
    <3> QED
      BY <1>2, <1>4, <2>1, <2>2, <3>1
  <2>4. InvClient'
    BY <2>1, <2>3 DEF InvClient
  <2>5. InvSent'
    BY <1>0, <1>5, <2>1, <2>3 DEF InvSent
  <2> QED
    BY <1>1, <1>6, <2>1, <2>2, <2>4, <2>5 DEF RcInv
<1>10. CASE PostResponse
  <2>1. /\ cpc = "receive" /\ PostReceive("client", 0)
        /\ c' = c /\ q' = q /\ unanswered' = unanswered /\ op' = op
        /\ (~Full("client") => cpc' = "receiving")
    BY <1>10 DEF PostResponse, compl, memory
  <2>2. ToClient = 1 /\ r = unanswered /\ Sent = op
    BY <1>5, <2>1 DEF InvClient, InvSent
  <2>3. ~Full("client")
    BY <1>2, <2>2, Constants DEF Full
  <2>4. rq'["client"] = Append(rq["client"], 0)
    BY <2>1, <2>3, ServerTypes, Constants DEF PostReceive, LinkOK
  <2>5. r' = r + 1
    <3>1. rq["client"] \in Seq(Slots) /\ 0 \in Slots
      BY ServerTypes, Constants DEF LinkOK, Slots
    <3> QED
      BY <2>4, <3>1
  <2>6. ToClient' = 1 /\ Sent' = op' /\ Sent' <= op' /\ r' = unanswered' + 1
        /\ unanswered' <= r' /\ r' <= unanswered' + 1
    <3> HIDE DEF c, q, n, a, r, L
    <3> QED
      BY <1>2, <1>4, <2>1, <2>2, <2>5
  <2>7. InvClient'
    BY <2>1, <2>3, <2>6 DEF InvClient
  <2>8. InvSent'
    BY <1>0, <1>5, <2>1, <2>3, <2>6 DEF InvSent
  <2> QED
    BY <1>1, <1>6, <2>1, <2>7, <2>8 DEF RcInv
<1>11. CASE Crash
  <2>1. /\ cpc' = "dead" /\ op' = op /\ c' = c /\ q' = q /\ r' = r /\ unanswered' = unanswered
    BY <1>11 DEF Crash, link, compl, memory
  <2>2. ToClient' = ToClient /\ Sent' = Sent
    BY <1>4, <2>1
  <2>3. InvClient'
    BY <1>5, <2>1, <2>2 DEF InvClient
  <2>4. InvSent'
    BY <1>0, <1>5, <2>1, <2>2 DEF InvSent
  <2> QED
    BY <1>1, <1>6, <2>1, <2>3, <2>4 DEF RcInv
<1>12. CASE Timeout
  BY <1>12 DEF Timeout
<1> QED
  BY <1>7, <1>8, <1>9, <1>10, <1>11, <1>12 DEF Client

(* A worker whose queue pair is broken takes one flushed completion for    *)
(* each one it adds.                                                       *)
LEMMA BrokenWorkerRc ==
  ASSUME TInv, InvBroken, broken, Worker PROVE InvBroken'
<1> DEFINE c == Len(cq["server"])
<1>1. /\ net' = net /\ acks' = acks /\ broken' = broken /\ c \in Nat /\ LinkOK /\ ComplOK
  BY WorkerFrame, ServerTypes
<1>2. /\ rq["server"] = <<>> /\ net["server"] = <<>> /\ sq["server"] = 0
      /\ acks["server"] = 0
      /\ spc \in {"header", "dispatched", "sent"} => c = R + 1
      /\ spc \notin {"header", "dispatched", "sent"} => c = R
  BY DEF InvBroken
<1>3. CASE Prepare
  <2>1. /\ Complete("server", <<"err">>) /\ UNCHANGED <<rq, sq>>
        /\ spc = "prepare" /\ spc' = "header"
    BY <1>3 DEF Prepare
  <2>2. <<"err">> \in Seq({"recv", "send", "err"}) /\ Len(<<"err">>) = 1
    OBVIOUS
  <2>3. c' = c + 1
    BY <1>1, <2>1, <2>2, Completed, Constants
  <2> QED
    BY <1>1, <1>2, <2>1, <2>3 DEF InvBroken
<1>4. CASE Header \/ Dispatched \/ ResponseSent
  <2>1. /\ Take("server") /\ UNCHANGED link /\ spc \in {"header", "dispatched", "sent"}
        /\ spc' \notin {"header", "dispatched", "sent"}
    BY <1>4 DEF Header, Dispatched, ResponseSent
  <2>2. c' = c - 1 /\ c = R + 1
    BY <1>1, <1>2, <2>1, Took, Constants
  <2>3. c' = R
    BY <2>2, Constants
  <2> QED
    BY <1>1, <1>2, <2>1, <2>3 DEF InvBroken, link
<1>5. CASE Dispatch \/ SendResponse
  <2>1. /\ spc \in {"dispatch", "send"}
        /\ \/ PostSend("server") /\ spc' \in {"dispatched", "sent"}
           \/ UNCHANGED <<link, compl>> /\ spc' = "execute"
    BY <1>5 DEF Dispatch, SendResponse
  <2>2. CASE PostSend("server") /\ spc' \in {"dispatched", "sent"}
    <3>1. UNCHANGED <<rq, sq>> /\ c' = c + 1
      BY <1>1, <2>2, Posted, Constants
    <3> QED
      BY <1>1, <1>2, <2>1, <2>2, <3>1 DEF InvBroken
  <2>3. CASE UNCHANGED <<link, compl>> /\ spc' = "execute"
    BY <1>1, <1>2, <2>1, <2>3 DEF InvBroken, link, compl
  <2> QED
    BY <2>1, <2>2, <2>3
<1>6. CASE Execute
  BY <1>1, <1>2, <1>6 DEF Execute, InvBroken, link, compl
<1> QED
  BY <1>3, <1>4, <1>5, <1>6 DEF Worker

(* A worker that looks at a request holds the only one there is: it is the *)
(* one in its buffer, and no earlier response is on its way.               *)
LEMMA WorkerRc ==
  ASSUME Reliable, Methods \subseteq {"KV"}, TInv, InvStep, RcInv, Worker PROVE RcInv'
<1> DEFINE k == sq["client"] + Len(net["client"])
           L == Len(arrived)
           x == sq["server"]
           y == Len(net["server"])
<1>0. /\ UNCHANGED <<cpc, op, asked, got, ring, arrived, unanswered, net, acks, broken>>
      /\ sq'["client"] = sq["client"] /\ rq'["client"] = rq["client"]
      /\ cq'["client"] = cq["client"]
  BY WorkerFrame
<1>1. InvClient' /\ InvSent'
  <2>1. InvClient'
    BY <1>0 DEF RcInv, InvClient, ToClient
  <2>2. InvSent'
    BY <1>0 DEF RcInv, InvSent, Sent
  <2> QED
    BY <2>1, <2>2
<1>2. CASE broken
  <2>1. InvBroken'
    BY <1>2, BrokenWorkerRc DEF RcInv
  <2>2. InvToken' /\ InvDone'
    BY <1>0, <1>2 DEF RcInv, InvToken, InvDone
  <2> QED
    BY <1>1, <2>1, <2>2 DEF RcInv
<1>3. CASE ~broken
  <2>0. InvBroken'
    BY <1>0, <1>3 DEF InvBroken
  <2>1. /\ k \in Nat /\ L \in Nat /\ x \in Nat /\ y \in Nat /\ taken \in Nat
        /\ Len(executed) \in Nat /\ R \in Nat /\ R > 0 /\ unanswered \in {0, 1}
    <3>1. sq["client"] \in Nat /\ Len(net["client"]) \in Nat
      BY ServerTypes
    <3>2. k \in Nat
      BY <3>1
    <3>3. unanswered \in {0, 1}
      BY DEF RcInv, InvToken
    <3> QED
      BY <3>2, <3>3, ServerTypes, RcTypes, Constants
  <2>2. /\ Outstanding = k + (L - taken) + x + y
        /\ Outstanding' = k + (L - taken') + x' + y
    <3>1. /\ sq["client"] \in Nat /\ Len(net["client"]) \in Nat
          /\ L - taken \in Int /\ L - taken' \in Int
      <4>1. taken' \in Int
        BY DEF Worker, Prepare, Header, Dispatch, Dispatched, Execute, SendResponse,
               ResponseSent, TInv, TypeOK, WorkerOK
      <4> QED
        BY <2>1, <4>1, ServerTypes
    <3> QED
      BY <1>0, <3>1 DEF Outstanding
  <2>3. InvStage /\ InvRing /\ InvToken /\ InvDone /\ InvSent
    BY <1>3 DEF InvStep, RcInv
  <2>4. CASE Prepare \/ Header \/ ResponseSent
    <3>1. /\ UNCHANGED <<taken, sq, executed, slot, response>>
          /\ spc \in {"prepare", "header", "sent"}
          /\ spc' \in {"prepare", "header", "dispatch"}
      BY <2>4 DEF Prepare, Header, ResponseSent, link
    <3>2. Outstanding' = Outstanding
      BY <2>2, <3>1
    <3>3. InvToken'
      BY <1>0, <1>3, <2>3, <3>1, <3>2 DEF InvToken
    <3>4. InvDone'
      BY <1>0, <1>3, <2>3, <3>1 DEF InvDone
    <3> QED
      BY <1>1, <2>0, <3>3, <3>4 DEF RcInv
  <2>5. CASE Dispatched
    BY <1>3, <2>3, <2>5 DEF Dispatched, InvToken
  <2>6. CASE Dispatch
    <3>1. /\ spc = "dispatch" /\ slot' = request_count /\ taken' = taken + 1
          /\ executed' = executed /\ L - taken >= 1 /\ request_count = Buffer(taken)
          /\ unanswered = Outstanding
      BY <1>3, <2>3, <2>6 DEF Dispatch, InvStage, Begun, InvToken
    <3>2. L = taken + 1 /\ x = 0 /\ y = 0 /\ k = 0 /\ unanswered = 1
      <4> HIDE DEF k, x, y, L
      <4> QED
        BY <2>1, <2>2, <3>1
    <3>3. ring[request_count] = taken + 1
      <4>1. taken + 1 \in 1..L /\ taken + 1 > L - R /\ (taken + 1) - 1 = taken
        <5> HIDE DEF k, x, y, L
        <5> QED
          BY <2>1, <3>2
      <4>2. ring[Buffer((taken + 1) - 1)] = arrived[taken + 1] /\ arrived[taken + 1] = taken + 1
        BY <2>3, <4>1 DEF InvRing, InvSent
      <4> QED
        BY <3>1, <4>1, <4>2
    <3>4. MethodOf(ring[request_count]) = "KV"
      <4>1. ring[request_count] \in 0..op /\ asked \in Seq(Methods) /\ Len(asked) = op
        BY DEF TInv, InvMade, TypeOK, WorkerOK, ClientOK
      <4>2. ring[request_count] \in 1..Len(asked)
        BY <2>1, <3>3, <4>1, RcTypes
      <4>3. asked[ring[request_count]] \in Methods
        BY <4>1, <4>2
      <4>4. ring[request_count] # 0
        BY <4>2
      <4> QED
        BY <4>3, <4>4 DEF MethodOf
    <3>5. spc' = "execute" /\ UNCHANGED <<sq, response>>
      BY <2>6, <3>4 DEF Dispatch, link
    <3>6. Outstanding' + 1 = unanswered
      <4> HIDE DEF k, x, y, L
      <4>1. x' = x
        BY <3>5 DEF x
      <4> QED
        BY <2>1, <2>2, <3>1, <3>2, <4>1
    <3>7. InvToken'
      BY <1>0, <2>1, <3>5, <3>6 DEF InvToken
    <3>8. InvDone'
      <4>1. Len(executed') = taken' - 1 /\ ring'[slot'] = taken'
        BY <1>0, <1>3, <2>1, <2>3, <3>1, <3>3 DEF InvDone
      <4>2. y' = 0 /\ x' = 0
        BY <1>0, <3>2, <3>5
      <4> QED
        BY <3>5, <4>1, <4>2 DEF InvDone
    <3> QED
      BY <1>1, <2>0, <3>7, <3>8 DEF RcInv
  <2>7. CASE Execute
    <3>1. /\ spc = "execute" /\ spc' = "send" /\ UNCHANGED <<sq, taken>>
          /\ response' = ring[slot] /\ ring[slot] = taken /\ taken >= 1 /\ slot = request_count
          /\ Len(executed) = taken - 1 /\ L - taken >= 0
          /\ unanswered = Outstanding + 1
      BY <1>3, <2>3, <2>7 DEF Execute, InvStage, Begun, InvToken, InvDone, link
    <3>2. MethodOf(ring[slot]) = "KV"
      <4>1. ring[slot] \in 0..op /\ asked \in Seq(Methods) /\ Len(asked) = op
        BY DEF TInv, InvMade, TypeOK, WorkerOK, ClientOK
      <4>2. ring[slot] \in 1..Len(asked)
        BY <2>1, <3>1, <4>1, RcTypes
      <4>3. asked[ring[slot]] \in Methods
        BY <4>1, <4>2
      <4>4. ring[slot] # 0
        BY <4>2
      <4> QED
        BY <4>3, <4>4 DEF MethodOf
    <3>3. executed' = Append(executed, ring[slot])
      BY <2>7, <3>2 DEF Execute
    <3>4. Len(executed') = taken
      <4>1. Len(executed') = Len(executed) + 1
        BY <3>3 DEF TInv, TypeOK, WorkerOK
      <4> QED
        BY <2>1, <3>1, <4>1
    <3>5. y = 0
      <4> HIDE DEF k, x, y, L
      <4> QED
        BY <2>1, <2>2, <3>1
    <3>6. Outstanding' = Outstanding
      BY <2>2, <3>1
    <3>7. InvToken'
      BY <1>0, <1>3, <2>3, <3>1, <3>6 DEF InvToken
    <3>8. InvDone'
      BY <1>0, <3>1, <3>4, <3>5 DEF InvDone
    <3> QED
      BY <1>1, <2>0, <3>7, <3>8 DEF RcInv
  <2>8. CASE SendResponse
    <3>1. /\ spc = "send" /\ spc' = "sent" /\ PostSend("server")
          /\ UNCHANGED <<taken, executed, slot, response>>
          /\ unanswered = Outstanding + 1
      BY <1>3, <2>3, <2>8 DEF SendResponse, InvToken
    <3>2. x' = x + 1
      BY <1>3, <3>1, Posted, ServerTypes, Constants
    <3>3. Outstanding' = Outstanding + 1
      <4> HIDE DEF k, x, y, L
      <4> QED
        BY <2>1, <2>2, <3>1, <3>2
    <3>4. InvToken'
      BY <1>0, <2>1, <3>1, <3>3 DEF InvToken
    <3>5. InvDone'
      BY <1>0, <1>3, <2>3, <3>1 DEF InvDone
    <3> QED
      BY <1>1, <2>0, <3>4, <3>5 DEF RcInv
  <2> QED
    BY <2>4, <2>5, <2>6, <2>7, <2>8 DEF Worker
<1> QED
  BY <1>2, <1>3

(* There is at most one request, in one place.                             *)
LEMMA OneRequest ==
  ASSUME TInv, InvStep, InvToken, ~broken
  PROVE  /\ Len(arrived) - taken >= 0
         /\ sq["client"] + Len(net["client"]) + (Len(arrived) - taken)
              + sq["server"] + Len(net["server"]) <= 1
         /\ spc \in {"execute", "send"} =>
              sq["client"] + Len(net["client"]) + (Len(arrived) - taken)
                + sq["server"] + Len(net["server"]) = 0
<1>1. Len(arrived) - taken >= 0
  <2>1. spc \in {"prepare", "header", "dispatch", "dispatched", "execute", "send", "sent"}
    BY DEF TInv, TypeOK, WorkerOK
  <2>2. Len(arrived) - taken >= 0 \/ Len(arrived) - taken >= 1
    BY <2>1 DEF InvStep, InvStage
  <2> QED
    BY <2>2, ServerTypes
<1>2. /\ spc \in {"execute", "send"} => unanswered = Outstanding + 1
      /\ spc \notin {"execute", "send"} => unanswered = Outstanding
      /\ unanswered \in {0, 1} /\ Outstanding \in Int
  BY RcTypes DEF InvToken
<1>3. Outstanding >= 0
  <2> DEFINE q == sq["client"]
             n == Len(net["client"])
             x == sq["server"]
             y == Len(net["server"])
             t == Len(arrived) - taken
  <2>1. q \in Nat /\ n \in Nat /\ x \in Nat /\ y \in Nat /\ t \in Nat
    BY <1>1, ServerTypes
  <2>2. Outstanding = q + n + t + x + y
    BY DEF Outstanding
  <2> HIDE DEF q, n, x, y, t
  <2> QED
    BY <2>1, <2>2
<1>4. Outstanding <= 1 /\ (spc \in {"execute", "send"} => Outstanding = 0)
  BY <1>2, <1>3
<1> QED
  BY <1>1, <1>4 DEF Outstanding

(* The adapters move the request and its response along, ...               *)
LEMMA TransmitRc ==
  ASSUME Reliable, TInv, InvStep, RcInv, NEW e \in Ends, Transmit(e) PROVE RcInv'
<1> DEFINE q == sq["client"]
           n == Len(net["client"])
           x == sq["server"]
           y == Len(net["server"])
           L == Len(arrived)
<1>0. /\ UNCHANGED <<rq, cq, acks, cpc, op, got, spc, slot, response, taken, executed, ring,
                     arrived, unanswered, broken>>
  BY Transmitted
<1>1. /\ q \in Nat /\ n \in Nat /\ x \in Nat /\ y \in Nat /\ L \in Nat /\ taken \in Nat
      /\ op \in Nat /\ unanswered \in {0, 1}
  BY ServerTypes, RcTypes DEF RcInv, InvToken
<1>2. InvToken /\ InvClient /\ InvSent /\ InvDone /\ InvBroken
  BY DEF RcInv
<1>3. CASE e = "client"
  <2>1. /\ q >= 1 /\ q' = q - 1 /\ n' = n + 1 /\ x' = x /\ net'["server"] = net["server"]
        /\ net'["client"][n + 1] = op
        /\ \A i \in 1..n : net'["client"][i] = net["client"][i]
    BY <1>3, Transmitted, Constants
  <2>2. q' + n' = q + n
    <3> HIDE DEF q, n
    <3> QED
      BY <1>1, <2>1
  <2>3. Outstanding' = Outstanding /\ ToClient' = ToClient /\ Sent' = Sent
    <3> DEFINE t == L - taken
               c == Len(cq["client"])
               a == acks["client"]
    <3>1. t \in Int /\ c \in Nat /\ a \in Nat
      BY <1>1, ServerTypes
    <3>2. /\ Outstanding = q + n + t + x + y /\ Outstanding' = q' + n' + t + x' + y
          /\ ToClient = c + q + n + a + unanswered
          /\ ToClient' = c + q' + n' + a + unanswered
          /\ Sent = L + n + q /\ Sent' = L + n' + q'
      BY <1>0, <2>1 DEF Outstanding, ToClient, Sent
    <3> HIDE DEF q, n, x, y, t, c, a, L
    <3> QED
      BY <1>1, <2>1, <3>1, <3>2
  <2>4. op = L + n + 1
    <3>1. cpc # "dead"
      BY <1>3 DEF Transmit
    <3>2. ToClient # 0 /\ ToClient = Len(cq["client"]) + q + n + acks["client"] + unanswered
      <4>1. /\ Len(cq["client"]) \in Nat /\ acks["client"] \in Nat
            /\ ToClient = Len(cq["client"]) + q + n + acks["client"] + unanswered
        BY ServerTypes DEF ToClient
      <4> HIDE DEF q, n
      <4> QED
        BY <1>1, <2>1, <4>1
    <3>3. cpc # "send"
      BY <1>2, <3>2 DEF InvClient
    <3>4. Sent = op /\ Sent = L + n + q
      BY <1>2, <3>1, <3>3 DEF InvSent, Sent
    <3>5. q <= 1
      <4>1. ~broken
        BY <3>1 DEF TInv, InvMade
      <4>2. q + n + (L - taken) + x + y <= 1 /\ L - taken >= 0
        BY <1>2, <4>1, OneRequest
      <4> HIDE DEF q, n, x, y, L
      <4> QED
        BY <1>1, <4>2
    <3> HIDE DEF q, n, L
    <3> QED
      BY <1>1, <2>1, <3>4, <3>5
  <2>5. InvToken' /\ InvClient'
    BY <1>0, <1>2, <2>3 DEF InvToken, InvClient
  <2>6. InvSent'
    <3>1. \A i \in 1..n : net["client"][i] = L + i
      BY <1>2 DEF InvSent
    <3>2. \A i \in 1..n' : net'["client"][i] = L + i
      <4> SUFFICES ASSUME NEW i \in 1..n' PROVE net'["client"][i] = L + i
        OBVIOUS
      <4>1. CASE i = n + 1
        BY <2>1, <2>4, <4>1
      <4>2. CASE i # n + 1
        <5>1. i \in 1..n
          <6> HIDE DEF n
          <6> QED
            BY <1>1, <2>1, <4>2
        <5> HIDE DEF n, L
        <5> QED
          BY <2>1, <3>1, <5>1
      <4> QED
        BY <4>1, <4>2
    <3> QED
      BY <1>0, <1>2, <2>3, <3>2 DEF InvSent
  <2>7. InvDone' /\ InvBroken'
    BY <1>0, <1>2, <2>1 DEF InvDone, InvBroken
  <2> QED
    BY <2>5, <2>6, <2>7 DEF RcInv
<1>4. CASE e = "server"
  <2>1. /\ x >= 1 /\ x' = x - 1 /\ y' = y + 1 /\ q' = q /\ net'["client"] = net["client"]
        /\ net'["server"][y + 1] = response
        /\ \A i \in 1..y : net'["server"][i] = net["server"][i]
    BY <1>4, Transmitted, Constants
  <2>2. Outstanding' = Outstanding
    <3> DEFINE t == L - taken
    <3>1. t \in Int
      BY <1>1
    <3>2. /\ Outstanding = q + n + t + x + y /\ Outstanding' = q' + n + t + x' + y'
      BY <1>0, <2>1 DEF Outstanding
    <3> HIDE DEF q, n, x, y, t
    <3> QED
      BY <1>1, <2>1, <3>1, <3>2
  <2>3. InvToken' /\ InvClient'
    BY <1>0, <1>2, <2>1, <2>2 DEF InvToken, InvClient, ToClient
  <2>4. InvSent'
    BY <1>0, <1>2, <2>1 DEF InvSent, Sent
  <2>5. InvDone'
    <3> SUFFICES ASSUME ~broken PROVE InvDone'
      BY <1>0 DEF InvDone
    <3>1. response = taken /\ \A i \in 1..y : net["server"][i] = taken
      BY <1>1, <1>2, <2>1 DEF InvDone
    <3>2. \A i \in 1..y' : net'["server"][i] = taken
      <4> HIDE DEF y
      <4> QED
        BY <1>1, <2>1, <3>1
    <3> QED
      BY <1>0, <1>2, <3>1, <3>2 DEF InvDone
  <2>6. InvBroken'
    BY <1>0, <1>1, <1>2, <2>1 DEF InvBroken
  <2> QED
    BY <2>3, <2>4, <2>5, <2>6 DEF RcInv
<1> QED
  BY <1>3, <1>4, Constants

(* ... a request arrives when the worker has none, ...                     *)
LEMMA RequestRc ==
  ASSUME Reliable, TInv, InvStep, RcInv, Arrive("client") PROVE RcInv'
<1> DEFINE q == sq["client"]
           n == Len(net["client"])
           x == sq["server"]
           y == Len(net["server"])
           L == Len(arrived)
           a == acks["client"]
           c == Len(cq["client"])
<1>0. /\ UNCHANGED <<sq, cpc, op, got, spc, slot, response, taken, executed, broken,
                     unanswered>>
      /\ n >= 1 /\ n' = n - 1 /\ a' = a + 1 /\ L' = L + 1
      /\ cq'["client"] = cq["client"] /\ rq'["client"] = rq["client"]
      /\ net'["server"] = net["server"]
      /\ \A i \in 1..n - 1 : net'["client"][i] = net["client"][i + 1]
      /\ \A i \in 1..L : arrived'[i] = arrived[i]
      /\ arrived'[L + 1] = net["client"][1] /\ Len(rq["server"]) >= 1
  BY Delivered, RequestArrives, Constants
<1>1. /\ q \in Nat /\ n \in Nat /\ x \in Nat /\ y \in Nat /\ L \in Nat /\ taken \in Nat
      /\ a \in Nat /\ c \in Nat /\ op \in Nat /\ unanswered \in {0, 1}
  BY ServerTypes, RcTypes DEF RcInv, InvToken
<1>2. InvToken /\ InvClient /\ InvSent /\ InvDone /\ InvBroken
  BY DEF RcInv
<1>3. ~broken
  <2>1. broken => rq["server"] = <<>>
    BY <1>2 DEF InvBroken
  <2>2. Len(<<>>) = 0
    OBVIOUS
  <2> QED
    BY <1>0, <2>1, <2>2
<1>4. Outstanding' = Outstanding /\ ToClient' = ToClient /\ Sent' = Sent
  <2> DEFINE t == L - taken
  <2>1. t \in Int /\ t' = t + 1
    <3>1. t' = L' - taken
      BY <1>0
    <3> HIDE DEF L
    <3> QED
      BY <1>0, <1>1, <3>1 DEF t
  <2>2. /\ Outstanding = q + n + t + x + y /\ Outstanding' = q + n' + t' + x + y
        /\ ToClient = c + q + n + a + unanswered
        /\ ToClient' = c + q + n' + a' + unanswered
        /\ Sent = L + n + q /\ Sent' = L' + n' + q
    BY <1>0 DEF Outstanding, ToClient, Sent
  <2>3. n' = n - 1 /\ a' = a + 1 /\ L' = L + 1
    BY <1>0
  <2> HIDE DEF q, n, x, y, t, c, a, L
  <2>4. Outstanding' = Outstanding
    BY <1>1, <2>1, <2>2, <2>3
  <2>5. ToClient' = ToClient
    BY <1>1, <2>2, <2>3
  <2>6. Sent' = Sent
    BY <1>1, <2>2, <2>3
  <2> QED
    BY <2>4, <2>5, <2>6
<1>5. InvToken' /\ InvClient'
  BY <1>0, <1>2, <1>4 DEF InvToken, InvClient
<1>6. InvSent'
  <2>1. /\ \A i \in 1..n : net["client"][i] = L + i
        /\ \A i \in 1..L : arrived[i] = i
    BY <1>2 DEF InvSent
  <2>2. /\ \A i \in 1..n' : net'["client"][i] = L' + i
        /\ \A i \in 1..L' : arrived'[i] = i
    <3> HIDE DEF n, L
    <3>1. \A i \in 1..n' : net'["client"][i] = L' + i
      <4> SUFFICES ASSUME NEW i \in 1..n' PROVE net'["client"][i] = L' + i
        OBVIOUS
      <4>1. i \in 1..n-1 /\ i + 1 \in 1..n /\ L' + i = L + (i + 1)
        BY <1>0, <1>1
      <4> QED
        BY <1>0, <2>1, <4>1
    <3>2. net["client"][1] = L + 1
      BY <1>0, <1>1, <2>1
    <3>3. \A i \in 1..L' : arrived'[i] = i
      BY <1>0, <1>1, <2>1, <3>2
    <3> QED
      BY <3>1, <3>3
  <2> QED
    BY <1>0, <1>2, <1>4, <2>2 DEF InvSent
<1>7. InvDone'
  <2>1. spc # "execute"
    <3>1. /\ L - taken >= 0
          /\ spc \in {"execute", "send"} => q + n + (L - taken) + x + y = 0
      BY <1>2, <1>3, OneRequest
    <3>2. q + n + (L - taken) + x + y # 0
      <4> HIDE DEF q, n, x, y, L
      <4> QED
        BY <1>0, <1>1, <3>1
    <3> QED
      BY <3>1, <3>2
  <2> QED
    BY <1>0, <1>2, <2>1 DEF InvDone
<1>8. InvBroken'
  BY <1>0, <1>3 DEF InvBroken
<1> QED
  BY <1>5, <1>6, <1>7, <1>8 DEF RcInv

(* ... and its response when the client has made no other.                 *)
LEMMA ResponseRc ==
  ASSUME Reliable, TInv, InvStep, RcInv, Arrive("server") PROVE RcInv'
<1> DEFINE q == sq["client"]
           n == Len(net["client"])
           x == sq["server"]
           y == Len(net["server"])
           L == Len(arrived)
           a == acks["client"]
           c == Len(cq["client"])
           r == Len(rq["client"])
<1>0. /\ UNCHANGED <<sq, cpc, op, spc, slot, response, taken, executed, broken, ring, arrived>>
      /\ y >= 1 /\ y' = y - 1 /\ c' = c + 1 /\ r' = r - 1
      /\ acks'["client"] = acks["client"] /\ net'["client"] = net["client"]
      /\ \A i \in 1..y - 1 : net'["server"][i] = net["server"][i + 1]
      /\ got' = net["server"][1] /\ unanswered' = unanswered - 1 /\ cpc # "dead"
  BY Delivered, ResponseArrives, Constants
<1>1. /\ q \in Nat /\ n \in Nat /\ x \in Nat /\ y \in Nat /\ L \in Nat /\ taken \in Nat
      /\ a \in Nat /\ c \in Nat /\ r \in Nat /\ op \in Nat /\ unanswered \in {0, 1}
  BY ServerTypes, RcTypes DEF RcInv, InvToken
<1>2. InvToken /\ InvClient /\ InvSent /\ InvDone /\ InvBroken
  BY DEF RcInv
<1>3. ~broken
  BY <1>0 DEF TInv, InvMade
<1>4. /\ L = taken /\ n = 0 /\ q = 0 /\ x = 0 /\ y = 1 /\ unanswered = 1
      /\ Outstanding' = Outstanding - 1 /\ spc \notin {"execute", "send"}
  <2>1. /\ L - taken >= 0 /\ q + n + (L - taken) + x + y <= 1
        /\ spc \in {"execute", "send"} => q + n + (L - taken) + x + y = 0
    BY <1>2, <1>3, OneRequest
  <2>2. /\ Outstanding = q + n + (L - taken) + x + y
        /\ Outstanding' = q + n + (L - taken) + x + y'
    BY <1>0 DEF Outstanding
  <2>3. /\ L = taken /\ n = 0 /\ q = 0 /\ x = 0 /\ y = 1
        /\ Outstanding = 1 /\ Outstanding' = 0 /\ q + n + (L - taken) + x + y = 1
    <3> HIDE DEF q, n, x, y, L
    <3> QED
      BY <1>0, <1>1, <2>1, <2>2
  <2>4. spc \notin {"execute", "send"}
    BY <2>1, <2>3
  <2>5. unanswered = Outstanding
    BY <1>2, <1>3, <2>4 DEF InvToken
  <2> QED
    BY <2>3, <2>4, <2>5
<1>5. ToClient' = ToClient /\ Sent' = Sent /\ ToClient # 0
  <2>1. /\ ToClient = c + q + n + a + unanswered
        /\ ToClient' = c' + q + n + a + unanswered'
        /\ Sent' = Sent
    BY <1>0 DEF ToClient, Sent
  <2> HIDE DEF q, n, c, a
  <2> QED
    BY <1>0, <1>1, <1>4, <2>1
<1>6. InvToken'
  BY <1>0, <1>2, <1>3, <1>4, RcTypes DEF InvToken
<1>7. InvClient'
  <2>1. /\ unanswered <= r => unanswered' <= r'
        /\ r <= unanswered + 1 => r' <= unanswered' + 1
        /\ r = unanswered + 1 => r' = unanswered' + 1
        /\ r = unanswered => r' = unanswered'
    <3> HIDE DEF r
    <3> QED
      BY <1>0, <1>1, <1>4
  <2> QED
    BY <1>0, <1>2, <1>5, <2>1 DEF InvClient
<1>8. InvSent'
  <2>1. cpc # "send"
    BY <1>2, <1>5 DEF InvClient
  <2>2. got' = taken
    BY <1>0, <1>1, <1>2, <1>3 DEF InvDone
  <2>3. Sent = op /\ Sent = L + n + q
    BY <1>0, <1>2, <2>1 DEF InvSent, Sent
  <2>4. got' = op
    <3> HIDE DEF L, n, q
    <3> QED
      BY <1>1, <1>4, <2>2, <2>3
  <2> QED
    BY <1>0, <1>2, <1>5, <2>4 DEF InvSent
<1>9. InvDone'
  <2>1. y' = 0
    BY <1>0, <1>4
  <2> QED
    BY <1>0, <1>2, <1>3, <2>1 DEF InvDone
<1>10. InvBroken'
  BY <1>0, <1>3 DEF InvBroken
<1> QED
  BY <1>6, <1>7, <1>8, <1>9, <1>10 DEF RcInv

(* When the queue pair breaks the response is the only message there is,   *)
(* so that the worker waits for its completion and every buffer is posted. *)
LEMMA BreakRc ==
  ASSUME Reliable, TInv, InvStep, RcInv, Break PROVE RcInv'
<1> DEFINE q == sq["client"]
           n == Len(net["client"])
           x == sq["server"]
           y == Len(net["server"])
           t == Len(arrived) - taken
           a == acks["server"]
           c == Len(cq["server"])
           Q == Len(rq["server"])
<1>0. /\ broken' = TRUE /\ ~broken /\ cpc = "dead" /\ y >= 1
      /\ c' = c + x + y + Q
      /\ net'["server"] = <<>> /\ rq'["server"] = <<>> /\ sq'["server"] = 0
      /\ net'["client"] = net["client"] /\ rq'["client"] = rq["client"]
      /\ sq'["client"] = sq["client"] /\ cq'["client"] = cq["client"]
      /\ UNCHANGED <<acks, cpc, op, got, spc, arrived, unanswered>>
  BY Broke
<1>1. /\ q \in Nat /\ n \in Nat /\ x \in Nat /\ y \in Nat /\ t \in Int
      /\ a \in Nat /\ c \in Nat /\ Q \in Nat /\ R \in Nat
  BY ServerTypes, Constants
<1>2. InvToken /\ InvClient /\ InvSent /\ InvStage
  BY <1>0 DEF RcInv, InvStep
<1>3. /\ t = 0 /\ x = 0 /\ y = 1 /\ spc \notin {"execute", "send"}
  <2>1. /\ t >= 0 /\ q + n + t + x + y <= 1
        /\ spc \in {"execute", "send"} => q + n + t + x + y = 0
    BY <1>0, <1>2, OneRequest
  <2> HIDE DEF q, n, t, x, y
  <2>2. t = 0 /\ x = 0 /\ y = 1 /\ q + n + t + x + y # 0
    BY <1>0, <1>1, <2>1
  <2> QED
    BY <2>1, <2>2
<1>4. Completions = c + x + (y + a)
  BY DEF Completions
<1>5. spc = "sent"
  <2>1. /\ spc # "dispatched"
        /\ spc \in {"prepare", "header", "dispatch", "dispatched", "execute", "send", "sent"}
    BY <1>0, <1>2 DEF InvToken, TInv, TypeOK, WorkerOK
  <2>2. /\ spc \in {"prepare", "header"} => Completions = t
        /\ spc = "dispatch" => t >= 1
    BY <1>2 DEF InvStage
  <2>3. Completions # t /\ ~(t >= 1)
    <3> HIDE DEF q, n, t, x, y, a, c
    <3> QED
      BY <1>1, <1>3, <1>4
  <2> QED
    BY <1>3, <2>1, <2>2, <2>3
<1>6. Completions = t + 1 /\ Q - R + t = 0
  BY <1>2, <1>5 DEF InvStage
<1>7. a = 0 /\ c' = R + 1
  <2>1. c' = c + x + y + Q
    BY <1>0
  <2> HIDE DEF t, x, y, a, c, Q
  <2> QED
    BY <1>1, <1>3, <1>4, <1>6, <2>1
<1>8. InvBroken'
  BY <1>0, <1>5, <1>7 DEF InvBroken
<1>9. InvToken' /\ InvDone'
  BY <1>0, <1>2 DEF InvToken, InvDone
<1>10. InvClient' /\ InvSent'
  BY <1>0, <1>2 DEF InvClient, InvSent, ToClient, Sent
<1> QED
  BY <1>8, <1>9, <1>10 DEF RcInv

LEMMA AckRc ==
  ASSUME Reliable, TInv, RcInv, NEW e \in Ends, Ack(e) PROVE RcInv'
<1>0. /\ UNCHANGED <<rq, sq, net, cpc, op, got, spc, slot, response, taken, executed, ring,
                     arrived, unanswered, broken>>
      /\ acks[e] > 0 /\ acks' = [acks EXCEPT ![e] = acks[e] - 1]
      /\ Complete(e, <<"send">>)
  BY DEF Ack, client, worker, memory
<1>1. InvToken /\ InvClient /\ InvSent /\ InvDone /\ InvBroken
  BY DEF RcInv
<1>2. <<"send">> \in Seq({"recv", "send", "err"}) /\ Len(<<"send">>) = 1
  OBVIOUS
<1>3. /\ Len(cq'[e]) = Len(cq[e]) + 1 /\ \A d \in Ends : d # e => cq'[d] = cq[d]
      /\ acks'[e] = acks[e] - 1 /\ \A d \in Ends : d # e => acks'[d] = acks[d]
  <2>1. /\ Len(cq'[e]) = Len(cq[e]) + 1 /\ \A d \in Ends : d # e => cq'[d] = cq[d]
    BY <1>0, <1>2, Completed, ServerTypes
  <2> QED
    BY <1>0, <2>1, ServerTypes DEF LinkOK
<1>4. InvToken' /\ InvSent' /\ InvDone'
  <2>1. Outstanding' = Outstanding /\ Sent' = Sent
    BY <1>0 DEF Outstanding, Sent
  <2>2. InvToken'
    BY <1>0, <1>1, <2>1 DEF InvToken
  <2>3. InvSent'
    BY <1>0, <1>1, <2>1 DEF InvSent
  <2>4. InvDone'
    BY <1>0, <1>1 DEF InvDone
  <2> QED
    BY <2>2, <2>3, <2>4
<1>5. ToClient' = ToClient
  <2>1. CASE e = "client"
    <3> DEFINE c == Len(cq["client"])
               a == acks["client"]
               q == sq["client"]
               n == Len(net["client"])
    <3>1. c \in Nat /\ a \in Nat /\ q \in Nat /\ n \in Nat /\ unanswered \in Int
      BY ServerTypes
    <3>2. c' = c + 1 /\ a' = a - 1
      BY <1>3, <2>1
    <3>3. ToClient = c + q + n + a + unanswered /\ ToClient' = c' + q + n + a' + unanswered
      BY <1>0 DEF ToClient
    <3> HIDE DEF c, a, q, n
    <3> QED
      BY <3>1, <3>2, <3>3
  <2>2. CASE e # "client"
    BY <1>0, <1>3, <2>2, Constants DEF ToClient
  <2> QED
    BY <2>1, <2>2
<1>6. InvClient'
  BY <1>0, <1>1, <1>5 DEF InvClient
<1>7. InvBroken'
  <2>1. CASE e = "server"
    BY <1>0, <1>1, <2>1 DEF InvBroken
  <2>2. CASE e # "server"
    BY <1>0, <1>1, <1>3, <2>2, Constants DEF InvBroken
  <2> QED
    BY <2>1, <2>2
<1> QED
  BY <1>4, <1>6, <1>7 DEF RcInv

LEMMA InitRc ==
  ASSUME Init PROVE RcInv
<1>1. /\ cq["client"] = <<>> /\ cq["server"] = <<>> /\ sq["client"] = 0 /\ sq["server"] = 0
      /\ net["client"] = <<>> /\ net["server"] = <<>> /\ acks["client"] = 0
      /\ rq["client"] = <<0>> /\ cpc = "make" /\ op = 0 /\ spc = "prepare" /\ taken = 0
      /\ arrived = <<>> /\ executed = <<>> /\ ~broken /\ unanswered = 0
  BY Constants DEF Init, CompletionInit, ClientPosted
<1>2. Outstanding = 0 /\ ToClient = 0 /\ Sent = 0
  BY <1>1 DEF Outstanding, ToClient, Sent
<1>3. InvToken /\ InvClient
  BY <1>1, <1>2 DEF InvToken, InvClient
<1>4. InvSent /\ InvDone
  BY <1>1, <1>2 DEF InvSent, InvDone
<1>5. InvBroken
  BY <1>1 DEF InvBroken
<1> QED
  BY <1>3, <1>4, <1>5 DEF RcInv

LEMMA NextRc ==
  ASSUME Reliable, Methods \subseteq {"KV"}, TInv, InvStep, RcInv, [Next]_vars
  PROVE  RcInv'
<1>1. CASE Client \/ Timeout \/ Crash
  BY <1>1, ClientRc
<1>2. CASE Worker
  BY <1>2, WorkerRc
<1>3. CASE Break
  BY <1>3, BreakRc
<1>4. ASSUME NEW e \in Ends, Adapter(e) PROVE RcInv'
  BY <1>4, TransmitRc, RequestRc, ResponseRc, AckRc, Constants DEF Adapter
<1>5. ASSUME NEW e \in Ends, Lose(e) PROVE RcInv'
  BY <1>5 DEF Lose
<1>6. ASSUME \/ UNCHANGED vars
             \/ \E e \in Ends : Wake(e)
      PROVE  RcInv'
  <2>1. UNCHANGED <<rq, sq, net, acks, cq, cpc, op, got, spc, slot, response, taken,
                    executed, ring, arrived, unanswered, broken>>
    BY <1>6 DEF vars, Wake, link, compl, client, worker, memory
  <2>2. Outstanding' = Outstanding /\ ToClient' = ToClient /\ Sent' = Sent
    BY <2>1 DEF Outstanding, ToClient, Sent
  <2>3. InvToken' /\ InvClient'
    BY <2>1, <2>2 DEF RcInv, InvToken, InvClient
  <2>4. InvSent' /\ InvDone' /\ InvBroken'
    BY <2>1, <2>2 DEF RcInv, InvSent, InvDone, InvBroken
  <2> QED
    BY <2>3, <2>4 DEF RcInv
<1> QED
  BY <1>1, <1>2, <1>3, <1>4, <1>5, <1>6 DEF Next

(* Over RC, with requests for the hash table only: one request at a time   *)
(* is outstanding, in one place, and its two completions are due.          *)
THEOREM RcInvariance ==
  ASSUME Reliable, Methods \subseteq {"KV"}
  PROVE  Spec => [](TInv /\ InvStep /\ RcInv)
<1>1. "UNK" \notin Methods
  OBVIOUS
<1>2. Spec => []InvStep
  BY <1>1, StepInvariance
<1>3. Init => RcInv
  BY InitRc
<1>4. TInv /\ InvStep /\ RcInv /\ [Next]_vars => RcInv'
  BY NextRc
<1> QED
  BY <1>2, <1>3, <1>4, Invariance, PTL DEF Spec

-----------------------------------------------------------------------------
(* Over RC, when start_instance goes on to the next operation the response *)
(* in its buffer answers this one, in whichever order the completion of    *)
(* the send and that of the response came.                                 *)
THEOREM ResponsesMatch ==
  ASSUME Reliable, Methods \subseteq {"KV"}
  PROVE  Spec => []ResponseMatches
<1>1. TInv /\ RcInv => ResponseMatches
  <2> SUFFICES ASSUME TInv, RcInv, cpc = "make", op > 0 PROVE got = op
    BY DEF ResponseMatches
  <2> DEFINE s == Len(cq["client"]) + sq["client"] + Len(net["client"]) + acks["client"]
  <2>1. ToClient = 0 /\ unanswered \in {0, 1}
    BY DEF RcInv, InvClient, InvToken
  <2>2. s \in Nat /\ ToClient = s + unanswered
    <3>1. \A v, w, x, y \in Nat : v + w + x + y \in Nat
      OBVIOUS
    <3>2. s \in Nat
      BY <3>1, ServerTypes
    <3> QED
      BY <3>2 DEF ToClient
  <2>3. unanswered = 0
    <3> HIDE DEF s
    <3> QED
      BY <2>1, <2>2
  <2> QED
    BY <2>3 DEF RcInv, InvSent
<1> QED
  BY <1>1, RcInvariance, PTL

(* Over RC a message never finds its receiver without a buffer, so that    *)
(* rnr_retry_count = 0 never ends the connection.                          *)
THEOREM ReceiversReady ==
  ASSUME Reliable, Methods \subseteq {"KV"}
  PROVE  Spec => []ReceiverReady
<1>1. TInv /\ InvStep /\ RcInv => ReceiverReady
  <2> SUFFICES ASSUME TInv, InvStep, RcInv, ~broken
               PROVE  /\ net["client"] # <<>> => rq["server"] # <<>>
                      /\ net["server"] # <<>> => rq["client"] # <<>>
    BY Constants DEF ReceiverReady
  <2> DEFINE q == sq["client"]
             n == Len(net["client"])
             x == sq["server"]
             y == Len(net["server"])
             t == Len(arrived) - taken
             Q == Len(rq["server"])
             r == Len(rq["client"])
  <2>1. /\ q \in Nat /\ n \in Nat /\ x \in Nat /\ y \in Nat /\ t \in Int
        /\ Q \in Nat /\ r \in Nat /\ R \in Nat /\ R > 0
    BY ServerTypes, Constants
  <2>2. t >= 0 /\ q + n + t + x + y <= 1
    BY OneRequest DEF RcInv
  <2>3. Q - R + t \in {0, 1}
    <3>1. spc \in {"prepare", "header", "dispatch", "dispatched", "execute", "send", "sent"}
      BY DEF TInv, TypeOK, WorkerOK
    <3> QED
      BY <3>1 DEF InvStep, InvStage
  <2>4. r >= unanswered /\ unanswered >= y
    <3>1. unanswered = Outstanding \/ unanswered = Outstanding + 1
      BY DEF RcInv, InvToken
    <3>2. Outstanding = q + n + t + x + y
      BY DEF Outstanding
    <3>3. unanswered <= r /\ unanswered \in Int
      BY DEF RcInv, InvClient, InvToken
    <3> HIDE DEF q, n, t, x, y, r
    <3> QED
      BY <2>1, <2>2, <3>1, <3>2, <3>3
  <2>5. (n >= 1 => Q >= 1) /\ (y >= 1 => r >= 1)
    <3>1. unanswered \in Int
      BY ServerTypes
    <3> HIDE DEF q, n, t, x, y, r, Q
    <3> QED
      BY <2>1, <2>2, <2>3, <2>4, <3>1
  <2>6. /\ net["client"] \in Seq(0..MaxOps) /\ net["server"] \in Seq(0..MaxOps)
    BY Constants DEF TInv, TypeOK, LinkOK
  <2>7. /\ net["client"] # <<>> => n >= 1
        /\ net["server"] # <<>> => y >= 1
    BY <2>6
  <2>8. Len(<<>>) = 0
    OBVIOUS
  <2>9. (Q >= 1 => rq["server"] # <<>>) /\ (r >= 1 => rq["client"] # <<>>)
    BY <2>8
  <2> QED
    BY <2>5, <2>7, <2>9
<1> QED
  BY <1>1, RcInvariance, PTL

(* Over RC no queue overflows, on any path and also when the queue pair    *)
(* breaks: a completion queue larger than the ring is large enough.        *)
THEOREM QueuesNeverOverflow ==
  ASSUME Reliable, Methods \subseteq {"KV"}, CqCapacity \in Nat, CqCapacity > R
  PROVE  Spec => []QueuesFit
<1>1. TInv /\ InvStep /\ RcInv => QueuesFit
  <2> SUFFICES ASSUME TInv, InvStep, RcInv PROVE QueuesFit
    OBVIOUS
  <2> DEFINE q == sq["client"]
             n == Len(net["client"])
             x == sq["server"]
             y == Len(net["server"])
             t == Len(arrived) - taken
             Q == Len(rq["server"])
             r == Len(rq["client"])
             c == Len(cq["client"])
             d == Len(cq["server"])
             a == acks["client"]
             b == acks["server"]
  <2>1. /\ q \in Nat /\ n \in Nat /\ x \in Nat /\ y \in Nat /\ t \in Int /\ c \in Nat
        /\ d \in Nat /\ a \in Nat /\ b \in Nat /\ Q \in Nat /\ r \in Nat
        /\ R \in Nat /\ R > 0 /\ MaxWr \in Nat /\ R < MaxWr /\ unanswered \in {0, 1}
    BY ServerTypes, Constants DEF RcInv, InvToken
  <2>2. c <= CqCapacity /\ q <= MaxWr
    <3>1. ToClient = c + q + n + a + unanswered /\ ToClient <= 2
      BY DEF ToClient, RcInv, InvClient
    <3> HIDE DEF c, q, n, a
    <3> QED
      BY <2>1, <3>1
  <2>3. cpc = "receive" => ~Full("client")
    <3>1. cpc = "receive" => r = unanswered
      BY DEF RcInv, InvClient
    <3> QED
      BY <2>1, <3>1 DEF Full
  <2>4. /\ x <= MaxWr /\ d <= CqCapacity
        /\ spc = "prepare" => ~Full("server")
    <3>1. CASE broken
      <4>1. Q = 0 /\ x = 0 /\ (d = R \/ d = R + 1)
        BY <3>1 DEF RcInv, InvBroken
      <4> QED
        BY <2>1, <4>1 DEF Full
    <3>2. CASE ~broken
      <4>1. t >= 0 /\ q + n + t + x + y <= 1
        BY <3>2, OneRequest DEF RcInv
      <4>2. Completions \in {t, t - 1, t + 1} /\ Q - R + t \in {0, 1}
            /\ (spc = "prepare" => Q - R + t = 0)
        <5>1. spc \in {"prepare", "header", "dispatch", "dispatched", "execute", "send", "sent"}
          BY DEF TInv, TypeOK, WorkerOK
        <5> QED
          BY <3>2, <5>1 DEF InvStep, InvStage
      <4>3. Completions = d + x + (y + b)
        BY DEF Completions
      <4>4. x <= MaxWr /\ d <= CqCapacity /\ (spc = "prepare" => Q <= R)
        <5> HIDE DEF q, n, x, y, t, Q, d, b
        <5> QED
          BY <2>1, <4>1, <4>2, <4>3
      <4>5. spc = "prepare" => ~Full("server")
        BY <2>1, <4>4 DEF Full
      <4> QED
        BY <4>4, <4>5
    <3> QED
      BY <3>1, <3>2
  <2> QED
    BY <2>2, <2>3, <2>4, Constants DEF QueuesFit
<1> QED
  BY <1>1, RcInvariance, PTL

-----------------------------------------------------------------------------
(* While the client lives, nothing is broken and the counters agree.       *)
LEMMA Answered ==
  ASSUME TInv, InvStep, RcInv, ~broken
  PROVE  /\ spc = "execute" => Len(executed) < op /\ Len(executed) + 1 = taken
         /\ (cpc \in {"receiving", "make"} /\ unanswered = 0) => Len(executed) = op
<1> DEFINE q == sq["client"]
           n == Len(net["client"])
           x == sq["server"]
           y == Len(net["server"])
           L == Len(arrived)
           t == L - taken
<1>1. /\ q \in Nat /\ n \in Nat /\ x \in Nat /\ y \in Nat /\ t \in Int /\ L \in Nat
      /\ taken \in Nat /\ op \in Nat /\ Len(executed) \in Nat
  BY ServerTypes, RcTypes
<1>2. t >= 0
  BY OneRequest DEF RcInv
<1>3. /\ Sent = L + n + q /\ Sent <= op /\ (cpc \in {"receiving", "make"} => Sent = op)
  BY DEF RcInv, InvSent, Sent
<1>4. /\ spc = "execute" => Len(executed) = taken - 1
      /\ spc # "execute" => Len(executed) = taken
  BY DEF RcInv, InvDone
<1>5. /\ Outstanding = q + n + t + x + y
      /\ spc = "execute" => unanswered = Outstanding + 1
      /\ unanswered = Outstanding \/ unanswered = Outstanding + 1
  BY DEF RcInv, InvToken, Outstanding
<1>6. unanswered = 0 => q = 0 /\ n = 0 /\ t = 0 /\ spc # "execute"
  <2> HIDE DEF q, n, x, y, t
  <2> QED
    BY <1>1, <1>2, <1>5
<1>7. t = L - taken
  OBVIOUS
<1>8. spc = "execute" => Len(executed) < op /\ Len(executed) + 1 = taken
  <2> HIDE DEF q, n, t, L
  <2> QED
    BY <1>1, <1>2, <1>3, <1>4, <1>7
<1>9. (cpc \in {"receiving", "make"} /\ unanswered = 0) => Len(executed) = op
  <2> HIDE DEF q, n, t, L
  <2> QED
    BY <1>1, <1>3, <1>4, <1>6, <1>7
<1> QED
  BY <1>8, <1>9

LEMMA ServiceInit == Init => Service!Init
<1> SUFFICES ASSUME Init PROVE Service!Init
  OBVIOUS
<1>1. Len(<<>>) = 0
  OBVIOUS
<1> QED
  BY <1>1 DEF Init, Service!Init

LEMMA ServiceStep ==
  ASSUME Reliable, Methods \subseteq {"KV"}, TInv, InvStep, RcInv, [Next]_vars
  PROVE  [Service!Next]_(Service!vars)
<1> DEFINE returned == IF cpc = "make" THEN op ELSE op - 1
           sound == ~broken /\ cpc # "dead"
<1>0. op \in Nat /\ Len(executed) \in Nat
  BY RcTypes
<1>1. CASE UNCHANGED vars
  BY <1>1 DEF vars, client, worker, Service!vars
<1>2. CASE ~sound'
  BY <1>2 DEF Service!Next
<1>3. CASE Next /\ sound'
  <2>1. sound
    <3>1. cpc = "dead" => cpc' = "dead"
      <4>1. Worker => cpc' = cpc
        BY WorkerFrame
      <4> QED
        BY <1>3, <4>1 DEF Next, Client, Timeout, Crash, Break, Make, SendRequest, RequestSent,
           PostResponse, ResponseReceived, Wake, Adapter, Transmit, Arrive, Ack, Lose, client
    <3>2. broken => cpc = "dead"
      BY DEF TInv, InvMade
    <3> QED
      BY <1>3, <3>1, <3>2
  <2>2. ASSUME Service!Call \/ Service!Do \/ Service!Return PROVE Service!Next
    BY <1>3, <2>1, <2>2 DEF Service!Next
  <2>3. ASSUME op' = op, executed' = executed, broken' = broken, cpc = "make" <=> cpc' = "make"
        PROVE  UNCHANGED Service!vars
    BY <1>3, <2>1, <2>3 DEF Service!vars
  <2>4. CASE Make
    <3>1. /\ cpc = "make" /\ cpc' = "send" /\ op' = op + 1 /\ executed' = executed
      BY <2>4 DEF Make, worker
    <3>2. returned' = op /\ returned = op
      BY <1>0, <3>1
    <3>3. Service!Call
      BY <3>1, <3>2 DEF Service!Call
    <3> QED
      BY <2>2, <3>3
  <2>5. CASE ResponseReceived
    <3>1. /\ cpc = "receiving" /\ cpc' = "make" /\ op' = op /\ executed' = executed
          /\ Take("client")
      BY <2>5 DEF ResponseReceived, worker
    <3>2. unanswered = 0
      <4> DEFINE c == Len(cq["client"])
      <4>1. c >= 1
        BY <3>1, Took, ServerTypes, Constants
      <4>2. c \in Nat /\ sq["client"] \in Nat /\ Len(net["client"]) \in Nat
            /\ acks["client"] \in Nat
        BY ServerTypes
      <4>3. /\ ToClient = c + sq["client"] + Len(net["client"]) + acks["client"] + unanswered
            /\ ToClient = 1 /\ unanswered \in {0, 1}
        BY <3>1 DEF ToClient, RcInv, InvClient, InvToken
      <4> HIDE DEF c
      <4> QED
        BY <4>1, <4>2, <4>3
    <3>3. Len(executed) = op
      BY <2>1, <3>1, <3>2, Answered
    <3>4. returned = op - 1 /\ returned' = op
      BY <3>1
    <3>5. Service!Return
      BY <1>0, <3>1, <3>3, <3>4 DEF Service!Return
    <3> QED
      BY <2>2, <3>5
  <2>6. CASE Execute
    <3>1. /\ spc = "execute" /\ spc' = "send" /\ op' = op /\ cpc' = cpc /\ taken' = taken
      BY <2>6 DEF Execute, client
    <3>2. Len(executed) < op /\ Len(executed) + 1 = taken
      BY <2>1, <3>1, Answered
    <3>3. Len(executed') = Len(executed) + 1
      <4>1. RcInv'
        BY <1>3, NextRc
      <4>2. Len(executed') = taken'
        BY <1>3, <3>1, <4>1 DEF RcInv, InvDone
      <4> QED
        BY <3>1, <3>2, <4>2
    <3>4. returned' = returned
      BY <3>1
    <3>5. Service!Do
      BY <3>1, <3>2, <3>3, <3>4 DEF Service!Do
    <3> QED
      BY <2>2, <3>5
  <2>7. CASE SendRequest \/ RequestSent \/ PostResponse \/ Timeout
    <3>1. /\ op' = op /\ executed' = executed /\ broken' = broken
          /\ cpc # "make" /\ cpc' # "make"
      BY <2>7 DEF SendRequest, RequestSent, PostResponse, Timeout, worker
    <3> QED
      BY <2>3, <3>1
  <2>8. CASE Worker /\ ~Execute
    <3>1. op' = op /\ cpc' = cpc /\ broken' = broken
      BY <2>8, WorkerFrame
    <3>2. executed' = executed
      BY <2>8 DEF Worker, Prepare, Header, Dispatch, Dispatched, SendResponse, ResponseSent
    <3> QED
      BY <2>3, <3>1, <3>2
  <2>9. CASE Break \/ Crash
    BY <1>3, <2>9 DEF Break, Crash
  <2>10. ASSUME NEW e \in Ends, Wake(e) \/ Adapter(e) \/ Lose(e)
         PROVE  UNCHANGED Service!vars
    <3>1. UNCHANGED <<op, cpc, executed, broken>>
      BY <2>10 DEF Wake, Adapter, Transmit, Arrive, Ack, Lose, client, worker
    <3> QED
      BY <2>3, <3>1
  <2> QED
    BY <1>3, <2>4, <2>5, <2>6, <2>7, <2>8, <2>9, <2>10 DEF Next, Client
<1> QED
  BY <1>1, <1>2, <1>3

(* Over RC, while the client lives and the queue pair works, a connection  *)
(* is the request-response service: each request is executed exactly once, *)
(* and before the client goes on.                                          *)
THEOREM RcImplementsService ==
  ASSUME Reliable, Methods \subseteq {"KV"}
  PROVE  Spec => ImplementsService
<1>1. Init => Service!Init
  BY ServiceInit
<1>2. TInv /\ InvStep /\ RcInv /\ [Next]_vars => [Service!Next]_(Service!vars)
  BY ServiceStep
<1>3. Spec => [](TInv /\ InvStep /\ RcInv)
  BY RcInvariance
<1>4. Spec => Service!Init /\ [][Service!Next]_(Service!vars)
  BY <1>1, <1>2, <1>3, PTL DEF Spec
<1> QED
  BY <1>4 DEF ImplementsService, Service!Spec
=============================================================================
