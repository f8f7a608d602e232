--------------------------- MODULE BenchmarkProofs ---------------------------
(***************************************************************************)
(* Proofs about Connect and Benchmark, for any number of threads and any   *)
(* set of other clients: request buffers are posted before a client finds  *)
(* itself connected, clients that leave do not bring the server down but   *)
(* in one way, what main reports is what was done, and a long enough sleep *)
(* keeps the threads apart.                                                *)
(***************************************************************************)
EXTENDS Benchmark, SequenceTheorems, TLAPS

(* The steps of Connect.                                                   *)
ConnNext ==
  \/ Accept
  \/ \E c \in Clients : Connect(c) \/ Connecting(c) \/ Manager(c) \/ Die(c)

(* main has a client while it accepts one, over the transport it is for.   *)
InvCur ==
  /\ apc \in {"prepare", "accept", "established"} => cur \in Clients /\ type = "RC"
  /\ apc \in {"attrs", "qp"} => cur \in Clients /\ OverSocket

(* A client is answered only after its request buffers are posted.         *)
InvPosted ==
  type \in {"RC", "UC"} =>
    /\ \A c \in Clients : cst[c] \in {"told", "connected"} => c \in posted
    /\ apc \in {"accept", "attrs", "qp"} => cur \in posted

(* An event with an error status is that of a client lost on the way, and  *)
(* it stays lost: nobody connects twice.                                   *)
InvLost ==
  /\ \A c \in Clients : cst[c] = "new" => id[c] = "none"
  /\ \A k \in 1..Len(chan) : chan[k].kind = "error" => id[chan[k].of] = "lost"
  /\ CrashOnlyIfLost

ConnInv == ConnTypeOK /\ InvCur /\ InvPosted /\ InvLost

(* Threads are created one after the other.                                *)
InvOff ==
  \A t \in Threads :
    (mpc = "create" /\ t >= i) \/ (mpc = "sleep" /\ t > i) => ipc[t] = "off"

(* The operations of a thread: it stops at its share, unless it fails.     *)
InvShare ==
  \A t \in Threads :
    /\ ipc[t] \in {"off", "created"} => count[t] = 0
    /\ ipc[t] # "returned" => t \notin cut
    /\ (ipc[t] = "started" \/ t \in cut) => count[t] = 0 \/ count[t] < Share
    /\ ipc[t] = "returned" =>
         \/ count[t] = (IF Share = 0 THEN 1 ELSE Share)
         \/ t \in cut \/ cst[t] = "failed"
    /\ (count[t] > 0 \/ t \in cut) => cst[t] \in {"connected", "dead"}

(* What has been joined has returned, and is reported.                     *)
Joined(t) == mpc = "done" \/ (mpc = "join" /\ t < i)
InvReport ==
  \A t \in Threads :
    Joined(t) => ipc[t] = "returned" /\ reported[t] = Counted(t)

IInv == TypeOK /\ ConnInv /\ InvOff /\ InvShare /\ InvReport

(***************************************************************************)
(* When the sleep is long enough and nobody else connects.                 *)
(***************************************************************************)
Calm == prompt /\ Alone

(* The threads that main has slept for, and the one it sleeps for.         *)
Past(t)    == mpc \in {"join", "done"} \/ t < i
Present(t) == mpc = "sleep" /\ t = i

(* Threads connect one after the other: when main goes on to the next, the *)
(* last has its number and its connection.                                 *)
InvTurns ==
  /\ mpc = "sleep" => args = i
  /\ \A t \in Threads :
       /\ cst[t] # "failed" /\ id[t] # "lost"
       /\ cst[t] = "dead" => mpc = "done"
       /\ cst[t] # "new" => ipc[t] \in {"started", "returned"}
       /\ ipc[t] \in {"started", "returned"} => instance_nr[t] = t
       /\ ipc[t] # "off" => Past(t) \/ Present(t)
       /\ Past(t) => /\ ipc[t] # "created" /\ cst[t] \in {"connected", "dead"}
                     /\ type = "RC" => id[t] \in {"established", "gone"}

(* Over RC the server is sent a request and an ESTABLISHED of one thread   *)
(* after the other: how many it has been sent, and how many it has taken.  *)
Stage(t) == IF id[t] = "none" THEN 0
            ELSE IF id[t] \in {"requested", "accepted"} THEN 1 ELSE 2
RcCame   == IF mpc \in {"join", "done"} THEN 2 * N ELSE 2 * i + Stage(i)
RcTook   == 2 * Len(workers) + IF apc = "wait" THEN 0 ELSE 1

(* It takes them in that order.  The threads leave when all have connected.*)
RcOrder ==
  /\ apc \in {"prepare", "accept"} => id[cur] = "requested"
  /\ apc = "established" => id[cur] \notin {"none", "requested"}
  /\ \A k \in 1..Len(chan) :
       \/ chan[k].kind = "disconnected" /\ RcTook + k > 2 * N
       \/ /\ chan[k].kind = "request" /\ chan[k].of \in Threads
          /\ RcTook + k = 2 * chan[k].of + 1
          /\ id[chan[k].of] = "requested"
       \/ /\ chan[k].kind = "established" /\ chan[k].of \in Threads
          /\ RcTook + k = 2 * chan[k].of + 2
  /\ \/ RcTook + Len(chan) = RcCame
     \/ mpc = "done" /\ RcTook + Len(chan) >= 2 * N

(* Over sockets it is sent requests only.  The last thread may leave while *)
(* it is being accepted; over UD it is then left out.                      *)
SocketCame == IF mpc \in {"join", "done"} THEN N
              ELSE i + IF cst[i] = "new" THEN 0 ELSE 1
SocketTook == Len(workers) + IF apc = "wait" THEN 0 ELSE 1
LeftOut    == mpc = "done" /\ chan = <<>> /\ apc = "wait"

SocketOrder ==
  /\ \A k \in 1..Len(chan) : /\ chan[k].kind = "request" /\ chan[k].of \in Threads
                              /\ SocketTook + k = chan[k].of + 1
  /\ SocketTook + Len(chan) = SocketCame \/ LeftOut
  /\ OverSocket => \A t \in Threads :
       cst[t] \in {"told", "connected", "dead"} => t < SocketTook \/ LeftOut

(* The server accepts the threads in order, and is not disturbed.          *)
InvOrder ==
  /\ disturbed = {} /\ apc # "crashed" /\ Len(workers) <= N
  /\ \A k \in 1..Len(workers) : workers[k] = k - 1
  /\ apc # "wait" => cur = Len(workers) /\ cur \in Threads
  /\ type = "RC" => RcOrder
  /\ type # "RC" => SocketOrder

InvCalm == Calm => InvTurns /\ InvOrder

-----------------------------------------------------------------------------
(* A client of the benchmark is a client.                                  *)
LEMMA ThreadsAreClients ==
  /\ Threads \subseteq Clients /\ Others \subseteq Clients /\ None \notin Clients
  /\ N \in Nat /\ N > 0
  BY ThreadsAssumption, ClientsAssumption

LEMMA NextIsConn ==
  ASSUME Next PROVE ConnNext \/ UNCHANGED connVars
  BY ThreadsAreClients
  DEF Next, Main, Create, Awake, Join, Thread, Start, ConnectThread,
      ConnectFailed, Operation, OperationFails, Server, Managed, Come, Other, Go,
      ConnNext

(* The channel is a queue.                                                 *)
LEMMA Queue ==
  ASSUME NEW S, NEW q \in Seq(S)
  PROVE  /\ \A e \in S : /\ Append(q, e) \in Seq(S)
                         /\ Len(Append(q, e)) = Len(q) + 1
                         /\ \A k \in 1..Len(q) : Append(q, e)[k] = q[k]
                         /\ Append(q, e)[Len(q) + 1] = e
         /\ q # <<>> => /\ Tail(q) \in Seq(S) /\ Len(Tail(q)) = Len(q) - 1
                        /\ Head(q) \in S /\ Head(q) = q[1] /\ Len(q) > 0
                        /\ \A k \in 1..Len(Tail(q)) : Tail(q)[k] = q[k + 1]
         /\ Len(q) \in Nat
  OBVIOUS

(* The channel holds events.                                               *)
LEMMA Events ==
  ASSUME ConnTypeOK
  PROVE  /\ chan \in Seq([kind : Kinds, of : Clients]) /\ Len(chan) \in Nat
         /\ \A k \in 1..Len(chan) : chan[k] \in [kind : Kinds, of : Clients]
         /\ chan # <<>> => /\ Head(chan) = chan[1] /\ 1 \in 1..Len(chan)
                           /\ Head(chan).of \in Clients /\ Head(chan).kind \in Kinds
                           /\ Tail(chan) \in Seq([kind : Kinds, of : Clients])
                           /\ Len(Tail(chan)) = Len(chan) - 1
                           /\ \A k \in 1..Len(Tail(chan)) :
                                k + 1 \in 1..Len(chan) /\ Tail(chan)[k] = chan[k + 1]
<1> DEFINE E == [kind : Kinds, of : Clients]
<1>1. chan \in Seq(E)
  BY DEF ConnTypeOK
<1> HIDE DEF E
<1>2. /\ Len(chan) \in Nat /\ \A k \in 1..Len(chan) : chan[k] \in E
      /\ chan # <<>> => /\ Head(chan) = chan[1] /\ Head(chan) \in E /\ Len(chan) > 0
                        /\ Tail(chan) \in Seq(E) /\ Len(Tail(chan)) = Len(chan) - 1
                        /\ \A k \in 1..Len(Tail(chan)) : Tail(chan)[k] = chan[k + 1]
  BY <1>1, Queue
<1>3. chan # <<>> => /\ 1 \in 1..Len(chan)
                     /\ \A k \in 1..Len(Tail(chan)) : k + 1 \in 1..Len(chan)
  BY <1>2
<1> QED
  BY <1>1, <1>2, <1>3 DEF E

(* An event is added to the channel.                                       *)
LEMMA AddEvent ==
  ASSUME ConnTypeOK, NEW kind \in Kinds, NEW c \in Clients,
         chan' = Append(chan, Event(kind, c))
  PROVE  /\ chan' \in Seq([kind : Kinds, of : Clients])
         /\ Len(chan') = Len(chan) + 1 /\ Len(chan) \in Nat
         /\ \A k \in 1..Len(chan') :
              \/ k \in 1..Len(chan) /\ chan'[k] = chan[k]
              \/ /\ k = Len(chan) + 1 /\ chan'[k] = Event(kind, c)
                 /\ chan'[k].kind = kind /\ chan'[k].of = c
<1> DEFINE E == [kind : Kinds, of : Clients]
<1>1. chan \in Seq(E) /\ Event(kind, c) \in E
  BY DEF ConnTypeOK, Event
<1>2. Event(kind, c).kind = kind /\ Event(kind, c).of = c
  BY DEF Event
<1> HIDE DEF E
<1>3. /\ chan' \in Seq(E) /\ Len(chan') = Len(chan) + 1 /\ Len(chan) \in Nat
      /\ \A k \in 1..Len(chan) : chan'[k] = chan[k]
      /\ chan'[Len(chan) + 1] = Event(kind, c)
  BY <1>1, Queue
<1>4. \A k \in 1..Len(chan') : k \in 1..Len(chan) \/ k = Len(chan) + 1
  BY <1>3
<1> QED
  BY <1>2, <1>3, <1>4 DEF E

LEMMA ConnInitInv == ASSUME ConnInit PROVE ConnInv
<1> USE DEF ConnInit, ServerInit
<1>1. chan \in Seq([kind : Kinds, of : Clients]) /\ workers \in Seq(Clients)
      /\ Len(chan) = 0
  OBVIOUS
<1>2. ConnTypeOK
  BY <1>1 DEF ConnTypeOK
<1>3. InvCur /\ InvPosted /\ InvLost
  BY <1>1 DEF InvCur, InvPosted, InvLost, CrashOnlyIfLost
<1> QED
  BY <1>2, <1>3 DEF ConnInv

(* A client begins: its request comes to the server.                       *)
LEMMA ConnectInv ==
  ASSUME ConnInv, NEW c \in Clients, Connect(c) PROVE ConnInv'
<1> USE DEF ConnInv
<1>1. chan' = Append(chan, Event("request", c)) /\ "request" \in Kinds
  BY DEF Connect, RcConnect, SocketConnect, Kinds
<1>2. /\ chan' \in Seq([kind : Kinds, of : Clients])
      /\ \A k \in 1..Len(chan') :
           \/ k \in 1..Len(chan) /\ chan'[k] = chan[k]
           \/ chan'[k].kind = "request"
  BY <1>1, AddEvent
<1>3. ConnTypeOK'
  BY <1>2 DEF Connect, RcConnect, SocketConnect, ConnTypeOK
<1>4. InvCur' /\ InvPosted'
  BY DEF Connect, RcConnect, SocketConnect, InvCur, InvPosted, OverSocket, ConnTypeOK
<1>5. InvLost'
  <2>1. \A d \in Clients : id[d] = "lost" => id'[d] = "lost"
    BY DEF Connect, RcConnect, SocketConnect, ConnTypeOK, InvLost
  <2>2. \A d \in Clients : cst'[d] = "new" => id'[d] = "none"
    BY DEF Connect, RcConnect, SocketConnect, ConnTypeOK, InvLost
  <2>3. \A k \in 1..Len(chan') : chan'[k].kind = "error" => id'[chan'[k].of] = "lost"
    <3> SUFFICES ASSUME NEW k \in 1..Len(chan'), chan'[k].kind = "error"
                 PROVE  id'[chan'[k].of] = "lost"
      OBVIOUS
    <3>1. k \in 1..Len(chan) /\ chan'[k] = chan[k]
      BY <1>2
    <3>2. id[chan[k].of] = "lost" /\ chan[k].of \in Clients
      BY <3>1, Events DEF InvLost
    <3> QED
      BY <2>1, <3>1, <3>2
  <2>4. CrashOnlyIfLost'
    BY <2>1 DEF Connect, RcConnect, SocketConnect, InvLost, CrashOnlyIfLost
  <2> QED
    BY <2>2, <2>3, <2>4 DEF InvLost
<1> QED
  BY <1>3, <1>4, <1>5

(* It goes on, fails or goes away.                                         *)
LEMMA ConnectingInv ==
  ASSUME ConnInv, NEW c \in Clients, Connecting(c) \/ Die(c) PROVE ConnInv'
<1> USE DEF ConnInv
<1>1. UNCHANGED <<type, accepting, id>>
  BY DEF Connecting, RcConnected, RcUnreachable, WriteAttrs, SocketConnected, Die
<1>2. cst' \in [Clients -> {"new", "writing", "connecting", "told", "connected",
                            "failed", "dead"}]
  BY DEF Connecting, RcConnected, RcUnreachable, WriteAttrs, SocketConnected, Die,
         ConnTypeOK
<1>0. \A d \in Clients : /\ cst'[d] = "new" => cst[d] = "new"
                         /\ cst'[d] \in {"told", "connected"} =>
                              cst[d] \in {"told", "connected"}
  BY DEF Connecting, RcConnected, RcUnreachable, WriteAttrs, SocketConnected, Die,
         ConnTypeOK
<1>3. ConnTypeOK'
  BY <1>1, <1>2 DEF accepting, ConnTypeOK
<1>5. InvCur'
  BY <1>1 DEF accepting, InvCur, OverSocket
<1>6. InvPosted'
  BY <1>0, <1>1 DEF accepting, InvPosted
<1>4. InvLost'
  BY <1>0, <1>1 DEF accepting, InvLost, CrashOnlyIfLost
<1> QED
  BY <1>3, <1>4, <1>5, <1>6

(* The connection manager reports a connection, or the loss of one.        *)
LEMMA ManagerInv ==
  ASSUME ConnInv, NEW c \in Clients, Manager(c) PROVE ConnInv'
<1> USE DEF ConnInv
<1>1. /\ UNCHANGED <<type, apc, cur, posted, workers, disturbed, cst>>
      /\ \E e \in {"established", "gone", "lost"} : id' = [id EXCEPT ![c] = e]
      /\ id[c] # "lost" /\ cst[c] # "new"
  BY DEF Manager, Establish, Depart, ConnTypeOK
<1>2. PICK kind \in Kinds : /\ chan' = Append(chan, Event(kind, c))
                            /\ kind = "error" => id'[c] = "lost"
  BY DEF Manager, Establish, Depart, ConnTypeOK, Kinds
<1>3. /\ chan' \in Seq([kind : Kinds, of : Clients])
      /\ \A k \in 1..Len(chan') :
           \/ k \in 1..Len(chan) /\ chan'[k] = chan[k]
           \/ chan'[k].kind = kind /\ chan'[k].of = c
  BY <1>2, AddEvent
<1>4. ConnTypeOK' /\ InvCur' /\ InvPosted'
  BY <1>1, <1>3 DEF ConnTypeOK, InvCur, InvPosted, OverSocket
<1>5. \A d \in Clients : /\ id[d] = "lost" => id'[d] = "lost"
                         /\ cst'[d] = "new" => id'[d] = "none"
  BY <1>1 DEF ConnTypeOK, InvLost
<1>6. \A k \in 1..Len(chan') : chan'[k].kind = "error" => id'[chan'[k].of] = "lost"
  <2> SUFFICES ASSUME NEW k \in 1..Len(chan'), chan'[k].kind = "error"
               PROVE  id'[chan'[k].of] = "lost"
    OBVIOUS
  <2>1. CASE k \in 1..Len(chan) /\ chan'[k] = chan[k]
    BY <1>5, <2>1, Events DEF InvLost
  <2>2. CASE chan'[k].kind = kind /\ chan'[k].of = c
    BY <1>2, <2>2
  <2> QED
    BY <1>3, <2>1, <2>2
<1>7. CrashOnlyIfLost'
  BY <1>1, <1>5 DEF InvLost, CrashOnlyIfLost
<1> QED
  BY <1>4, <1>5, <1>6, <1>7 DEF InvLost

(* The accept loop takes an event.                                         *)
LEMMA TakeInv ==
  ASSUME ConnInv, chan # <<>>, chan' = Tail(chan), UNCHANGED id
  PROVE  /\ \A k \in 1..Len(chan') : chan'[k].kind = "error" => id'[chan'[k].of] = "lost"
         /\ chan' \in Seq([kind : Kinds, of : Clients])
         /\ Head(chan).of \in Clients
         /\ Head(chan).kind = "error" => \E c \in Clients : id[c] = "lost"
<1> USE DEF ConnInv
<1>1. \A k \in 1..Len(chan') : k + 1 \in 1..Len(chan) /\ chan'[k] = chan[k + 1]
  BY Events
<1> QED
  BY <1>1, Events DEF InvLost

LEMMA RcWaitInv == ASSUME ConnInv, RcWait PROVE ConnInv'
<1> USE DEF ConnInv
<1>1. chan # <<>> /\ chan' = Tail(chan)
      /\ UNCHANGED <<type, posted, workers, disturbed, id, cst>>
      /\ type = "RC"
  BY DEF RcWait
<1>2. \/ cur' = Head(chan).of /\ apc' = "prepare"
      \/ apc' = "wait" /\ cur' = None
      \/ Head(chan).kind = "error" /\ apc' = "crashed" /\ cur' = cur
  BY DEF RcWait, Again
<1>3. ConnTypeOK'
  BY <1>1, <1>2, TakeInv DEF ConnTypeOK
<1>4. InvCur' /\ InvPosted'
  BY <1>1, <1>2, TakeInv DEF InvCur, InvPosted
<1>5. CrashOnlyIfLost'
  BY <1>1, <1>2, TakeInv DEF CrashOnlyIfLost
<1>6. InvLost'
  BY <1>1, <1>5, TakeInv DEF InvLost
<1> QED
  BY <1>3, <1>4, <1>6

LEMMA RcPostInv == ASSUME ConnInv, RcPost PROVE ConnInv'
<1> USE DEF ConnInv
<1>1. /\ cur \in Clients /\ posted' = posted \cup {cur} /\ type = "RC"
      /\ apc' = "accept" /\ apc = "prepare"
      /\ UNCHANGED <<type, chan, cur, workers, disturbed, id, cst>>
  BY DEF RcPost, InvCur
<1>2. ConnTypeOK' /\ InvCur' /\ InvPosted'
  BY <1>1 DEF ConnTypeOK, InvCur, InvPosted
<1>3. InvLost'
  BY <1>1 DEF InvLost, CrashOnlyIfLost
<1> QED
  BY <1>2, <1>3

LEMMA RcAcceptInv == ASSUME ConnInv, RcAccept PROVE ConnInv'
<1> USE DEF ConnInv
<1>1. cur \in Clients /\ cur \in posted /\ type = "RC"
      /\ UNCHANGED <<type, chan, posted, workers, disturbed>>
  BY DEF RcAccept, InvCur, InvPosted
<1>2. CASE id[cur] = "lost"
  <2>1. apc' = "wait" /\ cur' = None /\ UNCHANGED <<id, cst>>
    BY <1>2 DEF RcAccept, Again
  <2>2. ConnTypeOK' /\ InvCur' /\ InvPosted'
    BY <1>1, <2>1 DEF ConnTypeOK, InvCur, InvPosted
  <2>3. InvLost'
    BY <1>1, <2>1 DEF InvLost, CrashOnlyIfLost
  <2> QED
    BY <2>2, <2>3
<1>3. CASE id[cur] # "lost"
  <2>1. /\ id[cur] = "requested" /\ id' = [id EXCEPT ![cur] = "accepted"]
        /\ cst' = [cst EXCEPT ![cur] = IF @ = "connecting" THEN "told" ELSE @]
        /\ apc' = "established" /\ cur' = cur
    BY <1>3 DEF RcAccept, Answer
  <2>2. ConnTypeOK'
    BY <1>1, <2>1 DEF ConnTypeOK
  <2>3. InvCur' /\ InvPosted'
    BY <1>1, <2>1 DEF InvCur, InvPosted, ConnTypeOK
  <2>4. \A c \in Clients : /\ id[c] = "lost" => id'[c] = "lost"
                           /\ cst'[c] = "new" => id'[c] = "none"
    BY <1>1, <2>1 DEF InvLost, ConnTypeOK
  <2>5. \A k \in 1..Len(chan) : chan[k].of \in Clients
    BY Events
  <2>6. InvLost'
    BY <1>1, <2>1, <2>4, <2>5 DEF InvLost, CrashOnlyIfLost
  <2> QED
    BY <2>2, <2>3, <2>6
<1> QED
  BY <1>2, <1>3

(* The other steps of the accept loop, which only start workers, post      *)
(* buffers and answer.                                                     *)
LEMMA AcceptInv == ASSUME ConnInv, Accept PROVE ConnInv'
<1> USE DEF ConnInv
<1>0. \A c \in Clients : Append(workers, c) \in Seq(Clients)
  BY DEF ConnTypeOK
<1>1. CASE RcEstablished
  <2>1. /\ chan # <<>> /\ chan' = Tail(chan) /\ apc' = "wait" /\ cur' = None
        /\ UNCHANGED <<type, posted, id, cst>> /\ cur \in Clients
        /\ workers' \in {workers, Append(workers, cur)}
        /\ disturbed' \in {disturbed, disturbed \cup {cur}}
    BY <1>1 DEF RcEstablished, StartWorker, Again, InvCur
  <2>2. ConnTypeOK'
    BY <1>0, <2>1, TakeInv DEF ConnTypeOK
  <2>3. InvCur' /\ InvPosted'
    BY <2>1 DEF InvCur, InvPosted
  <2>4. InvLost'
    BY <2>1, TakeInv DEF InvLost, CrashOnlyIfLost
  <2> QED
    BY <2>2, <2>3, <2>4
<1>2. CASE TcpAccept
  <2>1. /\ chan # <<>> /\ chan' = Tail(chan) /\ workers' = Append(workers, Head(chan).of)
        /\ UNCHANGED <<type, apc, cur, posted, disturbed, id, cst>>
    BY <1>2 DEF TcpAccept
  <2>2. ConnTypeOK'
    BY <1>0, <2>1, TakeInv DEF ConnTypeOK
  <2>3. InvCur' /\ InvPosted'
    BY <2>1 DEF InvCur, InvPosted, OverSocket
  <2>4. InvLost'
    BY <2>1, TakeInv DEF InvLost, CrashOnlyIfLost
  <2> QED
    BY <2>2, <2>3, <2>4
<1>3. CASE SocketAccept
  <2>1. /\ chan # <<>> /\ chan' = Tail(chan) /\ cur' = Head(chan).of /\ apc' = "attrs"
        /\ posted' = posted \cup {Head(chan).of} /\ OverSocket
        /\ UNCHANGED <<type, workers, disturbed, id, cst>>
    BY <1>3 DEF SocketAccept
  <2>2. ConnTypeOK'
    BY <2>1, TakeInv DEF ConnTypeOK
  <2>3. InvCur' /\ InvPosted'
    BY <2>1, TakeInv DEF InvCur, InvPosted, OverSocket
  <2>4. InvLost'
    BY <2>1, TakeInv DEF InvLost, CrashOnlyIfLost
  <2> QED
    BY <2>2, <2>3, <2>4
<1>4. CASE SwapAttrs
  <2>1. /\ cst' = [cst EXCEPT ![cur] = IF @ = "connecting" THEN "told" ELSE @]
        /\ apc = "attrs" /\ apc' = "qp" /\ OverSocket /\ cur \in Clients
        /\ UNCHANGED <<type, chan, cur, posted, workers, disturbed, id>>
    BY <1>4 DEF SwapAttrs, Answer, InvCur
  <2>2. ConnTypeOK'
    BY <2>1 DEF ConnTypeOK
  <2>3. InvCur' /\ InvPosted'
    BY <2>1 DEF InvCur, InvPosted, OverSocket, ConnTypeOK
  <2>4. \A c \in Clients : cst'[c] = "new" => cst[c] = "new"
    BY <2>1 DEF ConnTypeOK
  <2>5. InvLost'
    BY <2>1, <2>4 DEF InvLost, CrashOnlyIfLost
  <2> QED
    BY <2>2, <2>3, <2>5
<1>5. CASE SocketFinish
  <2>1. /\ apc' = "wait" /\ cur' = None /\ cur \in Clients
        /\ workers' \in {workers, Append(workers, cur)}
        /\ UNCHANGED <<type, chan, posted, disturbed, id, cst>>
    BY <1>5 DEF SocketFinish, StartWorker, Again, InvCur
  <2>2. ConnTypeOK'
    BY <1>0, <2>1 DEF ConnTypeOK
  <2>3. InvCur' /\ InvPosted' /\ InvLost'
    BY <2>1 DEF InvCur, InvPosted, InvLost, CrashOnlyIfLost
  <2> QED
    BY <2>2, <2>3
<1> QED
  BY <1>1, <1>2, <1>3, <1>4, <1>5, RcWaitInv, RcPostInv, RcAcceptInv DEF Accept

(* Connecting and accepting clients keeps the invariant, whoever they are. *)
LEMMA ConnNextInv == ConnInv /\ [ConnNext]_connVars => ConnInv'
<1>1. ASSUME ConnInv, UNCHANGED connVars PROVE ConnInv'
  <2> USE <1>1 DEF connVars, accepting, ConnInv
  <2>1. ConnTypeOK'
    BY DEF ConnTypeOK
  <2>2. InvCur' /\ InvPosted' /\ InvLost'
    BY DEF InvCur, InvPosted, InvLost, CrashOnlyIfLost, OverSocket
  <2> QED
    BY <2>1, <2>2
<1> QED
  BY <1>1, ConnectInv, ConnectingInv, ManagerInv, AcceptInv DEF ConnNext

-----------------------------------------------------------------------------
(* The share of a thread is a number of operations.                        *)
LEMMA ShareType == ASSUME TypeOK PROVE Share \in Nat
<1>1. num_ops \in Nat /\ N \in Nat /\ N > 0
  BY OthersAssumption, ThreadsAssumption DEF TypeOK
<1> QED
  BY <1>1 DEF Share

LEMMA CountedType ==
  ASSUME TypeOK, NEW t \in Threads PROVE Counted(t) \in Nat
  BY ShareType DEF TypeOK, Counted

(* The steps of the threads of the benchmark leave alone what they do not  *)
(* name.                                                                   *)
LEMMA InitIInv == Init => IInv
<1> SUFFICES ASSUME Init PROVE IInv
  OBVIOUS
<1>1. ConnInv
  BY ConnInitInv DEF Init
<1>2. TypeOK
  BY <1>1, ThreadsAreClients DEF Init, TypeOK, Threads, ConnInv
<1>3. InvOff /\ InvShare /\ InvReport
  BY DEF Init, InvOff, InvShare, InvReport, Joined
<1> QED
  BY <1>1, <1>2, <1>3 DEF IInv

(* What main and the threads do to the types.                              *)
LEMMA TypeStep == ASSUME IInv, [Next]_vars PROVE TypeOK'
<1> USE DEF IInv
<1>1. ConnInv'
  BY NextIsConn, ConnNextInv DEF vars
<1>2. ConnTypeOK' /\ N \in Nat /\ N > 0
  BY <1>1, ThreadsAreClients DEF ConnInv
<1>0. num_ops' \in NumOps /\ prompt' \in Sleeps
  <2>1. num_ops' = num_ops /\ prompt' = prompt
    BY DEF Next, Main, Create, Awake, Join, Thread, Start, ConnectThread,
      ConnectFailed, Operation, OperationFails, Server, Managed, Come, Other, Go,
      vars, options
  <2> QED
    BY <2>1, Zenon DEF TypeOK
<1>3. CASE UNCHANGED <<options, main, instances>>
  BY <1>0, <1>2, <1>3 DEF TypeOK, main, instances
<1>4. CASE Create
  BY <1>0, <1>2, <1>4 DEF Create, TypeOK
<1>5. CASE Awake \/ Join
  <2>1. i' \in Threads /\ mpc' \in {"create", "join", "done"}
    BY <1>2, <1>5 DEF Awake, Join, TypeOK, Threads
  <2>2. reported' \in [Threads -> Nat]
    BY <1>5, CountedType DEF Awake, Join, TypeOK
  <2> QED
    BY <1>0, <1>2, <1>5, <2>1, <2>2 DEF Awake, Join, TypeOK, instances
<1>6. ASSUME NEW t \in Threads, Thread(t) PROVE TypeOK'
  <2>1. CASE Start(t)
    <3>1. PICK nr \in {args, N} : instance_nr' = [instance_nr EXCEPT ![t] = nr]
      BY <2>1 DEF Start
    <3>2. nr \in 0 .. N
      BY <1>2 DEF TypeOK, Threads
    <3> QED
      BY <1>2, <2>1, <3>1, <3>2 DEF Start, TypeOK, options, main
  <2>2. CASE ConnectThread(t)
    BY <1>3, <2>2 DEF ConnectThread
  <2>3. CASE ConnectFailed(t) \/ Operation(t) \/ OperationFails(t)
    BY <1>2, <2>3 DEF ConnectFailed, Operation, OperationFails, TypeOK, options, main
  <2> QED
    BY <1>6, <2>1, <2>2, <2>3 DEF Thread
<1> QED
  BY <1>3, <1>4, <1>5, <1>6
  DEF Next, Main, Server, Managed, Come, Other, Go, vars

(* A client that has failed to connect stays so.                           *)
LEMMA FailedStays ==
  ASSUME ConnInv, ConnNext, NEW c \in Clients, cst[c] = "failed"
  PROVE  cst'[c] = "failed"
<1> USE DEF ConnInv, ConnTypeOK
<1>1. CASE Accept
  BY <1>1 DEF Accept, RcWait, RcPost, RcAccept, RcEstablished, TcpAccept, SocketAccept,
              SwapAttrs, SocketFinish, Answer, InvCur
<1>2. ASSUME NEW d \in Clients, Connect(d) \/ Connecting(d) \/ Manager(d) \/ Die(d)
      PROVE  cst'[c] = "failed"
  BY <1>2 DEF Connect, RcConnect, SocketConnect, Connecting, RcConnected,
              RcUnreachable, WriteAttrs, SocketConnected, Manager, Establish, Depart, Die
<1> QED
  BY <1>1, <1>2 DEF ConnNext

(* One that has connected stays so, until it goes.                         *)
LEMMA ConnectedStays ==
  ASSUME ConnInv, ConnNext, NEW c \in Clients, cst[c] \in {"connected", "dead"}
  PROVE  cst'[c] \in {"connected", "dead"}
<1> USE DEF ConnInv, ConnTypeOK
<1>1. CASE Accept
  BY <1>1 DEF Accept, RcWait, RcPost, RcAccept, RcEstablished, TcpAccept, SocketAccept,
              SwapAttrs, SocketFinish, Answer, InvCur
<1>2. ASSUME NEW d \in Clients, Connect(d) \/ Connecting(d) \/ Manager(d) \/ Die(d)
      PROVE  cst'[c] \in {"connected", "dead"}
  BY <1>2 DEF Connect, RcConnect, SocketConnect, Connecting, RcConnected,
              RcUnreachable, WriteAttrs, SocketConnected, Manager, Establish, Depart, Die
<1> QED
  BY <1>1, <1>2 DEF ConnNext

(* The steps of connections do not concern what the threads have counted.  *)
LEMMA QuietStep ==
  ASSUME IInv, UNCHANGED <<options, main, instances>>,
         \A t \in Threads :
           /\ cst[t] = "failed" => cst'[t] = "failed"
           /\ cst[t] \in {"connected", "dead"} => cst'[t] \in {"connected", "dead"}
  PROVE  InvOff' /\ InvShare' /\ InvReport'
<1> USE DEF options, main, instances, IInv
<1>1. Share' = Share /\ \A t \in Threads : Counted(t)' = Counted(t)
  BY DEF Share, Counted
<1>2. InvOff' /\ InvShare'
  BY <1>1 DEF InvOff, InvShare
<1>3. InvReport'
  BY <1>1 DEF InvReport, Joined
<1> QED
  BY <1>2, <1>3

(* main creates the threads, sleeps and joins them in order.               *)
LEMMA MainStep == ASSUME IInv, Main PROVE InvOff' /\ InvShare' /\ InvReport'
<1> USE DEF IInv
<1>1. /\ UNCHANGED <<connVars, options, instance_nr, count, cut>> /\ cst' = cst
      /\ Share' = Share /\ i \in Int /\ \A t \in Threads : t \in Int
  BY ThreadsAreClients
  DEF Main, Create, Awake, Join, Share, options, instances, connVars, TypeOK, Threads
<1>2. \A t \in Threads : Counted(t)' = Counted(t)
  BY <1>1 DEF Counted
<1>3. CASE Create
  <2>1. InvReport'
    BY <1>3 DEF Create, Joined, InvReport
  <2>2. InvOff' /\ InvShare'
    BY <1>1, <1>3 DEF Create, InvOff, InvShare, TypeOK
  <2> QED
    BY <2>1, <2>2
<1>4. CASE Awake
  <2>1. InvOff' /\ InvShare'
    BY <1>1, <1>4 DEF Awake, InvOff, InvShare, instances
  <2>2. \A t \in Threads : ~Joined(t)'
    BY <1>1, <1>4 DEF Awake, Joined, Threads
  <2> QED
    BY <2>1, <2>2 DEF InvReport
<1>5. CASE Join
  <2>1. InvOff' /\ InvShare'
    BY <1>1, <1>5 DEF Join, InvOff, InvShare, instances
  <2>2. /\ ipc[i] = "returned" /\ ipc' = ipc /\ mpc = "join"
        /\ reported' = [reported EXCEPT ![i] = Counted(i)]
    BY <1>5 DEF Join, instances
  <2>3. \A t \in Threads : Joined(t)' => Joined(t) \/ t = i
    BY <1>1, <1>5, ThreadsAreClients DEF Join, Joined, Threads
  <2>4. InvReport'
    BY <1>2, <2>2, <2>3 DEF InvReport, TypeOK
  <2> QED
    BY <2>1, <2>4
<1> QED
  BY <1>3, <1>4, <1>5 DEF Main

(* A thread does its share of operations, and nothing after it returned.   *)
LEMMA ThreadStep ==
  ASSUME IInv, NEW t \in Threads, Thread(t), ~ConnectThread(t)
  PROVE  InvOff' /\ InvShare' /\ InvReport'
<1> USE DEF IInv
<1>1. /\ UNCHANGED <<connVars, options, main>> /\ cst' = cst /\ Share' = Share
      /\ Share \in Nat /\ mpc' = mpc /\ i' = i /\ reported' = reported
  BY ShareType DEF Thread, Start, ConnectFailed, Operation, OperationFails,
      connVars, options, main, Share
<1>2. /\ ipc[t] \in {"created", "started"} /\ ipc'[t] \in {"started", "returned"}
      /\ \A u \in Threads : u # t => /\ ipc'[u] = ipc[u] /\ count'[u] = count[u]
                                     /\ (u \in cut' <=> u \in cut)
  BY DEF Thread, Start, ConnectFailed, Operation, OperationFails, TypeOK
<1>3. InvOff'
  BY <1>1, <1>2 DEF InvOff
<1>4. InvReport'
  <2>1. ~Joined(t) /\ \A u \in Threads : Joined(u)' = Joined(u)
    BY <1>1, <1>2 DEF InvReport, Joined
  <2>2. \A u \in Threads : u # t => Counted(u)' = Counted(u)
    BY <1>1, <1>2 DEF Counted
  <2> QED
    BY <1>1, <1>2, <2>1, <2>2 DEF InvReport
<1>5. InvShare'
  <2>1. CASE Start(t)
    BY <1>1, <2>1 DEF Start, InvShare, TypeOK
  <2>2. CASE ConnectFailed(t)
    BY <1>1, <2>2 DEF ConnectFailed, InvShare, TypeOK
  <2>3. CASE Operation(t)
    BY <1>1, <2>3 DEF Operation, InvShare, TypeOK
  <2>4. CASE OperationFails(t)
    BY <1>1, <2>4 DEF OperationFails, InvShare, TypeOK
  <2> QED
    BY <2>1, <2>2, <2>3, <2>4 DEF Thread
<1> QED
  BY <1>3, <1>4, <1>5

LEMMA NextIInv == IInv /\ [Next]_vars => IInv'
<1> SUFFICES ASSUME IInv, [Next]_vars PROVE IInv'
  OBVIOUS
<1> USE DEF IInv
<1>1. ConnInv'
  BY NextIsConn, ConnNextInv DEF vars
<1>2. \A t \in Threads :
        /\ cst[t] = "failed" => cst'[t] = "failed"
        /\ cst[t] \in {"connected", "dead"} => cst'[t] \in {"connected", "dead"}
  BY NextIsConn, FailedStays, ConnectedStays, ThreadsAreClients DEF connVars, vars
<1>3. InvOff' /\ InvShare' /\ InvReport'
  <2>1. CASE UNCHANGED <<options, main, instances>>
    BY <1>2, <2>1, QuietStep
  <2> QED
    BY <2>1, MainStep, ThreadStep
    DEF Next, ConnectThread, Server, Managed, Come, Other, Go, vars
<1> QED
  BY <1>1, <1>3, TypeStep

-----------------------------------------------------------------------------
(* The inductive invariant holds in every state of every behaviour.        *)
THEOREM Invariance == Spec => []IInv
  BY InitIInv, NextIInv, PTL DEF Spec

(* The variables of the server's accept loop, the connection manager, the  *)
(* clients and the benchmark have their types.                             *)
THEOREM TypeCorrect == Spec => []TypeOK
<1>1. IInv => TypeOK
  BY DEF IInv
<1> QED
  BY <1>1, Invariance, PTL

(* rc_accept_new_connection and uc_accept_new_connection post the request  *)
(* buffers before a client can find itself connected, however many clients *)
(* connect at once and whatever events are dropped.                        *)
THEOREM BuffersPostedFirst == Spec => []BuffersFirst
<1>1. IInv => BuffersFirst
  BY DEF IInv, ConnInv, InvPosted, BuffersFirst
<1> QED
  BY <1>1, Invariance, PTL

(* The server is brought down only after a client went away before its     *)
(* connection was established.                                             *)
THEOREM CrashNeedsLoss == Spec => []CrashOnlyIfLost
<1>1. IInv => CrashOnlyIfLost
  BY DEF IInv, ConnInv, InvLost
<1> QED
  BY <1>1, Invariance, PTL

(* What main of benchmark.c reports of each thread is what it did, for any *)
(* number of operations and of threads and wherever one of them fails.     *)
THEOREM ReportTrue == Spec => []ReportExact
<1>1. IInv => ReportExact
  <2> SUFFICES ASSUME IInv, mpc = "done", NEW t \in Threads
               PROVE  /\ reported[t] = IF Share = 0 THEN 0
                                       ELSE count[t] + (IF t \in cut THEN 1 ELSE 0)
                      /\ IF cst[t] = "failed" THEN count[t] = 0
                         ELSE t \notin cut => count[t] = (IF Share = 0 THEN 1 ELSE Share)
    BY DEF ReportExact
  <2>1. /\ ipc[t] = "returned" /\ reported[t] = Counted(t)
        /\ count[t] \in Nat /\ Share \in Nat
    BY ShareType DEF IInv, InvReport, Joined, TypeOK
  <2>2. /\ t \in cut => count[t] = 0 \/ count[t] < Share
        /\ \/ count[t] = (IF Share = 0 THEN 1 ELSE Share)
           \/ t \in cut \/ cst[t] = "failed"
        /\ cst[t] = "failed" => count[t] = 0 /\ t \notin cut
    BY <2>1 DEF IInv, InvShare
  <2>3. reported[t] = IF Share = 0 THEN 0 ELSE count[t] + (IF t \in cut THEN 1 ELSE 0)
    <3>1. CASE t \in cut
      BY <2>1, <2>2, <3>1 DEF Counted
    <3>2. CASE t \notin cut
      BY <2>1, <2>2, <3>2 DEF Counted
    <3> QED
      BY <3>1, <3>2
  <2> QED
    BY <2>2, <2>3
<1> QED
  BY <1>1, Invariance, PTL

-----------------------------------------------------------------------------
(* The numbers in which the order of the threads is stated.                *)
LEMMA Numbers ==
  ASSUME IInv
  PROVE  /\ N \in Nat /\ N > 0 /\ i \in Nat /\ i < N /\ i \in Threads
         /\ Len(workers) \in Nat /\ Len(chan) \in Nat
         /\ \A t \in Threads : t \in Nat /\ t < N
         /\ \A n \in Nat : n < N => n \in Threads
         /\ Threads \subseteq Clients
<1>1. N \in Nat /\ N > 0 /\ i \in Threads /\ Threads \subseteq Clients
  BY ThreadsAreClients DEF IInv, TypeOK
<1>2. Len(workers) \in Nat /\ Len(chan) \in Nat
  BY DEF IInv, ConnInv, ConnTypeOK
<1>3. /\ \A t \in Threads : t \in Nat /\ t < N
      /\ \A n \in Nat : n < N => n \in Threads
  BY <1>1 DEF Threads
<1> QED
  BY <1>1, <1>2, <1>3

(* A thread that main has not slept for is the one it sleeps for, or has   *)
(* done nothing yet.                                                       *)
LEMMA Turns ==
  ASSUME IInv, InvTurns, NEW t \in Threads
  PROVE  /\ cst[t] # "new" => ipc[t] \in {"started", "returned"}
         /\ (ipc[t] # "off" /\ ~Past(t)) => mpc = "sleep" /\ t = i
         /\ ipc[t] = "off" => cst[t] = "new"
         /\ cst[t] = "new" => id[t] = "none" /\ ~Past(t)
         /\ (type = "RC" /\ Past(t)) => id[t] \in {"established", "gone"}
         /\ cst[t] = "dead" => mpc = "done" /\ Past(t)
<1>1. cst[t] = "new" => id[t] = "none"
  BY ThreadsAreClients DEF IInv, ConnInv, InvLost
<1> QED
  BY <1>1 DEF InvTurns, Past, Present

(* main goes on when the connection it slept for is established.           *)
LEMMA CalmMain ==
  ASSUME IInv, InvTurns, InvOrder, prompt, Main
  PROVE  InvTurns' /\ InvOrder'
<1>1. /\ UNCHANGED <<connVars, instance_nr>>
      /\ UNCHANGED <<type, chan, apc, cur, posted, workers, disturbed, id, cst>>
  BY DEF Main, Create, Awake, Join, connVars, accepting, instances
<1>2. CASE Create
  <2>0. i' = i /\ args' = i /\ mpc = "create" /\ mpc' = "sleep"
        /\ ipc' = [ipc EXCEPT ![i] = "created"]
    BY <1>2 DEF Create
  <2>1. /\ i' = i /\ args' = i /\ mpc = "create" /\ mpc' = "sleep"
        /\ ipc' = [ipc EXCEPT ![i] = "created"] /\ ipc[i] = "off"
        /\ ipc \in [Threads -> {"off", "created", "started", "returned"}]
    <3>1. i \in Threads /\ i >= i
      BY Numbers
    <3> QED
      BY <2>0, <3>1 DEF IInv, InvOff, TypeOK
  <2>2. \A t \in Threads : (Past(t)' <=> Past(t)) /\ (Past(t) => t # i)
    BY <2>1, Numbers DEF Past
  <2>3. InvTurns'
    BY <1>1, <2>1, <2>2 DEF InvTurns, Present
  <2>4. RcCame' = RcCame /\ RcTook' = RcTook /\ SocketCame' = SocketCame
        /\ SocketTook' = SocketTook /\ ~LeftOut /\ ~LeftOut' /\ OverSocket' = OverSocket
    BY <1>1, <2>1 DEF RcCame, RcTook, SocketCame, SocketTook, LeftOut, Stage, OverSocket
  <2>5. InvOrder'
    BY <1>1, <2>1, <2>4 DEF InvOrder, RcOrder, SocketOrder
  <2> QED
    BY <2>3, <2>5
<1>3. CASE Awake
  <2>1. /\ mpc = "sleep" /\ args' = args /\ ipc' = ipc
        /\ \/ i < N - 1 /\ i' = i + 1 /\ mpc' = "create"
           \/ i = N - 1 /\ i' = 0 /\ mpc' = "join"
    BY <1>3 DEF Awake, instances
  <2>2. cst[i] = "connected" /\ (type = "RC" => id[i] = "established")
    BY <1>3, Numbers DEF Awake, Settled, InvTurns
  <2>3. \A t \in Threads : Past(t)' <=> Past(t) \/ t = i
    BY <2>1, Numbers DEF Past
  <2>4. InvTurns'
    BY <1>1, <2>1, <2>2, <2>3, Numbers DEF InvTurns, Present
  <2>5. i < N - 1 => /\ i + 1 \in Threads /\ cst[i + 1] = "new" /\ id[i + 1] = "none"
    <3> SUFFICES ASSUME i < N - 1
                 PROVE  i + 1 \in Threads /\ cst[i + 1] = "new" /\ id[i + 1] = "none"
      OBVIOUS
    <3>1. i + 1 \in Threads /\ i + 1 > i
      BY Numbers
    <3>2. ipc[i + 1] = "off"
      BY <2>1, <3>1 DEF IInv, InvOff
    <3> QED
      BY <3>1, <3>2, Turns
  <2>6. /\ type = "RC" => RcCame' = RcCame
        /\ SocketCame' = SocketCame
    BY <1>1, <2>1, <2>2, <2>5, Numbers DEF RcCame, SocketCame, Stage
  <2>7. RcTook' = RcTook /\ SocketTook' = SocketTook
        /\ ~LeftOut /\ ~LeftOut' /\ OverSocket' = OverSocket
    BY <1>1, <2>1 DEF RcTook, SocketTook, LeftOut, OverSocket
  <2>8. InvOrder'
    BY <1>1, <2>1, <2>6, <2>7 DEF InvOrder, RcOrder, SocketOrder
  <2> QED
    BY <2>4, <2>8
<1>4. CASE Join
  <2>1. /\ mpc = "join" /\ mpc' \in {"join", "done"} /\ ipc' = ipc
    BY <1>4 DEF Join, instances
  <2>2. \A t \in Threads : Past(t)' /\ Past(t)
    BY <2>1 DEF Past
  <2>3. InvTurns'
    BY <1>1, <2>1, <2>2 DEF InvTurns, Present
  <2>4. RcCame' = RcCame /\ RcTook' = RcTook /\ SocketCame' = SocketCame
        /\ SocketTook' = SocketTook /\ ~LeftOut /\ OverSocket' = OverSocket
    BY <1>1, <2>1 DEF RcCame, RcTook, SocketCame, SocketTook, LeftOut, OverSocket
  <2>5. InvOrder'
    BY <1>1, <2>1, <2>4 DEF InvOrder, RcOrder, SocketOrder
  <2> QED
    BY <2>3, <2>5
<1> QED
  BY <1>2, <1>3, <1>4 DEF Main

(* A thread reads its number while main sleeps for it.  Operations change  *)
(* nothing here.                                                           *)
LEMMA CalmThread ==
  ASSUME IInv, InvTurns, InvOrder, NEW t \in Threads, Thread(t), ~ConnectThread(t)
  PROVE  InvTurns' /\ InvOrder'
<1>1. /\ UNCHANGED <<connVars, main>>
      /\ UNCHANGED <<type, chan, apc, cur, posted, workers, disturbed, id, cst>>
      /\ UNCHANGED <<mpc, i, args>>
  BY DEF Thread, Start, ConnectFailed, Operation, OperationFails, connVars,
         accepting, main
<1>2. \A u \in Threads : (Past(u)' <=> Past(u)) /\ (Present(u)' <=> Present(u))
  BY <1>1 DEF Past, Present
<1>3. ASSUME Start(t) PROVE InvTurns'
  <2>1. ~Past(t) /\ mpc = "sleep" /\ t = i /\ args = t
    BY <1>3, Turns DEF Start, InvTurns, Past
  <2>2. /\ ipc' = [ipc EXCEPT ![t] = "started"]
        /\ instance_nr' = [instance_nr EXCEPT ![t] = t]
    BY <1>3, <2>1 DEF Start
  <2>3. /\ ipc \in [Threads -> {"off", "created", "started", "returned"}]
        /\ instance_nr \in [Threads -> 0 .. N \cup {None}]
    BY DEF IInv, TypeOK
  <2> QED
    BY <1>1, <1>2, <2>1, <2>2, <2>3 DEF InvTurns, Present
<1>4. ASSUME ~Start(t) PROVE InvTurns'
  <2>1. /\ ipc' = [ipc EXCEPT ![t] = ipc'[t]] /\ ipc'[t] \in {"started", "returned"}
        /\ ipc[t] = "started" /\ instance_nr' = instance_nr
    BY <1>4 DEF Thread, ConnectFailed, Operation, OperationFails, IInv, TypeOK
  <2>2. ipc \in [Threads -> {"off", "created", "started", "returned"}]
    BY DEF IInv, TypeOK
  <2> QED
    BY <1>1, <1>2, <2>1, <2>2 DEF InvTurns, Present
<1>5. RcCame' = RcCame /\ RcTook' = RcTook /\ SocketCame' = SocketCame
      /\ SocketTook' = SocketTook /\ LeftOut' = LeftOut /\ OverSocket' = OverSocket
  BY <1>1 DEF RcCame, RcTook, SocketCame, SocketTook, LeftOut, Stage, OverSocket
<1>6. InvOrder'
  BY <1>1, <1>5 DEF InvOrder, RcOrder, SocketOrder
<1> QED
  BY <1>3, <1>4, <1>6

(* main and the threads do nothing: whose turn it is does not change.      *)
LEMMA SameTurn ==
  ASSUME UNCHANGED <<options, main, instances>>
  PROVE  /\ UNCHANGED <<mpc, i, args, ipc, instance_nr>>
         /\ \A u \in Threads : (Past(u)' <=> Past(u)) /\ (Present(u)' <=> Present(u))
  BY DEF main, instances, Past, Present

(* The thread whose turn it is connects, and its request is the next.      *)
LEMMA CalmConnect ==
  ASSUME IInv, InvTurns, InvOrder, NEW t \in Threads, ipc[t] = "started",
         Connect(t), UNCHANGED <<options, main, instances>>
  PROVE  InvTurns' /\ InvOrder'
<1>1. /\ UNCHANGED <<type, apc, cur, posted, workers, disturbed>>
      /\ chan' = Append(chan, Event("request", t)) /\ cst[t] = "new"
      /\ t \in Clients /\ "request" \in Kinds
  BY Numbers DEF Connect, RcConnect, SocketConnect, Kinds
<1>2. mpc = "sleep" /\ t = i /\ ~Past(t) /\ id[t] = "none"
  BY <1>1, Turns
<1>3. /\ id \in [Clients -> {"none", "requested", "accepted", "established", "gone",
                             "lost"}]
      /\ cst \in [Clients -> {"new", "writing", "connecting", "told", "connected",
                              "failed", "dead"}]
      /\ ConnTypeOK
  BY DEF IInv, ConnInv, ConnTypeOK
<1>4. /\ Len(chan') = Len(chan) + 1
      /\ \A k \in 1..Len(chan') :
           \/ k \in 1..Len(chan) /\ chan'[k] = chan[k]
           \/ k = Len(chan) + 1 /\ chan'[k].kind = "request" /\ chan'[k].of = t
  BY <1>1, <1>3, AddEvent
<1>5. /\ \A u \in Threads : u # t => cst'[u] = cst[u] /\ id'[u] = id[u]
      /\ cst'[t] \in {"connecting", "writing", "connected"}
      /\ cst'[t] = "connected" => type = "TCP"
      /\ IF type = "RC" THEN id'[t] = "requested" ELSE id' = id
  BY <1>1, <1>3, Numbers DEF Connect, RcConnect, SocketConnect
<1>6. InvTurns'
  BY <1>1, <1>2, <1>5, SameTurn DEF InvTurns
<1>7. ASSUME type = "RC" PROVE RcOrder'
  <2>1. RcOrder /\ id'[t] = "requested" /\ RcTook' = RcTook /\ RcTook \in Int
    BY <1>1, <1>5, <1>7, Numbers DEF InvOrder, RcTook
  <2>2. RcCame = 2 * i /\ RcCame' = 2 * i + 1 /\ mpc' = mpc
    BY <1>2, <2>1, SameTurn, Numbers DEF RcCame, Stage
  <2>3. RcTook + Len(chan) = 2 * i
    BY <1>2, <2>1, <2>2 DEF RcOrder
  <2>4. apc # "wait" => cur \in Threads
    BY DEF InvOrder
  <2>5. /\ apc \in {"prepare", "accept"} => id'[cur] = "requested"
        /\ apc = "established" => id'[cur] \notin {"none", "requested"}
    BY <1>2, <1>5, <2>1, <2>4 DEF RcOrder
  <2>6. RcTook' + Len(chan') = RcCame'
    BY <1>4, <2>1, <2>2, <2>3, Numbers
  <2>7. ASSUME NEW k \in 1..Len(chan')
        PROVE  \/ chan'[k].kind = "disconnected" /\ RcTook + k > 2 * N
               \/ /\ chan'[k].kind = "request" /\ chan'[k].of \in Threads
                  /\ RcTook + k = 2 * chan'[k].of + 1
                  /\ id'[chan'[k].of] = "requested"
               \/ /\ chan'[k].kind = "established" /\ chan'[k].of \in Threads
                  /\ RcTook + k = 2 * chan'[k].of + 2
    <3>1. CASE k \in 1..Len(chan) /\ chan'[k] = chan[k]
      BY <1>5, <2>1, <3>1 DEF RcOrder
    <3>2. CASE k = Len(chan) + 1 /\ chan'[k].kind = "request" /\ chan'[k].of = t
      BY <1>2, <2>1, <2>3, <3>2, Numbers
    <3> QED
      BY <1>4, <3>1, <3>2
  <2> QED
    BY <1>1, <2>1, <2>5, <2>6, <2>7 DEF RcOrder
<1>8. ASSUME type # "RC" PROVE SocketOrder'
  <2>1. /\ SocketOrder /\ SocketTook' = SocketTook /\ SocketTook \in Int
        /\ ~LeftOut /\ OverSocket' = OverSocket
    BY <1>1, <1>2, <1>8, Numbers DEF InvOrder, SocketTook, LeftOut, OverSocket
  <2>2. SocketCame = i /\ SocketCame' = i + 1
    BY <1>1, <1>2, <1>5, SameTurn, Numbers DEF SocketCame
  <2>3. SocketTook + Len(chan) = i
    BY <2>1, <2>2 DEF SocketOrder
  <2>4. SocketTook' + Len(chan') = SocketCame'
    BY <1>4, <2>1, <2>2, <2>3, Numbers
  <2>5. ASSUME NEW k \in 1..Len(chan')
        PROVE  /\ chan'[k].kind = "request" /\ chan'[k].of \in Threads
               /\ SocketTook + k = chan'[k].of + 1
    <3>1. CASE k \in 1..Len(chan) /\ chan'[k] = chan[k]
      BY <2>1, <3>1 DEF SocketOrder
    <3>2. CASE k = Len(chan) + 1 /\ chan'[k].kind = "request" /\ chan'[k].of = t
      BY <1>2, <2>1, <2>3, <3>2, Numbers
    <3> QED
      BY <1>4, <3>1, <3>2
  <2>6. OverSocket => \A u \in Threads :
          cst'[u] \in {"told", "connected", "dead"} => u < SocketTook
    BY <1>5, <2>1 DEF SocketOrder, OverSocket
  <2> QED
    BY <2>1, <2>4, <2>5, <2>6 DEF SocketOrder
<1>9. InvOrder'
  BY <1>1, <1>7, <1>8 DEF InvOrder
<1> QED
  BY <1>6, <1>9

(* Nobody is turned away.                                                  *)
LEMMA Reachable ==
  ASSUME IInv, InvTurns, InvOrder, NEW t \in Threads
  PROVE  ~RcUnreachable(t)
<1> SUFFICES ASSUME RcUnreachable(t) PROVE FALSE
  OBVIOUS
<1>1. /\ type = "RC" /\ cst[t] = "connecting" /\ id[t] = "requested"
      /\ Event("request", t) \notin Range(chan) /\ ~(cur = t /\ apc \in {"prepare", "accept"})
  BY DEF RcUnreachable, InvOrder
<1>2. mpc = "sleep" /\ t = i
  BY <1>1, Turns
<1>3. RcOrder /\ RcTook + Len(chan) = 2 * i + 1 /\ RcTook \in Int
  BY <1>1, <1>2, Numbers DEF InvOrder, RcOrder, RcCame, RcTook, Stage
<1>4. CASE Len(chan) = 0
  <2>1. apc # "wait" /\ 2 * Len(workers) + 1 = 2 * i + 1
    BY <1>3, <1>4, Numbers DEF RcTook
  <2>2. cur = i
    BY <2>1, Numbers DEF InvOrder
  <2>3. apc = "established"
    BY <1>1, <1>2, <2>1, <2>2 DEF InvOrder, IInv, ConnInv, ConnTypeOK, InvCur, OverSocket
  <2> QED
    BY <1>1, <1>2, <1>3, <2>2, <2>3 DEF RcOrder
<1>5. CASE Len(chan) # 0
  <2> DEFINE k == Len(chan)
  <2>1. k \in 1..Len(chan) /\ RcTook + k = 2 * t + 1
    BY <1>2, <1>3, <1>5, Numbers
  <2>2. chan[k].kind = "request" /\ chan[k].of = t
    <3>1. t \in Nat /\ t < N /\ N \in Nat
      BY Numbers
    <3>2. \/ chan[k].kind = "disconnected" /\ RcTook + k > 2 * N
          \/ /\ chan[k].kind = "request" /\ chan[k].of \in Threads
             /\ RcTook + k = 2 * chan[k].of + 1
          \/ /\ chan[k].kind = "established" /\ chan[k].of \in Threads
             /\ RcTook + k = 2 * chan[k].of + 2
      BY <1>3, <2>1 DEF RcOrder
    <3>3. chan[k].of \in Threads => chan[k].of \in Nat
      BY Numbers
    <3> HIDE DEF k
    <3> QED
      BY <2>1, <3>1, <3>2, <3>3
  <2>3. chan[k] = Event("request", t)
    <3>1. chan[k] \in [kind : Kinds, of : Clients]
      BY <2>1, Events DEF IInv, ConnInv
    <3> QED
      BY <2>2, <3>1 DEF Event
  <2> QED
    BY <1>1, <2>1, <2>3, Events DEF Range, IInv, ConnInv
<1> QED
  BY <1>4, <1>5

(* The thread goes on connecting, or leaves when the benchmark is done.    *)
LEMMA CalmConnecting ==
  ASSUME IInv, InvTurns, InvOrder, NEW t \in Threads,
         (ipc[t] = "started" /\ Connecting(t)) \/ (mpc = "done" /\ Die(t)),
         UNCHANGED <<options, main, instances>>
  PROVE  InvTurns' /\ InvOrder'
<1>1. /\ UNCHANGED <<type, id, chan, apc, cur, posted, workers, disturbed>>
      /\ t \in Clients
  BY Numbers DEF Connecting, RcConnected, RcUnreachable, WriteAttrs,
                 SocketConnected, Die, accepting
<1>2. cst \in [Clients -> {"new", "writing", "connecting", "told", "connected",
                          "failed", "dead"}]
  BY DEF IInv, ConnInv, ConnTypeOK
<1>3. /\ \A u \in Threads : u # t => cst'[u] = cst[u]
      /\ cst[t] # "new" /\ cst'[t] \in {"connecting", "connected", "dead"}
      /\ cst'[t] = "connected" => cst[t] = "told"
      /\ cst'[t] = "connecting" => cst[t] = "writing"
      /\ cst'[t] = "dead" => mpc = "done" /\ cst[t] # "failed"
  BY <1>1, <1>2, Reachable, Numbers DEF Connecting, RcConnected, WriteAttrs,
                              SocketConnected, Die
<1>4. Past(t) => cst[t] \in {"connected", "dead"} /\ ipc[t] \in {"started", "returned"}
  BY <1>3 DEF InvTurns
<1>5. mpc = "done" => Past(t)
  BY DEF Past
<1>6. InvTurns'
  BY <1>1, <1>3, <1>4, <1>5, SameTurn DEF InvTurns
<1>7. /\ RcTook' = RcTook /\ SocketTook' = SocketTook /\ LeftOut' = LeftOut
      /\ OverSocket' = OverSocket /\ RcCame' = RcCame
  BY <1>1, SameTurn DEF RcTook, SocketTook, LeftOut, OverSocket, RcCame, Stage
<1>8. SocketCame' = SocketCame
  <2>1. cst'[i] = "new" <=> cst[i] = "new"
    BY <1>3, Numbers
  <2> QED
    BY <2>1, SameTurn DEF SocketCame
<1>9. RcOrder => RcOrder'
  BY <1>1, <1>7, SameTurn DEF RcOrder
<1>10. SocketOrder => SocketOrder'
  <2>1. OverSocket => (cst'[t] \in {"told", "connected", "dead"} =>
                         cst[t] \in {"told", "connected", "dead"})
    BY <1>3, <1>4, <1>5
  <2> QED
    BY <1>1, <1>3, <1>7, <1>8, <2>1 DEF SocketOrder
<1>11. InvOrder'
  BY <1>1, <1>9, <1>10 DEF InvOrder
<1> QED
  BY <1>6, <1>11

(* The connection manager reports the connection main sleeps for, or that  *)
(* a thread has left after all have connected.                             *)
LEMMA CalmManager ==
  ASSUME IInv, InvTurns, InvOrder, NEW t \in Threads, Manager(t),
         UNCHANGED <<options, main, instances>>
  PROVE  InvTurns' /\ InvOrder'
<1>1. /\ UNCHANGED <<type, apc, cur, posted, workers, disturbed, cst>>
      /\ type = "RC" /\ t \in Clients /\ {"established", "disconnected"} \subseteq Kinds
  BY Numbers DEF Manager, Establish, Depart, Kinds
<1>2. id \in [Clients -> {"none", "requested", "accepted", "established", "gone",
                          "lost"}]
      /\ ConnTypeOK
  BY DEF IInv, ConnInv, ConnTypeOK
<1>3. RcOrder /\ RcTook' = RcTook /\ RcTook \in Int /\ OverSocket' = OverSocket
  BY <1>1, Numbers DEF InvOrder, RcTook, OverSocket
<1>4. apc # "wait" => cur \in Threads
  BY DEF InvOrder
<1>5. CASE Establish(t)
  <2>1. /\ id[t] = "accepted" /\ cst[t] = "connected"
        /\ id' = [id EXCEPT ![t] = "established"]
        /\ chan' = Append(chan, Event("established", t))
    BY <1>5 DEF Establish
  <2>2. mpc = "sleep" /\ t = i /\ ~Past(t)
    BY <1>1, <2>1, Turns
  <2>3. /\ Len(chan') = Len(chan) + 1
        /\ \A k \in 1..Len(chan') :
             \/ k \in 1..Len(chan) /\ chan'[k] = chan[k]
             \/ k = Len(chan) + 1 /\ chan'[k].kind = "established" /\ chan'[k].of = t
    BY <1>1, <1>2, <2>1, AddEvent
  <2>4. id'[t] = "established" /\ \A u \in Threads : u # t => id'[u] = id[u]
    BY <1>1, <1>2, <2>1, Numbers
  <2>5. InvTurns'
    BY <1>1, <2>2, <2>4, SameTurn DEF InvTurns
  <2>6. RcCame = 2 * i + 1 /\ RcCame' = 2 * i + 2
    BY <2>1, <2>2, <2>4, SameTurn, Numbers DEF RcCame, Stage
  <2>7. RcTook + Len(chan) = 2 * i + 1
    BY <1>3, <2>2, <2>6 DEF RcOrder
  <2>12. RcTook + (Len(chan) + 1) = 2 * i + 2
    <3>1. RcTook \in Int /\ Len(chan) \in Int /\ i \in Int
      BY <1>3, Numbers
    <3> HIDE DEF RcTook
    <3> QED
      BY <2>7, <3>1
  <2>8. /\ apc \in {"prepare", "accept"} => id'[cur] = "requested"
        /\ apc = "established" => id'[cur] \notin {"none", "requested"}
    BY <1>3, <1>4, <2>1, <2>4 DEF RcOrder
  <2>9. ASSUME NEW k \in 1..Len(chan')
        PROVE  \/ chan'[k].kind = "disconnected" /\ RcTook + k > 2 * N
               \/ /\ chan'[k].kind = "request" /\ chan'[k].of \in Threads
                  /\ RcTook + k = 2 * chan'[k].of + 1
                  /\ id'[chan'[k].of] = "requested"
               \/ /\ chan'[k].kind = "established" /\ chan'[k].of \in Threads
                  /\ RcTook + k = 2 * chan'[k].of + 2
    <3>1. CASE k \in 1..Len(chan) /\ chan'[k] = chan[k]
      BY <1>3, <2>1, <2>4, <3>1 DEF RcOrder
    <3>2. CASE k = Len(chan) + 1 /\ chan'[k].kind = "established" /\ chan'[k].of = t
      BY <2>2, <2>12, <3>2
    <3> QED
      BY <2>3, <3>1, <3>2
  <2>10. RcTook' + Len(chan') = RcCame'
    BY <1>3, <2>3, <2>6, <2>12
  <2>11. RcOrder'
    BY <1>1, <1>3, <2>8, <2>9, <2>10 DEF RcOrder
  <2> QED
    BY <1>1, <2>5, <2>11 DEF InvOrder
<1>6. CASE Depart(t)
  <2>1. mpc = "done" /\ Past(t) /\ id[t] = "established"
    BY <1>1, <1>6, Turns DEF Depart
  <2>2. /\ id' = [id EXCEPT ![t] = "gone"]
        /\ chan' = Append(chan, Event("disconnected", t))
    BY <1>6, <2>1 DEF Depart
  <2>3. /\ Len(chan') = Len(chan) + 1
        /\ \A k \in 1..Len(chan') :
             \/ k \in 1..Len(chan) /\ chan'[k] = chan[k]
             \/ k = Len(chan) + 1 /\ chan'[k].kind = "disconnected"
    BY <1>1, <1>2, <2>2, AddEvent
  <2>4. id'[t] = "gone" /\ \A u \in Threads : u # t => id'[u] = id[u]
    BY <1>1, <1>2, <2>2, Numbers
  <2>5. InvTurns'
    BY <1>1, <2>1, <2>4, SameTurn DEF InvTurns
  <2>6. RcCame = 2 * N /\ mpc' = "done"
    BY <2>1, SameTurn DEF RcCame
  <2>7. RcTook + Len(chan) >= 2 * N
    BY <1>3, <2>6, Numbers DEF RcOrder
  <2>8. /\ apc \in {"prepare", "accept"} => id'[cur] = "requested"
        /\ apc = "established" => id'[cur] \notin {"none", "requested"}
    BY <1>3, <1>4, <2>1, <2>4 DEF RcOrder
  <2>9. ASSUME NEW k \in 1..Len(chan')
        PROVE  \/ chan'[k].kind = "disconnected" /\ RcTook + k > 2 * N
               \/ /\ chan'[k].kind = "request" /\ chan'[k].of \in Threads
                  /\ RcTook + k = 2 * chan'[k].of + 1
                  /\ id'[chan'[k].of] = "requested"
               \/ /\ chan'[k].kind = "established" /\ chan'[k].of \in Threads
                  /\ RcTook + k = 2 * chan'[k].of + 2
    <3>1. CASE k \in 1..Len(chan) /\ chan'[k] = chan[k]
      BY <1>3, <2>1, <2>4, <3>1 DEF RcOrder
    <3>2. CASE k = Len(chan) + 1 /\ chan'[k].kind = "disconnected"
      BY <1>3, <2>7, <3>2, Numbers
    <3> QED
      BY <2>3, <3>1, <3>2
  <2>10. RcTook' + Len(chan') >= 2 * N
    BY <1>3, <2>3, <2>7, Numbers
  <2>11. RcOrder'
    BY <1>1, <1>3, <2>6, <2>8, <2>9, <2>10 DEF RcOrder
  <2> QED
    BY <1>1, <2>5, <2>11 DEF InvOrder
<1> QED
  BY <1>5, <1>6 DEF Manager

(* The accept loop takes the first event, and starts a worker for the      *)
(* thread that comes next.                                                 *)
LEMMA CalmTake ==
  ASSUME IInv, chan # <<>>, chan' = Tail(chan)
  PROVE  /\ Len(chan') = Len(chan) - 1 /\ 1 \in 1..Len(chan) /\ Head(chan) = chan[1]
         /\ chan[1].of \in Clients /\ chan[1] \in [kind : Kinds, of : Clients]
         /\ \A k \in 1..Len(chan') : k + 1 \in 1..Len(chan) /\ chan'[k] = chan[k + 1]
  BY Events DEF IInv, ConnInv

LEMMA CalmHire ==
  ASSUME IInv, InvOrder, Len(workers) \in Threads,
         workers' = Append(workers, Len(workers))
  PROVE  /\ Len(workers') = Len(workers) + 1 /\ Len(workers') <= N
         /\ \A k \in 1..Len(workers') : workers'[k] = k - 1
<1>1. workers \in Seq(Clients) /\ Len(workers) \in Clients /\ Len(workers) < N
      /\ Len(workers) \in Nat /\ N \in Nat
  BY Numbers DEF IInv, ConnInv, ConnTypeOK
<1>2. /\ Len(workers') = Len(workers) + 1 /\ workers'[Len(workers) + 1] = Len(workers)
      /\ \A k \in 1..Len(workers) : workers'[k] = workers[k]
  BY <1>1, Queue
<1>3. \A k \in 1..Len(workers) : workers[k] = k - 1
  BY DEF InvOrder
<1> QED
  BY <1>1, <1>2, <1>3

LEMMA CalmClients ==
  ASSUME IInv, InvTurns, UNCHANGED <<type, id, cst>>,
         UNCHANGED <<options, main, instances>>
  PROVE  /\ InvTurns' /\ RcCame' = RcCame /\ SocketCame' = SocketCame
         /\ OverSocket' = OverSocket
  BY SameTurn DEF InvTurns, RcCame, Stage, SocketCame, OverSocket

(* Over RC: the next event, where a request is expected, is the request of *)
(* the next thread; after the last there are only disconnections.          *)
LEMMA CalmRcWait ==
  ASSUME IInv, InvTurns, InvOrder, RcWait, UNCHANGED <<options, main, instances>>
  PROVE  InvTurns' /\ InvOrder'
<1>1. /\ type = "RC" /\ apc = "wait" /\ chan # <<>> /\ chan' = Tail(chan)
      /\ UNCHANGED <<type, posted, workers, disturbed, id, cst>>
  BY DEF RcWait
<1>2. InvTurns' /\ RcCame' = RcCame /\ OverSocket' = OverSocket
  BY <1>1, CalmClients
<1> DEFINE w == Len(workers)
<1>3. RcOrder /\ RcTook = 2 * w /\ w \in Nat /\ w <= N /\ N \in Nat /\ w' = w
  BY <1>1, Numbers DEF InvOrder, RcTook
<1> HIDE DEF w
<1>4. chan[1].kind \in {"disconnected", "request", "established"}
      /\ \/ chan[1].kind = "disconnected" /\ w = N
         \/ /\ chan[1].kind = "request" /\ chan[1].of = w /\ w \in Threads
            /\ id[w] = "requested"
  <2>1. \/ chan[1].kind = "disconnected" /\ RcTook + 1 > 2 * N
        \/ /\ chan[1].kind = "request" /\ chan[1].of \in Threads
           /\ RcTook + 1 = 2 * chan[1].of + 1
           /\ id[chan[1].of] = "requested"
        \/ /\ chan[1].kind = "established" /\ chan[1].of \in Threads
           /\ RcTook + 1 = 2 * chan[1].of + 2
    BY <1>1, <1>3, CalmTake DEF RcOrder
  <2>2. chan[1].of \in Threads => chan[1].of \in Nat
    BY Numbers
  <2>3. CASE chan[1].kind = "disconnected" /\ RcTook + 1 > 2 * N
    BY <1>3, <2>3
  <2>4. ASSUME chan[1].of \in Threads, RcTook + 1 = 2 * chan[1].of + 1
        PROVE  chan[1].of = w
    BY <1>3, <2>2, <2>4
  <2>5. ~(chan[1].of \in Threads /\ RcTook + 1 = 2 * chan[1].of + 2)
    BY <1>3, <2>2
  <2> QED
    BY <2>1, <2>3, <2>4, <2>5
<1>5. CASE chan[1].kind = "request" /\ chan[1].of = w /\ w \in Threads
           /\ id[w] = "requested"
  <2>1. cur' = w /\ apc' = "prepare"
    BY <1>1, <1>5, CalmTake DEF RcWait
  <2>2. RcTook' = RcTook + 1
    BY <1>3, <2>1 DEF RcTook, w
  <2>3. ASSUME NEW k \in 1..Len(chan')
        PROVE  \/ chan'[k].kind = "disconnected" /\ RcTook' + k > 2 * N
               \/ /\ chan'[k].kind = "request" /\ chan'[k].of \in Threads
                  /\ RcTook' + k = 2 * chan'[k].of + 1
                  /\ id'[chan'[k].of] = "requested"
               \/ /\ chan'[k].kind = "established" /\ chan'[k].of \in Threads
                  /\ RcTook' + k = 2 * chan'[k].of + 2
    <3>1. k + 1 \in 1..Len(chan) /\ chan'[k] = chan[k + 1]
      BY <1>1, CalmTake
    <3>2. RcTook' + k = RcTook + (k + 1)
      BY <1>3, <2>2
    <3> QED
      BY <1>1, <1>3, <3>1, <3>2 DEF RcOrder
  <2>4. RcTook' + Len(chan') = RcTook + Len(chan)
    BY <1>1, <1>3, <2>2, CalmTake, Numbers
  <2>5. RcOrder'
    BY <1>1, <1>2, <1>3, <1>5, <2>1, <2>3, <2>4, SameTurn DEF RcOrder
  <2>6. InvOrder'
    BY <1>1, <1>3, <1>5, <2>1, <2>5 DEF InvOrder, w
  <2> QED
    BY <1>2, <2>6
<1>6. CASE chan[1].kind = "disconnected" /\ w = N
  <2>1. cur' = None /\ apc' = "wait"
    BY <1>1, <1>6, CalmTake DEF RcWait, Again
  <2>2. RcTook' = RcTook /\ RcTook = 2 * N
    BY <1>1, <1>3, <1>6, <2>1 DEF RcTook, w
  <2>3. ASSUME NEW k \in 1..Len(chan')
        PROVE  chan'[k].kind = "disconnected" /\ RcTook' + k > 2 * N
    <3>1. k + 1 \in 1..Len(chan) /\ chan'[k] = chan[k + 1] /\ k \in Nat /\ k > 0
      BY <1>1, CalmTake
    <3>2. RcTook' + k > 2 * N /\ RcTook + (k + 1) > 2 * N + 1
      BY <1>3, <2>2, <3>1
    <3>3. \A t \in Threads : RcTook + (k + 1) # 2 * t + 1 /\ RcTook + (k + 1) # 2 * t + 2
      BY <1>3, <3>1, <3>2, Numbers
    <3> QED
      BY <1>3, <3>1, <3>2, <3>3 DEF RcOrder
  <2>4. mpc = "done" /\ RcTook' + Len(chan') >= 2 * N
    <3>1. RcCame \in Nat /\ RcCame <= 2 * N
      BY Numbers DEF RcCame, Stage
    <3>2. Len(chan) >= 1 /\ Len(chan') = Len(chan) - 1 /\ Len(chan) \in Nat
      BY <1>1, CalmTake, Numbers
    <3>3. RcTook + Len(chan) # RcCame
      BY <1>3, <2>2, <3>1, <3>2
    <3> QED
      BY <1>3, <2>2, <3>2, <3>3 DEF RcOrder
  <2>5. RcOrder'
    BY <2>1, <2>3, <2>4, SameTurn DEF RcOrder
  <2>6. InvOrder'
    BY <1>1, <2>1, <2>5 DEF InvOrder
  <2> QED
    BY <1>2, <2>6
<1> QED
  BY <1>4, <1>5, <1>6

(* Its request has been taken, and its buffers are posted.                 *)
LEMMA CalmRcPost ==
  ASSUME IInv, InvTurns, InvOrder, RcPost, UNCHANGED <<options, main, instances>>
  PROVE  InvTurns' /\ InvOrder'
<1>1. /\ type = "RC" /\ apc = "prepare" /\ apc' = "accept" /\ RcOrder
      /\ UNCHANGED <<type, chan, cur, workers, disturbed, id, cst>>
  BY DEF RcPost, InvOrder
<1>2. InvTurns'
  BY <1>1, SameTurn DEF InvTurns
<1>3. RcTook' = RcTook /\ RcCame' = RcCame
  BY <1>1, SameTurn DEF RcTook, RcCame, Stage
<1>4. RcOrder'
  BY <1>1, <1>3, SameTurn DEF RcOrder
<1>5. InvOrder'
  BY <1>1, <1>4 DEF InvOrder
<1> QED
  BY <1>2, <1>5

(* Then it is answered.                                                    *)
LEMMA CalmRcAccept ==
  ASSUME IInv, InvTurns, InvOrder, RcAccept, UNCHANGED <<options, main, instances>>
  PROVE  InvTurns' /\ InvOrder'
<1>1. /\ type = "RC" /\ apc = "accept" /\ id[cur] = "requested"
      /\ cur = Len(workers) /\ cur \in Threads /\ RcOrder
      /\ UNCHANGED <<type, chan, workers, disturbed>>
  BY DEF RcAccept, InvOrder, RcOrder
<1>2. /\ id' = [id EXCEPT ![cur] = "accepted"]
      /\ cst' = [cst EXCEPT ![cur] = IF @ = "connecting" THEN "told" ELSE @]
      /\ apc' = "established" /\ cur' = cur
  BY <1>1 DEF RcAccept, Answer
<1>3. /\ id \in [Clients -> {"none", "requested", "accepted", "established", "gone",
                             "lost"}]
      /\ cst \in [Clients -> {"new", "writing", "connecting", "told", "connected",
                              "failed", "dead"}]
  BY DEF IInv, ConnInv, ConnTypeOK
<1>4. /\ id'[cur] = "accepted"
      /\ \A u \in Threads : u # cur => id'[u] = id[u] /\ cst'[u] = cst[u]
      /\ cst'[cur] = cst[cur] \/ (cst[cur] = "connecting" /\ cst'[cur] = "told")
  BY <1>1, <1>2, <1>3, Numbers
<1>5. ~Past(cur) /\ cst[cur] # "new"
  BY <1>1, Turns
<1>6. InvTurns'
  BY <1>1, <1>4, <1>5, SameTurn DEF InvTurns
<1>7. RcTook = 2 * cur + 1 /\ RcTook' = RcTook /\ RcCame' = RcCame
  <2>1. Stage(i)' = Stage(i)
    <3>1. \A u \in Threads : Stage(u)' = Stage(u)
      BY <1>1, <1>4 DEF Stage
    <3> QED
      BY <3>1, SameTurn, Numbers DEF Stage
  <2>2. RcTook = 2 * cur + 1 /\ RcTook' = RcTook
    BY <1>1, <1>2 DEF RcTook
  <2> QED
    BY <1>1, <1>2, <2>1, <2>2, SameTurn DEF RcTook, RcCame
<1>8. ASSUME NEW k \in 1..Len(chan')
      PROVE  \/ chan'[k].kind = "disconnected" /\ RcTook' + k > 2 * N
             \/ /\ chan'[k].kind = "request" /\ chan'[k].of \in Threads
                /\ RcTook' + k = 2 * chan'[k].of + 1
                /\ id'[chan'[k].of] = "requested"
             \/ /\ chan'[k].kind = "established" /\ chan'[k].of \in Threads
                /\ RcTook' + k = 2 * chan'[k].of + 2
  <2>1. chan' = chan /\ k \in 1..Len(chan) /\ k > 0 /\ k \in Nat
    BY <1>1
  <2>2. RcTook + k # 2 * cur + 1
    BY <1>1, <1>7, <2>1, Numbers
  <2> QED
    BY <1>1, <1>4, <1>7, <2>1, <2>2 DEF RcOrder
<1>9. RcOrder'
  BY <1>1, <1>2, <1>4, <1>7, <1>8, SameTurn DEF RcOrder
<1>10. InvOrder'
  BY <1>1, <1>2, <1>9 DEF InvOrder
<1> QED
  BY <1>6, <1>10

(* The next event is the ESTABLISHED of the same thread.                   *)
LEMMA CalmRcEstablished ==
  ASSUME IInv, InvTurns, InvOrder, RcEstablished,
         UNCHANGED <<options, main, instances>>
  PROVE  InvTurns' /\ InvOrder'
<1>1. /\ type = "RC" /\ apc = "established" /\ chan # <<>> /\ chan' = Tail(chan)
      /\ UNCHANGED <<type, posted, id, cst>>
      /\ cur = Len(workers) /\ cur \in Threads /\ RcOrder
  BY DEF RcEstablished, InvOrder
<1>2. InvTurns' /\ RcCame' = RcCame /\ OverSocket' = OverSocket
  BY <1>1, CalmClients
<1>3. RcTook = 2 * cur + 1 /\ cur \in Nat /\ cur < N /\ N \in Nat
  BY <1>1, Numbers DEF RcTook
<1>4. chan[1].kind = "established" /\ chan[1].of = cur
  <2>1. \/ chan[1].kind = "disconnected" /\ RcTook + 1 > 2 * N
        \/ chan[1].of \in Threads /\ RcTook + 1 = 2 * chan[1].of + 1
        \/ /\ chan[1].kind = "established" /\ chan[1].of \in Threads
           /\ RcTook + 1 = 2 * chan[1].of + 2
    BY <1>1, CalmTake DEF RcOrder
  <2>2. chan[1].of \in Threads => chan[1].of \in Nat
    BY Numbers
  <2>3. ~(RcTook + 1 > 2 * N)
    BY <1>3
  <2>4. ~(chan[1].of \in Threads /\ RcTook + 1 = 2 * chan[1].of + 1)
    BY <1>3, <2>2
  <2>6. \A m, n \in Nat : (2 * m + 1) + 1 = 2 * n + 2 => n = m
    OBVIOUS
  <2>5. chan[1].of \in Threads /\ RcTook + 1 = 2 * chan[1].of + 2 => chan[1].of = cur
    BY <1>3, <2>2, <2>6
  <2> QED
    BY <2>1, <2>3, <2>4, <2>5
<1>5. Head(chan) = Event("established", cur)
  BY <1>1, <1>4, CalmTake DEF Event
<1>6. /\ apc' = "wait" /\ cur' = None /\ workers' = Append(workers, Len(workers))
      /\ disturbed' = disturbed
  BY <1>1, <1>4, <1>5, CalmTake DEF RcEstablished, StartWorker, Again
<1>7. /\ Len(workers') = Len(workers) + 1 /\ Len(workers') <= N
      /\ \A k \in 1..Len(workers') : workers'[k] = k - 1
  BY <1>1, <1>6, CalmHire
<1>8. RcTook' = RcTook + 1 /\ RcTook \in Int
  BY <1>1, <1>3, <1>6, <1>7 DEF RcTook
<1>9. ASSUME NEW k \in 1..Len(chan')
      PROVE  \/ chan'[k].kind = "disconnected" /\ RcTook' + k > 2 * N
             \/ /\ chan'[k].kind = "request" /\ chan'[k].of \in Threads
                /\ RcTook' + k = 2 * chan'[k].of + 1
                /\ id'[chan'[k].of] = "requested"
             \/ /\ chan'[k].kind = "established" /\ chan'[k].of \in Threads
                /\ RcTook' + k = 2 * chan'[k].of + 2
  <2>1. k + 1 \in 1..Len(chan) /\ chan'[k] = chan[k + 1]
    BY <1>1, CalmTake
  <2>2. RcTook' + k = RcTook + (k + 1)
    BY <1>8
  <2> QED
    BY <1>1, <2>1, <2>2 DEF RcOrder
<1>10. RcTook' + Len(chan') = RcTook + Len(chan)
  BY <1>1, <1>8, CalmTake, Numbers
<1>11. RcOrder'
  BY <1>1, <1>2, <1>6, <1>9, <1>10, SameTurn DEF RcOrder
<1>12. InvOrder'
  BY <1>1, <1>6, <1>7, <1>11 DEF InvOrder
<1> QED
  BY <1>2, <1>12

(* Over sockets: the first request in the backlog is that of the next      *)
(* thread, when main waits for it.                                         *)
LEMMA CalmBacklog ==
  ASSUME IInv, InvOrder, type # "RC", apc = "wait", chan # <<>>, chan' = Tail(chan)
  PROVE  /\ Head(chan).of = Len(workers) /\ Len(workers) \in Threads
         /\ SocketTook = Len(workers) /\ SocketOrder /\ ~LeftOut
         /\ \A k \in 1..Len(chan') :
              /\ chan'[k].kind = "request" /\ chan'[k].of \in Threads
              /\ (Len(workers) + 1) + k = chan'[k].of + 1
         /\ (Len(workers) + 1) + Len(chan') = SocketCame
<1>1. SocketOrder /\ SocketTook = Len(workers) /\ Len(workers) \in Nat /\ ~LeftOut
      /\ Len(chan) \in Nat
  BY Numbers DEF InvOrder, SocketTook, LeftOut
<1>2. chan[1].of \in Threads /\ Len(workers) + 1 = chan[1].of + 1
  BY <1>1, CalmTake DEF SocketOrder
<1>3. chan[1].of = Len(workers)
  BY <1>1, <1>2, Numbers
<1>4. ASSUME NEW k \in 1..Len(chan')
      PROVE  /\ chan'[k].kind = "request" /\ chan'[k].of \in Threads
             /\ (Len(workers) + 1) + k = chan'[k].of + 1
  <2>1. k + 1 \in 1..Len(chan) /\ chan'[k] = chan[k + 1]
    BY CalmTake
  <2>2. (Len(workers) + 1) + k = SocketTook + (k + 1)
    BY <1>1
  <2> QED
    BY <1>1, <2>1, <2>2 DEF SocketOrder
<1>5. (Len(workers) + 1) + Len(chan') = SocketCame
  <2>1. SocketTook + Len(chan) = SocketCame
    BY <1>1 DEF SocketOrder
  <2>2. (Len(workers) + 1) + Len(chan') = SocketTook + Len(chan)
    BY <1>1, CalmTake
  <2> QED
    BY <2>1, <2>2
<1> QED
  BY <1>1, <1>2, <1>3, <1>4, <1>5, CalmTake

LEMMA CalmSocket ==
  ASSUME IInv, InvTurns, InvOrder, TcpAccept \/ SocketAccept,
         UNCHANGED <<options, main, instances>>
  PROVE  InvTurns' /\ InvOrder'
<1>1. /\ type # "RC" /\ apc = "wait" /\ chan # <<>> /\ chan' = Tail(chan)
      /\ UNCHANGED <<type, disturbed, id, cst>>
  BY DEF TcpAccept, SocketAccept, OverSocket
<1>2. InvTurns' /\ SocketCame' = SocketCame /\ OverSocket' = OverSocket
  BY <1>1, CalmClients
<1>3. /\ Head(chan).of = Len(workers) /\ Len(workers) \in Threads
      /\ SocketTook = Len(workers) /\ SocketOrder /\ ~LeftOut
      /\ \A k \in 1..Len(chan') :
           /\ chan'[k].kind = "request" /\ chan'[k].of \in Threads
           /\ (Len(workers) + 1) + k = chan'[k].of + 1
      /\ (Len(workers) + 1) + Len(chan') = SocketCame
  BY <1>1, CalmBacklog
<1>4. SocketTook' = Len(workers) + 1 /\ apc' # "crashed"
      /\ (apc' # "wait" => cur' = Len(workers') /\ cur' \in Threads)
      /\ Len(workers') <= N /\ \A k \in 1..Len(workers') : workers'[k] = k - 1
  <2>1. CASE TcpAccept
    <3>1. apc' = "wait" /\ workers' = Append(workers, Len(workers))
      BY <1>1, <1>3, <2>1 DEF TcpAccept
    <3>2. /\ Len(workers') = Len(workers) + 1 /\ Len(workers') <= N
          /\ \A k \in 1..Len(workers') : workers'[k] = k - 1
      BY <1>3, <3>1, CalmHire
    <3> QED
      BY <3>1, <3>2, Numbers DEF SocketTook
  <2>2. CASE SocketAccept
    BY <1>3, <2>2 DEF SocketAccept, SocketTook, InvOrder
  <2> QED
    BY <2>1, <2>2
<1>5. \A t \in Threads : t < SocketTook => t < SocketTook'
  BY <1>3, <1>4, Numbers
<1>6. SocketOrder'
  BY <1>1, <1>2, <1>3, <1>4, <1>5 DEF SocketOrder
<1> QED
  BY <1>1, <1>2, <1>4, <1>6 DEF InvOrder

(* The thread being accepted is answered ...                               *)
LEMMA CalmSwapAttrs ==
  ASSUME IInv, InvTurns, InvOrder, SwapAttrs, UNCHANGED <<options, main, instances>>
  PROVE  InvTurns' /\ InvOrder'
<1>1. /\ OverSocket /\ type # "RC" /\ apc = "attrs" /\ apc' = "qp" /\ cur' = cur
      /\ cst' = [cst EXCEPT ![cur] = IF @ = "connecting" THEN "told" ELSE @]
      /\ UNCHANGED <<type, chan, workers, disturbed, id>>
      /\ cur = Len(workers) /\ cur \in Threads /\ SocketOrder
  BY DEF SwapAttrs, Answer, OverSocket, InvOrder
<1>2. /\ \A u \in Threads : u # cur => cst'[u] = cst[u]
      /\ cst'[cur] = cst[cur] \/ (cst[cur] = "connecting" /\ cst'[cur] = "told")
  <2>1. cst \in [Clients -> {"new", "writing", "connecting", "told", "connected",
                            "failed", "dead"}]
    BY DEF IInv, ConnInv, ConnTypeOK
  <2>2. cur \in Clients
    BY <1>1, Numbers
  <2>3. cst'[cur] = IF cst[cur] = "connecting" THEN "told" ELSE cst[cur]
    BY <1>1, <2>1, <2>2
  <2>4. \A u \in Threads : u # cur => cst'[u] = cst[u]
    BY <1>1, <2>1, Numbers
  <2> QED
    BY <2>3, <2>4
<1>3. InvTurns'
  BY <1>1, <1>2, SameTurn DEF InvTurns
<1>4. /\ SocketTook' = SocketTook /\ SocketTook = cur + 1 /\ ~LeftOut
      /\ OverSocket' = OverSocket /\ cur < SocketTook
  BY <1>1, Numbers DEF SocketTook, LeftOut, OverSocket
<1>5. SocketCame' = SocketCame
  <2>1. cst'[i] = "new" <=> cst[i] = "new"
    BY <1>2, Numbers
  <2> QED
    BY <2>1, SameTurn DEF SocketCame
<1>6. SocketOrder'
  <2>1. ASSUME NEW u \in Threads, cst'[u] \in {"told", "connected", "dead"}
        PROVE  u < SocketTook
    <3>1. CASE u = cur
      BY <1>4, <3>1
    <3>2. CASE u # cur
      BY <1>1, <1>2, <1>4, <2>1, <3>2 DEF SocketOrder
    <3> QED
      BY <3>1, <3>2
  <2>2. /\ \A k \in 1..Len(chan) : /\ chan[k].kind = "request" /\ chan[k].of \in Threads
                                  /\ SocketTook + k = chan[k].of + 1
        /\ SocketTook + Len(chan) = SocketCame
    BY <1>1, <1>4 DEF SocketOrder
  <2> QED
    BY <1>1, <1>4, <1>5, <2>1, <2>2 DEF SocketOrder
<1> QED
  BY <1>1, <1>3, <1>6 DEF InvOrder

(* ... and gets its worker, or is left out if it is the last.              *)
LEMMA CalmSocketFinish ==
  ASSUME IInv, InvTurns, InvOrder, SocketFinish, UNCHANGED <<options, main, instances>>
  PROVE  InvTurns' /\ InvOrder'
<1>1. /\ OverSocket /\ type # "RC" /\ apc = "qp" /\ apc' = "wait" /\ cur' = None
      /\ UNCHANGED <<type, chan, disturbed, id, cst>>
      /\ cur = Len(workers) /\ cur \in Threads /\ SocketOrder
  BY DEF SocketFinish, StartWorker, Again, OverSocket, InvOrder
<1>2. InvTurns' /\ SocketCame' = SocketCame /\ OverSocket' = OverSocket
  BY <1>1, CalmClients
<1>3. SocketTook = cur + 1 /\ ~LeftOut /\ cur \in Nat /\ cur < N /\ N \in Nat
  BY <1>1, Numbers DEF SocketTook, LeftOut
<1>4. CASE workers' = Append(workers, cur)
  <2>1. /\ Len(workers') = Len(workers) + 1 /\ Len(workers') <= N
        /\ \A k \in 1..Len(workers') : workers'[k] = k - 1
    BY <1>1, <1>4, CalmHire
  <2>2. SocketTook' = SocketTook
    BY <1>1, <1>3, <2>1 DEF SocketTook
  <2>3. SocketOrder'
    BY <1>1, <1>2, <1>3, <2>2 DEF SocketOrder
  <2> QED
    BY <1>1, <1>2, <2>1, <2>3 DEF InvOrder
<1>5. CASE workers' = workers /\ cst[cur] = "dead"
  <2>1. mpc = "done" /\ mpc' = "done"
    BY <1>1, <1>5, SameTurn DEF InvTurns
  <2>2. N - 1 \in Threads /\ Past(N - 1)
    BY <1>3, <2>1, Numbers DEF Past
  <2>3. cst[N - 1] \in {"connected", "dead"}
    BY <2>2 DEF InvTurns
  <2>4. N - 1 < SocketTook
    BY <1>1, <1>3, <2>2, <2>3 DEF SocketOrder
  <2>5. SocketTook + Len(chan) = N
    BY <1>1, <1>3, <2>1 DEF SocketOrder, SocketCame
  <2>6. Len(chan) = 0
    BY <1>3, <2>4, <2>5, Numbers
  <2>7. chan = <<>>
    <3>1. ConnTypeOK
      BY DEF IInv, ConnInv
    <3> QED
      BY <2>6, <3>1, Events
  <2>8. LeftOut' /\ Len(chan') = 0
    BY <1>1, <2>1, <2>6, <2>7 DEF LeftOut
  <2>9. SocketOrder'
    BY <2>8 DEF SocketOrder
  <2> QED
    BY <1>1, <1>2, <1>5, <2>9 DEF InvOrder
<1> QED
  BY <1>4, <1>5 DEF SocketFinish, StartWorker

(* All that the accept loop does.                                          *)
LEMMA CalmAccept ==
  ASSUME IInv, InvTurns, InvOrder, Server PROVE InvTurns' /\ InvOrder'
  BY CalmRcWait, CalmRcPost, CalmRcAccept, CalmRcEstablished, CalmSocket, CalmSwapAttrs,
     CalmSocketFinish
  DEF Server, Accept

(* Who has connected has connected: when it is calm, it has always been.   *)
LEMMA NewBefore ==
  ASSUME ConnInv, ConnNext, NEW c \in Clients, cst'[c] = "new" PROVE cst[c] = "new"
<1> USE DEF ConnInv, ConnTypeOK
<1>1. CASE Accept
  BY <1>1 DEF Accept, RcWait, RcPost, RcAccept, RcEstablished, TcpAccept, SocketAccept,
              SwapAttrs, SocketFinish, Answer, InvCur
<1>2. ASSUME NEW d \in Clients, Connect(d) \/ Connecting(d) \/ Manager(d) \/ Die(d)
      PROVE  cst[c] = "new"
  BY <1>2 DEF Connect, RcConnect, SocketConnect, Connecting, RcConnected,
              RcUnreachable, WriteAttrs, SocketConnected, Manager, Establish, Depart, Die
<1> QED
  BY <1>1, <1>2 DEF ConnNext

LEMMA CalmBefore ==
  ASSUME IInv, [Next]_vars, Calm' PROVE Calm
<1>1. \A c \in Others : cst'[c] = "new" => cst[c] = "new"
  BY NextIsConn, NewBefore, ThreadsAreClients DEF vars, connVars, IInv
<1>2. Alone
  BY <1>1 DEF Calm, Alone
<1>3. prompt' = prompt
  BY DEF Next, Main, Create, Awake, Join, Thread, Start, ConnectThread,
      ConnectFailed, Operation, OperationFails, Server, Managed, Come, Other, Go,
      vars, options
<1> QED
  BY <1>2, <1>3, Zenon DEF Calm

(* Others do nothing as long as it is calm.                                *)
LEMMA OthersQuiet ==
  ASSUME IInv, Calm, Calm', NEW c \in Others
  PROVE  ~Come(c) /\ ~Other(c) /\ ~Managed(c) /\ ~Go(c)
<1>1. cst[c] = "new" /\ cst'[c] = "new"
  BY DEF Calm, Alone
<1>2. cst \in [Clients -> {"new", "writing", "connecting", "told", "connected",
                          "failed", "dead"}] /\ c \in Clients
  BY ThreadsAreClients DEF IInv, ConnInv, ConnTypeOK
<1>3. ~Connect(c)
  BY <1>1, <1>2 DEF Connect, RcConnect, SocketConnect
<1>4. ~Connecting(c) /\ ~Manager(c) /\ ~Die(c)
  BY <1>1 DEF Connecting, RcConnected, RcUnreachable, WriteAttrs, SocketConnected,
              Manager, Establish, Depart, Die
<1> QED
  BY <1>3, <1>4 DEF Come, Other, Managed, Go

LEMMA CalmInit == Init => InvCalm
<1> SUFFICES ASSUME Init PROVE InvTurns /\ InvOrder
  BY DEF InvCalm
<1>1. /\ mpc = "create" /\ i = 0 /\ N \in Nat /\ N > 0 /\ 0 \in Threads
      /\ \A t \in Threads : t >= 0 /\ t \in Nat
      /\ \A t \in Threads : id[t] = "none" /\ cst[t] = "new" /\ ipc[t] = "off"
      /\ disturbed = {} /\ apc = "wait" /\ Len(workers) = 0 /\ Len(chan) = 0
  BY ThreadsAreClients DEF Init, ConnInit, ServerInit, Threads
<1>2. InvTurns
  BY <1>1 DEF InvTurns, Past, Present
<1>3. RcOrder
  BY <1>1 DEF RcOrder, RcTook, RcCame, Stage
<1>4. SocketOrder
  BY <1>1 DEF SocketOrder, SocketTook, SocketCame
<1> QED
  BY <1>1, <1>2, <1>3, <1>4 DEF InvOrder

LEMMA CalmNext == IInv /\ InvCalm /\ [Next]_vars => InvCalm'
<1> SUFFICES ASSUME IInv, InvCalm, [Next]_vars, Calm' PROVE InvTurns' /\ InvOrder'
  BY DEF InvCalm
<1>1. Calm /\ InvTurns /\ InvOrder
  BY CalmBefore DEF InvCalm
<1>2. CASE Main
  <2>1. prompt
    BY <1>1, Zenon DEF Calm
  <2> QED
    BY <1>1, <1>2, <2>1, CalmMain
<1>3. CASE Server
  BY <1>1, <1>3, CalmAccept
<1>4. ASSUME NEW t \in Threads, Thread(t) PROVE InvTurns' /\ InvOrder'
  BY <1>1, <1>4, CalmThread, CalmConnect, CalmConnecting DEF ConnectThread
<1>5. ASSUME NEW c \in Others, Come(c) \/ Other(c) PROVE FALSE
  BY <1>1, <1>5, OthersQuiet
<1>6. ASSUME NEW c \in Clients, Managed(c) \/ Go(c) PROVE InvTurns' /\ InvOrder'
  <2>1. c \in Threads
    BY <1>1, <1>6, OthersQuiet, ThreadsAssumption
  <2> QED
    BY <1>1, <1>6, <2>1, CalmManager, CalmConnecting DEF Managed, Go
<1>7. CASE UNCHANGED vars
  <2>1. /\ UNCHANGED <<options, main, instances>>
        /\ UNCHANGED <<type, chan, apc, cur, posted, workers, disturbed, id, cst>>
    BY <1>7 DEF vars, connVars, accepting
  <2>2. InvTurns' /\ RcCame' = RcCame /\ SocketCame' = SocketCame
        /\ OverSocket' = OverSocket
    BY <1>1, <2>1, CalmClients
  <2>3. RcTook' = RcTook /\ SocketTook' = SocketTook /\ LeftOut' = LeftOut
        /\ mpc' = mpc
    BY <2>1, SameTurn DEF RcTook, SocketTook, LeftOut
  <2>4. InvOrder'
    BY <1>1, <2>1, <2>2, <2>3 DEF InvOrder, RcOrder, SocketOrder
  <2> QED
    BY <2>2, <2>4
<1> QED
  BY <1>2, <1>3, <1>4, <1>5, <1>6, <1>7 DEF Next

(* A thread whose worker was started has connected.                        *)
LEMMA WorkersConnected ==
  ASSUME IInv, InvTurns, InvOrder, NEW t \in Nat, t < Len(workers)
  PROVE  t \in Threads /\ cst[t] # "new"
<1>1. t \in Threads /\ t \in Nat /\ Len(workers) \in Nat /\ t + 1 <= Len(workers)
      /\ Len(chan) \in Nat /\ i \in Nat
  BY Numbers DEF InvOrder
<1>2. CASE Past(t)
  BY <1>1, <1>2, Turns
<1>3. CASE ~Past(t)
  <2>1. mpc \notin {"join", "done"} /\ t >= i /\ ~LeftOut
    BY <1>1, <1>3 DEF Past, LeftOut
  <2>2. CASE type = "RC"
    <3>1. RcTook + Len(chan) = 2 * i + Stage(i) /\ RcTook >= 2 * Len(workers)
          /\ RcTook \in Int
      BY <1>1, <2>1, <2>2 DEF InvOrder, RcOrder, RcCame, RcTook
    <3>2. Stage(i) \in {0, 1, 2}
      BY DEF Stage
    <3>3. t = i /\ Stage(i) = 2
      BY <1>1, <2>1, <3>1, <3>2
    <3>4. id[t] # "none"
      BY <3>3 DEF Stage
    <3> QED
      BY <1>1, <3>4, Turns
  <2>3. CASE type # "RC"
    <3>1. SocketTook + Len(chan) = SocketCame /\ SocketTook >= Len(workers)
          /\ SocketTook \in Int
      BY <1>1, <2>1, <2>3 DEF InvOrder, SocketOrder, SocketTook
    <3>2. SocketCame = i + IF cst[i] = "new" THEN 0 ELSE 1
      BY <2>1 DEF SocketCame
    <3>3. t = i /\ cst[i] # "new"
      BY <1>1, <2>1, <3>1, <3>2
    <3> QED
      BY <1>1, <3>3
  <2> QED
    BY <2>2, <2>3
<1> QED
  BY <1>2, <1>3

(* The sleep of main does what its comment says it is for: if it lasts     *)
(* until the connection is established and nobody else connects, the       *)
(* server is not disturbed in accepting a connection, and accepts that of  *)
(* instance n as the n-th, for any number of clients and any transport.    *)
THEOREM SleepIsEnough == Spec => []SleepSuffices
<1>1. Spec => []InvCalm
  BY CalmInit, CalmNext, Invariance, PTL DEF Spec
<1>2. IInv /\ InvCalm => SleepSuffices
  <2> SUFFICES ASSUME IInv, InvCalm, prompt, Alone
               PROVE  /\ disturbed = {}
                      /\ \A k \in 1..Len(workers) : instance_nr[workers[k]] = k - 1
    BY DEF SleepSuffices
  <2>1. InvTurns /\ InvOrder
    BY Zenon DEF InvCalm, Calm
  <2>2. ASSUME NEW k \in 1..Len(workers) PROVE instance_nr[workers[k]] = k - 1
    <3>1. workers[k] = k - 1 /\ k - 1 \in Nat /\ k - 1 < Len(workers)
      BY <2>1, Numbers DEF InvOrder
    <3>2. k - 1 \in Threads /\ cst[k - 1] # "new"
      BY <2>1, <3>1, WorkersConnected
    <3> QED
      BY <2>1, <3>1, <3>2 DEF InvTurns
  <2> QED
    BY <2>1, <2>2 DEF InvOrder
<1> QED
  BY <1>1, <1>2, Invariance, PTL
=============================================================================
