-------------------------- MODULE DgramServerProofs --------------------------
(***************************************************************************)
(* Proofs about DgramServer for every ring size and every set of workers     *)
(* and clients: handing out requests by request_count, blind to which buffer *)
(* a completion is for, gives every request to one worker, in the order of   *)
(* arrival, and a posted buffer keeps its request for N - 1 arrivals.  Send  *)
(* completions add up although workers take each other's, and responses go   *)
(* to the queue pair of their client.                                        *)
(***************************************************************************)
EXTENDS DgramServer, FiniteSetTheorems, TLAPS

(* The next index in the ring, without division                              *)
LEMMA NextSlot ==
  ASSUME NEW s \in Slots
  PROVE  (s + 1) % N = IF s = N - 1 THEN 0 ELSE s + 1
  BY NAssumption DEF Slots

(* Distances are within the ring, and different buffers have different ones.  *)
LEMMA DistRange ==
  /\ \A r, s \in Slots : Dist(r, s) \in Int /\ Dist(r, s) >= 0 /\ Dist(r, s) < N
  /\ \A r, s, u \in Slots : Dist(r, s) = Dist(r, u) => s = u
  /\ \A r \in Slots : Dist(r, r) = 0
  BY NAssumption DEF Dist, Slots

(* An element of a sequence                                                    *)
LEMMA ElementOf ==
  ASSUME NEW S, NEW q \in Seq(S), NEW k \in 1..Len(q)
  PROVE  q[k] \in S
  OBVIOUS

(* A request that arrived has a client and a method.                          *)
LEMMA LogEntry ==
  ASSUME TypeOK, NEW k \in 1..Len(log)
  PROVE  k \in Nat /\ log[k] \in [client : Clients, method : Methods]
<1> DEFINE Req == [client : Clients, method : Methods]
<1>1. log \in Seq(Req)
  BY DEF TypeOK
<1> HIDE DEF Req
<1>2. log[k] \in Req /\ k \in Nat
  BY <1>1, ElementOf
<1> QED
  BY <1>2 DEF Req

(* There are finitely many tickets, because there are finitely many workers.   *)
LEMMA TicketsFinite == IsFiniteSet(Tickets)
  BY WorkersAssumption, FS_Subset DEF Tickets

(* The invariant holds when init_ud_server is done.                            *)
LEMMA InitIInv == Init => IInv
<1> SUFFICES ASSUME Init PROVE IInv
  OBVIOUS
<1>1. TypeOK
  BY NAssumption DEF Init, TypeOK, Slots, PCs
<1>2. InvRing
  BY NAssumption DEF Init, InvRing, Waiting, Dist, Slots
<1>3. Tickets = {}
  BY DEF Init, Tickets, HoldPCs
<1>4. InvTickets
  BY <1>3, FS_EmptySet DEF Init, InvTickets
<1>5. InvLock /\ InvWork /\ NoDuplicate
  BY DEF Init, InvLock, InvWork, NoDuplicate, HoldPCs, BusyPCs
<1> QED
  BY <1>1, <1>2, <1>4, <1>5 DEF IInv
(* Whoever holds the lock has a ticket, so that a request is waiting, and the *)
(* oldest one is in the buffer at request_count.                              *)
LEMMA HolderTakesOldest ==
  ASSUME IInv, NEW t \in Workers, pc[t] \in HoldPCs
  PROVE  /\ taken < Len(log) /\ content[request_count] = taken + 1
         /\ content[request_count] \in 1..Len(log)
<1> USE DEF IInv, TypeOK
<1>1. t \in Tickets
  BY DEF Tickets
<1>2. Cardinality(Tickets) \in Nat /\ Cardinality(Tickets) # 0
  BY <1>1, TicketsFinite, FS_EmptySet, FS_CardinalityType
<1>3. taken < Len(log)
  BY SMTT(40), <1>2 DEF InvTickets
<1>4. request_count \in Slots /\ Dist(request_count, request_count) = 0
  BY DistRange
<1>5. content[request_count] = taken + 1
  <2>1. Waiting > 0
    BY <1>3 DEF Waiting
  <2>2. content[request_count] = taken + Dist(request_count, request_count) + 1
    BY <1>4, <2>1 DEF InvRing
  <2> QED
    BY <1>4, <2>2
<1> QED
  BY <1>3, <1>5

(* Either the ring does not move (UNK), or its oldest buffer is posted again. *)
LEMMA UnkStays ==
  ASSUME IInv, NEW t \in Workers, Ready(t)
  PROVE  /\ log' = log /\ content' = content
         /\ \/ /\ taken' = taken /\ rq' = rq
               /\ request_count' = request_count
            \/ /\ taken' = taken + 1 /\ rq' = Append(rq, request_count)
               /\ request_count' = (request_count + 1) % N
  BY DEF Ready, ring

(* When request_count moves on, every buffer but the one it leaves comes one  *)
(* step nearer, and the one it leaves becomes the last.                       *)
LEMMA DistAdvance ==
  ASSUME TypeOK, request_count' = (request_count + 1) % N
  PROVE  /\ \A s \in Slots : s # request_count => Dist(request_count', s) = Dist(request_count, s) - 1
         /\ \A s \in Slots : s = request_count =>
              Dist(request_count, s) = 0 /\ Dist(request_count', s) = N - 1
<1>1. request_count' = IF request_count = N - 1 THEN 0 ELSE request_count + 1
  BY NextSlot DEF TypeOK
<1> QED
  BY <1>1, NAssumption DEF TypeOK, Dist, Slots

(* The ring stays in order when its oldest buffer is posted again.            *)
LEMMA RingAdvance ==
  ASSUME IInv, NEW t \in Workers, pc[t] \in HoldPCs,
         log' = log, content' = content, taken' = taken + 1,
         rq' = Append(rq, request_count),
         request_count' = (request_count + 1) % N
  PROVE  InvRing'
<1> USE DEF IInv
<1>1. Waiting' = Waiting - 1 /\ Waiting \in Int /\ Waiting > 0
  BY SMTT(40), HolderTakesOldest DEF Waiting, TypeOK
<1>2. /\ \A s \in Slots : s # request_count => Dist(request_count', s) = Dist(request_count, s) - 1
      /\ \A s \in Slots : s = request_count => Dist(request_count, s) = 0 /\ Dist(request_count', s) = N - 1
  BY DistAdvance
<1>3. request_count \in Slots /\ N \in Nat /\ Len(rq) \in Nat /\ taken \in Nat
  BY NAssumption DEF TypeOK
<1>4. /\ Len(rq') = Len(rq) + 1
      /\ \A i \in 1..Len(rq) : rq'[i] = rq[i] /\ rq[i] \in Slots
      /\ rq'[Len(rq) + 1] = request_count
  BY DEF TypeOK
<1>5. Waiting' >= 0 /\ Waiting' <= N /\ Len(rq') = N - Waiting'
  BY <1>1, <1>3, <1>4 DEF InvRing
<1>6. \A i \in 1..Len(rq') : Dist(request_count', rq'[i]) = Waiting' + i - 1
  <2> SUFFICES ASSUME NEW i \in 1..Len(rq') PROVE Dist(request_count', rq'[i]) = Waiting' + i - 1
    OBVIOUS
  <2>1. CASE i = Len(rq) + 1
    <3>1. rq'[i] = request_count /\ Dist(request_count', request_count) = N - 1
      BY <1>2, <1>3, <1>4, <2>1
    <3>2. Waiting' + i - 1 = N - 1
      BY <1>1, <1>3, <2>1 DEF InvRing
    <3> QED
      BY <3>1, <3>2
  <2>2. CASE i # Len(rq) + 1
    <3>1. i \in 1..Len(rq) /\ rq'[i] = rq[i] /\ rq[i] \in Slots
      BY <1>3, <1>4, <2>2
    <3>2. Dist(request_count, rq[i]) = Waiting + i - 1
      BY <3>1 DEF InvRing
    <3>3. rq[i] # request_count
      BY <1>1, <1>2, <1>3, <3>1, <3>2
    <3> QED
      BY <1>1, <1>2, <3>1, <3>2, <3>3
  <2> QED
    BY <2>1, <2>2
<1>7. \A s \in Slots : Dist(request_count', s) < Waiting' => content'[s] = taken' + Dist(request_count', s) + 1
  <2> SUFFICES ASSUME NEW s \in Slots, Dist(request_count', s) < Waiting'
               PROVE  content[s] = taken + 1 + Dist(request_count', s) + 1
    OBVIOUS
  <2>1. s # request_count
    BY <1>1, <1>2, <1>3 DEF InvRing
  <2>2. Dist(request_count', s) = Dist(request_count, s) - 1 /\ Dist(request_count, s) \in Int
    BY <1>2, <1>3, <2>1, DistRange
  <2>3. content[s] = taken + Dist(request_count, s) + 1
    <3>1. Dist(request_count, s) < Waiting
      BY <1>1, <2>2
    <3> QED
      BY <3>1 DEF InvRing
  <2> QED
    BY <1>3, <2>2, <2>3
<1> QED
  BY <1>5, <1>6, <1>7 DEF InvRing

(* Exchanging attributes preserves the invariant.                            *)
LEMMA ExchangeIInv ==
  ASSUME IInv, NEW c \in Clients, Exchange(c)
  PROVE  IInv'
<1> USE DEF IInv, Goto, ring, conn, send, work, Exchange
<1>1. TypeOK'
  <2>1. accepting' \in Clients \cup {None}
    BY DEF TypeOK
  <2>2. remote_attrs' \in [Clients -> Clients \cup {None}]
    BY DEF TypeOK
  <2> QED
    BY <2>1, <2>2 DEF TypeOK
<1>2. InvRing'
  BY DEF TypeOK, InvRing, Waiting, Dist
<1>3. InvTickets'
  <2>1. Tickets' = Tickets
    BY DEF TypeOK, Tickets, HoldPCs
  <2> QED
    BY <2>1 DEF InvTickets
<1>4. InvLock'
  BY DEF TypeOK, InvLock, HoldPCs
<1>5. InvWork'
  BY DEF TypeOK, InvWork, BusyPCs, Dist
<1>6. NoDuplicate'
  BY DEF TypeOK, NoDuplicate, BusyPCs
<1> QED
  BY <1>1, <1>2, <1>3, <1>4, <1>5, <1>6

(* Accepting a client preserves the invariant.                               *)
LEMMA AcceptIInv ==
  ASSUME IInv, NEW t \in Workers, Accept(t)
  PROVE  IInv'
<1> USE DEF IInv, Goto, ring, conn, send, work, Accept
<1>1. TypeOK'
  <2>1. pc' \in [Workers -> PCs] /\ client_counter' \in Nat
    BY DEF TypeOK, PCs
  <2>2. ah' \subseteq Clients /\ accepting' \in Clients \cup {None}
    BY DEF TypeOK
  <2> QED
    BY <2>1, <2>2 DEF TypeOK
<1>2. InvRing'
  BY DEF TypeOK, InvRing, Waiting, Dist
<1>3. InvTickets'
  <2>1. Tickets' = Tickets
    BY DEF TypeOK, Tickets, HoldPCs
  <2> QED
    BY <2>1 DEF InvTickets
<1>4. InvLock'
  BY DEF TypeOK, InvLock, HoldPCs
<1>5. InvWork'
  BY DEF TypeOK, InvWork, BusyPCs, Dist
<1>6. NoDuplicate'
  BY DEF TypeOK, NoDuplicate, BusyPCs
<1> QED
  BY <1>1, <1>2, <1>3, <1>4, <1>5, <1>6

(* Taking the lock preserves the invariant.                                  *)
LEMMA LockIInv ==
  ASSUME IInv, NEW t \in Workers, Lock(t)
  PROVE  IInv'
<1> USE DEF IInv, Goto, ring, conn, send, work, Lock
<1>1. TypeOK'
  BY DEF TypeOK, PCs
<1>2. InvRing'
  BY DEF TypeOK, InvRing, Waiting, Dist
<1>3. InvTickets'
  <2>1. Tickets' = Tickets
    BY DEF TypeOK, Tickets, HoldPCs
  <2> QED
    BY <2>1 DEF InvTickets
<1>4. InvLock'
  BY WorkersAssumption DEF TypeOK, InvLock, HoldPCs
<1>5. InvWork'
  <2>1. \A u \in Workers : pc'[u] \in BusyPCs => u # t /\ pc[u] \in BusyPCs /\ lock # u
    BY WorkersAssumption DEF TypeOK, BusyPCs
  <2> QED
    BY <2>1 DEF TypeOK, InvWork, BusyPCs, Dist
<1>6. NoDuplicate'
  BY DEF TypeOK, NoDuplicate, BusyPCs
<1> QED
  BY <1>1, <1>2, <1>3, <1>4, <1>5, <1>6

(* Transmitting a response preserves the invariant.                          *)
LEMMA TransmitIInv ==
  ASSUME IInv, Transmit
  PROVE  IInv'
<1> USE DEF IInv, Goto, ring, conn, send, work, Transmit
<1>1. TypeOK'
  <2> DEFINE Out == [from : Workers, to : Clients \cup {None}, req : Nat]
  <2>1. sq \in Seq(Out) /\ sq # <<>>
    BY DEF TypeOK
  <2> HIDE DEF Out
  <2>2. Tail(sq) \in Seq(Out) /\ Head(sq) \in Out
    BY <2>1
  <2>3. Head(sq).req \in Nat
    BY <2>2 DEF Out
  <2>4. served' \subseteq Nat /\ spoilt' \subseteq Nat
    BY <2>3 DEF TypeOK
  <2>5. sq' \in Seq(Out)
    BY <2>2
  <2>6. UNCHANGED <<ring, lock, request_count, taken, pc, work, conn>>
        /\ scq' \in Nat
    BY DEF TypeOK
  <2> HIDE DEF Transmit
  <2> QED
    BY <2>4, <2>5, <2>6 DEF TypeOK, Out
<1>2. InvRing'
  BY DEF TypeOK, InvRing, Waiting, Dist
<1>3. InvTickets'
  <2>1. Tickets' = Tickets
    BY DEF TypeOK, Tickets, HoldPCs
  <2> QED
    BY <2>1 DEF InvTickets
<1>4. InvLock'
  BY DEF TypeOK, InvLock, HoldPCs
<1>5. InvWork'
  BY DEF TypeOK, InvWork, BusyPCs, Dist
<1>6. NoDuplicate'
  BY DEF TypeOK, NoDuplicate, BusyPCs
<1> QED
  BY <1>1, <1>2, <1>3, <1>4, <1>5, <1>6

(* Taking a completion preserves the invariant: it becomes a ticket.         *)
LEMMA PollIInv ==
  ASSUME IInv, NEW t \in Workers, Poll(t)
  PROVE  IInv'
<1> USE DEF IInv, Goto, ring, conn, send, work, Poll
<1>1. TypeOK'
  BY SMTT(40) DEF TypeOK, PCs
<1>2. InvRing'
  BY DEF TypeOK, InvRing, Waiting, Dist
<1>3. InvTickets'
  <2>1. t \notin Tickets /\ Tickets' = Tickets \cup {t}
    BY DEF TypeOK, Tickets, HoldPCs
  <2>2. Cardinality(Tickets') = Cardinality(Tickets) + 1
    BY <2>1, TicketsFinite, FS_AddElement
  <2>3. Cardinality(Tickets) \in Nat
    BY TicketsFinite, FS_CardinalityType
  <2> QED
    BY <2>2, <2>3 DEF InvTickets, TypeOK
<1>4. InvLock'
  BY DEF TypeOK, InvLock, HoldPCs
<1>5. InvWork'
  BY DEF TypeOK, InvWork, BusyPCs, Dist
<1>6. NoDuplicate'
  BY DEF TypeOK, NoDuplicate, BusyPCs
<1> QED
  BY <1>1, <1>2, <1>3, <1>4, <1>5, <1>6

(* The arrival of a request preserves the invariant.                         *)
LEMMA ArriveIInv ==
  ASSUME IInv, NEW c \in Clients, NEW m \in Methods, Arrive(c, m)
  PROVE  IInv'
<1> USE DEF IInv, Goto, ring, conn, send, work, Arrive
<1>1. TypeOK'
  BY SMTT(40) DEF TypeOK, PCs
<1>2. InvRing'
  <2>1. Len(log') = Len(log) + 1 /\ Len(log) \in Nat
    BY DEF TypeOK
  <2>2. Waiting' = Waiting + 1 /\ Waiting \in Int
    BY <2>1 DEF Waiting, TypeOK
  <2>3. \A s \in Slots : Dist(request_count', s) = Dist(request_count, s)
    BY DEF Dist
  <2>4. /\ Len(rq) > 0 /\ Len(rq') = Len(rq) - 1 /\ Head(rq) = rq[1]
        /\ \A i \in 1..Len(rq') : rq'[i] = rq[i + 1] /\ rq'[i] \in Slots
    BY DEF TypeOK
  <2>5. Head(rq) \in Slots /\ Dist(request_count, Head(rq)) = Waiting
    <3>1. 1 \in 1..Len(rq) /\ rq[1] \in Slots
      BY <2>4 DEF TypeOK
    <3>2. Dist(request_count, rq[1]) = Waiting + 1 - 1
      BY <3>1 DEF InvRing
    <3> QED
      BY <2>2, <2>4, <3>1, <3>2
  <2>6. \A s \in Slots : Dist(request_count, s) = Waiting => s = Head(rq)
    BY <2>5, DistRange DEF TypeOK
  <2>7. content'[Head(rq)] = taken + Waiting + 1
    BY <2>5 DEF TypeOK, Waiting
  <2>8. \A s \in Slots : s # Head(rq) => content'[s] = content[s]
    BY DEF TypeOK
  <2>9. \A s \in Slots : Dist(request_count, s) \in Nat
    BY DistRange DEF TypeOK
  <2>10. \A s \in Slots : Dist(request_count', s) < Waiting' => content'[s] = taken' + Dist(request_count', s) + 1
    <3> SUFFICES ASSUME NEW s \in Slots, Dist(request_count, s) < Waiting + 1
                 PROVE  content'[s] = taken + Dist(request_count, s) + 1
      BY <2>2, <2>3
    <3>1. CASE s = Head(rq)
      BY <3>1, <2>5, <2>7
    <3>2. CASE s # Head(rq)
      <4>1. Dist(request_count, s) < Waiting
        BY <2>2, <2>6, <2>9, <3>2
      <4> QED
        BY <2>8, <3>2, <4>1 DEF InvRing
    <3> QED
      BY <3>1, <3>2
  <2>11. \A i \in 1..Len(rq') : Dist(request_count', rq'[i]) = Waiting' + i - 1
    <3> SUFFICES ASSUME NEW i \in 1..Len(rq')
                 PROVE  Dist(request_count, rq'[i]) = Waiting' + i - 1
      OBVIOUS
    <3>1. i + 1 \in 1..Len(rq) /\ rq'[i] = rq[i + 1] /\ rq'[i] \in Slots
      BY <2>4 DEF TypeOK
    <3>2. Dist(request_count, rq[i + 1]) = Waiting + (i + 1) - 1
      BY <3>1 DEF InvRing
    <3> QED
      BY <2>2, <3>1, <3>2
  <2>12. Waiting' >= 0 /\ Waiting' <= N /\ Len(rq') = N - Waiting'
    BY <2>2, <2>4, NAssumption DEF InvRing
  <2> QED
    BY <2>10, <2>11, <2>12 DEF InvRing
<1>3. InvTickets'
  <2>1. Tickets' = Tickets
    BY DEF TypeOK, Tickets, HoldPCs
  <2>2. Cardinality(Tickets) \in Nat
    BY TicketsFinite, FS_CardinalityType
  <2>3. Len(log') = Len(log) + 1
    BY DEF TypeOK
  <2> QED
    BY <2>1, <2>2, <2>3 DEF InvTickets, TypeOK
<1>4. InvLock'
  BY DEF TypeOK, InvLock, HoldPCs
<1>5. InvWork'
  <2>1. Len(log') = Len(log) + 1 /\ Len(log) \in Nat
    BY DEF TypeOK
  <2>2. Head(rq) \in Slots /\ Dist(request_count, Head(rq)) = Len(log) - taken
    BY DEF TypeOK, InvRing, Waiting
  <2>3. \A s \in Slots : s # Head(rq) => content'[s] = content[s]
    BY DEF TypeOK
  <2>4. \A s : Dist(request_count', s) = Dist(request_count, s)
    BY DEF Dist
  <2>5. ASSUME NEW t \in Workers, pc[t] \in {"zero", "execute"}, mine[t] <= taken,
               Len(log) + 1 < mine[t] + N
        PROVE  content'[slot[t]] = mine[t] /\ Dist(request_count, slot[t]) = mine[t] + N - taken - 1
    <3>1. content[slot[t]] = mine[t] /\ Dist(request_count, slot[t]) = mine[t] + N - taken - 1
      BY SMTT(40), <2>1, <2>5, NAssumption DEF TypeOK, InvWork, BusyPCs
    <3>2. slot[t] \in Slots /\ slot[t] # Head(rq)
      BY SMTT(40), <2>1, <2>2, <2>5, <3>1, NAssumption DEF TypeOK
    <3> QED
      BY <2>3, <3>1, <3>2
  <2>6. ASSUME NEW t \in Workers, pc[t] \in BusyPCs
        PROVE  mine[t] <= taken \/ (mine[t] = taken + 1 /\ lock = t
                                    /\ mine[t] <= Len(log'))
    BY <2>1, <2>6 DEF InvWork, TypeOK
  <2> QED
    BY <2>1, <2>4, <2>5, <2>6 DEF InvWork, BusyPCs
<1>6. NoDuplicate'
  BY DEF TypeOK, NoDuplicate, BusyPCs
<1> QED
  BY <1>1, <1>2, <1>3, <1>4, <1>5, <1>6

(* Dispatching the oldest request preserves the invariant.                   *)
LEMMA DispatchIInv ==
  ASSUME IInv, NEW t \in Workers, Dispatch(t)
  PROVE  IInv'
<1> USE DEF IInv, Goto, ring, conn, send, work, Dispatch, PostSend
<1>1. TypeOK'
  <2> DEFINE k == content[request_count]
  <2>1. k \in 1..Len(log) /\ k \in Nat /\ log[k] \in [client : Clients, method : Methods]
    <3>1. k \in 1..Len(log)
      BY HolderTakesOldest DEF HoldPCs
    <3> QED
      BY <3>1, LogEntry
  <2>2. log[k].client \in Clients
    BY <2>1
  <2>3. [from |-> t, req |-> k,
         to |-> IF log[k].client \in ah THEN remote_attrs[log[k].client] ELSE None] \in [from : Workers, to : Clients \cup {None}, req : Nat]
    BY <2>1, <2>2 DEF TypeOK
  <2>4. sq' \in Seq([from : Workers, to : Clients \cup {None}, req : Nat])
    <3> DEFINE Out == [from : Workers, to : Clients \cup {None}, req : Nat]
               m == [from |-> t, req |-> k,
         to |-> IF log[k].client \in ah THEN remote_attrs[log[k].client] ELSE None]
    <3>1. sq \in Seq(Out) /\ m \in Out /\ (sq' = sq \/ sq' = Append(sq, m))
      BY <2>3 DEF TypeOK
    <3> HIDE DEF Out, m
    <3>2. sq' \in Seq(Out)
      BY SMTT(40), <3>1
    <3> QED
      BY <3>2 DEF Out
  <2>5. /\ slot' \in [Workers -> Slots] /\ mine' \in [Workers -> Nat]
        /\ handling' \in [Workers -> Clients \cup {None}]
        /\ response' \in [Workers -> Nat] /\ pc' \in [Workers -> PCs]
    BY <2>1, <2>2 DEF TypeOK, PCs
  <2> QED
    BY <2>4, <2>5 DEF TypeOK
<1>2. InvRing'
  BY DEF TypeOK, InvRing, Waiting, Dist
<1>3. InvTickets'
  <2>1. Tickets' = Tickets
    BY DEF TypeOK, Tickets, HoldPCs
  <2> QED
    BY <2>1 DEF InvTickets
<1>4. InvLock'
  BY HolderTakesOldest, WorkersAssumption DEF TypeOK, InvLock, HoldPCs
<1>5. InvWork'
  <2>1. /\ lock = t /\ content[request_count] = taken + 1
        /\ taken + 1 <= Len(log) /\ taken \in Nat
    BY SMTT(40), HolderTakesOldest DEF HoldPCs, InvLock, TypeOK
  <2>2. log[content[request_count]].client \in Clients
    <3> DEFINE k == content[request_count]
    <3>1. k \in 1..Len(log)
      BY HolderTakesOldest DEF HoldPCs
    <3>2. log[k] \in [client : Clients, method : Methods]
      BY <3>1, LogEntry
    <3> QED
      BY <3>2
  <2>3. mine'[t] = taken + 1 /\ handling'[t] \in Clients /\ pc'[t] \notin {"zero", "execute"}
    BY <2>1, <2>2 DEF TypeOK
  <2>4. \A u \in Workers : u # t =>
          /\ pc'[u] = pc[u] /\ mine'[u] = mine[u] /\ slot'[u] = slot[u]
          /\ handling'[u] = handling[u]
    BY DEF TypeOK
  <2>5. \A s : Dist(request_count', s) = Dist(request_count, s)
    BY DEF Dist
  <2> QED
    BY <2>1, <2>3, <2>4, <2>5 DEF InvWork
<1>6. NoDuplicate'
  <2>1. lock = t /\ content[request_count] = taken + 1
    BY HolderTakesOldest DEF HoldPCs, InvLock
  <2>2. mine'[t] = taken + 1
    BY <2>1 DEF TypeOK
  <2>3. \A u \in Workers : u # t => /\ pc'[u] = pc[u] /\ mine'[u] = mine[u]
                                    /\ (pc[u] \in BusyPCs => mine[u] <= taken)
    BY <2>1 DEF TypeOK, InvWork
  <2>4. \A u \in Workers : u # t /\ pc'[u] \in BusyPCs => mine'[u] # mine'[t]
    BY <2>2, <2>3 DEF TypeOK
  <2> QED
    BY <2>3, <2>4 DEF NoDuplicate
<1> QED
  BY <1>1, <1>2, <1>3, <1>4, <1>5, <1>6

(* Posting the buffer again and releasing the lock preserves the invariant.  *)
LEMMA ReadyIInv ==
  ASSUME IInv, NEW t \in Workers, Ready(t)
  PROVE  IInv'
<1> USE DEF IInv, Goto, ring, conn, send, work, Ready
<1>1. TypeOK'
  <2>1. (request_count + 1) % N \in Slots
    BY NextSlot, NAssumption DEF TypeOK, Slots
  <2>2. rq' \in Seq(Slots)
    <3>1. rq \in Seq(Slots) /\ request_count \in Slots
      BY DEF TypeOK
    <3>2. rq' = rq \/ rq' = Append(rq, request_count)
      BY UnkStays
    <3> HIDE DEF Ready
    <3> QED
      BY <3>1, <3>2
  <2>3. /\ request_count' \in Slots /\ taken' \in Nat
        /\ lock' \in Workers \cup {None}
    BY SMTT(40), <2>1 DEF TypeOK
  <2>4. pc' \in [Workers -> PCs]
    BY DEF TypeOK, PCs
  <2> QED
    BY <2>2, <2>3, <2>4 DEF TypeOK
<1>2. InvRing'
  <2>1. CASE taken' = taken
    BY SMTT(40), <2>1, UnkStays DEF TypeOK, InvRing, Waiting, Dist
  <2>2. CASE taken' = taken + 1
    <3>1. taken \in Nat /\ pc[t] \in HoldPCs
      BY DEF TypeOK, HoldPCs
    <3>2. /\ log' = log /\ content' = content /\ rq' = Append(rq, request_count)
          /\ request_count' = (request_count + 1) % N
      BY <2>2, <3>1, UnkStays
    <3> QED
      BY <2>2, <3>1, <3>2, RingAdvance
  <2> QED
    BY <2>1, <2>2, UnkStays
<1>3. InvTickets'
  <2>1. t \in Tickets /\ Tickets' = Tickets \ {t}
    BY DEF TypeOK, Tickets, HoldPCs
  <2>2. Cardinality(Tickets') = Cardinality(Tickets) - 1
    BY <2>1, TicketsFinite, FS_RemoveElement
  <2>3. Cardinality(Tickets) \in Nat
    BY TicketsFinite, FS_CardinalityType
  <2>4. taken' <= taken + 1 /\ taken' \in Nat
    BY SMTT(40) DEF TypeOK
  <2>5. /\ log' = log /\ rcq' = rcq /\ taken \in Nat /\ rcq \in Nat
        /\ Len(log) \in Nat
    BY DEF TypeOK
  <2>6. taken + rcq + Cardinality(Tickets) <= Len(log)
    BY DEF InvTickets
  <2> HIDE DEF IInv, Ready
  <2> QED
    BY <2>2, <2>3, <2>4, <2>5, <2>6 DEF InvTickets
<1>4. InvLock'
  BY DEF TypeOK, InvLock, HoldPCs
<1>5. InvWork'
  <2>0. /\ pc' = [pc EXCEPT ![t] = "zero"] /\ pc \in [Workers -> PCs]
        /\ pc[t] = "ready" /\ lock = t /\ slot[t] = request_count
        /\ mine[t] = taken + 1 /\ content[request_count] = taken + 1
        /\ taken \in Nat /\ UNCHANGED <<handling, mine, slot, log, content>>
        /\ N \in Nat /\ N > 0 /\ request_count \in Slots /\ Len(log) \in Nat
    BY SMTT(40), HolderTakesOldest, NAssumption DEF TypeOK, InvLock, HoldPCs
  <2>1. CASE taken' = taken
    <3>1. lock' = lock /\ request_count' = request_count
      BY <2>0, <2>1
    <3> HIDE DEF Ready
    <3> QED
      BY <2>0, <2>1, <3>1 DEF InvWork, BusyPCs
  <2>2. CASE taken' = taken + 1
    <3>1. lock' = None /\ request_count' = (request_count + 1) % N
      BY <2>0, <2>2
    <3>2. /\ \A s \in Slots : s # request_count =>
               Dist(request_count', s) = Dist(request_count, s) - 1
          /\ Dist(request_count', request_count) = N - 1
          /\ Dist(request_count, request_count) = 0
      BY <2>0, <3>1, DistAdvance
    <3> HIDE DEF Ready
    <3>3. ASSUME NEW u \in Workers, pc[u] \in BusyPCs, u # t
          PROVE  mine[u] <= taken /\ mine[u] \in Nat /\ handling[u] \in Clients
      BY <2>0, <3>3 DEF InvWork, TypeOK
    <3>4. ASSUME NEW u \in Workers, pc[u] \in {"zero", "execute"}, u # t,
                 Len(log) < mine[u] + N
          PROVE  /\ content[slot[u]] = mine[u]
                 /\ Dist(request_count', slot[u]) = mine[u] + N - taken' - 1
      <4>1. /\ content[slot[u]] = mine[u] /\ slot[u] \in Slots
            /\ Dist(request_count, slot[u]) = mine[u] + N - taken - 1
        BY <3>3, <3>4 DEF InvWork, BusyPCs, TypeOK
      <4>2. slot[u] # request_count
        BY <2>0, <3>2, <3>3, <3>4, <4>1, HolderTakesOldest DEF HoldPCs, BusyPCs
      <4> QED
        BY <2>0, <2>2, <3>2, <3>3, <3>4, <4>1, <4>2 DEF BusyPCs
    <3>5. \A u \in Workers : u # t => pc'[u] = pc[u]
      BY <2>0
    <3>6. pc'[t] = "zero"
      BY <2>0
    <3>7. handling[t] \in Clients
      BY <2>0 DEF InvWork, BusyPCs
    <3>8. ASSUME NEW u \in Workers, pc'[u] \in BusyPCs
          PROVE  /\ handling'[u] \in Clients /\ mine'[u] <= taken'
                 /\ mine'[u] # taken' + 1
                 /\ (pc'[u] \in {"zero", "execute"} /\ Len(log') < mine'[u] + N) =>
                      /\ content'[slot'[u]] = mine'[u]
                      /\ Dist(request_count', slot'[u]) = mine'[u] + N - taken' - 1
      <4>1. CASE u = t
        BY <2>0, <2>2, <3>2, <3>7, <4>1
      <4>2. CASE u # t
        BY <2>0, <2>2, <3>3, <3>4, <3>5, <3>8, <4>2
      <4> QED
        BY <4>1, <4>2
    <3> QED
      BY <3>8 DEF InvWork
  <2> QED
    BY <2>1, <2>2, UnkStays
<1>6. NoDuplicate'
  BY DEF TypeOK, NoDuplicate, BusyPCs
<1> QED
  BY <1>1, <1>2, <1>3, <1>4, <1>5, <1>6

(* Zeroing the response preserves the invariant.                             *)
LEMMA ZeroIInv ==
  ASSUME IInv, NEW t \in Workers, Zero(t)
  PROVE  IInv'
<1> USE DEF IInv, Goto, ring, conn, send, work, Zero
<1>1. TypeOK'
  BY DEF TypeOK, PCs
<1>2. InvRing'
  BY DEF TypeOK, InvRing, Waiting, Dist
<1>3. InvTickets'
  <2>1. Tickets' = Tickets
    BY DEF TypeOK, Tickets, HoldPCs
  <2> QED
    BY <2>1 DEF InvTickets
<1>4. InvLock'
  BY DEF TypeOK, InvLock, HoldPCs
<1>5. InvWork'
  BY DEF TypeOK, InvWork, BusyPCs, Dist
<1>6. NoDuplicate'
  BY DEF TypeOK, NoDuplicate, BusyPCs
<1> QED
  BY <1>1, <1>2, <1>3, <1>4, <1>5, <1>6

(* Executing a request preserves the invariant.                              *)
LEMMA ExecuteIInv ==
  ASSUME IInv, NEW t \in Workers, Execute(t)
  PROVE  IInv'
<1> USE DEF IInv, Goto, ring, conn, send, work, Execute
<1>1. TypeOK'
  BY DEF TypeOK, PCs
<1>2. InvRing'
  BY DEF TypeOK, InvRing, Waiting, Dist
<1>3. InvTickets'
  <2>1. Tickets' = Tickets
    BY DEF TypeOK, Tickets, HoldPCs
  <2> QED
    BY <2>1 DEF InvTickets
<1>4. InvLock'
  BY DEF TypeOK, InvLock, HoldPCs
<1>5. InvWork'
  BY DEF TypeOK, InvWork, BusyPCs, Dist
<1>6. NoDuplicate'
  BY DEF TypeOK, NoDuplicate, BusyPCs
<1> QED
  BY <1>1, <1>2, <1>3, <1>4, <1>5, <1>6

(* Posting the response preserves the invariant.                             *)
LEMMA SendIInv ==
  ASSUME IInv, NEW t \in Workers, Send(t)
  PROVE  IInv'
<1> USE DEF IInv, Goto, ring, conn, send, work, Send, PostSend
<1>1. TypeOK'
  <2>1. [from |-> t, req |-> mine[t],
         to |-> IF handling[t] \in ah THEN remote_attrs[handling[t]] ELSE None] \in
          [from : Workers, to : Clients \cup {None}, req : Nat]
    BY DEF TypeOK, InvWork, BusyPCs
  <2>2. sq' \in Seq([from : Workers, to : Clients \cup {None}, req : Nat])
    BY <2>1 DEF TypeOK
  <2> QED
    BY <2>2 DEF TypeOK, PCs
<1>2. InvRing'
  BY DEF TypeOK, InvRing, Waiting, Dist
<1>3. InvTickets'
  <2>1. Tickets' = Tickets
    BY DEF TypeOK, Tickets, HoldPCs
  <2> QED
    BY <2>1 DEF InvTickets
<1>4. InvLock'
  BY DEF TypeOK, InvLock, HoldPCs
<1>5. InvWork'
  BY DEF TypeOK, InvWork, BusyPCs, Dist
<1>6. NoDuplicate'
  BY DEF TypeOK, NoDuplicate, BusyPCs
<1> QED
  BY <1>1, <1>2, <1>3, <1>4, <1>5, <1>6

(* Taking a send completion preserves the invariant.                         *)
LEMMA SendDoneIInv ==
  ASSUME IInv, NEW t \in Workers, SendDone(t)
  PROVE  IInv'
<1> USE DEF IInv, Goto, ring, conn, send, work, SendDone
<1>1. TypeOK'
  <2>1. pc' \in [Workers -> PCs] /\ scq' \in Nat
    BY DEF TypeOK, PCs
  <2> QED
    BY <2>1 DEF TypeOK
<1>2. InvRing'
  BY DEF TypeOK, InvRing, Waiting, Dist
<1>3. InvTickets'
  <2>1. Tickets' = Tickets
    BY DEF TypeOK, Tickets, HoldPCs
  <2> QED
    BY <2>1 DEF InvTickets
<1>4. InvLock'
  BY DEF TypeOK, InvLock, HoldPCs
<1>5. InvWork'
  BY DEF TypeOK, InvWork, BusyPCs, Dist
<1>6. NoDuplicate'
  BY DEF TypeOK, NoDuplicate, BusyPCs
<1> QED
  BY <1>1, <1>2, <1>3, <1>4, <1>5, <1>6
(* No step breaks the invariant.                                               *)
LEMMA NextIInv == IInv /\ [Next]_vars => IInv'
<1> SUFFICES ASSUME IInv, [Next]_vars PROVE IInv'
  OBVIOUS
<1>1. CASE UNCHANGED vars
  <2> USE <1>1 DEF IInv, vars, ring, conn, send, work
  <2>1. TypeOK' /\ InvRing' /\ InvLock' /\ InvWork' /\ NoDuplicate'
    BY DEF TypeOK, InvRing, InvLock, InvWork, NoDuplicate, Waiting
  <2>2. Tickets' = Tickets
    BY DEF Tickets
  <2> QED
    BY <2>1, <2>2 DEF InvTickets
<1>2. ASSUME NEW t \in Workers, Step(t) PROVE IInv'
  BY <1>2, PollIInv, LockIInv, DispatchIInv, ReadyIInv, ZeroIInv, ExecuteIInv,
     SendIInv, SendDoneIInv DEF Step
<1>3. ASSUME NEW t \in Workers, Accept(t) PROVE IInv'
  BY <1>3, AcceptIInv
<1>6. ASSUME NEW c \in Clients, Exchange(c) PROVE IInv'
  BY <1>6, ExchangeIInv
<1>4. ASSUME NEW c \in Clients, NEW m \in Methods, Arrive(c, m) PROVE IInv'
  BY <1>4, ArriveIInv
<1>5. CASE Transmit
  BY <1>5, TransmitIInv
<1> QED
  BY <1>1, <1>2, <1>3, <1>4, <1>5, <1>6 DEF Next

(***************************************************************************)
(* The theorems.                                                            *)
(***************************************************************************)

(* The invariant of the ring, the tickets, the lock and the workers holds in  *)
(* every state of the datagram server.                                        *)
THEOREM Invariance == Spec => []IInv
<1> QED
  BY InitIInv, NextIInv, PTL DEF Spec

(* Whoever holds the server's lock finds the oldest request that nobody took  *)
(* in the buffer at request_count.                                            *)
THEOREM OldestFirst == Spec => []TakesOldest
<1>1. IInv => TakesOldest
  BY HolderTakesOldest DEF TakesOldest
<1> QED
  BY <1>1, Invariance, PTL

(* No request is executed by two workers at the same time.                    *)
THEOREM ExclusiveRequests == Spec => []NoDuplicate
<1>1. IInv => NoDuplicate
  BY DEF IInv
<1> QED
  BY <1>1, Invariance, PTL

(* A request survives in its buffer, although the buffer is posted before it  *)
(* is executed, as long as fewer than N requests have arrived after it.       *)
THEOREM RequestsIntact == Spec => []IntactWithinRing
<1>1. IInv => IntactWithinRing
  <2> SUFFICES ASSUME IInv, NEW t \in Workers, pc[t] = "execute",
                      Len(log) < mine[t] + N
               PROVE  content[slot[t]] = mine[t]
    BY DEF IntactWithinRing
  <2>1. pc[t] \in BusyPCs
    BY DEF BusyPCs
  <2>2. mine[t] <= taken \/ (mine[t] = taken + 1 /\ mine[t] <= Len(log))
    BY <2>1 DEF IInv, InvWork
  <2>3. CASE mine[t] <= taken
    BY <2>1, <2>3 DEF IInv, InvWork
  <2>4. CASE mine[t] = taken + 1 /\ mine[t] <= Len(log)
    <3>1. slot[t] = request_count
      BY <2>1, <2>4 DEF IInv, InvWork
    <3>2. request_count \in Slots /\ Waiting > 0 /\ taken \in Nat
      BY <2>4 DEF IInv, TypeOK, Waiting
    <3>3. content[request_count] = taken + Dist(request_count, request_count) + 1
      BY <3>2, DistRange DEF IInv, InvRing
    <3> QED
      BY <2>4, <3>1, <3>2, <3>3, DistRange
  <2> QED
    BY <2>2, <2>3, <2>4
<1> QED
  BY <1>1, Invariance, PTL

-----------------------------------------------------------------------------
(***************************************************************************)
(* The sends and their completions.                                         *)
(***************************************************************************)

(* The workers that wait for the completion of a send                         *)
Waiters == {t \in Workers : pc[t] \in {"dispatched", "sent"}}

(***************************************************************************)
(* Where responses go.  Clients that connect in the order of their ids and  *)
(* send after that find their attributes at their own index.                *)
(***************************************************************************)
InvConn ==
  /\ \A c \in Clients :
       /\ remote_attrs[c] = IF c < client_counter \/ accepting = c THEN c ELSE None
       /\ c \in ah <=> c < client_counter
  /\ accepting # None => accepting = client_counter

(* Whose requests are in the log, at the workers and in the send queue        *)
InvRoute ==
  /\ \A k \in 1..Len(log) : log[k].client \in ah
  /\ \A t \in Workers : pc[t] \in BusyPCs =>
       mine[t] \in 1..Len(log) /\ handling[t] = log[mine[t]].client
  /\ \A i \in 1..Len(sq) : sq[i].req \in 1..Len(log)
  /\ Routed

(* The send queue is a queue of responses to requests.                        *)
LEMMA SendQueue ==
  ASSUME TypeOK
  PROVE  /\ Len(sq) \in Nat /\ scq \in Nat
         /\ \A m : Len(Append(sq, m)) = Len(sq) + 1
         /\ \A m : \A i \in 1..Len(sq) + 1 :
              Append(sq, m)[i] = IF i = Len(sq) + 1 THEN m ELSE sq[i]
         /\ sq # <<>> => /\ Len(Tail(sq)) = Len(sq) - 1
                         /\ \A i \in 1..Len(Tail(sq)) :
                              i + 1 \in 1..Len(sq) /\ Tail(sq)[i] = sq[i + 1]
<1> DEFINE Out == [from : Workers, to : Clients \cup {None}, req : Nat]
<1>1. sq \in Seq(Out) /\ scq \in Nat
  BY DEF TypeOK
<1> HIDE DEF Out
<1> QED
  BY <1>1

LEMMA WaitersCount ==
  /\ IsFiniteSet(Waiters) /\ Cardinality(Waiters) \in Nat
  /\ \A t : t \notin Waiters =>
       Cardinality(Waiters \cup {t}) = Cardinality(Waiters) + 1
  /\ \A t : t \in Waiters => Cardinality(Waiters \ {t}) = Cardinality(Waiters) - 1
<1>1. IsFiniteSet(Waiters)
  BY WorkersAssumption, FS_Subset DEF Waiters
<1> QED
  BY <1>1, FS_CardinalityType, FS_AddElement, FS_RemoveElement

(* A worker that posts a response waits, and one that has taken a completion, *)
(* anybody's, does not.                                                       *)
LEMMA SendsNext == TypeOK /\ SendsMatchWaiters /\ [Next]_vars => SendsMatchWaiters'
<1> SUFFICES ASSUME TypeOK, Len(sq) + scq = Cardinality(Waiters), [Next]_vars
             PROVE  Len(sq') + scq' = Cardinality(Waiters')
  BY DEF SendsMatchWaiters, Waiters
<1>1. CASE UNCHANGED <<sq, scq>> /\ Waiters' = Waiters
  BY <1>1
<1>2. ASSUME NEW t \in Workers, NEW m, sq' = Append(sq, m), scq' = scq,
             pc[t] \in {"dispatch", "send"},
             pc' = [pc EXCEPT ![t] = "dispatched"] \/ pc' = [pc EXCEPT ![t] = "sent"]
      PROVE  Len(sq') + scq' = Cardinality(Waiters')
  <2>1. t \notin Waiters /\ Waiters' = Waiters \cup {t}
    BY <1>2 DEF Waiters, TypeOK
  <2>2. Cardinality(Waiters') = Cardinality(Waiters) + 1
    BY <2>1, WaitersCount
  <2>3. Len(sq') = Len(sq) + 1 /\ Len(sq) \in Nat /\ scq \in Nat
    BY <1>2, SendQueue
  <2> QED
    BY <1>2, <2>2, <2>3
<1>3. ASSUME NEW t \in Workers, SendDone(t)
      PROVE  Len(sq') + scq' = Cardinality(Waiters')
  <2>1. t \in Waiters /\ Waiters' = Waiters \ {t}
    BY <1>3 DEF SendDone, Goto, Waiters, TypeOK
  <2>2. Cardinality(Waiters') = Cardinality(Waiters) - 1
    BY <2>1, WaitersCount
  <2>3. sq' = sq /\ scq' = scq - 1 /\ Len(sq) \in Nat /\ scq \in Nat
    BY <1>3, SendQueue DEF SendDone
  <2> QED
    BY <2>2, <2>3, WaitersCount
<1>4. CASE Transmit
  <2>1. Waiters' = Waiters
    BY <1>4 DEF Transmit, Waiters
  <2>2. Len(sq') = Len(sq) - 1 /\ scq' = scq + 1 /\ Len(sq) \in Nat /\ scq \in Nat
    BY <1>4, SendQueue DEF Transmit
  <2> QED
    BY <2>1, <2>2
<1>5. ASSUME NEW t \in Workers, Dispatch(t)
      PROVE  Len(sq') + scq' = Cardinality(Waiters')
  <2>1. CASE pc' = [pc EXCEPT ![t] = "ready"] /\ UNCHANGED <<sq, scq>>
    <3>1. Waiters' = Waiters
      BY <1>5, <2>1 DEF Waiters, TypeOK, Dispatch
    <3> QED
      BY <1>1, <2>1, <3>1
  <2>2. CASE pc' = [pc EXCEPT ![t] = "dispatched"] /\ \E m : sq' = Append(sq, m)
    BY <1>2, <1>5, <2>2 DEF Dispatch
  <2> QED
    BY <1>5, <2>1, <2>2 DEF Dispatch, PostSend, Goto
<1>6. ASSUME NEW t \in Workers, Send(t)
      PROVE  Len(sq') + scq' = Cardinality(Waiters')
  BY <1>2, <1>6 DEF Send, PostSend, Goto
<1>7. ASSUME NEW t \in Workers,
             Poll(t) \/ Lock(t) \/ Ready(t) \/ Zero(t) \/ Execute(t) \/ Accept(t)
      PROVE  Len(sq') + scq' = Cardinality(Waiters')
  <2>1. UNCHANGED <<sq, scq>>
    BY <1>7 DEF Poll, Lock, Ready, Zero, Execute, Accept, send
  <2>2. Waiters' = Waiters
    BY <1>7 DEF Poll, Lock, Ready, Zero, Execute, Accept, Goto, Waiters, TypeOK
  <2> QED
    BY <1>1, <2>1, <2>2
<1>8. ASSUME NEW c \in Clients, Exchange(c) \/ \E m \in Methods : Arrive(c, m)
      PROVE  Len(sq') + scq' = Cardinality(Waiters')
  BY <1>1, <1>8 DEF Exchange, Arrive, send, Waiters
<1>9. CASE UNCHANGED vars
  BY <1>1, <1>9 DEF vars, send, Waiters
<1> QED
  BY <1>3, <1>4, <1>5, <1>6, <1>7, <1>8, <1>9 DEF Next, Step

(* Workers take each other's send completions, and none is left without one:  *)
(* the responses posted and the completions not taken add up to the workers   *)
(* that wait.                                                                 *)
THEOREM CompletionsAddUp == Spec => []SendsMatchWaiters
<1>1. Init => SendsMatchWaiters
  <2> SUFFICES ASSUME Init PROVE SendsMatchWaiters
    OBVIOUS
  <2>1. Waiters = {}
    BY DEF Init, Waiters
  <2>2. Cardinality(Waiters) = 0
    BY <2>1, FS_EmptySet
  <2>3. Len(sq) = 0 /\ scq = 0
    BY DEF Init
  <2> QED
    BY <2>2, <2>3 DEF SendsMatchWaiters, Waiters
<1>2. IInv => TypeOK
  BY DEF IInv
<1> QED
  BY <1>1, <1>2, SendsNext, Invariance, PTL DEF Spec

-----------------------------------------------------------------------------
(* A connection is made: attributes are stored at the index that is the id of *)
(* the client, which then gets its address handle.                            *)
LEMMA ConnNext ==
  ASSUME AnyOrder = FALSE, TypeOK, InvConn, [Next]_vars
  PROVE  InvConn' /\ ah \subseteq ah'
<1>0. Clients \subseteq Nat /\ None \notin Clients
  <2> DEFINE X == Cardinality(Clients) - 1
  <2>1. Clients = 0 .. X /\ None \notin Clients
    BY ClientsAssumption
  <2> HIDE DEF X
  <2> QED
    BY <2>1
<1>1. CASE UNCHANGED conn
  BY <1>1 DEF conn, InvConn
<1>2. ASSUME NEW c \in Clients, Exchange(c) PROVE InvConn' /\ ah \subseteq ah'
  <2>1. /\ c = client_counter /\ accepting = None /\ accepting' = c
        /\ remote_attrs' = [remote_attrs EXCEPT ![c] = c]
        /\ UNCHANGED <<client_counter, ah>>
    BY <1>2 DEF Exchange
  <2> QED
    BY <1>0, <2>1 DEF InvConn, TypeOK
<1>3. ASSUME NEW t \in Workers, Accept(t) PROVE InvConn' /\ ah \subseteq ah'
  <2>1. /\ accepting \in Clients /\ accepting = client_counter /\ accepting' = None
        /\ client_counter' = client_counter + 1 /\ ah' = ah \cup {accepting}
        /\ remote_attrs' = remote_attrs /\ client_counter \in Nat
    BY <1>3 DEF Accept, InvConn, TypeOK
  <2>2. \A c \in Clients : c < client_counter' <=> c < client_counter \/ c = accepting
    BY <1>0, <2>1
  <2> QED
    BY <1>0, <2>1, <2>2 DEF InvConn
<1> QED
  BY <1>1, <1>2, <1>3
  DEF Next, Step, Poll, Lock, Dispatch, Ready, Zero, Execute, Send, SendDone, Arrive,
      Transmit, vars

(* The steps that neither send nor take a request up leave every request with *)
(* its client.                                                                *)
LEMMA RouteKept ==
  ASSUME IInv, InvRoute, ah \subseteq ah', UNCHANGED <<log, mine, handling, sq>>,
         \A t \in Workers : pc'[t] \in BusyPCs => pc[t] \in BusyPCs
  PROVE  InvRoute'
  BY DEF InvRoute, Routed

(* A request arrives from a client that has been accepted.                    *)
LEMMA RouteArrive ==
  ASSUME EarlySend = FALSE, IInv, InvConn, InvRoute, NEW c \in Clients,
         NEW m \in Methods, Arrive(c, m)
  PROVE  InvRoute'
<1>1. /\ log' = Append(log, [client |-> c, method |-> m]) /\ c # accepting
      /\ UNCHANGED <<pc, mine, handling, sq, ah>>
  BY DEF Arrive, work, send, conn
<1>2. c \in ah
  <2>1. PICK d \in Clients : remote_attrs[d] = c
    BY DEF Arrive, Connected
  <2>2. d = c /\ (c < client_counter \/ accepting = c)
    BY <2>1, ClientsAssumption DEF InvConn
  <2> QED
    BY <1>1, <2>2 DEF InvConn
<1> DEFINE Req == [client : Clients, method : Methods]
           r == [client |-> c, method |-> m]
<1>3. log \in Seq(Req) /\ r \in Req /\ r.client = c
  BY DEF IInv, TypeOK
<1> HIDE DEF Req, r
<1>4. /\ Len(log') = Len(log) + 1 /\ Len(log) \in Nat /\ log'[Len(log) + 1].client = c
      /\ \A k \in 1..Len(log) : log'[k] = log[k] /\ k \in 1..Len(log')
  <2>1. log' = Append(log, r)
    BY <1>1 DEF r
  <2> QED
    BY <1>3, <2>1
<1>5. \A k \in 1..Len(log') : k \in 1..Len(log) \/ k = Len(log) + 1
  BY <1>4
<1> QED
  BY <1>1, <1>2, <1>4, <1>5 DEF InvRoute, Routed

(* A response is posted: it goes to where its request came from.              *)
LEMMA RoutePost ==
  ASSUME IInv, InvConn, InvRoute, NEW t \in Workers, NEW k \in 1..Len(log),
         PostSend(t, log[k].client, k), UNCHANGED log
  PROVE  \A i \in 1..Len(sq') : /\ sq'[i].req \in 1..Len(log')
                                /\ sq'[i].to = log'[sq'[i].req].client
<1> DEFINE c == log[k].client
           m == [from |-> t, req |-> k,
                 to |-> IF c \in ah THEN remote_attrs[c] ELSE None]
<1>1. sq' = Append(sq, m) /\ log' = log
  BY DEF PostSend
<1>2. c \in ah /\ c \in Clients
  <2>1. log[k] \in [client : Clients, method : Methods]
    BY LogEntry DEF IInv
  <2> QED
    BY <2>1 DEF InvRoute
<1>3. m.req = k /\ m.to = c
  BY <1>2 DEF InvConn
<1> HIDE DEF m, c
<1>4. /\ Len(sq') = Len(sq) + 1
      /\ \A i \in 1..Len(sq') : sq'[i] = IF i = Len(sq) + 1 THEN m ELSE sq[i]
      /\ Len(sq) \in Nat
  BY <1>1, SendQueue DEF IInv
<1>5. ASSUME NEW i \in 1..Len(sq')
      PROVE  sq'[i].req \in 1..Len(log) /\ sq'[i].to = log[sq'[i].req].client
  <2>1. CASE i = Len(sq) + 1
    BY <1>3, <1>4, <2>1 DEF c
  <2>2. CASE i # Len(sq) + 1
    BY <1>4, <2>2 DEF InvRoute, Routed
  <2> QED
    BY <2>1, <2>2
<1> QED
  BY <1>1, <1>5

LEMMA RouteDispatch ==
  ASSUME IInv, InvConn, InvRoute, NEW t \in Workers, Dispatch(t) PROVE InvRoute'
<1> DEFINE k == content[request_count]
<1>1. k \in 1..Len(log)
  BY HolderTakesOldest DEF Dispatch, HoldPCs
<1>2. /\ mine' = [mine EXCEPT ![t] = k]
      /\ handling' = [handling EXCEPT ![t] = log[k].client]
      /\ UNCHANGED <<log, ah>>
      /\ \A u \in Workers : u # t => pc'[u] = pc[u]
      /\ sq' = sq \/ PostSend(t, log[k].client, k)
  BY DEF Dispatch, Goto, ring, conn, IInv, TypeOK
<1> HIDE DEF k
<1>3. \A u \in Workers : pc'[u] \in BusyPCs =>
        mine'[u] \in 1..Len(log) /\ handling'[u] = log[mine'[u]].client
  <2>1. mine'[t] = k /\ handling'[t] = log[k].client
    BY <1>2 DEF IInv, TypeOK
  <2>2. \A u \in Workers : u # t => mine'[u] = mine[u] /\ handling'[u] = handling[u]
    BY <1>2 DEF IInv, TypeOK
  <2> QED
    BY <1>1, <1>2, <2>1, <2>2 DEF InvRoute
<1>4. \A i \in 1..Len(sq') : /\ sq'[i].req \in 1..Len(log')
                             /\ sq'[i].to = log'[sq'[i].req].client
  <2>1. CASE sq' = sq
    BY <1>2, <2>1 DEF InvRoute, Routed
  <2>2. CASE PostSend(t, log[k].client, k)
    BY <1>1, <1>2, <2>2, RoutePost
  <2> QED
    BY <1>2, <2>1, <2>2
<1> QED
  BY <1>2, <1>3, <1>4 DEF InvRoute, Routed

LEMMA RouteSend ==
  ASSUME IInv, InvConn, InvRoute, NEW t \in Workers, Send(t) PROVE InvRoute'
<1>1. /\ UNCHANGED <<log, ah, mine, handling>>
      /\ \A u \in Workers : pc'[u] \in BusyPCs => pc[u] \in BusyPCs
  BY DEF Send, Goto, ring, conn, work, IInv, TypeOK, BusyPCs
<1>2. mine[t] \in 1..Len(log) /\ PostSend(t, log[mine[t]].client, mine[t])
  BY DEF Send, InvRoute, BusyPCs
<1>3. \A i \in 1..Len(sq') : /\ sq'[i].req \in 1..Len(log')
                             /\ sq'[i].to = log'[sq'[i].req].client
  BY <1>1, <1>2, RoutePost
<1> QED
  BY <1>1, <1>3 DEF InvRoute, Routed

LEMMA RouteTransmit ==
  ASSUME IInv, InvRoute, Transmit PROVE InvRoute'
<1>1. /\ UNCHANGED <<log, ah, mine, handling, pc>> /\ sq # <<>> /\ sq' = Tail(sq)
  BY DEF Transmit, ring, conn, work
<1>2. \A i \in 1..Len(sq') : i + 1 \in 1..Len(sq) /\ sq'[i] = sq[i + 1]
  BY <1>1, SendQueue DEF IInv
<1> QED
  BY <1>1, <1>2 DEF InvRoute, Routed

LEMMA RouteNext ==
  ASSUME AnyOrder = FALSE, EarlySend = FALSE
  PROVE  IInv /\ InvConn /\ InvRoute /\ [Next]_vars => InvConn' /\ InvRoute'
<1> SUFFICES ASSUME IInv, InvConn, InvRoute, [Next]_vars
             PROVE  InvConn' /\ InvRoute'
  OBVIOUS
<1>1. InvConn' /\ ah \subseteq ah'
  BY ConnNext DEF IInv
<1>2. ASSUME NEW t \in Workers,
             \/ Poll(t) \/ Lock(t) \/ Ready(t) \/ Zero(t) \/ Execute(t)
             \/ SendDone(t) \/ Accept(t)
      PROVE  InvRoute'
  <2>1. UNCHANGED <<log, mine, handling, sq>>
    BY <1>2 DEF Poll, Lock, Ready, Zero, Execute, SendDone, Accept, ring, work, send
  <2>2. \A u \in Workers : pc'[u] \in BusyPCs => pc[u] \in BusyPCs
    BY <1>2 DEF Poll, Lock, Ready, Zero, Execute, SendDone, Accept, Goto, BusyPCs, IInv, TypeOK
  <2> QED
    BY <1>1, <2>1, <2>2, RouteKept
<1>3. ASSUME NEW c \in Clients, Exchange(c) PROVE InvRoute'
  BY <1>1, <1>3, RouteKept DEF Exchange, ring, work, send
<1>4. CASE UNCHANGED vars
  BY <1>1, <1>4, RouteKept DEF vars, ring, work, send
<1>5. InvRoute'
  BY <1>2, <1>3, <1>4, RouteArrive, RouteDispatch, RouteSend, RouteTransmit
  DEF Next, Step
<1> QED
  BY <1>1, <1>5

(* A response goes to the queue pair of the client that sent the request,     *)
(* whatever the workers do at the same time, provided that clients connect in *)
(* the order of their ids, as the benchmark's do when its sleep is long       *)
(* enough, and send only when main has started a worker for them: otherwise   *)
(* ud_post_send would look up the attributes at the wrong index, or before    *)
(* there is an address handle.                                                *)
THEOREM ResponsesRouted ==
  ASSUME AnyOrder = FALSE, EarlySend = FALSE
  PROVE  Spec => []Routed
<1>1. Init => InvConn /\ InvRoute
  <2> SUFFICES ASSUME Init PROVE InvConn /\ InvRoute
    OBVIOUS
  <2>1. \A c \in Clients : c # None /\ ~(c < 0)
    <3> DEFINE X == Cardinality(Clients) - 1
    <3>1. Clients = 0 .. X /\ None \notin Clients
      BY ClientsAssumption
    <3> HIDE DEF X
    <3> QED
      BY <3>1
  <2>2. InvConn
    BY <2>1 DEF Init, InvConn
  <2>3. InvRoute
    BY DEF Init, InvRoute, Routed, BusyPCs
  <2> QED
    BY <2>2, <2>3
<1>2. InvRoute => Routed
  BY DEF InvRoute
<1> QED
  BY <1>1, <1>2, RouteNext, Invariance, PTL DEF Spec
=============================================================================
