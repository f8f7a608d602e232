----------------------------- MODULE ChainProofs -----------------------------
(***************************************************************************)
(* Proofs about HashTable for any set of workers that send SET, GET and DEL  *)
(* at the same time, and for one worker that also sends RST; allocations may *)
(* fail.  The bucket mutex keeps the lists well formed, with one entry for   *)
(* each key and none lost, whatever a GET, which takes no mutex, runs into.  *)
(* A single worker has no undefined behaviour but after a failed allocation. *)
(***************************************************************************)
EXTENDS HashTable, TLAPS

(* RST tears the table down under whoever uses it: it is sent, if at all, to *)
(* a server with one worker.                                                 *)
RstAlone ==
  \A t \in Workers :
    (\E r \in Requests[t] : r.method = "RST") => Workers = {t}

NoRst == \A t \in Workers : \A r \in Requests[t] : r.method # "RST"

ResetPCs == {"reset_free", "reset_ht", "reset_items", "reset_locks"}
ItemPCs  == {"advance", "trydel", "delbusy"} \cup DelPCs
              \cup {"trywrlock"} \cup WritePCs \cup {"tryrdlock"} \cup ReadPCs

(* Where each method takes a worker, and where it has found an item.         *)
Control ==
  \A t \in Workers :
    /\ pc[t] = "idle" <=> req[t] = NULL
    /\ req[t] # NULL => req[t] \in Requests[t]
    /\ pc[t] \in {"search", "scan", "advance"} => Method(t) # "RST"
    /\ pc[t] \in {"lock", "unlock"} => Method(t) \in {"SET", "DEL"}
    /\ pc[t] \in {"insert", "trywrlock"} \cup WritePCs => Method(t) = "SET"
    /\ pc[t] \in {"tryrdlock"} \cup ReadPCs => Method(t) = "GET"
    /\ pc[t] \in {"trydel", "delbusy"} \cup DelPCs => Method(t) = "DEL"
    /\ pc[t] \in ResetPCs => Method(t) = "RST"
    /\ pc[t] \in ItemPCs \/ (pc[t] = "unlock" /\ Method(t) = "SET") =>
         current[t] \in Addrs

(* Between pthread_mutex_lock and pthread_mutex_unlock.                      *)
Inside(t) ==
  \/ pc[t] \in {"search", "scan", "advance"} /\ Method(t) # "GET"
  \/ pc[t] \in {"insert", "unlock", "trydel", "delbusy"} \cup DelPCs

(* A doubly linked list from h on.                                           *)
Doubly(h, nx, pv) ==
  /\ h # NULL => pv[h] = NULL
  /\ \A x \in Reach(h, nx) : nx[x] # NULL => pv[nx[x]] = x
Ends(h, nx) == h # NULL => \E x \in Reach(h, nx) : nx[x] = NULL

(* The list of each bucket at all times.  An item has lost its key when the  *)
(* DEL that holds the mutex is about to unlink it.                           *)
Linked ==
  \A b \in Buckets :
    /\ Doubly(items[b], next, prev)
    /\ Ends(items[b], next)
    /\ Chain(b) \subseteq allocated

Clearing(a, b) ==
  \E t \in Workers : pc[t] = "unlink" /\ current[t] = a /\ Bucket(t) = b

Hashed ==
  \A b \in Buckets : \A a \in Chain(b) :
    IF key[a] = NULL THEN Clearing(a, b) ELSE BucketOf[key[a]] = b

Disjoint ==
  \A b, c \in Buckets : b # c => Chain(b) \cap Chain(c) = {}

Lists == Linked /\ Hashed /\ Disjoint /\ UniqueKeys

(* Whoever is inside has the mutex of its bucket; where it has got to; and   *)
(* an entry of the key that a SET is looking for lies ahead, if there is one.*)
Mutex(t) == Inside(t) => locks[Bucket(t)] = t

Head(t) ==
  (Inside(t) /\ pc[t] \in {"search", "scan", "advance", "insert"}) =>
    item_head[t] = items[Bucket(t)]

Place(t) ==
  /\ (Inside(t) /\ pc[t] = "scan") => current[t] \in OrNull(Chain(Bucket(t)))
  /\ (Inside(t) /\ pc[t] \in {"advance", "trydel", "delbusy", "clear", "unlink"})
       => current[t] \in Chain(Bucket(t))
  /\ pc[t] = "free" => /\ current[t] \in allocated
                       /\ \A b \in Buckets : current[t] \notin Chain(b)

Ahead(t) ==
  (Inside(t) /\ Method(t) = "SET") =>
    \A a \in Chain(Bucket(t)) : key[a] = req[t].key =>
      /\ pc[t] = "scan" => a \in ReachFrom(current[t])
      /\ pc[t] = "advance" => a \in ReachFrom(next[current[t]])
      /\ pc[t] # "insert"

Holder(t) == Mutex(t) /\ Head(t) /\ Place(t) /\ Ahead(t)

Freeing ==
  \A t, u \in Workers :
    (t # u /\ pc[t] = "free" /\ pc[u] = "free") => current[t] # current[u]

(* RST does not free the items.                                              *)
Kept ==
  NoRst => \A x \in allocated :
             \/ \E b \in Buckets : x \in Chain(b)
             \/ \E u \in Workers : pc[u] = "free" /\ current[u] = x

(* The inductive invariant.                                                  *)
Base    == TypeOK /\ Control
ListInv == Base /\ Lists /\ (\A t \in Workers : Holder(t)) /\ Freeing /\ Kept

-----------------------------------------------------------------------------
(***************************************************************************)
(* Walks along the pointers of a list.                                     *)
(***************************************************************************)
Pointers == [Addrs -> OrNull(Addrs)]

(* A walk from NULL meets nothing; any other meets where it starts, and      *)
(* whatever follows an item it meets.                                        *)
LEMMA ReachClosed ==
  ASSUME NEW nx \in Pointers, NEW a \in OrNull(Addrs)
  PROVE  /\ Reach(a, nx) \subseteq Addrs
         /\ a = NULL => Reach(a, nx) = {}
         /\ a # NULL => a \in Reach(a, nx)
         /\ Closed(Reach(a, nx), nx)
<1>1. Reach(a, nx) \subseteq Addrs
  BY DEF Reach
<1>2. ASSUME a = NULL PROVE Reach(a, nx) = {}
  <2>1. {} \in SUBSET Addrs /\ a \in OrNull({}) /\ Closed({}, nx)
    BY <1>2 DEF OrNull, Closed
  <2> QED
    BY <2>1 DEF Reach
<1>3. ASSUME a # NULL PROVE a \in Reach(a, nx)
  BY <1>3 DEF Reach, OrNull
<1>4. Closed(Reach(a, nx), nx)
  <2> SUFFICES ASSUME NEW x \in Reach(a, nx), nx[x] # NULL PROVE nx[x] \in Reach(a, nx)
    BY DEF Closed, OrNull
  <2>1. x \in Addrs /\ nx[x] \in Addrs
    BY <1>1 DEF Pointers, OrNull
  <2>2. ASSUME NEW S \in SUBSET Addrs, a \in OrNull(S), Closed(S, nx) PROVE nx[x] \in S
    <3>1. x \in S
      BY <2>2 DEF Reach
    <3> QED
      BY <2>2, <3>1 DEF Closed, OrNull
  <2> QED
    BY <2>1, <2>2 DEF Reach
<1> QED
  BY <1>1, <1>2, <1>3, <1>4

(* It meets no more than it must.                                            *)
LEMMA ReachLeast ==
  ASSUME NEW nx \in Pointers, NEW a \in OrNull(Addrs),
         NEW S \in SUBSET Addrs, a \in OrNull(S), Closed(S, nx)
  PROVE  Reach(a, nx) \subseteq S
  BY DEF Reach

(* A walk is not changed by what happens to items that it does not meet.     *)
LEMMA ReachSame ==
  ASSUME NEW nx \in Pointers, NEW ny \in Pointers, NEW a \in OrNull(Addrs),
         \A x \in Reach(a, nx) : ny[x] = nx[x]
  PROVE  Reach(a, ny) = Reach(a, nx)
<1> DEFINE X == Reach(a, nx)
           Y == Reach(a, ny)
<1>1. X \in SUBSET Addrs /\ a \in OrNull(X) /\ Closed(X, nx)
  BY ReachClosed DEF OrNull
<1>2. Y \in SUBSET Addrs /\ a \in OrNull(Y) /\ Closed(Y, ny)
  BY ReachClosed DEF OrNull
<1>3. Closed(X, ny)
  BY <1>1 DEF Closed
<1>4. Y \subseteq X
  BY <1>1, <1>3, ReachLeast
<1>5. Closed(Y, nx)
  BY <1>2, <1>4 DEF Closed
<1>6. X \subseteq Y
  BY <1>2, <1>5, ReachLeast
<1> QED
  BY <1>4, <1>6

(* The rest of a walk is a part of it.                                       *)
LEMMA ReachPart ==
  ASSUME NEW nx \in Pointers, NEW a \in OrNull(Addrs), NEW c \in OrNull(Reach(a, nx))
  PROVE  Reach(c, nx) \subseteq Reach(a, nx)
<1>1. Reach(a, nx) \in SUBSET Addrs /\ Closed(Reach(a, nx), nx)
  BY ReachClosed
<1>2. c \in OrNull(Addrs)
  BY <1>1 DEF OrNull
<1> QED
  BY <1>1, <1>2, ReachLeast

(* What a walk meets is its first item, and what it meets after that.        *)
LEMMA ReachStep ==
  ASSUME NEW nx \in Pointers, NEW a \in Addrs
  PROVE  Reach(a, nx) = {a} \cup Reach(nx[a], nx)
<1> DEFINE S == {a} \cup Reach(nx[a], nx)
<1>0. a \in OrNull(Addrs) /\ a # NULL /\ nx[a] \in OrNull(Addrs)
  BY NullAssumption DEF Pointers, OrNull
<1>1. S \in SUBSET Addrs /\ a \in OrNull(S)
  BY <1>0, ReachClosed DEF OrNull
<1>2. Closed(S, nx)
  BY <1>0, ReachClosed DEF Closed, OrNull
<1>3. Reach(a, nx) \subseteq S
  BY <1>0, <1>1, <1>2, ReachLeast
<1>4. a \in Reach(a, nx) /\ nx[a] \in OrNull(Reach(a, nx))
  BY <1>0, ReachClosed DEF Closed
<1>5. Reach(nx[a], nx) \subseteq Reach(a, nx)
  BY <1>0, <1>4, ReachPart
<1> QED
  BY <1>3, <1>4, <1>5

(* An item that is met is the first, or follows another.                     *)
LEMMA ReachFollows ==
  ASSUME NEW nx \in Pointers, NEW a \in OrNull(Addrs), NEW x \in Reach(a, nx), x # a
  PROVE  \E y \in Reach(a, nx) : y # x /\ nx[y] = x
<1> SUFFICES ASSUME \A y \in Reach(a, nx) : y # x => nx[y] # x PROVE FALSE
  OBVIOUS
<1> DEFINE S == Reach(a, nx) \ {x}
<1>1. S \in SUBSET Addrs /\ a \in OrNull(S) /\ Closed(S, nx)
  BY ReachClosed DEF Closed, OrNull
<1> QED
  BY <1>1, ReachLeast

(* Insert: a walk from a new item in front of a list.                        *)
LEMMA ReachInsert ==
  ASSUME NEW nx \in Pointers, NEW h \in OrNull(Addrs), NEW n \in Addrs, n \notin Reach(h, nx)
  PROVE  Reach(n, [nx EXCEPT ![n] = h]) = {n} \cup Reach(h, nx)
<1> DEFINE ny == [nx EXCEPT ![n] = h]
<1>1. ny \in Pointers /\ ny[n] = h
  BY DEF Pointers
<1>2. \A x \in Reach(h, nx) : ny[x] = nx[x]
  BY ReachClosed DEF Pointers
<1>3. Reach(h, ny) = Reach(h, nx)
  BY <1>1, <1>2, ReachSame
<1> HIDE DEF ny
<1>4. Reach(n, ny) = {n} \cup Reach(h, ny)
  BY <1>1, ReachStep
<1> QED
  BY <1>3, <1>4 DEF ny

(* Before an item of a doubly linked list comes the one that its prev names,  *)
(* or the item is the first.                                                 *)
LEMMA PrevInList ==
  ASSUME NEW nx \in Pointers, NEW pv \in Pointers, NEW h \in OrNull(Addrs),
         Doubly(h, nx, pv), NEW c \in Reach(h, nx)
  PROVE  /\ h # NULL
         /\ c \in Addrs
         /\ nx[c] \in OrNull(Reach(h, nx)) /\ nx[c] # c
         /\ c = h => pv[c] = NULL
         /\ c # h => pv[c] \in Reach(h, nx) /\ pv[c] # c /\ nx[pv[c]] = c
         /\ \A x \in Reach(h, nx) : nx[x] = c => pv[c] = x
<1>1. h # NULL /\ c \in Addrs /\ nx[c] \in OrNull(Reach(h, nx)) /\ c # NULL
  BY ReachClosed, NullAssumption DEF Closed
<1>2. c = h => pv[c] = NULL
  BY <1>1 DEF Doubly
<1>3. \A x \in Reach(h, nx) : nx[x] = c => pv[c] = x
  BY <1>1 DEF Doubly
<1>4. ASSUME c # h PROVE pv[c] \in Reach(h, nx) /\ pv[c] # c /\ nx[pv[c]] = c
  BY <1>3, <1>4, ReachFollows
<1>5. nx[c] # c
  BY <1>1, <1>2, <1>3, <1>4
<1> QED
  BY <1>1, <1>2, <1>3, <1>4, <1>5

(* Unlink: a doubly linked list without one of its items is one again.       *)
LEMMA ReachUnlink ==
  ASSUME NEW nx \in Pointers, NEW pv \in Pointers, NEW h \in OrNull(Addrs),
         Doubly(h, nx, pv), Ends(h, nx), NEW c \in Reach(h, nx),
         NEW ny, ny = [x \in Addrs |-> IF x = pv[c] THEN nx[c] ELSE nx[x]],
         NEW pw, pw = [x \in Addrs |-> IF x = nx[c] THEN pv[c] ELSE pv[x]],
         NEW g, g = IF h = c THEN nx[c] ELSE h
  PROVE  /\ Reach(g, ny) = Reach(h, nx) \ {c}
         /\ Doubly(g, ny, pw)
         /\ Ends(g, ny)
<1> DEFINE X == Reach(h, nx)
           Y == Reach(g, ny)
<1>1. X \subseteq Addrs /\ h \in X /\ Closed(X, nx) /\ NULL \notin Addrs
  BY ReachClosed, PrevInList, NullAssumption
<1>2. /\ h # NULL /\ c \in Addrs
      /\ nx[c] \in OrNull(X) /\ nx[c] # c
      /\ c = h => pv[c] = NULL
      /\ c # h => pv[c] \in X /\ pv[c] # c /\ nx[pv[c]] = c
      /\ \A x \in X : nx[x] = c => pv[c] = x
  BY PrevInList
<1>3. /\ ny \in Pointers /\ g \in OrNull(Addrs)
      /\ \A x \in Addrs : ny[x] = IF x = pv[c] THEN nx[c] ELSE nx[x]
      /\ \A x \in Addrs : pw[x] = IF x = nx[c] THEN pv[c] ELSE pv[x]
  BY <1>1, <1>2 DEF Pointers, OrNull
<1>4. Y \subseteq X \ {c}
  <2>1. g \in OrNull(X \ {c})
    BY <1>1, <1>2 DEF OrNull
  <2>2. Closed(X \ {c}, ny)
    BY <1>1, <1>2, <1>3 DEF Closed, OrNull
  <2> QED
    BY <1>1, <1>3, <2>1, <2>2, ReachLeast
<1>5. Y \subseteq Addrs /\ g \in OrNull(Y) /\ Closed(Y, ny)
  BY <1>3, ReachClosed DEF OrNull
<1>6. X \ {c} \subseteq Y
  <2> DEFINE T == IF h = c \/ pv[c] \in Y THEN Y \cup {c} ELSE Y
  <2>1. T \in SUBSET Addrs /\ h \in OrNull(T)
    BY <1>2, <1>5 DEF OrNull
  <2>2. Closed(T, nx)
    <3> SUFFICES ASSUME NEW x \in T PROVE nx[x] \in OrNull(T)
      BY DEF Closed
    <3>1. CASE x = c
      <4>1. CASE h = c
        BY <1>5, <3>1, <4>1 DEF OrNull
      <4>2. CASE h # c
        <5>1. pv[c] \in Y
          BY <1>4, <3>1, <4>2
        <5>2. ny[pv[c]] = nx[c] /\ ny[pv[c]] \in OrNull(Y)
          BY <1>3, <1>5, <5>1 DEF Closed
        <5> QED
          BY <3>1, <5>2 DEF OrNull
      <4> QED
        BY <4>1, <4>2
    <3>2. CASE x # c
      <4>1. x \in Y /\ x \in X /\ ny[x] \in OrNull(Y)
        BY <1>4, <1>5, <3>2 DEF Closed
      <4>2. CASE x = pv[c]
        <5>1. c # h
          BY <1>1, <1>2, <4>1, <4>2
        <5> QED
          BY <1>2, <4>1, <4>2, <5>1 DEF OrNull
      <4>3. CASE x # pv[c]
        BY <1>1, <1>3, <4>1, <4>3 DEF OrNull
      <4> QED
        BY <4>2, <4>3
    <3> QED
      BY <3>1, <3>2
  <2>3. X \subseteq T
    BY <2>1, <2>2, ReachLeast
  <2> QED
    BY <2>3
<1>7. Y = X \ {c}
  BY <1>4, <1>6
<1>8. Doubly(g, ny, pw)
  <2>1. ASSUME g # NULL PROVE pw[g] = NULL
    BY <1>1, <1>2, <1>3, <2>1 DEF OrNull, Doubly
  <2>2. ASSUME NEW x \in Y, ny[x] # NULL PROVE pw[ny[x]] = x
    <3>1. x \in X /\ x # c /\ x \in Addrs
      BY <1>1, <1>7
    <3>2. CASE x = pv[c]
      BY <1>1, <1>2, <1>3, <2>2, <3>1, <3>2 DEF OrNull
    <3>3. CASE x # pv[c]
      <4>1. ny[x] = nx[x] /\ nx[x] \in X /\ pv[nx[x]] = x
        BY <1>1, <1>3, <2>2, <3>1, <3>3 DEF Closed, OrNull, Doubly
      <4>2. nx[x] # nx[c]
        BY <2>2, <3>1, <4>1 DEF Doubly
      <4> QED
        BY <1>1, <1>3, <4>1, <4>2
    <3> QED
      BY <3>2, <3>3
  <2> QED
    BY <2>1, <2>2 DEF Doubly
<1>9. Ends(g, ny)
  <2> SUFFICES ASSUME g # NULL PROVE \E x \in Y : ny[x] = NULL
    BY DEF Ends
  <2>1. PICK z \in X : nx[z] = NULL
    BY <1>2 DEF Ends
  <2>2. CASE z = c
    <3>1. c # h
      BY <1>2, <2>1, <2>2
    <3>2. pv[c] \in Y /\ ny[pv[c]] = NULL
      BY <1>1, <1>2, <1>3, <1>7, <2>1, <2>2, <3>1
    <3> QED
      BY <3>2
  <2>3. CASE z # c
    <3>1. z # pv[c]
      BY <1>1, <1>2, <2>1, <2>3
    <3>2. z \in Y /\ ny[z] = NULL
      BY <1>1, <1>3, <1>7, <2>1, <2>3, <3>1
    <3> QED
      BY <3>2
  <2> QED
    BY <2>2, <2>3
<1> QED
  BY <1>7, <1>8, <1>9

-----------------------------------------------------------------------------
(***************************************************************************)
(* Types, and where workers are, for all requests.                         *)
(***************************************************************************)
LEMMA Busy ==
  ASSUME Base, NEW t \in Workers, pc[t] # "idle"
  PROVE  /\ req[t] \in Request /\ req[t] \in Requests[t]
         /\ req[t].key \in Keys /\ req[t].method \in Methods
         /\ Bucket(t) \in Buckets
<1>1. req[t] \in Request /\ req[t] \in Requests[t]
  BY DEF Base, TypeOK, Control, OrNull
<1>2. req[t].key \in Keys /\ req[t].method \in Methods
  BY <1>1 DEF Request
<1> QED
  BY <1>1, <1>2, BucketAssumption DEF Bucket

LEMMA InitBase == Init => Base
<1> SUFFICES ASSUME Init PROVE Base
  OBVIOUS
<1>1. TypeOK
  BY DEF Init, TypeOK, OrNull, PCs
<1>2. Control
  BY DEF Init, Control, WritePCs, ReadPCs, DelPCs, ItemPCs, ResetPCs
<1> QED
  BY <1>1, <1>2 DEF Base

LEMMA ReceiveBase ==
  ASSUME Base, NEW t \in Workers, Receive(t) PROVE Base'
<1>1. PICK r \in Requests[t] :
        /\ req' = [req EXCEPT ![t] = r]
        /\ Goto(t, IF r.method = "GET" THEN "search"
                   ELSE IF r.method = "RST" THEN "reset_free" ELSE "lock")
  BY DEF Receive
<1>2. r \in Request /\ r # NULL /\ r.method \in Methods
  BY RequestsAssumption, NullAssumption DEF Request
<1>3. TypeOK'
  BY <1>1, <1>2 DEF Base, TypeOK, Receive, Goto, OrNull, PCs, shared, table, heap, resp, status
<1>4. Control'
  BY <1>1, <1>2 DEF Base, TypeOK, Control, Receive, Goto, Method, Methods, WritePCs, ReadPCs, DelPCs,
        ItemPCs, ResetPCs
<1> QED
  BY <1>3, <1>4 DEF Base

(* Steps that change nothing but where the worker is, and its response.      *)
LEMMA WalkBase ==
  ASSUME Base, NEW t \in Workers, ~BadAccess(t),
         Search(t) \/ Compare(t) \/ Advance(t) \/ NotFound(t) \/ Read(t)
  PROVE  Base'
<1>1. req[t] \in Request /\ Bucket(t) \in Buckets /\ req[t].method \in Methods
  BY Busy DEF Search, Compare, Advance, NotFound, Read
<1>2. pc[t] = "advance" => current[t] \in Addrs
  BY DEF Base, Control, ItemPCs
<1>3. TypeOK'
  <2>1. CASE Search(t)
    BY <1>1, <2>1 DEF Base, TypeOK, Search, Goto, OrNull, PCs, shared, table, heap, resp, status
  <2>2. CASE Compare(t)
    BY <1>1, <2>2 DEF Base, TypeOK, Compare, Goto, OrNull, PCs, shared, table, heap, resp, status
  <2>3. CASE Advance(t)
    BY <1>1, <1>2, <2>3 DEF Base, TypeOK, Advance, Goto, OrNull, PCs, shared, table, heap, resp, status
  <2>4. CASE NotFound(t)
    BY <1>1, <2>4 DEF Base, TypeOK, NotFound, Goto, OrNull, PCs, shared, table, heap, resp, status
  <2>5. CASE Read(t)
    <3>1. current[t] \in Addrs
      BY <2>5 DEF Base, Control, Read, ItemPCs, ReadPCs
    <3> QED
      BY <1>1, <2>5, <3>1 DEF Base, TypeOK, Read, Goto, OrNull, PCs, shared, table, heap, resp, status
  <2> QED
    BY <2>1, <2>2, <2>3, <2>4, <2>5
<1>4. Control'
  <2> USE DEF Base, TypeOK, Control, Goto, Method, Methods, WritePCs, ReadPCs, DelPCs, ItemPCs,
              ResetPCs, OrNull
  <2>1. CASE Search(t)
    BY <1>1, <2>1 DEF Search
  <2>2. CASE Compare(t)
    BY <1>1, <2>2 DEF Compare
  <2>3. CASE Advance(t)
    BY <1>1, <2>3 DEF Advance
  <2>4. CASE NotFound(t)
    BY <1>1, <2>4 DEF NotFound
  <2>5. CASE Read(t)
    BY <1>1, <2>5 DEF Read
  <2> QED
    BY <2>1, <2>2, <2>3, <2>4, <2>5
<1> QED
  BY <1>3, <1>4 DEF Base

LEMMA RwUnlockTyped ==
  ASSUME TypeOK, NEW a \in Addrs, RwUnlock(a), ~LockFree(a)
  PROVE  wrlocked' \in [Addrs -> BOOLEAN] /\ readers' \in [Addrs -> Nat]
<1>1. wrlocked' \in [Addrs -> BOOLEAN]
  BY DEF TypeOK, RwUnlock
<1>2. CASE wrlocked[a]
  BY <1>1, <1>2 DEF TypeOK, RwUnlock
<1>3. CASE ~wrlocked[a]
  <2>1. readers[a] \in Nat /\ readers[a] # 0
    BY <1>3 DEF TypeOK, LockFree
  <2>2. readers[a] - 1 \in Nat
    BY <2>1
  <2>3. readers' = [readers EXCEPT ![a] = readers[a] - 1]
    BY <1>3 DEF RwUnlock, TypeOK
  <2> QED
    BY <1>1, <2>2, <2>3 DEF TypeOK
<1> QED
  BY <1>2, <1>3

(* The mutex and the rwlock of an item.                                      *)
LEMMA LockBase ==
  ASSUME Base, NEW t \in Workers, ~BadAccess(t),
         Lock(t) \/ Unlock(t) \/ TryWrLock(t) \/ TryRdLock(t) \/ TryDelLock(t) \/
         ItemUnlock(t) \/ DelBusy(t)
  PROVE  Base'
<1>1. /\ req[t] \in Request /\ req[t].method \in Methods /\ req[t].key \in Keys
      /\ Bucket(t) \in Buckets
  BY Busy DEF Lock, Unlock, TryWrLock, TryRdLock, TryDelLock, ItemUnlock, DelBusy
<1>2. (TryWrLock(t) \/ TryRdLock(t) \/ TryDelLock(t) \/ ItemUnlock(t) \/ DelBusy(t))
        => current[t] \in Addrs
  BY DEF Base, Control, ItemPCs, WritePCs, ReadPCs, DelPCs, TryWrLock, TryRdLock, TryDelLock,
     ItemUnlock, DelBusy
<1>3. TypeOK'
  <2> USE DEF Base, TypeOK, Goto, OrNull, PCs, shared, table, heap, resp, status
  <2>1. CASE Lock(t)
    BY <1>1, <1>2, <2>1 DEF Lock
  <2>2. CASE Unlock(t)
    BY <1>1, <1>2, <2>2 DEF Unlock
  <2>3. CASE TryWrLock(t)
    BY <1>1, <1>2, <2>3 DEF TryWrLock
  <2>4. CASE TryRdLock(t)
    BY <1>1, <1>2, <2>4 DEF TryRdLock
  <2>5. CASE TryDelLock(t)
    BY <1>1, <1>2, <2>5 DEF TryDelLock
  <2>6. CASE ItemUnlock(t)
    <3>1. wrlocked' \in [Addrs -> BOOLEAN] /\ readers' \in [Addrs -> Nat]
      BY <1>2, <2>6, RwUnlockTyped DEF ItemUnlock, BadAccess
    <3> QED
      BY <1>1, <1>2, <2>6, <3>1 DEF ItemUnlock
  <2>7. CASE DelBusy(t)
    <3>1. wrlocked' \in [Addrs -> BOOLEAN] /\ readers' \in [Addrs -> Nat]
      BY <1>2, <2>7, RwUnlockTyped DEF DelBusy, BadAccess
    <3> QED
      BY <1>1, <1>2, <2>7, <3>1 DEF DelBusy
  <2> QED
    BY <2>1, <2>2, <2>3, <2>4, <2>5, <2>6, <2>7
<1>4. Control'
  <2> USE DEF Base, TypeOK, Control, Goto, Method, Methods, WritePCs, ReadPCs, DelPCs, ItemPCs,
              ResetPCs, OrNull
  <2>1. CASE Lock(t)
    BY <1>1, <2>1 DEF Lock
  <2>2. CASE Unlock(t)
    BY <1>1, <2>2 DEF Unlock
  <2>3. CASE TryWrLock(t)
    BY <1>1, <2>3 DEF TryWrLock
  <2>4. CASE TryRdLock(t)
    BY <1>1, <2>4 DEF TryRdLock
  <2>5. CASE TryDelLock(t)
    BY <1>1, <2>5 DEF TryDelLock
  <2>6. CASE ItemUnlock(t)
    BY <1>1, <2>6 DEF ItemUnlock
  <2>7. CASE DelBusy(t)
    BY <1>1, <2>7 DEF DelBusy
  <2> QED
    BY <2>1, <2>2, <2>3, <2>4, <2>5, <2>6, <2>7
<1> QED
  BY <1>3, <1>4 DEF Base

(* The fields of an item, and its life.                                       *)
LEMMA ItemBase ==
  ASSUME Base, NEW t \in Workers, ~BadAccess(t),
         Malloc(t) \/ Copy(t) \/ Clear(t) \/ Unlink(t) \/ Free(t) \/ Respond(t)
  PROVE  Base'
<1>1. /\ req[t] \in Request /\ req[t].method \in Methods /\ req[t].key \in Keys
      /\ Bucket(t) \in Buckets
  BY Busy DEF Malloc, Copy, Clear, Unlink, Free, Respond
<1>2. (Malloc(t) \/ Copy(t) \/ Clear(t) \/ Unlink(t) \/ Free(t))
        => current[t] \in Addrs
  BY DEF Base, Control, ItemPCs, WritePCs, ReadPCs, DelPCs, Malloc, Copy, Clear, Unlink, Free
<1>3. TypeOK'
  <2> USE DEF Base, TypeOK, Goto, OrNull, PCs, shared, table, heap, resp, status
  <2>1. CASE Malloc(t)
    BY <1>1, <1>2, <2>1 DEF Malloc
  <2>2. CASE Copy(t)
    BY <1>1, <1>2, <2>2 DEF Copy
  <2>3. CASE Clear(t)
    BY <1>1, <1>2, <2>3 DEF Clear
  <2>4. CASE Unlink(t)
    BY <1>1, <1>2, <2>4 DEF Unlink
  <2>5. CASE Free(t)
    BY <1>1, <1>2, <2>5 DEF Free
  <2>6. CASE Respond(t)
    BY <1>1, <1>2, <2>6 DEF Respond
  <2> QED
    BY <2>1, <2>2, <2>3, <2>4, <2>5, <2>6
<1>4. Control'
  <2> USE DEF Base, TypeOK, Control, Goto, Method, Methods, WritePCs, ReadPCs, DelPCs, ItemPCs,
              ResetPCs, OrNull
  <2>1. CASE Malloc(t)
    BY <1>1, <2>1 DEF Malloc
  <2>2. CASE Copy(t)
    BY <1>1, <2>2 DEF Copy
  <2>3. CASE Clear(t)
    BY <1>1, <2>3 DEF Clear
  <2>4. CASE Unlink(t)
    BY <1>1, <2>4 DEF Unlink
  <2>5. CASE Free(t)
    BY <1>1, <2>5 DEF Free
  <2>6. CASE Respond(t)
    BY <1>1, <2>6 DEF Respond
  <2> QED
    BY <2>1, <2>2, <2>3, <2>4, <2>5, <2>6
<1> QED
  BY <1>3, <1>4 DEF Base

(* RST rebuilds the table.                                                   *)
LEMMA ResetBase ==
  ASSUME Base, NEW t \in Workers, ~BadAccess(t),
         ResetFree(t) \/ ResetHt(t) \/ ResetItems(t) \/ ResetLocks(t) \/ ResetFail(t)
  PROVE  Base'
<1>1. /\ req[t] \in Request /\ req[t].method \in Methods /\ req[t].key \in Keys
      /\ Bucket(t) \in Buckets
  BY Busy DEF ResetFree, ResetHt, ResetItems, ResetLocks, ResetFail
<1>3. TypeOK'
  <2> USE DEF Base, TypeOK, Goto, OrNull, PCs, shared, table, heap, resp, status
  <2>1. CASE ResetFree(t)
    BY <1>1, <2>1 DEF ResetFree, NoItems
  <2>2. CASE ResetHt(t)
    BY <1>1, <2>2 DEF ResetHt
  <2>3. CASE ResetItems(t)
    BY <1>1, <2>3 DEF ResetItems, NoItems
  <2>4. CASE ResetLocks(t)
    BY <1>1, <2>4 DEF ResetLocks
  <2>5. CASE ResetFail(t)
    BY <1>1, <2>5 DEF ResetFail, NoItems
  <2> QED
    BY <2>1, <2>2, <2>3, <2>4, <2>5
<1>4. Control'
  <2> USE DEF Base, TypeOK, Control, Goto, Method, Methods, WritePCs, ReadPCs, DelPCs, ItemPCs,
              ResetPCs, OrNull
  <2>1. CASE ResetFree(t)
    BY <1>1, <2>1 DEF ResetFree
  <2>2. CASE ResetHt(t)
    BY <1>1, <2>2 DEF ResetHt
  <2>3. CASE ResetItems(t)
    BY <1>1, <2>3 DEF ResetItems
  <2>4. CASE ResetLocks(t)
    BY <1>1, <2>4 DEF ResetLocks
  <2>5. CASE ResetFail(t)
    BY <1>1, <2>5 DEF ResetFail
  <2> QED
    BY <2>1, <2>2, <2>3, <2>4, <2>5
<1> QED
  BY <1>3, <1>4 DEF Base

LEMMA InsertBase ==
  ASSUME Base, NEW t \in Workers, Insert(t) PROVE Base'
<1>1. req[t] \in Request /\ Bucket(t) \in Buckets /\ req[t].key \in Keys
  BY Busy DEF Insert
<1>2. TypeOK'
  BY <1>1 DEF Base, TypeOK, Insert, Goto, OrNull, PCs, resp, status
<1>3. Control'
  BY <1>1 DEF Base, TypeOK, Control, Insert, Goto, Method, WritePCs, ReadPCs, DelPCs, ItemPCs,
              ResetPCs
<1> QED
  BY <1>2, <1>3 DEF Base

(* A fault changes nothing else.                                             *)
LEMMA FaultBase ==
  ASSUME Base, NEW t \in Workers, Undefined(t) \/ AllocFail(t) PROVE Base'
<1>1. TypeOK'
  BY DEF Base, TypeOK, Undefined, AllocFail, shared, table, heap, resp
<1>2. Control'
  BY DEF Base, Control, Method, Undefined, AllocFail
<1> QED
  BY <1>1, <1>2 DEF Base

LEMMA NextBase == Base /\ [Next]_vars => Base'
<1> SUFFICES ASSUME Base, [Next]_vars PROVE Base'
  OBVIOUS
<1>1. CASE UNCHANGED vars
  BY <1>1 DEF Base, TypeOK, Control, Method, vars, shared, table, heap, resp, status
<1>2. CASE Next
  BY <1>2, ReceiveBase, WalkBase, LockBase, ItemBase, ResetBase, InsertBase, FaultBase
     DEF Next, Work, SetGetStep, DelStep, ResetStep
<1> QED
  BY <1>1, <1>2

(* Every variable keeps its type, for any requests and failing allocations.  *)
THEOREM AlwaysTyped == Spec => []TypeOK
<1>1. Spec => []Base
  BY InitBase, NextBase, PTL DEF Spec
<1>2. Base => TypeOK
  BY DEF Base
<1> QED
  BY <1>1, <1>2, PTL

-----------------------------------------------------------------------------
(***************************************************************************)
(* The lists, for SET, GET and DEL, and for RST of a single worker.        *)
(***************************************************************************)
LEMMA Types ==
  ASSUME Base
  PROVE  /\ next \in Pointers /\ prev \in Pointers
         /\ \A b \in Buckets : items[b] \in OrNull(Addrs) /\ Chain(b) \subseteq Addrs
         /\ \A t \in Workers : current[t] \in OrNull(Addrs)
  BY ReachClosed DEF Base, TypeOK, Pointers, Chain, ReachFrom

(* Two workers are not inside one bucket.                                    *)
LEMMA OneInside ==
  ASSUME \A t \in Workers : Holder(t), NEW t \in Workers, NEW u \in Workers,
         Inside(t), Inside(u), Bucket(t) = Bucket(u)
  PROVE  t = u
  BY DEF Holder, Mutex

(* What a worker has in its own variables.                                   *)
Same(u) == /\ pc'[u] = pc[u] /\ req'[u] = req[u]
           /\ current'[u] = current[u] /\ item_head'[u] = item_head[u]

(* Who is inside is not disturbed by what others do in other buckets, ...    *)
LEMMA HolderFrame ==
  ASSUME Base, Base', NEW u \in Workers, Holder(u), Same(u),
         Inside(u) => /\ locks'[Bucket(u)] = locks[Bucket(u)]
                      /\ items'[Bucket(u)] = items[Bucket(u)]
                      /\ \A x \in Chain(Bucket(u)) : next'[x] = next[x] /\ key'[x] = key[x],
         pc[u] = "free" => /\ current[u] \in allocated'
                           /\ \A b \in Buckets : current[u] \notin Chain(b)'
  PROVE  Holder(u)'
<1>1. Inside(u)' = Inside(u) /\ Method(u)' = Method(u) /\ Bucket(u)' = Bucket(u)
  BY DEF Same, Inside, Method, Bucket
<1>2. CASE ~Inside(u)
  BY <1>1, <1>2 DEF Holder, Mutex, Head, Place, Ahead, Inside, DelPCs
<1>3. CASE Inside(u)
  <2> DEFINE b == Bucket(u)
  <2>1. b \in Buckets /\ pc[u] # "idle"
    BY <1>3, Busy DEF Inside, DelPCs
  <2>2. /\ next \in Pointers /\ next' \in Pointers /\ items[b] \in OrNull(Addrs)
        /\ items'[b] \in OrNull(Addrs)
    BY <2>1, Types DEF Base, TypeOK, Pointers
  <2>3. Chain(b)' = Chain(b)
    BY <1>1, <1>3, <2>2, ReachSame DEF Chain, ReachFrom
  <2>4. ASSUME NEW c \in OrNull(Chain(b)) PROVE Reach(c, next') = Reach(c, next)
    <3>1. c \in OrNull(Addrs) /\ Reach(c, next) \subseteq Chain(b)
      BY <2>1, <2>2, ReachPart, ReachClosed DEF Chain, ReachFrom, OrNull
    <3> QED
      BY <1>3, <2>2, <3>1, ReachSame
  <2>5. Mutex(u)' /\ Head(u)'
    BY <1>1, <1>3 DEF Holder, Mutex, Head, Same
  <2>6. Place(u)'
    BY <1>1, <1>3, <2>3 DEF Holder, Place, Same
  <2>7. Ahead(u)'
    <3> SUFFICES ASSUME Method(u) = "SET", NEW a \in Chain(b), key[a] = req[u].key
                 PROVE  /\ pc[u] = "scan" => a \in ReachFrom(current[u])'
                        /\ pc[u] = "advance" => a \in ReachFrom(next[current[u]])'
                        /\ pc[u] # "insert"
      BY <1>1, <1>3, <2>3 DEF Ahead, Same
    <3>1. CASE pc[u] = "scan"
      <4>1. current[u] \in OrNull(Chain(b)) /\ a \in Reach(current[u], next)
        BY <1>3, <3>1 DEF Holder, Place, Ahead, ReachFrom
      <4> QED
        BY <2>4, <3>1, <4>1 DEF ReachFrom, Same
    <3>2. CASE pc[u] = "advance"
      <4>1. current[u] \in Chain(b) /\ a \in Reach(next[current[u]], next)
        BY <1>3, <3>2 DEF Holder, Place, Ahead, ReachFrom
      <4>2. next'[current[u]] = next[current[u]] /\ next[current[u]] \in OrNull(Chain(b))
        BY <1>3, <2>2, <4>1, ReachClosed DEF Chain, ReachFrom, Closed
      <4> QED
        BY <2>4, <3>2, <4>1, <4>2 DEF ReachFrom, Same
    <3> QED
      BY <1>3, <3>1, <3>2 DEF Holder, Ahead
  <2> QED
    BY <2>5, <2>6, <2>7 DEF Holder
<1> QED
  BY <1>2, <1>3

(* ... nor by steps that change no list.                                     *)
Structure == <<items, next, prev, allocated, key>>

LEMMA LocalStep ==
  ASSUME ListInv, Base', NEW t \in Workers, UNCHANGED Structure,
         \A u \in Workers \ {t} :
           Same(u) /\ (Inside(u) => locks'[Bucket(u)] = locks[Bucket(u)]),
         pc[t] \notin {"unlink", "free"}, pc'[t] # "free", Holder(t)'
  PROVE  ListInv'
<1>1. \A b \in Buckets : Chain(b)' = Chain(b)
  BY DEF Structure, Chain, ReachFrom
<1>2. Linked' /\ Disjoint' /\ UniqueKeys'
  BY <1>1 DEF ListInv, Lists, Linked, Disjoint, UniqueKeys, Structure
<1>3. Hashed'
  <2> SUFFICES ASSUME NEW b \in Buckets, NEW a \in Chain(b)
               PROVE  IF key[a] = NULL THEN Clearing(a, b)' ELSE BucketOf[key[a]] = b
    BY <1>1 DEF Hashed, Structure
  <2>1. CASE key[a] # NULL
    BY <2>1 DEF ListInv, Lists, Hashed
  <2>2. CASE key[a] = NULL
    <3>1. PICK u \in Workers : pc[u] = "unlink" /\ current[u] = a /\ Bucket(u) = b
      BY <2>2 DEF ListInv, Lists, Hashed, Clearing
    <3>2. Same(u)
      BY <3>1
    <3> QED
      BY <2>2, <3>1, <3>2 DEF Same, Clearing, Bucket
  <2> QED
    BY <2>1, <2>2
<1>4. ASSUME NEW u \in Workers, u # t PROVE Holder(u)'
  <2>1. Base /\ Holder(u) /\ Same(u)
    BY <1>4 DEF ListInv
  <2>2. pc[u] = "free" => /\ current[u] \in allocated'
                          /\ \A b \in Buckets : current[u] \notin Chain(b)'
    BY <1>1, <2>1 DEF Holder, Place, Structure
  <2> QED
    BY <2>1, <2>2, HolderFrame DEF Structure
<1>5. Freeing'
  BY DEF ListInv, Freeing, Same
<1>6. Kept'
  <2>1. \A u \in Workers : pc[u] = "free" => pc'[u] = "free" /\ current'[u] = current[u]
    BY DEF Same
  <2> QED
    BY <1>1, <2>1 DEF ListInv, Kept, Structure
<1> QED
  BY <1>2, <1>3, <1>4, <1>5, <1>6 DEF ListInv, Lists

(* Walking down a list, inside or not.                                       *)
LEMMA SearchHolder ==
  ASSUME ListInv, NEW t \in Workers, Search(t) PROVE Holder(t)'
<1>1. Base /\ Holder(t) /\ Bucket(t) \in Buckets /\ pc[t] = "search"
  BY Busy DEF ListInv, Search
<1>2. /\ pc'[t] = "scan" /\ current'[t] = items[Bucket(t)] /\ Inside(t)' = Inside(t)
      /\ UNCHANGED <<Structure, locks, req, item_head>>
  BY <1>1 DEF Search, Goto, Inside, Method, Base, TypeOK, Structure, shared, table, heap, DelPCs
<1>3. /\ items[Bucket(t)] \in OrNull(Chain(Bucket(t)))
      /\ Chain(Bucket(t)) = ReachFrom(items[Bucket(t)])
  BY <1>1, Types, ReachClosed DEF Chain, ReachFrom, OrNull
<1>4. Chain(Bucket(t))' = Chain(Bucket(t)) /\ Bucket(t)' = Bucket(t)
  BY <1>2 DEF Chain, ReachFrom, Structure, Bucket
<1>5. Mutex(t)' /\ Head(t)'
  BY <1>1, <1>2, <1>4 DEF Holder, Mutex, Head, Structure
<1>6. Place(t)' /\ Ahead(t)'
  BY <1>1, <1>2, <1>3, <1>4 DEF Place, Ahead, Structure, Chain, ReachFrom, Method
<1> QED
  BY <1>5, <1>6 DEF Holder

LEMMA CompareHolder ==
  ASSUME ListInv, NEW t \in Workers, Compare(t) PROVE Holder(t)'
<1>1. /\ Base /\ Holder(t) /\ Bucket(t) \in Buckets /\ pc[t] = "scan" /\ current[t] # NULL
      /\ req[t].key \in Keys /\ current[t] \in Addrs
  BY Busy, Types DEF ListInv, Compare, OrNull
<1>2. UNCHANGED <<Structure, locks, req, current, item_head>>
  BY DEF Compare, Structure, shared, table, heap
<1>3. /\ pc'[t] \in {"advance", "unlock", "tryrdlock", "trydel"}
      /\ pc'[t] = "advance" => key[current[t]] # req[t].key
      /\ pc'[t] = "unlock" => Method(t) = "SET"
      /\ pc'[t] = "trydel" => Method(t) \notin {"SET", "GET"}
  BY <1>1, PrefixAssumption DEF Compare, Goto, Base, TypeOK, Matches
<1>4. /\ Chain(Bucket(t))' = Chain(Bucket(t)) /\ Bucket(t)' = Bucket(t)
      /\ Method(t)' = Method(t)
      /\ Inside(t)' => Inside(t)
  BY <1>1, <1>2, <1>3 DEF Chain, ReachFrom, Structure, Bucket, Inside, Method, DelPCs
<1>5. Mutex(t)' /\ Head(t)'
  BY <1>1, <1>2, <1>3, <1>4 DEF Holder, Mutex, Head, Structure
<1>6. Place(t)'
  BY <1>1, <1>2, <1>3, <1>4 DEF Holder, Place, OrNull
<1>7. Ahead(t)'
  <2> SUFFICES ASSUME Inside(t), Method(t) = "SET", NEW a \in Chain(Bucket(t)),
                      key[a] = req[t].key, pc'[t] = "advance"
               PROVE  a \in ReachFrom(next[current[t]])
    BY <1>2, <1>3, <1>4 DEF Ahead, Structure, ReachFrom
  <2>1. a \in Reach(current[t], next) /\ a # current[t]
    BY <1>1, <1>3 DEF Holder, Ahead, ReachFrom
  <2>2. Reach(current[t], next) = {current[t]} \cup Reach(next[current[t]], next)
    BY <1>1, Types, ReachStep
  <2> QED
    BY <2>1, <2>2 DEF ReachFrom
<1> QED
  BY <1>5, <1>6, <1>7 DEF Holder

LEMMA AdvanceHolder ==
  ASSUME ListInv, NEW t \in Workers, Advance(t) PROVE Holder(t)'
<1>1. Base /\ Holder(t) /\ Bucket(t) \in Buckets /\ pc[t] = "advance" /\ current[t] \in Addrs
  BY Busy DEF ListInv, Advance, Base, Control, ItemPCs
<1>2. /\ UNCHANGED <<Structure, locks, req, item_head>>
      /\ pc'[t] = "scan" /\ current'[t] = next[current[t]]
  BY DEF ListInv, Advance, Structure, shared, table, heap, Base, TypeOK, Goto
<1>4. /\ Chain(Bucket(t))' = Chain(Bucket(t)) /\ Bucket(t)' = Bucket(t)
      /\ Method(t)' = Method(t) /\ Inside(t)' = Inside(t)
  BY <1>1, <1>2 DEF Chain, ReachFrom, Structure, Bucket, Inside, Method, DelPCs
<1>5. Mutex(t)' /\ Head(t)'
  BY <1>1, <1>2, <1>4 DEF Holder, Mutex, Head, Structure
<1>6. Place(t)'
  <2>1. Inside(t) => current[t] \in Chain(Bucket(t))
    BY <1>1 DEF Holder, Place
  <2>2. Closed(Chain(Bucket(t)), next)
    BY <1>1, Types, ReachClosed DEF Chain, ReachFrom
  <2> QED
    BY <1>1, <1>2, <1>4, <2>1, <2>2 DEF Place, Closed
<1>7. Ahead(t)'
  BY <1>1, <1>2, <1>4 DEF Holder, Ahead, Structure, ReachFrom
<1> QED
  BY <1>5, <1>6, <1>7 DEF Holder

LEMMA NotFoundHolder ==
  ASSUME ListInv, NEW t \in Workers, NotFound(t) PROVE Holder(t)'
<1>1. Base /\ Holder(t) /\ Bucket(t) \in Buckets /\ pc[t] = "scan" /\ current[t] = NULL
  BY Busy DEF ListInv, NotFound
<1>2. UNCHANGED <<Structure, locks, req, current, item_head>>
  BY DEF NotFound, Structure, shared, table, heap
<1>3. /\ pc'[t] \in {"insert", "respond", "unlock"}
      /\ pc'[t] \in {"insert", "unlock"} => Method(t) # "GET"
  BY <1>1 DEF NotFound, Goto, Base, TypeOK
<1>4. /\ Chain(Bucket(t))' = Chain(Bucket(t)) /\ Bucket(t)' = Bucket(t)
      /\ Method(t)' = Method(t)
      /\ Inside(t)' => Inside(t)
  BY <1>1, <1>2, <1>3 DEF Chain, ReachFrom, Structure, Bucket, Inside, Method, DelPCs
<1>5. Mutex(t)' /\ Head(t)' /\ Place(t)'
  BY <1>1, <1>2, <1>3, <1>4 DEF Holder, Mutex, Head, Place, Structure
<1>6. Ahead(t)'
  <2>1. ReachFrom(current[t]) = {}
    BY <1>1, Types, ReachClosed DEF ReachFrom
  <2> QED
    BY <1>1, <1>2, <1>3, <1>4, <2>1 DEF Holder, Ahead, Structure
<1> QED
  BY <1>5, <1>6 DEF Holder

(* The rwlock decides whether a DEL goes on.                                 *)
LEMMA DelHolder ==
  ASSUME ListInv, NEW t \in Workers, TryDelLock(t) \/ DelBusy(t) PROVE Holder(t)'
<1>1. Base /\ Holder(t) /\ pc[t] \in {"trydel", "delbusy"} /\ Method(t) = "DEL"
  BY DEF ListInv, TryDelLock, DelBusy, Base, Control
<1>2. UNCHANGED <<Structure, locks, req, current, item_head>>
  BY DEF TryDelLock, DelBusy, Structure, table, heap
<1>3. pc'[t] \in {"clear", "delbusy", "unlock"}
  BY <1>1 DEF TryDelLock, DelBusy, Goto, Base, TypeOK
<1>4. /\ Chain(Bucket(t))' = Chain(Bucket(t)) /\ Bucket(t)' = Bucket(t)
      /\ Method(t)' = Method(t) /\ Inside(t)
  BY <1>1, <1>2, <1>3 DEF Chain, ReachFrom, Structure, Bucket, Inside, Method, DelPCs
<1> QED
  BY <1>1, <1>2, <1>3, <1>4 DEF Holder, Mutex, Head, Place, Ahead

(* Outside nothing is claimed.                                               *)
LEMMA OutsideHolder ==
  ASSUME NEW t \in Workers, ~Inside(t)' PROVE Holder(t)'
  BY DEF Holder, Mutex, Head, Place, Ahead, Inside, DelPCs

LEMMA LocalList ==
  ASSUME ListInv, Base', NEW t \in Workers,
         \/ Receive(t) \/ Search(t) \/ Compare(t) \/ Advance(t) \/ NotFound(t)
         \/ TryWrLock(t) \/ Malloc(t) \/ Copy(t) \/ ItemUnlock(t) \/ TryRdLock(t) \/ Read(t)
         \/ TryDelLock(t) \/ DelBusy(t) \/ ResetHt(t) \/ Respond(t)
  PROVE  ListInv'
<1>0. TypeOK
  BY DEF ListInv, Base
<1>1. /\ UNCHANGED <<Structure, locks>>
      /\ \A u \in Workers \ {t} : Same(u)
  BY <1>0 DEF Receive, Search, Compare, Advance, NotFound, TryWrLock, Malloc, Copy, ItemUnlock,
       TryRdLock, Read, TryDelLock, DelBusy, ResetHt, Respond, Structure, shared, table, heap,
       Same, Goto, TypeOK
<1>2. pc[t] \notin {"unlink", "free"} /\ pc'[t] # "free"
  BY <1>0 DEF Receive, Search, Compare, Advance, NotFound, TryWrLock, Malloc, Copy, ItemUnlock,
       TryRdLock, Read, TryDelLock, DelBusy, ResetHt, Respond, Goto, TypeOK
<1>3. Holder(t)'
  <2>1. CASE Receive(t)
    <3>1. PICK r \in Requests[t] :
            /\ req' = [req EXCEPT ![t] = r]
            /\ Goto(t, IF r.method = "GET" THEN "search"
                       ELSE IF r.method = "RST" THEN "reset_free" ELSE "lock")
      BY <2>1 DEF Receive
    <3>2. ~Inside(t)'
      BY <1>0, <3>1 DEF TypeOK, Goto, Inside, DelPCs, Method
    <3> QED
      BY <3>2, OutsideHolder
  <2>2. CASE \/ TryWrLock(t) \/ Malloc(t) \/ Copy(t) \/ ItemUnlock(t) \/ TryRdLock(t) \/ Read(t)
             \/ ResetHt(t) \/ Respond(t)
    <3>1. ~Inside(t)'
      BY <1>0, <2>2 DEF TryWrLock, Malloc, Copy, ItemUnlock, TryRdLock, Read, ResetHt, Respond,
           TypeOK, Goto, Inside, DelPCs
    <3> QED
      BY <3>1, OutsideHolder
  <2> QED
    BY <2>1, <2>2, SearchHolder, CompareHolder, AdvanceHolder, NotFoundHolder, DelHolder
<1> QED
  BY <1>1, <1>2, <1>3, LocalStep

(* The mutex has one owner at a time.                                        *)
LEMMA LockList ==
  ASSUME ListInv, Base', NEW t \in Workers, Lock(t) PROVE ListInv'
<1>1. /\ TypeOK /\ pc[t] = "lock" /\ Bucket(t) \in Buckets /\ locks[Bucket(t)] = NULL
      /\ Method(t) \in {"SET", "DEL"}
  BY Busy DEF ListInv, Base, Control, Lock
<1>2. /\ UNCHANGED <<Structure, req, current>>
      /\ pc'[t] = "search" /\ locks'[Bucket(t)] = t /\ item_head'[t] = items[Bucket(t)]
  BY <1>1 DEF Lock, Structure, heap, TypeOK, Goto
<1>3. ASSUME NEW u \in Workers \ {t}
      PROVE  Same(u) /\ (Inside(u) => locks'[Bucket(u)] = locks[Bucket(u)])
  <2>1. Same(u)
    BY <1>1 DEF Lock, Same, Goto, TypeOK
  <2>2. ASSUME Inside(u) PROVE Bucket(u) # Bucket(t)
    BY <1>1, <2>2, NullAssumption DEF ListInv, Holder, Mutex
  <2>3. ASSUME Inside(u) PROVE Bucket(u) \in Buckets
    BY <2>3, Busy DEF ListInv, Inside, DelPCs
  <2> QED
    BY <1>1, <2>1, <2>2, <2>3 DEF Lock, TypeOK
<1>4. Holder(t)'
  BY <1>1, <1>2 DEF Holder, Mutex, Head, Place, Ahead, Inside, Method, Bucket, Structure, DelPCs
<1> QED
  BY <1>1, <1>2, <1>3, <1>4, LocalStep

LEMMA UnlockList ==
  ASSUME ListInv, Base', NEW t \in Workers, Unlock(t) PROVE ListInv'
<1>1. TypeOK /\ pc[t] = "unlock" /\ Inside(t) /\ Bucket(t) \in Buckets
  BY Busy DEF ListInv, Base, Unlock, Inside
<1>2. UNCHANGED Structure /\ pc'[t] \in {"trywrlock", "respond"}
  BY <1>1 DEF Unlock, Structure, heap, TypeOK, Goto
<1>3. ASSUME NEW u \in Workers \ {t}
      PROVE  Same(u) /\ (Inside(u) => locks'[Bucket(u)] = locks[Bucket(u)])
  <2>1. Same(u)
    BY <1>1 DEF Unlock, Same, Goto, TypeOK
  <2>2. ASSUME Inside(u) PROVE Bucket(u) # Bucket(t)
    BY <1>1, <2>2, OneInside DEF ListInv
  <2>3. ASSUME Inside(u) PROVE Bucket(u) \in Buckets
    BY <2>3, Busy DEF ListInv, Inside, DelPCs
  <2> QED
    BY <1>1, <2>1, <2>2, <2>3 DEF Unlock, TypeOK
<1>4. Holder(t)'
  BY <1>2, OutsideHolder DEF Inside, DelPCs
<1> QED
  BY <1>1, <1>2, <1>3, <1>4, LocalStep

(* Clear: only whoever holds the mutex takes the key of an item away.        *)
LEMMA ClearList ==
  ASSUME ListInv, Base', NEW t \in Workers, Clear(t) PROVE ListInv'
<1> DEFINE c == current[t]
           d == Bucket(t)
<1>1. /\ Base /\ TypeOK /\ pc[t] = "clear" /\ Inside(t) /\ d \in Buckets /\ Holder(t)
      /\ c \in Chain(d) /\ Method(t) = "DEL" /\ c \in Addrs
  BY Busy, Types DEF ListInv, Base, Control, Clear, Inside, DelPCs, Holder, Place
<1>2. /\ UNCHANGED <<items, next, prev, allocated, locks, req, current, item_head>>
      /\ pc'[t] = "unlink" /\ key' = [key EXCEPT ![c] = NULL]
  BY <1>1 DEF Clear, table, TypeOK, Goto
<1>3. \A b \in Buckets : Chain(b)' = Chain(b)
  BY <1>2 DEF Chain, ReachFrom
<1>4. \A x \in Addrs : key'[x] = IF x = c THEN NULL ELSE key[x]
  BY <1>1, <1>2 DEF TypeOK
<1>5. Linked' /\ Disjoint'
  BY <1>2, <1>3 DEF ListInv, Lists, Linked, Disjoint
<1>6. UniqueKeys'
  BY <1>1, <1>3, <1>4, Types DEF ListInv, Lists, UniqueKeys
<1>7. Hashed'
  <2> SUFFICES ASSUME NEW b \in Buckets, NEW a \in Chain(b)
               PROVE  IF key'[a] = NULL THEN Clearing(a, b)' ELSE BucketOf[key'[a]] = b
    BY <1>3 DEF Hashed
  <2>0. a \in Addrs
    BY <1>1, Types
  <2>1. CASE a = c
    <3>1. b = d
      BY <1>1, <2>1 DEF ListInv, Lists, Disjoint
    <3> QED
      BY <1>1, <1>2, <1>4, <2>1, <3>1 DEF Clearing, Bucket
  <2>2. CASE a # c /\ key[a] # NULL
    BY <1>4, <2>0, <2>2 DEF ListInv, Lists, Hashed
  <2>3. CASE a # c /\ key[a] = NULL
    <3>1. PICK u \in Workers : pc[u] = "unlink" /\ current[u] = a /\ Bucket(u) = b
      BY <2>3 DEF ListInv, Lists, Hashed, Clearing
    <3>2. pc'[u] = "unlink"
      BY <1>1, <3>1 DEF Clear, Goto, TypeOK
    <3> QED
      BY <1>2, <1>4, <2>0, <2>3, <3>1, <3>2 DEF Clearing, Bucket
  <2> QED
    BY <2>1, <2>2, <2>3
<1>8. Holder(t)'
  BY <1>1, <1>2, <1>3 DEF Holder, Mutex, Head, Place, Ahead, Inside, DelPCs, Bucket, Method
<1>9. ASSUME NEW u \in Workers, u # t PROVE Holder(u)'
  <2>1. Base /\ Holder(u) /\ Same(u)
    BY <1>1, <1>2, <1>9 DEF ListInv, Clear, Goto, TypeOK, Same
  <2>2. ASSUME Inside(u) PROVE Bucket(u) # d /\ Bucket(u) \in Buckets
    BY <1>1, <1>9, <2>2, OneInside, Busy DEF ListInv, Inside, DelPCs
  <2>3. ASSUME Inside(u), NEW x \in Chain(Bucket(u)) PROVE key'[x] = key[x]
    BY <1>1, <1>4, <2>2, <2>3, Types DEF ListInv, Lists, Disjoint
  <2>4. pc[u] = "free" => /\ current[u] \in allocated'
                          /\ \A b \in Buckets : current[u] \notin Chain(b)'
    BY <1>2, <1>3, <2>1 DEF Holder, Place
  <2> QED
    BY <1>2, <2>1, <2>3, <2>4, HolderFrame
<1>10. Freeing'
  BY <1>1, <1>2 DEF ListInv, Freeing, Clear, Goto, TypeOK
<1>11. Kept'
  <2>1. \A u \in Workers : pc[u] = "free" => pc'[u] = "free"
    BY <1>1 DEF Clear, Goto, TypeOK
  <2> QED
    BY <1>2, <1>3, <2>1 DEF ListInv, Kept
<1> QED
  BY <1>5, <1>6, <1>7, <1>8, <1>9, <1>10, <1>11 DEF ListInv, Lists

(* Insert: a new entry in front of the list of the bucket.                   *)
LEMMA InsertChains ==
  ASSUME ListInv, Base', NEW t \in Workers, Insert(t)
  PROVE  \E a \in Addrs \ allocated :
           /\ allocated' = allocated \cup {a}
           /\ key' = [key EXCEPT ![a] = req[t].key]
           /\ value' = [value EXCEPT ![a] = NULL]
           /\ value_size' = [value_size EXCEPT ![a] = FALSE]
           /\ next' = [next EXCEPT ![a] = items[Bucket(t)]]
           /\ prev' = [x \in Addrs |-> IF x = a THEN NULL
                                       ELSE IF x = items[Bucket(t)] THEN a ELSE prev[x]]
           /\ items' = [items EXCEPT ![Bucket(t)] = a]
           /\ current' = [current EXCEPT ![t] = a]
           /\ \A b \in Buckets :
                Chain(b)' = IF b = Bucket(t) THEN {a} \cup Chain(b) ELSE Chain(b)
<1>a. PICK d \in Buckets : d = Bucket(t)
  BY Busy DEF ListInv, Insert
<1>b. PICK h \in OrNull(Addrs) : h = items[d]
  BY Types DEF ListInv
<1>1. /\ Base /\ TypeOK /\ d = Bucket(t) /\ h = items[d] /\ item_head[t] = h
      /\ next \in Pointers /\ next' \in Pointers
  BY <1>a, <1>b, Types DEF ListInv, Base, Insert, Inside, Holder, Head, TypeOK, Pointers
<1>c. PICK a \in Addrs \ allocated :
        /\ allocated' = allocated \cup {a}
        /\ key' = [key EXCEPT ![a] = req[t].key]
        /\ value' = [value EXCEPT ![a] = NULL]
        /\ value_size' = [value_size EXCEPT ![a] = FALSE]
        /\ next' = [next EXCEPT ![a] = item_head[t]]
        /\ prev' = [x \in Addrs |-> IF x = a THEN NULL
                                    ELSE IF x = item_head[t] THEN a ELSE prev[x]]
        /\ items' = [items EXCEPT ![Bucket(t)] = a]
        /\ current' = [current EXCEPT ![t] = a]
  BY Zenon DEF Insert
<1>2. /\ \A b \in Buckets : items'[b] = IF b = d THEN a ELSE items[b]
      /\ next' = [next EXCEPT ![a] = h]
      /\ \A x \in Addrs : x # a => next'[x] = next[x]
  BY <1>1, <1>c DEF TypeOK
<1>3. \A b \in Buckets : a \notin Chain(b) /\ Chain(b) \subseteq Addrs
  BY <1>1, Types DEF ListInv, Lists, Linked
<1>4. Chain(d)' = {a} \cup Chain(d)
  <2>1. a \notin Reach(h, next)
    BY <1>1, <1>3 DEF Chain, ReachFrom
  <2>2. Reach(a, next') = {a} \cup Reach(h, next)
    BY <1>1, <1>2, <2>1, ReachInsert
  <2> QED
    BY <1>1, <1>2, <2>2 DEF Chain, ReachFrom
<1>5. ASSUME NEW b \in Buckets, b # d PROVE Chain(b)' = Chain(b)
  <2>1. items[b] \in OrNull(Addrs) /\ items'[b] = items[b]
    BY <1>1, <1>2, <1>5, Types
  <2>2. \A x \in Reach(items[b], next) : next'[x] = next[x]
    BY <1>2, <1>3 DEF Chain, ReachFrom
  <2> QED
    BY <1>1, <2>1, <2>2, ReachSame DEF Chain, ReachFrom
<1>6. item_head[t] = items[Bucket(t)]
  BY <1>1
<1>7. \A b \in Buckets : Chain(b)' = IF b = Bucket(t) THEN {a} \cup Chain(b) ELSE Chain(b)
  BY <1>1, <1>4, <1>5
<1> QED
  BY <1>c, <1>6, <1>7

LEMMA InsertList ==
  ASSUME ListInv, Base', NEW t \in Workers, Insert(t) PROVE ListInv'
<1>a. PICK d \in Buckets : d = Bucket(t)
  BY Busy DEF ListInv, Insert
<1>b. PICK h \in OrNull(Addrs) : h = items[d]
  BY Types DEF ListInv
<1>1. /\ Base /\ TypeOK /\ pc[t] = "insert" /\ Inside(t) /\ Holder(t)
      /\ d = Bucket(t) /\ h = items[d]
      /\ item_head[t] = h /\ Method(t) = "SET" /\ req[t].key \in Keys
      /\ next \in Pointers /\ prev \in Pointers
  BY <1>a, <1>b, Busy, Types DEF ListInv, Base, Control, Insert, Inside, Holder, Head
<1>c. PICK a \in Addrs \ allocated :
        /\ allocated' = allocated \cup {a}
        /\ key' = [key EXCEPT ![a] = req[t].key]
        /\ next' = [next EXCEPT ![a] = items[Bucket(t)]]
        /\ prev' = [x \in Addrs |-> IF x = a THEN NULL
                                    ELSE IF x = items[Bucket(t)] THEN a ELSE prev[x]]
        /\ items' = [items EXCEPT ![Bucket(t)] = a]
        /\ current' = [current EXCEPT ![t] = a]
        /\ \A b \in Buckets :
             Chain(b)' = IF b = Bucket(t) THEN {a} \cup Chain(b) ELSE Chain(b)
  BY InsertChains, Zenon
<1>2. /\ allocated' = allocated \cup {a}
      /\ key' = [key EXCEPT ![a] = req[t].key]
      /\ next' = [next EXCEPT ![a] = h]
      /\ prev' = [x \in Addrs |-> IF x = a THEN NULL ELSE IF x = h THEN a ELSE prev[x]]
      /\ items' = [items EXCEPT ![d] = a]
      /\ current' = [current EXCEPT ![t] = a]
  BY <1>1, <1>c
<1>3. /\ UNCHANGED <<locks, req, item_head>> /\ pc'[t] = "unlock"
      /\ \A u \in Workers \ {t} : Same(u)
  BY <1>1, <1>2 DEF Insert, Goto, TypeOK, Same
<1>4. /\ \A b \in Buckets : items'[b] = IF b = d THEN a ELSE items[b]
      /\ \A x \in Addrs : key'[x] = IF x = a THEN req[t].key ELSE key[x]
      /\ \A x \in Addrs : next'[x] = IF x = a THEN h ELSE next[x]
      /\ \A x \in Addrs : prev'[x] = IF x = a THEN NULL ELSE IF x = h THEN a ELSE prev[x]
  BY <1>1, <1>2 DEF TypeOK
<1>5. \A b \in Buckets : Chain(b) \subseteq allocated /\ a \notin Chain(b) /\ Chain(b) \subseteq Addrs
  BY <1>1, Types DEF ListInv, Lists, Linked
<1>6. Chain(d)' = {a} \cup Chain(d)
  BY <1>1, <1>c
<1>7. ASSUME NEW b \in Buckets, b # d PROVE Chain(b)' = Chain(b) /\ items'[b] = items[b]
  BY <1>1, <1>4, <1>7, <1>c
<1>8. \A b \in Buckets : Closed(Chain(b), next) /\ (items[b] # NULL => items[b] \in Chain(b))
  BY <1>1, Types, ReachClosed DEF Chain, ReachFrom
<1>9. \A b \in Buckets : Doubly(items[b], next, prev) /\ Ends(items[b], next)
  BY DEF ListInv, Lists, Linked
<1>10. a # NULL /\ NULL \notin Addrs
  BY NullAssumption
<1>11. Linked'
  <2> SUFFICES ASSUME NEW b \in Buckets
               PROVE  /\ Doubly(items'[b], next', prev')
                      /\ Ends(items'[b], next')
                      /\ Chain(b)' \subseteq allocated'
    BY DEF Linked
  <2>1. CASE b = d
    <3>1. ASSUME NEW x \in Chain(d)
          PROVE  /\ next'[x] = next[x]
                 /\ next[x] # NULL => prev'[next[x]] = x
      <4>1. x \in Addrs /\ x # a /\ next[x] \in OrNull(Chain(d))
        BY <1>1, <1>5, <1>8 DEF Closed
      <4>2. next[x] # NULL => prev[next[x]] = x
        BY <1>1, <1>9 DEF Doubly, Chain, ReachFrom
      <4>3. h # NULL => prev[h] = NULL
        BY <1>1, <1>9 DEF Doubly
      <4>4. next[x] # NULL => next[x] # h /\ next[x] # a /\ next[x] \in Addrs
        BY <1>1, <1>5, <1>10, <4>1, <4>2, <4>3 DEF OrNull
      <4> QED
        BY <1>4, <4>1, <4>2, <4>4
    <3>2. h # NULL => h # a /\ prev'[h] = a
      BY <1>1, <1>4, <1>5, <1>8, <1>10
    <3>3. next'[a] = h /\ prev'[a] = NULL
      BY <1>4
    <3>4. Doubly(a, next', prev')
      BY <1>4, <1>6, <2>1, <3>1, <3>2, <3>3 DEF Doubly, Chain, ReachFrom
    <3>5. \E x \in Chain(d)' : next'[x] = NULL
      <4>1. CASE h = NULL
        BY <1>6, <3>3, <4>1
      <4>2. CASE h # NULL
        <5>1. PICK x \in Chain(d) : next[x] = NULL
          BY <1>1, <1>9, <4>2 DEF Ends, Chain, ReachFrom
        <5> QED
          BY <1>6, <3>1, <5>1
      <4> QED
        BY <4>1, <4>2
    <3>6. Ends(a, next')
      BY <1>1, <1>3, <1>4, <3>5 DEF Ends, Chain, ReachFrom
    <3> QED
      BY <1>1, <1>2, <1>4, <1>5, <1>6, <2>1, <3>4, <3>6
  <2>2. CASE b # d
    <3>1. Chain(b)' = Chain(b) /\ items'[b] = items[b]
      BY <1>7, <2>2
    <3>2. ASSUME NEW x \in Chain(b) PROVE x \in Addrs /\ x # a /\ x # h
      BY <1>1, <1>5, <1>8, <1>10, <2>2 DEF ListInv, Lists, Disjoint
    <3>3. ASSUME NEW x \in Chain(b) PROVE next'[x] = next[x] /\ prev'[x] = prev[x]
      BY <1>4, <3>2
    <3>4. Doubly(items[b], next', prev')
      BY <1>8, <1>9, <3>1, <3>3 DEF Doubly, Chain, ReachFrom, Closed, OrNull
    <3>5. Ends(items[b], next')
      BY <1>9, <3>1, <3>3 DEF Ends, Chain, ReachFrom
    <3> QED
      BY <1>2, <1>5, <3>1, <3>4, <3>5
  <2> QED
    BY <2>1, <2>2
<1>12. Disjoint'
  BY <1>5, <1>6, <1>7 DEF ListInv, Lists, Disjoint
<1>13. \A b \in Buckets : \A x \in Chain(b) : key'[x] = key[x]
  BY <1>4, <1>5
<1>14. UniqueKeys'
  <2>1. \A x \in Chain(d) : key[x] # req[t].key
    BY <1>1 DEF Holder, Ahead
  <2>2. key'[a] = req[t].key
    BY <1>4
  <2> SUFFICES ASSUME NEW b \in Buckets, NEW x \in Chain(b)', NEW y \in Chain(b)', x # y,
                      key'[x] # NULL
               PROVE  key'[x] # key'[y]
    BY DEF UniqueKeys
  <2>3. CASE x \in Chain(b) /\ y \in Chain(b)
    BY <1>13, <2>3 DEF ListInv, Lists, UniqueKeys
  <2>4. CASE x \notin Chain(b) \/ y \notin Chain(b)
    BY <1>6, <1>7, <1>13, <2>1, <2>2, <2>4
  <2> QED
    BY <2>3, <2>4
<1>15. Hashed'
  <2> SUFFICES ASSUME NEW b \in Buckets, NEW x \in Chain(b)'
               PROVE  IF key'[x] = NULL THEN Clearing(x, b)' ELSE BucketOf[key'[x]] = b
    BY DEF Hashed
  <2>1. CASE x = a
    <3>1. b = d
      BY <1>5, <1>7, <2>1
    <3>2. key'[x] = req[t].key /\ req[t].key # NULL
      BY <1>1, <1>4, <2>1, NullAssumption
    <3> QED
      BY <1>1, <3>1, <3>2 DEF Bucket
  <2>2. CASE x # a
    <3>1. x \in Chain(b) /\ key'[x] = key[x]
      BY <1>6, <1>7, <1>13, <2>2
    <3>2. CASE key[x] # NULL
      BY <3>1, <3>2 DEF ListInv, Lists, Hashed
    <3>3. CASE key[x] = NULL
      <4>1. PICK u \in Workers : pc[u] = "unlink" /\ current[u] = x /\ Bucket(u) = b
        BY <3>1, <3>3 DEF ListInv, Lists, Hashed, Clearing
      <4>2. Same(u)
        BY <1>1, <1>3, <4>1
      <4> QED
        BY <3>1, <3>3, <4>1, <4>2 DEF Same, Clearing, Bucket
    <3> QED
      BY <3>2, <3>3
  <2> QED
    BY <2>1, <2>2
<1>16. Holder(t)'
  BY <1>1, <1>3 DEF Holder, Mutex, Head, Place, Ahead, Inside, Bucket, Method
<1>17. ASSUME NEW u \in Workers, u # t PROVE Holder(u)'
  <2>1. Holder(u) /\ Same(u)
    BY <1>3, <1>17 DEF ListInv
  <2>2. ASSUME Inside(u) PROVE Bucket(u) # d /\ Bucket(u) \in Buckets
    BY <1>1, <1>17, <2>2, OneInside, Busy DEF ListInv, Inside, DelPCs
  <2>3. ASSUME Inside(u)
        PROVE  /\ items'[Bucket(u)] = items[Bucket(u)]
               /\ \A x \in Chain(Bucket(u)) : next'[x] = next[x] /\ key'[x] = key[x]
    BY <1>4, <1>5, <1>13, <2>2, <2>3
  <2>4. pc[u] = "free" => /\ current[u] \in allocated'
                          /\ \A b \in Buckets : current[u] \notin Chain(b)'
    BY <1>2, <1>6, <1>7, <2>1 DEF Holder, Place
  <2> QED
    BY <1>1, <1>3, <2>1, <2>3, <2>4, HolderFrame
<1>18. Freeing'
  BY <1>1, <1>3 DEF ListInv, Freeing, Same
<1>19. Kept'
  <2>1. \A u \in Workers : pc[u] = "free" => pc'[u] = "free" /\ current'[u] = current[u]
    BY <1>1, <1>3 DEF Same
  <2>2. \A b \in Buckets : Chain(b) \subseteq Chain(b)'
    BY <1>6, <1>7
  <2> QED
    BY <1>2, <1>6, <2>1, <2>2 DEF ListInv, Kept
<1> QED
  BY <1>11, <1>12, <1>14, <1>15, <1>16, <1>17, <1>18, <1>19 DEF ListInv, Lists

(* Unlink: the item leaves the list of the bucket, and no other list.        *)
LEMMA UnlinkChains ==
  ASSUME ListInv, Base', NEW t \in Workers, Unlink(t)
  PROVE  \A b \in Buckets : Chain(b)' = Chain(b) \ {current[t]}
<1>a. PICK d \in Buckets : d = Bucket(t)
  BY Busy DEF ListInv, Unlink
<1>b. PICK c \in Chain(d) : c = current[t]
  BY <1>a DEF ListInv, Unlink, Inside, DelPCs, Holder, Place
<1>1. /\ Base /\ TypeOK /\ d = Bucket(t) /\ c = current[t] /\ c \in Addrs
      /\ next \in Pointers /\ prev \in Pointers /\ next' \in Pointers
      /\ items[d] \in OrNull(Addrs)
  BY <1>a, <1>b, Types DEF ListInv, Base, TypeOK, Pointers
<1>2. /\ prev' = [x \in Addrs |-> IF x = next[c] THEN prev[c] ELSE prev[x]]
      /\ next' = [x \in Addrs |-> IF x = prev[c] THEN next[c] ELSE next[x]]
      /\ items' = [items EXCEPT ![d] = IF items[d] = c THEN next[c] ELSE items[d]]
  BY <1>1 DEF Unlink, TypeOK
<1>3. \A b \in Buckets : items'[b] = IF b = d THEN (IF items[d] = c THEN next[c] ELSE items[d])
                                     ELSE items[b]
  BY <1>1, <1>2 DEF TypeOK
<1>4. /\ c \in Reach(items[d], next) /\ Doubly(items[d], next, prev) /\ Ends(items[d], next)
      /\ \A b \in Buckets : Chain(b) \subseteq Addrs /\ items[b] \in OrNull(Addrs)
      /\ \A b \in Buckets : b # d => Chain(b) \cap Chain(d) = {}
      /\ NULL \notin Addrs
  BY <1>1, Types, NullAssumption DEF ListInv, Lists, Linked, Disjoint, Chain, ReachFrom
<1>5. prev[c] \in OrNull(Chain(d))
  BY <1>1, <1>4, PrevInList DEF Chain, ReachFrom, OrNull
<1>6. Chain(d)' = Chain(d) \ {c}
  BY <1>1, <1>2, <1>3, <1>4, ReachUnlink DEF Chain, ReachFrom
<1>7. ASSUME NEW b \in Buckets, b # d PROVE Chain(b)' = Chain(b) \ {c}
  <2>1. \A x \in Chain(b) : next'[x] = next[x]
    BY <1>2, <1>4, <1>5, <1>7 DEF OrNull
  <2>2. items[b] \in OrNull(Addrs) /\ items'[b] = items[b]
    BY <1>3, <1>4, <1>7
  <2>3. Chain(b)' = Chain(b)
    BY <1>1, <2>1, <2>2, ReachSame DEF Chain, ReachFrom
  <2> QED
    BY <1>4, <1>7, <2>3
<1> QED
  BY <1>1, <1>6, <1>7

LEMMA UnlinkList ==
  ASSUME ListInv, Base', NEW t \in Workers, Unlink(t) PROVE ListInv'
<1>a. PICK d \in Buckets : d = Bucket(t)
  BY Busy DEF ListInv, Unlink
<1>b. PICK c \in Chain(d) : c = current[t]
  BY <1>a DEF ListInv, Unlink, Inside, DelPCs, Holder, Place
<1>1. /\ Base /\ TypeOK /\ pc[t] = "unlink" /\ Inside(t) /\ Holder(t)
      /\ d = Bucket(t) /\ c = current[t] /\ c \in Addrs
      /\ next \in Pointers /\ prev \in Pointers /\ items[d] \in OrNull(Addrs)
      /\ Method(t) = "DEL"
  BY <1>a, <1>b, Types DEF ListInv, Base, Control, Unlink, Inside, DelPCs
<1>2. /\ prev' = [x \in Addrs |-> IF x = next[c] THEN prev[c] ELSE prev[x]]
      /\ next' = [x \in Addrs |-> IF x = prev[c] THEN next[c] ELSE next[x]]
      /\ items' = [items EXCEPT ![d] = IF items[d] = c THEN next[c] ELSE items[d]]
  BY <1>1 DEF Unlink, TypeOK
<1>3. /\ UNCHANGED <<allocated, key, locks, req, current, item_head>> /\ pc'[t] = "free"
      /\ \A u \in Workers \ {t} : Same(u)
  BY <1>1 DEF Unlink, Goto, TypeOK, Same
<1>4. \A b \in Buckets : items'[b] = IF b = d THEN (IF items[d] = c THEN next[c] ELSE items[d])
                                     ELSE items[b]
  BY <1>1, <1>2 DEF TypeOK
<1>5. /\ \A b \in Buckets : Doubly(items[b], next, prev) /\ Ends(items[b], next)
      /\ \A b \in Buckets : Chain(b) \subseteq allocated /\ Chain(b) \subseteq Addrs
      /\ \A b \in Buckets : Closed(Chain(b), next) /\ (items[b] # NULL => items[b] \in Chain(b))
      /\ \A b \in Buckets : b # d => Chain(b) \cap Chain(d) = {}
      /\ NULL \notin Addrs
  BY <1>1, Types, ReachClosed, NullAssumption DEF ListInv, Lists, Linked, Disjoint, Chain, ReachFrom
<1>6. next[c] \in OrNull(Chain(d)) /\ prev[c] \in OrNull(Chain(d))
  <2>1. c \in Reach(items[d], next) /\ Doubly(items[d], next, prev)
    BY <1>5 DEF Chain, ReachFrom
  <2> QED
    BY <1>1, <2>1, PrevInList DEF Chain, ReachFrom, OrNull
<1>7. /\ Chain(d)' = Chain(d) \ {c}
      /\ Doubly(items'[d], next', prev')
      /\ Ends(items'[d], next')
  <2>1. c \in Reach(items[d], next) /\ Doubly(items[d], next, prev) /\ Ends(items[d], next)
    BY <1>5 DEF Chain, ReachFrom
  <2>2. items'[d] = IF items[d] = c THEN next[c] ELSE items[d]
    BY <1>4
  <2> QED
    BY <1>1, <1>2, <2>1, <2>2, ReachUnlink DEF Chain, ReachFrom
<1>8. ASSUME NEW b \in Buckets, b # d
      PROVE  /\ Chain(b)' = Chain(b) /\ items'[b] = items[b]
             /\ \A x \in Chain(b) : next'[x] = next[x] /\ prev'[x] = prev[x]
  <2>1. \A x \in Chain(b) : next'[x] = next[x] /\ prev'[x] = prev[x]
    BY <1>2, <1>5, <1>6, <1>8 DEF OrNull
  <2>2. next' \in Pointers /\ items[b] \in OrNull(Addrs) /\ items'[b] = items[b]
    BY <1>1, <1>4, <1>8, Types DEF Base, TypeOK, Pointers
  <2>3. Chain(b)' = Chain(b) \ {c}
    BY <1>1, UnlinkChains
  <2> QED
    BY <1>5, <1>8, <2>1, <2>2, <2>3
<1>9. \A b \in Buckets : Chain(b)' \subseteq Chain(b) \ {c}
  BY <1>5, <1>7, <1>8
<1>10. Linked'
  <2> SUFFICES ASSUME NEW b \in Buckets
               PROVE  /\ Doubly(items'[b], next', prev')
                      /\ Ends(items'[b], next')
                      /\ Chain(b)' \subseteq allocated'
    BY DEF Linked
  <2>1. Chain(b)' \subseteq allocated'
    BY <1>3, <1>5, <1>9
  <2>2. CASE b = d
    BY <1>7, <2>1, <2>2
  <2>3. CASE b # d
    <3>1. Doubly(items[b], next', prev')
      BY <1>5, <1>8, <2>3 DEF Doubly, Chain, ReachFrom, Closed, OrNull
    <3>2. Ends(items[b], next')
      BY <1>5, <1>8, <2>3 DEF Ends, Chain, ReachFrom
    <3> QED
      BY <1>8, <2>1, <2>3, <3>1, <3>2
  <2> QED
    BY <2>2, <2>3
<1>11. Disjoint' /\ UniqueKeys'
  BY <1>3, <1>9 DEF ListInv, Lists, Disjoint, UniqueKeys
<1>12. Hashed'
  <2> SUFFICES ASSUME NEW b \in Buckets, NEW x \in Chain(b)'
               PROVE  IF key[x] = NULL THEN Clearing(x, b)' ELSE BucketOf[key[x]] = b
    BY <1>3 DEF Hashed
  <2>1. x \in Chain(b) /\ x # c
    BY <1>9
  <2>2. CASE key[x] # NULL
    BY <2>1, <2>2 DEF ListInv, Lists, Hashed
  <2>3. CASE key[x] = NULL
    <3>1. PICK u \in Workers : pc[u] = "unlink" /\ current[u] = x /\ Bucket(u) = b
      BY <2>1, <2>3 DEF ListInv, Lists, Hashed, Clearing
    <3>2. Same(u)
      BY <1>1, <1>3, <2>1, <3>1
    <3> QED
      BY <2>3, <3>1, <3>2 DEF Same, Clearing, Bucket
  <2> QED
    BY <2>2, <2>3
<1>13. Holder(t)'
  <2>1. current'[t] \in allocated' /\ \A b \in Buckets : current'[t] \notin Chain(b)'
    BY <1>1, <1>3, <1>5, <1>9
  <2> QED
    BY <1>1, <1>3, <2>1 DEF Holder, Mutex, Head, Place, Ahead, Inside, DelPCs, Bucket, Method
<1>14. ASSUME NEW u \in Workers, u # t PROVE Holder(u)'
  <2>1. Holder(u) /\ Same(u)
    BY <1>3, <1>14 DEF ListInv
  <2>2. ASSUME Inside(u) PROVE Bucket(u) # d /\ Bucket(u) \in Buckets
    BY <1>1, <1>14, <2>2, OneInside, Busy DEF ListInv, Inside, DelPCs
  <2>3. ASSUME Inside(u)
        PROVE  /\ items'[Bucket(u)] = items[Bucket(u)]
               /\ \A x \in Chain(Bucket(u)) : next'[x] = next[x] /\ key'[x] = key[x]
    BY <1>3, <1>8, <2>2, <2>3
  <2>4. pc[u] = "free" => /\ current[u] \in allocated'
                          /\ \A b \in Buckets : current[u] \notin Chain(b)'
    BY <1>3, <1>9, <2>1 DEF Holder, Place
  <2> QED
    BY <1>1, <1>3, <2>1, <2>3, <2>4, HolderFrame
<1>15. Freeing'
  <2>1. \A u \in Workers : pc[u] = "free" => current[u] # c
    BY DEF ListInv, Holder, Place
  <2> QED
    BY <1>1, <1>3, <2>1 DEF ListInv, Freeing, Same
<1>16. Kept'
  <2>1. \A u \in Workers : pc[u] = "free" => pc'[u] = "free" /\ current'[u] = current[u]
    BY <1>1, <1>3 DEF Same
  <2>2. pc'[t] = "free" /\ current'[t] = c
    BY <1>1, <1>3
  <2>3. \A b \in Buckets : Chain(b) \subseteq Chain(b)' \cup {c}
    BY <1>7, <1>8
  <2> SUFFICES ASSUME NoRst, NEW x \in allocated'
               PROVE  \/ \E b \in Buckets : x \in Chain(b)'
                      \/ \E u \in Workers : pc'[u] = "free" /\ current'[u] = x
    BY DEF Kept
  <2>4. \/ \E b \in Buckets : x \in Chain(b)
        \/ \E u \in Workers : pc[u] = "free" /\ current[u] = x
    BY <1>3 DEF ListInv, Kept
  <2> QED
    BY <2>1, <2>2, <2>3, <2>4
<1> QED
  BY <1>10, <1>11, <1>12, <1>13, <1>14, <1>15, <1>16 DEF ListInv, Lists

(* Free: the item is in no list any more.                                    *)
LEMMA FreeChains ==
  ASSUME ListInv, Base', NEW t \in Workers, Free(t)
  PROVE  \A b \in Buckets : Chain(b)' = Chain(b)
<1>1. /\ Base /\ TypeOK /\ current[t] \in Addrs
      /\ \A b \in Buckets : current[t] \notin Chain(b) /\ Chain(b) \subseteq Addrs
  BY Types DEF ListInv, Base, Control, Free, ItemPCs, DelPCs, Holder, Place
<1>2. UNCHANGED items /\ \A x \in Addrs : x # current[t] => next'[x] = next[x]
  BY <1>1 DEF Free, TypeOK
<1> SUFFICES ASSUME NEW b \in Buckets PROVE Chain(b)' = Chain(b)
  OBVIOUS
<1>3. /\ next \in Pointers /\ next' \in Pointers /\ items[b] \in OrNull(Addrs)
  BY <1>1, Types DEF Base, TypeOK, Pointers
<1> QED
  BY <1>1, <1>2, <1>3, ReachSame DEF Chain, ReachFrom

LEMMA FreeList ==
  ASSUME ListInv, Base', NEW t \in Workers, Free(t) PROVE ListInv'
<1>a. PICK d \in Buckets : d = Bucket(t)
  BY Busy DEF ListInv, Free
<1>b. PICK c \in Addrs : c = current[t]
  BY DEF ListInv, Base, Control, Free, ItemPCs, DelPCs
<1>1. /\ Base /\ TypeOK /\ pc[t] = "free" /\ Inside(t) /\ Holder(t)
      /\ d = Bucket(t) /\ c = current[t]
      /\ \A b \in Buckets : c \notin Chain(b) /\ Chain(b) \subseteq Addrs
  BY <1>a, <1>b, Types DEF ListInv, Base, Free, Inside, DelPCs, Holder, Place
<1>2. /\ UNCHANGED <<items, key, req, current, item_head>> /\ pc'[t] = "respond"
      /\ \A u \in Workers \ {t} : Same(u)
      /\ allocated' = allocated \ {c}
      /\ \A b \in Buckets : b # d => locks'[b] = locks[b]
      /\ \A x \in Addrs : x # c => next'[x] = next[x] /\ prev'[x] = prev[x]
  BY <1>1 DEF Free, Goto, TypeOK, Same
<1>3. \A b \in Buckets : \A x \in Chain(b) : next'[x] = next[x] /\ prev'[x] = prev[x]
  BY <1>1, <1>2
<1>4. \A b \in Buckets : Chain(b)' = Chain(b)
  BY FreeChains
<1>5. Linked'
  <2> SUFFICES ASSUME NEW b \in Buckets
               PROVE  /\ Doubly(items[b], next', prev')
                      /\ Ends(items[b], next')
                      /\ Chain(b)' \subseteq allocated'
    BY <1>2 DEF Linked
  <2>1. /\ Doubly(items[b], next, prev) /\ Ends(items[b], next) /\ Chain(b) \subseteq allocated
        /\ Closed(Chain(b), next) /\ (items[b] # NULL => items[b] \in Chain(b))
    BY <1>1, Types, ReachClosed DEF ListInv, Lists, Linked, Chain, ReachFrom
  <2>2. Doubly(items[b], next', prev')
    BY <1>2, <1>3, <1>4, <2>1 DEF Doubly, Chain, ReachFrom, Closed, OrNull
  <2>3. Ends(items[b], next')
    BY <1>2, <1>3, <1>4, <2>1 DEF Ends, Chain, ReachFrom
  <2> QED
    BY <1>1, <1>2, <1>4, <2>1, <2>2, <2>3
<1>6. Disjoint' /\ UniqueKeys'
  BY <1>2, <1>4 DEF ListInv, Lists, Disjoint, UniqueKeys
<1>7. Hashed'
  <2> SUFFICES ASSUME NEW b \in Buckets, NEW x \in Chain(b)
               PROVE  IF key[x] = NULL THEN Clearing(x, b)' ELSE BucketOf[key[x]] = b
    BY <1>2, <1>4 DEF Hashed
  <2>1. CASE key[x] # NULL
    BY <2>1 DEF ListInv, Lists, Hashed
  <2>2. CASE key[x] = NULL
    <3>1. PICK u \in Workers : pc[u] = "unlink" /\ current[u] = x /\ Bucket(u) = b
      BY <2>2 DEF ListInv, Lists, Hashed, Clearing
    <3>2. Same(u)
      BY <1>1, <1>2, <3>1
    <3> QED
      BY <2>2, <3>1, <3>2 DEF Same, Clearing, Bucket
  <2> QED
    BY <2>1, <2>2
<1>8. Holder(t)'
  BY <1>2, OutsideHolder DEF Inside, DelPCs
<1>9. ASSUME NEW u \in Workers, u # t PROVE Holder(u)'
  <2>1. Holder(u) /\ Same(u)
    BY <1>2, <1>9 DEF ListInv
  <2>2. ASSUME Inside(u) PROVE Bucket(u) # d /\ Bucket(u) \in Buckets
    BY <1>1, <1>9, <2>2, OneInside, Busy DEF ListInv, Inside, DelPCs
  <2>3. Inside(u) => /\ locks'[Bucket(u)] = locks[Bucket(u)]
                     /\ items'[Bucket(u)] = items[Bucket(u)]
                     /\ \A x \in Chain(Bucket(u)) : next'[x] = next[x] /\ key'[x] = key[x]
    BY <1>2, <1>3, <2>2
  <2>4. pc[u] = "free" => /\ current[u] \in allocated'
                          /\ \A b \in Buckets : current[u] \notin Chain(b)'
    BY <1>1, <1>2, <1>4, <1>9, <2>1 DEF ListInv, Freeing, Holder, Place
  <2> QED
    BY <1>1, <2>1, <2>3, <2>4, HolderFrame
<1>10. Freeing'
  BY <1>2 DEF ListInv, Freeing, Same
<1>11. Kept'
  <2>1. \A u \in Workers \ {t} : pc[u] = "free" => pc'[u] = "free" /\ current'[u] = current[u]
    BY <1>2 DEF Same
  <2> SUFFICES ASSUME NoRst, NEW x \in allocated'
               PROVE  \/ \E b \in Buckets : x \in Chain(b)'
                      \/ \E u \in Workers : pc'[u] = "free" /\ current'[u] = x
    BY DEF Kept
  <2>2. \/ \E b \in Buckets : x \in Chain(b)
        \/ \E u \in Workers : pc[u] = "free" /\ current[u] = x
    BY <1>2 DEF ListInv, Kept
  <2> QED
    BY <1>1, <1>2, <1>4, <2>1, <2>2
<1> QED
  BY <1>5, <1>6, <1>7, <1>8, <1>9, <1>10, <1>11 DEF ListInv, Lists

(* RST: the only worker is not inside, and there is nothing in the lists.    *)
LEMMA ResetList ==
  ASSUME RstAlone, ListInv, Base', NEW t \in Workers,
         ResetFree(t) \/ ResetItems(t) \/ ResetLocks(t) \/ ResetFail(t)
  PROVE  ListInv'
<1>1. /\ TypeOK /\ pc[t] \in ResetPCs /\ ~Inside(t)'
      /\ pc'[t] \in {"reset_ht", "reset_locks", "respond"}
  BY DEF ListInv, Base, TypeOK, ResetFree, ResetItems, ResetLocks, ResetFail, ResetPCs, Goto, Inside,
         DelPCs
<1>2. Workers = {t} /\ ~NoRst
  <2>1. req[t] \in Requests[t] /\ req[t].method = "RST"
    BY <1>1, Busy DEF ListInv, Base, Control, ResetPCs, Method
  <2> QED
    BY <2>1 DEF RstAlone, NoRst
<1>3. Holder(t)'
  BY <1>1, OutsideHolder
<1>4. Freeing' /\ Kept'
  BY <1>2 DEF Freeing, Kept
<1>5. CASE ResetLocks(t)
  <2>1. UNCHANGED Structure
    BY <1>5 DEF ResetLocks, heap, Structure
  <2>2. pc[t] \notin {"unlink", "free"} /\ pc'[t] # "free"
    BY <1>1 DEF ResetPCs
  <2> QED
    BY <1>2, <1>3, <2>1, <2>2, LocalStep
<1>6. CASE ResetFree(t) \/ ResetItems(t) \/ ResetFail(t)
  <2>1. \A b \in Buckets : items'[b] = NULL
    BY <1>6 DEF ResetFree, ResetItems, ResetFail, NoItems
  <2>2. \A b \in Buckets : Chain(b)' = {}
    <3> TAKE b \in Buckets
    <3>1. next' \in Pointers /\ items'[b] = NULL /\ NULL \in OrNull(Addrs)
      BY <2>1 DEF Base, TypeOK, Pointers, OrNull
    <3>2. Reach(NULL, next') = {}
      BY <3>1, ReachClosed
    <3> QED
      BY <3>1, <3>2 DEF Chain, ReachFrom
  <2>3. Linked'
    BY <2>1, <2>2 DEF Linked, Doubly, Ends, Chain, ReachFrom
  <2>4. Hashed' /\ Disjoint' /\ UniqueKeys'
    BY <2>2 DEF Hashed, Disjoint, UniqueKeys
  <2> QED
    BY <1>2, <1>3, <1>4, <2>3, <2>4 DEF ListInv, Lists
<1> QED
  BY <1>5, <1>6

LEMMA StutterList ==
  ASSUME ListInv, Base', UNCHANGED <<Structure, locks, pc, req, current, item_head>>
  PROVE  ListInv'
<1>1. \A b \in Buckets : Chain(b)' = Chain(b)
  BY DEF Structure, Chain, ReachFrom
<1>2. Lists' /\ Freeing' /\ Kept'
  BY <1>1 DEF ListInv, Lists, Linked, Hashed, Clearing, Bucket, Disjoint, UniqueKeys, Freeing, Kept,
              Structure
<1>3. ASSUME NEW u \in Workers PROVE Holder(u)'
  BY <1>1 DEF ListInv, Holder, Mutex, Head, Place, Ahead, Inside, Method, Bucket, Chain, ReachFrom,
              Structure
<1> QED
  BY <1>2, <1>3 DEF ListInv

LEMMA InitList == Init => ListInv
<1> SUFFICES ASSUME Init PROVE ListInv
  OBVIOUS
<1>1. Base
  BY InitBase
<1>2. \A b \in Buckets : Chain(b) = {} /\ items[b] = NULL
  BY <1>1, Types, ReachClosed DEF Init, Chain, ReachFrom
<1>3. Lists
  BY <1>2 DEF Lists, Linked, Hashed, Disjoint, UniqueKeys, Doubly, Ends, Chain, ReachFrom
<1>4. \A t \in Workers : Holder(t)
  BY DEF Init, Holder, Mutex, Head, Place, Ahead, Inside, DelPCs
<1>5. Freeing /\ Kept
  BY DEF Init, Freeing, Kept
<1> QED
  BY <1>1, <1>3, <1>4, <1>5 DEF ListInv

LEMMA NextList ==
  ASSUME RstAlone
  PROVE  ListInv /\ [Next]_vars => ListInv'
<1> SUFFICES ASSUME ListInv, [Next]_vars PROVE ListInv'
  OBVIOUS
<1>0. Base'
  BY NextBase DEF ListInv
<1>1. CASE UNCHANGED vars
  BY <1>0, <1>1, StutterList DEF vars, shared, table, heap, Structure
<1>2. ASSUME NEW t \in Workers, Undefined(t) \/ AllocFail(t) PROVE ListInv'
  BY <1>0, <1>2, StutterList DEF Undefined, AllocFail, shared, table, heap, Structure
<1>3. CASE Next
  BY <1>0, <1>2, <1>3, LocalList, LockList, UnlockList, ClearList, InsertList, UnlinkList, FreeList,
     ResetList
     DEF Next, Work, SetGetStep, DelStep, ResetStep
<1> QED
  BY <1>1, <1>3

(* The inductive invariant of the lists holds in every state.                *)
THEOREM ListInvariance ==
  ASSUME RstAlone
  PROVE  Spec => []ListInv
  BY InitList, NextList, PTL DEF Spec

(* While nobody holds the mutex of a bucket its list is a proper doubly      *)
(* linked list of live items that hash to it, for any interleaving of        *)
(* get_key_entry, remove_item and searches without the mutex.                *)
THEOREM ListsWellFormed ==
  ASSUME RstAlone
  PROVE  Spec => []ChainOK
<1>1. ListInv => ChainOK
  <2> SUFFICES ASSUME ListInv, NEW b \in Buckets, locks[b] = NULL
               PROVE  /\ items[b] # NULL =>
                           prev[items[b]] = NULL /\ \E a \in Chain(b) : next[a] = NULL
                      /\ \A a \in Chain(b) :
                           /\ a \in allocated
                           /\ key[a] # NULL /\ BucketOf[key[a]] = b
                           /\ next[a] # NULL => prev[next[a]] = a
    BY DEF ChainOK
  <2>1. /\ items[b] # NULL =>
             prev[items[b]] = NULL /\ \E a \in Chain(b) : next[a] = NULL
        /\ \A a \in Chain(b) : a \in allocated /\ (next[a] # NULL => prev[next[a]] = a)
    BY DEF ListInv, Lists, Linked, Doubly, Ends, Chain, ReachFrom
  <2>2. ASSUME NEW a \in Chain(b) PROVE key[a] # NULL /\ BucketOf[key[a]] = b
    <3>1. ~Clearing(a, b)
      BY NullAssumption DEF ListInv, Holder, Mutex, Inside, DelPCs, Clearing
    <3> QED
      BY <3>1 DEF ListInv, Lists, Hashed
  <2> QED
    BY <2>1, <2>2
<1> QED
  BY <1>1, ListInvariance, PTL

(* No bucket ever has two entries for one key, whatever SETs, GETs and DELs  *)
(* of that key do at the same time.                                          *)
THEOREM KeysUnique ==
  ASSUME RstAlone
  PROVE  Spec => []UniqueKeys
<1>1. ListInv => UniqueKeys
  BY DEF ListInv, Lists
<1> QED
  BY <1>1, ListInvariance, PTL

(* Without RST, which leaks them all, no entry is lost: it is in a list, or  *)
(* remove_item is about to free it.                                          *)
THEOREM NothingLost ==
  ASSUME NoRst
  PROVE  Spec => []NoLostItem
<1>0. NoRst
  OBVIOUS
<1>1. RstAlone
  BY DEF NoRst, RstAlone
<1>2. ListInv => NoLostItem
  <2> DEFINE L == UNION {Chain(b) : b \in Buckets}
             F == {current[t] : t \in {u \in Workers : pc[u] = "free"}}
  <2> SUFFICES ASSUME ListInv PROVE allocated \subseteq L \cup F
    BY Zenon DEF NoLostItem
  <2>1. \A x : (\E b \in Buckets : x \in Chain(b)) => x \in L
    BY Zenon
  <2>2. \A x : (\E u \in Workers : pc[u] = "free" /\ current[u] = x) => x \in F
    BY Zenon
  <2> HIDE DEF L, F
  <2> QED
    BY <1>0, <2>1, <2>2 DEF ListInv, Kept
<1>3. Spec => []ListInv
  BY <1>1, ListInvariance
<1> QED
  BY <1>2, <1>3, PTL

-----------------------------------------------------------------------------
(***************************************************************************)
(* One worker: all requests, and allocations that may fail.                *)
(***************************************************************************)
Sole == \A t, u \in Workers : t = u

(* The table is there but while RST rebuilds it.                             *)
TableThere(t) ==
  /\ pc[t] \notin {"reset_ht", "reset_items", "reset_locks"} =>
       ht = "live" /\ ht_fields = {"items", "locks"}
  /\ pc[t] \in {"reset_items", "reset_locks"} => ht = "live"
  /\ pc[t] = "reset_items" => ht_fields = {}
  /\ pc[t] = "reset_locks" => ht_fields = {"items"}

(* The worker is at an item of its bucket, with or without the mutex.        *)
HasItem(t) == \/ pc[t] \in ItemPCs \ {"free"}
              \/ pc[t] = "unlock" /\ Method(t) = "SET"
InList(t) ==
  /\ pc[t] = "scan" => current[t] \in OrNull(Chain(Bucket(t)))
  /\ HasItem(t) => current[t] \in Chain(Bucket(t))

(* It holds the rwlock of that item while it works on it, and no other.      *)
RwHeld(t) ==
  /\ pc[t] # "delbusy"
  /\ \A a \in Addrs :
       /\ wrlocked[a] <=> (a = current[t] /\ pc[t] \in WritePCs \cup DelPCs)
       /\ readers[a] = IF a = current[t] /\ pc[t] \in ReadPCs THEN 1 ELSE 0

(* A size is only set with a buffer.                                         *)
Buffers(t) ==
  /\ \A a \in Addrs : value_size[a] => value[a] # NULL
  /\ pc[t] = "copy" => value[current[t]] # NULL

(* RST starts with empty lists.                                              *)
Emptied(t) ==
  pc[t] \in {"reset_ht", "reset_items", "reset_locks"} => items = NoItems

Serial(t) == InList(t) /\ RwHeld(t) /\ Buffers(t) /\ Emptied(t)

(* The inductive invariant, together with ListInv.                           *)
SerialInv ==
  /\ \A t \in Workers : Serial(t)
  /\ ~oom => ~fault /\ \A t \in Workers : TableThere(t)

(* Such a worker never runs into undefined behaviour.                        *)
LEMMA SoundAccess ==
  ASSUME ListInv, NEW t \in Workers, Sole, Serial(t), TableThere(t)
  PROVE  ~BadAccess(t)
<1>1. /\ TypeOK /\ Base /\ (pc[t] # "idle" => Bucket(t) \in Buckets)
      /\ Linked /\ Hashed /\ Holder(t)
  BY Busy DEF ListInv, Base, Lists
<1>2. /\ pc[t] \notin {"reset_ht", "reset_items", "reset_locks"} => ItemsThere /\ LocksThere
      /\ pc[t] = "reset_free" => ht # "freed"
      /\ pc[t] \in {"reset_items", "reset_locks"} => ht = "live"
  BY DEF TableThere, ItemsThere, LocksThere
<1>3. ASSUME HasItem(t)
      PROVE  current[t] \in Chain(Bucket(t)) /\ current[t] \in Addrs /\ ~Freed(current[t])
  <2>1. current[t] \in Chain(Bucket(t)) /\ Bucket(t) \in Buckets
    BY <1>1, <1>3 DEF Serial, InList, HasItem, ItemPCs, WritePCs, ReadPCs, DelPCs
  <2>2. current[t] \in allocated
    BY <1>1, <2>1 DEF Linked
  <2> QED
    BY <1>1, <2>1, <2>2 DEF Freed, TypeOK
<1>4. pc[t] = "free" => ~Freed(current[t])
  BY <1>1 DEF Holder, Place, Freed
<1>5. ASSUME pc[t] = "scan", current[t] # NULL
      PROVE  ~Freed(current[t]) /\ key[current[t]] # NULL
  <2>1. current[t] \in Chain(Bucket(t)) /\ Bucket(t) \in Buckets
    BY <1>1, <1>5 DEF Serial, InList, OrNull
  <2>2. ~Clearing(current[t], Bucket(t))
    BY <1>5 DEF Sole, Clearing
  <2> QED
    BY <1>1, <2>1, <2>2 DEF Linked, Hashed, Freed
<1>6. pc[t] = "insert" => ~Freed(item_head[t])
  <2> SUFFICES ASSUME pc[t] = "insert", item_head[t] # NULL PROVE item_head[t] \in allocated
    BY DEF Freed
  <2>1. item_head[t] = items[Bucket(t)] /\ Bucket(t) \in Buckets
    BY <1>1 DEF Holder, Head, Inside
  <2>2. items[Bucket(t)] \in Chain(Bucket(t))
    BY <1>1, <2>1, Types, ReachClosed DEF Chain, ReachFrom
  <2> QED
    BY <1>1, <2>1, <2>2 DEF Linked
<1>7. ASSUME pc[t] = "unlink"
      PROVE  ~Freed(next[current[t]]) /\ ~Freed(prev[current[t]])
  <2>1. HasItem(t) /\ Bucket(t) \in Buckets
    BY <1>1, <1>7 DEF HasItem, ItemPCs, DelPCs
  <2>2. /\ current[t] \in Reach(items[Bucket(t)], next)
        /\ Doubly(items[Bucket(t)], next, prev)
        /\ Chain(Bucket(t)) \subseteq allocated
    BY <1>1, <1>3, <2>1 DEF Linked, Chain, ReachFrom
  <2>3. /\ next[current[t]] \in OrNull(Chain(Bucket(t)))
        /\ prev[current[t]] \in OrNull(Chain(Bucket(t)))
    BY <1>1, <2>1, <2>2, Types, PrevInList DEF Chain, ReachFrom, OrNull
  <2> QED
    BY <2>2, <2>3 DEF Freed, OrNull
<1>8. pc[t] \in ItemPCs => ~Freed(current[t])
  BY <1>3, <1>4 DEF HasItem
<1>9. /\ pc[t] = "copy" => value[current[t]] # NULL
      /\ pc[t] = "read" => ~(value_size[current[t]] /\ value[current[t]] = NULL)
  BY <1>3 DEF Serial, Buffers, HasItem, ItemPCs, ReadPCs
<1>10. pc[t] \in {"wrunlock", "rdunlock", "delbusy"} => ~LockFree(current[t])
  <2> SUFFICES ASSUME pc[t] \in {"wrunlock", "rdunlock", "delbusy"} PROVE ~LockFree(current[t])
    OBVIOUS
  <2>1. current[t] \in Addrs /\ pc[t] # "delbusy"
    BY <1>3 DEF Serial, RwHeld, HasItem, ItemPCs, ReadPCs, WritePCs
  <2> QED
    BY <2>1 DEF Serial, RwHeld, LockFree, ReadPCs, WritePCs
<1> QED
  BY <1>2, <1>5, <1>6, <1>7, <1>8, <1>9, <1>10 DEF BadAccess, ItemPCs, WritePCs, ReadPCs, DelPCs

LEMMA TableStep ==
  ASSUME TypeOK, NEW t \in Workers, TableThere(t),
         \/ Receive(t) \/ SetGetStep(t) \/ DelStep(t)
         \/ ResetFree(t) \/ ResetHt(t) \/ ResetItems(t) \/ ResetLocks(t)
  PROVE  TableThere(t)'
<1>1. CASE Receive(t)
  <2>1. pc[t] = "idle" /\ pc'[t] \in {"search", "reset_free", "lock"} /\ UNCHANGED <<ht, ht_fields>>
    BY <1>1 DEF Receive, Goto, TypeOK, shared, table
  <2> QED
    BY <2>1 DEF TableThere
<1>2. CASE SetGetStep(t) \/ DelStep(t)
  <2>1. /\ pc[t] \notin ResetPCs /\ pc'[t] \notin ResetPCs
        /\ UNCHANGED <<ht, ht_fields>>
    <3>1. CASE Lock(t) \/ Search(t) \/ Compare(t) \/ Advance(t) \/ NotFound(t) \/ Insert(t) \/ Unlock(t)
      BY <3>1 DEF Lock, Search, Compare, Advance, NotFound, Insert, Unlock, Goto, TypeOK, shared,
                  table, ResetPCs
    <3>2. CASE TryWrLock(t) \/ Malloc(t) \/ Copy(t) \/ ItemUnlock(t) \/ TryRdLock(t) \/ Read(t)
               \/ Respond(t)
      BY <3>2 DEF TryWrLock, Malloc, Copy, ItemUnlock, TryRdLock, Read, Respond, Goto, TypeOK, shared,
                  table, ResetPCs
    <3>3. CASE DelStep(t)
      BY <3>3 DEF DelStep, TryDelLock, DelBusy, Clear, Unlink, Free, Goto, TypeOK, table, ResetPCs
    <3> QED
      BY <1>2, <3>1, <3>2, <3>3 DEF SetGetStep
  <2> QED
    BY <2>1 DEF TableThere, ResetPCs
<1>3. CASE ResetFree(t) \/ ResetHt(t)
  BY <1>3 DEF ResetFree, ResetHt, Goto, TypeOK, TableThere
<1>4. CASE ResetItems(t)
  <2>1. pc[t] = "reset_items" /\ pc'[t] = "reset_locks" /\ ht' = ht
        /\ ht_fields' = ht_fields \cup {"items"}
    BY <1>4 DEF ResetItems, Goto, TypeOK
  <2> QED
    BY <2>1 DEF TableThere
<1>5. CASE ResetLocks(t)
  <2>1. pc[t] = "reset_locks" /\ pc'[t] = "respond" /\ ht' = ht
        /\ ht_fields' = ht_fields \cup {"locks"}
    BY <1>5 DEF ResetLocks, Goto, TypeOK
  <2> QED
    BY <2>1 DEF TableThere
<1> QED
  BY <1>1, <1>2, <1>3, <1>4, <1>5

LEMMA InListStep ==
  ASSUME ListInv, ListInv', NEW t \in Workers, InList(t),
         Receive(t) \/ SetGetStep(t) \/ DelStep(t) \/ ResetStep(t)
  PROVE  InList(t)'
<1>0. TypeOK /\ Base /\ (pc[t] # "idle" => Bucket(t) \in Buckets)
  BY Busy DEF ListInv, Base
<1> USE DEF HasItem, ItemPCs, WritePCs, ReadPCs, DelPCs
<1>1. CASE \/ Receive(t) \/ Lock(t) \/ Respond(t) \/ ItemUnlock(t) \/ DelBusy(t) \/ Unlink(t)
           \/ Free(t) \/ ResetFree(t) \/ ResetHt(t) \/ ResetItems(t) \/ ResetLocks(t) \/ ResetFail(t)
  <2>1. pc'[t] # "scan" /\ pc'[t] \notin ItemPCs \ {"free"}
        /\ ~(pc'[t] = "unlock" /\ Method(t)' = "SET")
    <3>1. CASE Receive(t)
      <4>1. pc'[t] \in {"search", "reset_free", "lock"}
        BY <1>0, <3>1 DEF Receive, Goto, TypeOK
      <4> QED
        BY <4>1
    <3>2. CASE DelBusy(t)
      BY <1>0, <3>2 DEF DelBusy, Goto, TypeOK, Base, Control, Method
    <3>3. CASE Lock(t) \/ Respond(t) \/ ItemUnlock(t) \/ Unlink(t) \/ Free(t)
      BY <1>0, <3>3 DEF Lock, Respond, ItemUnlock, Unlink, Free, Goto, TypeOK
    <3>4. CASE ResetFree(t) \/ ResetHt(t) \/ ResetItems(t) \/ ResetLocks(t) \/ ResetFail(t)
      BY <1>0, <3>4 DEF ResetFree, ResetHt, ResetItems, ResetLocks, ResetFail, Goto, TypeOK
    <3> QED
      BY <1>1, <3>1, <3>2, <3>3, <3>4
  <2> QED
    BY <2>1 DEF InList
<1>2. CASE Search(t) \/ Advance(t)
  <2>1. /\ Bucket(t)' = Bucket(t) /\ Chain(Bucket(t))' = Chain(Bucket(t))
        /\ pc'[t] = "scan"
    BY <1>0, <1>2 DEF Search, Advance, Goto, TypeOK, shared, table, heap, Bucket, Chain, ReachFrom
  <2>2. current'[t] \in OrNull(Chain(Bucket(t)))
    <3>1. CASE Search(t)
      BY <1>0, <3>1, Types, ReachClosed DEF Search, TypeOK, Chain, ReachFrom, OrNull
    <3>2. CASE Advance(t)
      <4>1. current[t] \in Chain(Bucket(t)) /\ current'[t] = next[current[t]]
        BY <1>0, <3>2 DEF InList, Advance, TypeOK
      <4>2. Closed(Chain(Bucket(t)), next)
        BY <1>0, <3>2, Types, ReachClosed DEF Chain, ReachFrom, Advance
      <4> QED
        BY <4>1, <4>2 DEF Closed
    <3> QED
      BY <1>2, <3>1, <3>2
  <2> QED
    BY <2>1, <2>2 DEF InList
<1>3. CASE Insert(t)
  <2>1. PICK a \in Addrs \ allocated : /\ items' = [items EXCEPT ![Bucket(t)] = a]
                                       /\ current' = [current EXCEPT ![t] = a]
    BY <1>3, Zenon DEF Insert
  <2>2. Bucket(t)' = Bucket(t) /\ Bucket(t) \in Buckets /\ pc'[t] = "unlock"
    BY <1>0, <1>3 DEF Insert, Bucket, Goto, TypeOK
  <2>3. items'[Bucket(t)] = a /\ current'[t] = a /\ a # NULL /\ a \in OrNull(Addrs)
    BY <1>0, <2>1, <2>2, NullAssumption DEF TypeOK, OrNull
  <2>4. next' \in Pointers
    BY DEF ListInv, Base, TypeOK, Pointers
  <2>5. a \in Reach(a, next')
    BY <2>3, <2>4, ReachClosed
  <2>6. current'[t] \in Chain(Bucket(t))'
    BY <2>2, <2>3, <2>5 DEF Chain, ReachFrom
  <2> QED
    BY <2>2, <2>6 DEF InList
<1>4. CASE \/ Compare(t) \/ NotFound(t) \/ Unlock(t) \/ TryWrLock(t) \/ Malloc(t) \/ Copy(t)
           \/ TryRdLock(t) \/ Read(t) \/ TryDelLock(t) \/ Clear(t)
  <2>1. /\ Bucket(t)' = Bucket(t) /\ Chain(Bucket(t))' = Chain(Bucket(t))
        /\ Method(t)' = Method(t) /\ current'[t] = current[t]
    BY <1>4 DEF Compare, NotFound, Unlock, TryWrLock, Malloc, Copy, TryRdLock, Read, TryDelLock,
                Clear, shared, table, heap, Bucket, Chain, ReachFrom, Method
  <2>2. HasItem(t)' => HasItem(t) \/ (pc[t] = "scan" /\ current[t] # NULL)
    <3>1. CASE Compare(t) \/ NotFound(t) \/ Unlock(t)
      BY <1>0, <2>1, <3>1 DEF Compare, NotFound, Unlock, Goto, TypeOK, Method
    <3>2. CASE TryWrLock(t) \/ Malloc(t) \/ Copy(t) \/ TryRdLock(t) \/ Read(t) \/ TryDelLock(t) \/ Clear(t)
      BY <1>0, <3>2 DEF TryWrLock, Malloc, Copy, TryRdLock, Read, TryDelLock, Clear, Goto, TypeOK
    <3> QED
      BY <1>4, <3>1, <3>2
  <2>3. pc'[t] # "scan"
    BY <1>0, <1>4 DEF Compare, NotFound, Unlock, TryWrLock, Malloc, Copy, TryRdLock, Read,
                      TryDelLock, Clear, Goto, TypeOK
  <2> QED
    BY <2>1, <2>2, <2>3 DEF InList, OrNull
<1> QED
  BY <1>1, <1>2, <1>3, <1>4 DEF SetGetStep, DelStep, ResetStep

LEMMA RwStep ==
  ASSUME ListInv, NEW t \in Workers, RwHeld(t), InList(t),
         Receive(t) \/ SetGetStep(t) \/ DelStep(t) \/ ResetStep(t)
  PROVE  RwHeld(t)'
<1>0. TypeOK /\ Base /\ wrlocked \in [Addrs -> BOOLEAN] /\ readers \in [Addrs -> Nat]
  BY DEF ListInv, Base, TypeOK
<1> DEFINE Working == WritePCs \cup DelPCs \cup ReadPCs
           Free0 == \A a \in Addrs : ~wrlocked[a] /\ readers[a] = 0
<1>1. pc[t] \notin Working => Free0
  BY DEF RwHeld
<1>2. CASE \/ Receive(t) \/ Lock(t) \/ Search(t) \/ Compare(t) \/ Advance(t) \/ NotFound(t)
           \/ Unlock(t) \/ Respond(t)
           \/ ResetFree(t) \/ ResetHt(t) \/ ResetItems(t) \/ ResetLocks(t) \/ ResetFail(t)
  <2>1. /\ pc[t] \notin Working /\ pc'[t] \notin Working \cup {"delbusy"}
        /\ UNCHANGED <<wrlocked, readers>>
    <3> USE DEF Goto, shared, WritePCs, ReadPCs, DelPCs
    <3>1. CASE Receive(t)
      <4>1. pc[t] = "idle" /\ pc'[t] \in {"search", "reset_free", "lock"} /\ UNCHANGED <<wrlocked, readers>>
        BY <1>0, <3>1 DEF Receive, TypeOK
      <4> QED
        BY <4>1
    <3>2. CASE Lock(t) \/ Search(t) \/ Compare(t) \/ Advance(t) \/ NotFound(t) \/ Unlock(t) \/ Respond(t)
      BY <1>0, <3>2 DEF Lock, Search, Compare, Advance, NotFound, Unlock, Respond, TypeOK
    <3>3. CASE ResetFree(t) \/ ResetHt(t) \/ ResetItems(t) \/ ResetLocks(t) \/ ResetFail(t)
      BY <1>0, <3>3 DEF ResetFree, ResetHt, ResetItems, ResetLocks, ResetFail, TypeOK
    <3> QED
      BY <1>2, <3>1, <3>2, <3>3
  <2> QED
    BY <1>1, <2>1 DEF RwHeld
<1>3. CASE Insert(t)
  <2>1. PICK a \in Addrs : /\ wrlocked' = [wrlocked EXCEPT ![a] = FALSE]
                           /\ readers' = [readers EXCEPT ![a] = 0]
    BY <1>3, Zenon DEF Insert
  <2>2. pc[t] = "insert" /\ pc'[t] = "unlock"
    BY <1>0, <1>3 DEF Insert, Goto, TypeOK
  <2> QED
    BY <1>0, <1>1, <2>1, <2>2 DEF RwHeld, WritePCs, ReadPCs, DelPCs
<1>4. CASE TryWrLock(t) \/ TryRdLock(t) \/ TryDelLock(t)
  <2>1. /\ current[t] \in Addrs /\ pc[t] \notin Working /\ current' = current
        /\ LockFree(current[t]) /\ ~wrlocked[current[t]]
    BY <1>0, <1>1, <1>4 DEF Base, Control, ItemPCs, WritePCs, ReadPCs, DelPCs, TryWrLock, TryRdLock,
                            TryDelLock, LockFree
  <2>2. CASE TryWrLock(t)
    <3>1. /\ wrlocked' = [wrlocked EXCEPT ![current[t]] = TRUE] /\ readers' = readers
          /\ pc'[t] = "malloc"
      BY <1>0, <2>1, <2>2 DEF TryWrLock, Goto, TypeOK
    <3> QED
      BY <1>0, <1>1, <2>1, <3>1 DEF RwHeld, WritePCs, ReadPCs, DelPCs
  <2>3. CASE TryRdLock(t)
    <3>1. /\ readers' = [readers EXCEPT ![current[t]] = readers[current[t]] + 1]
          /\ wrlocked' = wrlocked /\ pc'[t] = "read"
      BY <1>0, <2>1, <2>3 DEF TryRdLock, Goto, TypeOK
    <3>2. \A a \in Addrs : readers'[a] = IF a = current[t] THEN 1 ELSE 0
      BY <1>0, <1>1, <2>1, <3>1
    <3> QED
      BY <1>0, <1>1, <2>1, <3>1, <3>2 DEF RwHeld, WritePCs, ReadPCs, DelPCs
  <2>4. CASE TryDelLock(t)
    <3>1. /\ \A a \in Addrs : wrlocked'[a] <=> a = current[t]
          /\ readers' = readers /\ pc'[t] = "clear"
      BY <1>0, <1>1, <2>1, <2>4 DEF TryDelLock, Goto, TypeOK
    <3> QED
      BY <1>0, <1>1, <2>1, <3>1 DEF RwHeld, WritePCs, ReadPCs, DelPCs
  <2> QED
    BY <1>4, <2>2, <2>3, <2>4
<1>5. CASE Malloc(t) \/ Copy(t) \/ Read(t) \/ Clear(t) \/ Unlink(t)
  <2>1. /\ UNCHANGED <<wrlocked, readers, current>>
        /\ pc[t] \in WritePCs \cup DelPCs <=> pc'[t] \in WritePCs \cup DelPCs
        /\ pc[t] \in ReadPCs <=> pc'[t] \in ReadPCs
        /\ pc'[t] # "delbusy"
    BY <1>0, <1>5 DEF Malloc, Copy, Read, Clear, Unlink, Goto, TypeOK, shared, WritePCs, ReadPCs,
                      DelPCs
  <2> QED
    BY <2>1 DEF RwHeld
<1>6. CASE ItemUnlock(t)
  <2>1. /\ current[t] \in Addrs /\ pc[t] \in {"wrunlock", "rdunlock"} /\ pc'[t] = "respond"
        /\ RwUnlock(current[t])
    BY <1>0, <1>6 DEF ItemUnlock, Goto, TypeOK, Base, Control, ItemPCs, WritePCs, ReadPCs
  <2>2. ASSUME NEW a \in Addrs PROVE ~wrlocked'[a] /\ readers'[a] = 0
    BY <1>0, <2>1 DEF RwHeld, RwUnlock, WritePCs, ReadPCs, DelPCs
  <2> QED
    BY <2>1, <2>2 DEF RwHeld, WritePCs, ReadPCs, DelPCs
<1>7. CASE DelBusy(t)
  BY <1>7 DEF DelBusy, RwHeld
<1>8. CASE Free(t)
  <2>1. /\ current[t] \in Addrs /\ pc[t] = "free" /\ pc'[t] = "respond"
        /\ wrlocked' = [wrlocked EXCEPT ![current[t]] = FALSE]
        /\ readers' = [readers EXCEPT ![current[t]] = 0]
    BY <1>0, <1>8 DEF Free, Goto, TypeOK, Base, Control, ItemPCs, DelPCs
  <2> QED
    BY <1>0, <2>1 DEF RwHeld, WritePCs, ReadPCs, DelPCs
<1> QED
  BY <1>2, <1>3, <1>4, <1>5, <1>6, <1>7, <1>8 DEF SetGetStep, DelStep, ResetStep

LEMMA BufferStep ==
  ASSUME ListInv, NEW t \in Workers, Buffers(t),
         Receive(t) \/ SetGetStep(t) \/ DelStep(t) \/ ResetStep(t)
  PROVE  Buffers(t)'
<1>0. TypeOK /\ Base
  BY DEF ListInv, Base
<1>1. CASE Malloc(t) \/ Copy(t) \/ Clear(t)
  <2>1. current[t] \in Addrs /\ req[t] # NULL
    BY <1>0, <1>1 DEF Base, Control, ItemPCs, WritePCs, DelPCs, Malloc, Copy, Clear
  <2> QED
    BY <1>0, <1>1, <2>1, NullAssumption DEF Buffers, Malloc, Copy, Clear, Goto, TypeOK
<1>2. CASE Insert(t)
  <2>1. PICK a \in Addrs : /\ value' = [value EXCEPT ![a] = NULL]
                           /\ value_size' = [value_size EXCEPT ![a] = FALSE]
    BY <1>2, Zenon DEF Insert
  <2>2. pc'[t] = "unlock"
    BY <1>0, <1>2 DEF Insert, Goto, TypeOK
  <2> QED
    BY <1>0, <2>1, <2>2 DEF Buffers, TypeOK
<1>3. CASE Receive(t)
  <2>1. pc'[t] \in {"search", "reset_free", "lock"} /\ UNCHANGED <<value, value_size>>
    BY <1>0, <1>3 DEF Receive, Goto, TypeOK, shared, heap
  <2> QED
    BY <2>1 DEF Buffers
<1>4. CASE \/ Lock(t) \/ Search(t) \/ Compare(t) \/ Advance(t) \/ NotFound(t) \/ Unlock(t)
           \/ TryWrLock(t) \/ ItemUnlock(t) \/ TryRdLock(t) \/ Read(t) \/ Respond(t)
           \/ TryDelLock(t) \/ DelBusy(t) \/ Unlink(t) \/ Free(t)
           \/ ResetFree(t) \/ ResetHt(t) \/ ResetItems(t) \/ ResetLocks(t) \/ ResetFail(t)
  <2>1. pc'[t] # "copy" /\ UNCHANGED <<value, value_size>>
    BY <1>0, <1>4 DEF Lock, Search, Compare, Advance, NotFound, Unlock, TryWrLock, ItemUnlock,
         TryRdLock, Read, Respond, TryDelLock, DelBusy, Unlink, Free, ResetFree, ResetHt, ResetItems,
         ResetLocks, ResetFail, Goto, TypeOK, shared, heap
  <2> QED
    BY <2>1 DEF Buffers
<1> QED
  BY <1>1, <1>2, <1>3, <1>4 DEF SetGetStep, DelStep, ResetStep

LEMMA EmptiedStep ==
  ASSUME TypeOK, NEW t \in Workers, Emptied(t),
         Receive(t) \/ SetGetStep(t) \/ DelStep(t) \/ ResetStep(t)
  PROVE  Emptied(t)'
<1>1. CASE Receive(t)
  <2>1. pc'[t] \in {"search", "reset_free", "lock"}
    BY <1>1 DEF Receive, Goto, TypeOK
  <2> QED
    BY <2>1 DEF Emptied
<1>2. CASE SetGetStep(t) \/ DelStep(t)
  <2>1. pc'[t] \notin ResetPCs
    BY <1>2 DEF SetGetStep, DelStep, Lock, Search, Compare, Advance, NotFound, Insert, Unlock,
         TryWrLock, Malloc, Copy, ItemUnlock, TryRdLock, Read, Respond, TryDelLock, DelBusy, Clear,
         Unlink, Free, Goto, TypeOK, ResetPCs
  <2> QED
    BY <2>1 DEF Emptied, ResetPCs
<1>3. CASE ResetStep(t)
  BY <1>3 DEF ResetStep, ResetFree, ResetHt, ResetItems, ResetLocks, ResetFail, Goto, TypeOK, Emptied
<1> QED
  BY <1>1, <1>2, <1>3

LEMMA NextSerial ==
  ASSUME Sole
  PROVE  ListInv /\ ListInv' /\ SerialInv /\ [Next]_vars => SerialInv'
<1> SUFFICES ASSUME ListInv, ListInv', SerialInv, [Next]_vars PROVE SerialInv'
  OBVIOUS
<1>0. TypeOK
  BY DEF ListInv, Base
<1>1. ASSUME UNCHANGED <<shared, pc, req, current>> PROVE \A t \in Workers : Serial(t)'
  BY <1>1 DEF SerialInv, Serial, InList, HasItem, RwHeld, Buffers, Emptied, Method, Bucket, Chain,
              ReachFrom, shared, table, heap
<1>2. CASE UNCHANGED vars
  <2>1. \A t \in Workers : Serial(t)'
    BY <1>1, <1>2 DEF vars
  <2> QED
    BY <1>2, <2>1 DEF SerialInv, TableThere, vars, shared, table, status
<1>3. CASE Next
  <2>1. PICK t \in Workers : (~fault /\ Receive(t)) \/ Work(t)
    BY <1>3 DEF Next
  <2>2. Workers = {t} /\ Serial(t)
    BY DEF Sole, SerialInv
  <2>3. \/ Receive(t) \/ SetGetStep(t) \/ DelStep(t) \/ ResetStep(t)
        \/ Undefined(t) \/ AllocFail(t)
    BY <2>1 DEF Work
  <2>4. CASE AllocFail(t)
    <3>1. \A u \in Workers : Serial(u)'
      BY <1>1, <2>4 DEF AllocFail
    <3> QED
      BY <2>4, <3>1 DEF SerialInv, AllocFail
  <2>5. CASE Undefined(t)
    <3>1. \A u \in Workers : Serial(u)'
      BY <1>1, <2>5 DEF Undefined
    <3>2. oom
      BY <2>2, <2>5, SoundAccess DEF SerialInv, Undefined, ForeignUnlock, Serial, RwHeld
    <3> QED
      BY <2>5, <3>1, <3>2 DEF SerialInv, Undefined
  <2>6. CASE Receive(t) \/ SetGetStep(t) \/ DelStep(t) \/ ResetStep(t)
    <3>1. Serial(t)'
      BY <1>0, <2>2, <2>6, InListStep, RwStep, BufferStep, EmptiedStep DEF Serial
    <3>2. CASE ResetFail(t)
      BY <2>2, <3>1, <3>2 DEF SerialInv, ResetFail
    <3>3. CASE ~ResetFail(t)
      <4>1. \/ Receive(t) \/ SetGetStep(t) \/ DelStep(t)
            \/ ResetFree(t) \/ ResetHt(t) \/ ResetItems(t) \/ ResetLocks(t)
        BY <2>6, <3>3 DEF ResetStep
      <4>2. UNCHANGED <<fault, oom>>
        BY <4>1 DEF Receive, SetGetStep, DelStep, Lock, Search, Compare, Advance, NotFound, Insert,
             Unlock, TryWrLock, Malloc, Copy, ItemUnlock, TryRdLock, Read, Respond, TryDelLock,
             DelBusy, Clear, Unlink, Free, ResetFree, ResetHt, ResetItems, ResetLocks, status
      <4>3. ~oom => TableThere(t)'
        BY <1>0, <2>2, <4>1, TableStep DEF SerialInv
      <4> QED
        BY <2>2, <3>1, <4>2, <4>3 DEF SerialInv
    <3> QED
      BY <3>2, <3>3
  <2> QED
    BY <2>3, <2>4, <2>5, <2>6
<1> QED
  BY <1>2, <1>3

LEMMA InitSerial == Init => SerialInv
<1> SUFFICES ASSUME Init, NEW t \in Workers PROVE ~fault /\ Serial(t) /\ TableThere(t)
  BY DEF SerialInv, Init
<1> QED
  BY DEF Init, Serial, TableThere, InList, HasItem, RwHeld, Buffers, Emptied, ItemPCs, WritePCs,
         ReadPCs, DelPCs

(* The inductive invariant of a single worker.                               *)
THEOREM SerialInvariance ==
  ASSUME Sole
  PROVE  Spec => [](ListInv /\ SerialInv)
<1>1. RstAlone
  BY DEF Sole, RstAlone
<1>2. Spec => []ListInv
  BY <1>1, ListInvariance
<1>3. ListInv /\ ListInv' /\ SerialInv /\ [Next]_vars => SerialInv'
  BY NextSerial
<1> QED
  BY <1>2, <1>3, InitSerial, PTL DEF Spec

(* One worker that is sent any SET, GET, DEL and RST in any order has no     *)
(* undefined behaviour before an allocation fails: no dangling pointer, no   *)
(* NULL key or buffer, no lock released that is not held.                    *)
THEOREM SerialSafety ==
  ASSUME Sole
  PROVE  Spec => []FaultOnlyAfterOom
<1>1. SerialInv => FaultOnlyAfterOom
  BY DEF SerialInv, FaultOnlyAfterOom
<1> QED
  BY <1>1, SerialInvariance, PTL
=============================================================================
