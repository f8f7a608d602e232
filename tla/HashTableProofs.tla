--------------------------- MODULE HashTableProofs ---------------------------
(***************************************************************************)
(* Proofs about HashTable for every set of workers, keys, messages,          *)
(* addresses and buckets: as long as the server is sent only SET and GET     *)
(* requests and memory lasts, no worker ever touches memory that is not      *)
(* there, and the read-write lock of an item isolates its readers and its    *)
(* writer, although the lists are searched without the bucket mutex.         *)
(***************************************************************************)
EXTENDS HashTable, FiniteSetTheorems, TLAPS

(* An empty table satisfies the invariant.                                    *)
LEMMA InitIInv == Init => IInv
<1> SUFFICES ASSUME Init PROVE IInv
  OBVIOUS
<1>1. TypeOK
  BY NullAssumption DEF Init, TypeOK, OrNull, PCs
<1>2. \A a \in Addrs : ReadersOf(a) = {}
  BY DEF Init, ReadersOf, ReadPCs
<1>3. InvRwlock
  BY <1>2, FS_EmptySet DEF Init, InvRwlock, Writes, WritePCs
<1>4. InvTable /\ InvControl /\ InvPointers /\ InvValue /\ InvKey
  BY NullAssumption DEF Init, InvTable, InvControl, InvPointers, InvValue, InvKey,
     OrNull, SetPCs, GetPCs, HoldPCs, WritePCs, ReadPCs
<1> QED
  BY <1>1, <1>3, <1>4 DEF IInv

(* The readers that an item's rwlock counts are finitely many.                *)
LEMMA ReadersFinite == \A a : IsFiniteSet(ReadersOf(a))
  BY WorkersAssumption, FS_Subset DEF ReadersOf

(* Under the invariant no worker is about to touch memory that is not there   *)
(* or to release a lock nobody holds, or one that is another's.               *)
LEMMA NoBadAccess ==
  ASSUME IInv, NEW t \in Workers
  PROVE  ~BadAccess(t) /\ ~ForeignUnlock(t)
<1> USE DEF IInv, TypeOK
<1>1. ItemsThere /\ LocksThere /\ ht = "live"
  BY DEF InvTable, ItemsThere, LocksThere
<1>2. ~Freed(current[t]) /\ ~Freed(item_head[t])
  BY DEF InvPointers, Freed, OrNull
<1>3. pc[t] \in ReadPCs \cup WritePCs => ~LockFree(current[t])
  <2>1. CASE pc[t] \in WritePCs
    BY <2>1 DEF InvRwlock, InvPointers, HoldPCs, Writes, LockFree, OrNull
  <2>2. CASE pc[t] \in ReadPCs
    <3>1. current[t] \in Addrs /\ t \in ReadersOf(current[t])
      BY <2>2 DEF InvPointers, HoldPCs, OrNull, ReadersOf
    <3>2. Cardinality(ReadersOf(current[t])) # 0
      BY <3>1, ReadersFinite, FS_EmptySet
    <3> QED
      BY <3>1, <3>2 DEF InvRwlock, LockFree
  <2> QED
    BY <2>1, <2>2
<1>4. pc[t] = "scan" /\ current[t] # NULL => key[current[t]] # NULL
  BY NullAssumption DEF InvPointers, OrNull
<1>5. pc[t] = "copy" => value[current[t]] # NULL
  BY DEF InvValue
<1>6. pc[t] = "read" => ~(value_size[current[t]] /\ value[current[t]] = NULL)
  BY DEF InvValue, InvPointers, HoldPCs, ReadPCs, OrNull
<1>7. pc[t] \notin {"delbusy", "unlink", "free", "reset_free", "reset_items",
                    "reset_locks", "trydel", "clear"}
  BY DEF InvControl, SetPCs, GetPCs, WritePCs, ReadPCs
<1> QED
  BY <1>1, <1>2, <1>3, <1>4, <1>5, <1>6, <1>7
  DEF BadAccess, ForeignUnlock, ReadPCs, WritePCs

(* The rwlocks keep saying who works on the items when neither changes.       *)
LEMMA RwlockFrame ==
  ASSUME InvRwlock, wrlocked' = wrlocked, readers' = readers,
         \A a \in Addrs : ReadersOf(a)' = ReadersOf(a),
         \A a \in Addrs : \A u \in Workers : Writes(u, a)' <=> Writes(u, a)
  PROVE  InvRwlock'
  BY DEF InvRwlock

(* A new request preserves the invariant.                                      *)
LEMMA ReceiveIInv ==
  ASSUME SetGetOnly, IInv, NEW t \in Workers, Receive(t)
  PROVE  IInv'
<1> USE NullAssumption DEF IInv, TypeOK, Goto, shared, table, heap, resp,
       status, OrNull, Receive
<1>0. PICK r \in Requests[t] :
        /\ req' = [req EXCEPT ![t] = r]
        /\ Goto(t, IF r.method = "GET" THEN "search"
                   ELSE IF r.method = "RST" THEN "reset_free" ELSE "lock")
  OBVIOUS
<1>1. r \in Request /\ r.method \in {"SET", "GET"} /\ r # NULL
  <2>1. r \in Requests[t] /\ Requests[t] \subseteq Request
    BY <1>0, RequestsAssumption
  <2> HIDE DEF TypeOK, IInv, Receive
  <2> QED
    BY <2>1 DEF SetGetOnly
<1>7. TypeOK'
  BY <1>0, <1>1 DEF PCs
<1>2. InvTable' /\ InvControl'
  BY <1>0, <1>1 DEF InvTable, InvControl, SetPCs, GetPCs, WritePCs, ReadPCs
<1>3. InvPointers'
  BY BucketAssumption DEF InvPointers, InvControl, HoldPCs, WritePCs, ReadPCs,
     Request
<1>4. InvRwlock'
  <2>1. \A a \in Addrs : ReadersOf(a)' = ReadersOf(a)
    BY DEF ReadersOf, ReadPCs, WritePCs
  <2>2. \A a \in Addrs : \A u \in Workers : Writes(u, a)' <=> Writes(u, a)
    BY DEF Writes, ReadPCs, WritePCs
  <2>3. QED
    BY <2>1, <2>2, RwlockFrame
<1>5. InvValue'
  BY DEF InvValue, InvControl, InvPointers, HoldPCs, WritePCs, ReadPCs
<1>6. InvKey'
  BY DEF InvKey, InvControl, InvPointers, HoldPCs, WritePCs, ReadPCs
<1> QED
  BY <1>7, <1>2, <1>3, <1>4, <1>5, <1>6

(* Taking and giving back the bucket mutex preserves the invariant.            *)
LEMMA LockIInv ==
  ASSUME SetGetOnly, IInv, NEW t \in Workers, Lock(t) \/ Unlock(t)
  PROVE  IInv'
<1> USE NullAssumption DEF IInv, TypeOK, Goto, shared, table, heap, resp,
       status, OrNull, Lock, Unlock, Method, Bucket
<1>1. TypeOK'
  <2>1. CASE Lock(t)
    BY <2>1, BucketAssumption DEF PCs, InvControl, Request
  <2>2. CASE Unlock(t)
    BY <2>2, BucketAssumption DEF PCs, InvControl, Request
  <2> QED
    BY <2>1, <2>2
<1>2. InvTable' /\ InvControl'
  BY DEF InvTable, InvControl, SetPCs, GetPCs, WritePCs, ReadPCs
<1>3. InvPointers'
  BY BucketAssumption DEF InvPointers, InvControl, HoldPCs, WritePCs, ReadPCs,
     Request
<1>4. InvRwlock'
  <2>1. \A a \in Addrs : ReadersOf(a)' = ReadersOf(a)
    BY DEF ReadersOf, ReadPCs, WritePCs
  <2>2. \A a \in Addrs : \A u \in Workers : Writes(u, a)' <=> Writes(u, a)
    BY DEF Writes, ReadPCs, WritePCs
  <2>3. QED
    BY <2>1, <2>2, RwlockFrame
<1>5. InvValue'
  BY DEF InvValue, InvControl, InvPointers, HoldPCs, WritePCs, ReadPCs
<1>6. InvKey'
  BY SMTT(40) DEF InvKey, InvControl, InvPointers, HoldPCs, WritePCs, ReadPCs
<1> QED
  BY <1>1, <1>2, <1>3, <1>4, <1>5, <1>6

(* A step of search preserves the invariant.                                   *)
LEMMA SearchIInv ==
  ASSUME SetGetOnly, IInv, NEW t \in Workers, Search(t) \/ Compare(t) \/ Advance(t) \/ NotFound(t)
  PROVE  IInv'
<1> USE NullAssumption DEF IInv, TypeOK, Goto, shared, table, heap, resp,
       status, OrNull, Search, Compare, Advance, NotFound, Method, Bucket
<1>1. TypeOK'
  <2>1. CASE Search(t)
    BY <2>1, BucketAssumption DEF PCs, InvControl, InvPointers, HoldPCs, Request
  <2>2. CASE Compare(t)
    BY <2>2, BucketAssumption DEF PCs, InvControl, InvPointers, HoldPCs, Request
  <2>3. CASE Advance(t)
    BY <2>3, BucketAssumption DEF PCs, InvControl, InvPointers, HoldPCs, Request
  <2>4. CASE NotFound(t)
    BY <2>4, BucketAssumption DEF PCs, InvControl, InvPointers, HoldPCs, Request
  <2> QED
    BY <2>1, <2>2, <2>3, <2>4
<1>2. InvTable' /\ InvControl'
  BY DEF InvTable, InvControl, SetPCs, GetPCs, WritePCs, ReadPCs
<1>3. InvPointers'
  BY BucketAssumption DEF InvPointers, InvControl, HoldPCs, WritePCs, ReadPCs,
     Request
<1>4. InvRwlock'
  <2>1. \A a \in Addrs : ReadersOf(a)' = ReadersOf(a)
    BY DEF ReadersOf, ReadPCs, WritePCs
  <2>2. \A a \in Addrs : \A u \in Workers : Writes(u, a)' <=> Writes(u, a)
    BY DEF Writes, ReadPCs, WritePCs
  <2>3. QED
    BY <2>1, <2>2, RwlockFrame
<1>5. InvValue'
  BY DEF InvValue, InvControl, InvPointers, HoldPCs, WritePCs, ReadPCs
<1>6. InvKey'
  BY SMTT(40) DEF InvKey, InvControl, InvPointers, HoldPCs, WritePCs, ReadPCs
<1> QED
  BY <1>1, <1>2, <1>3, <1>4, <1>5, <1>6

(* A new entry, at an address nobody can be working on, preserves the invariant. *)
LEMMA InsertIInv ==
  ASSUME SetGetOnly, IInv, NEW t \in Workers, Insert(t)
  PROVE  IInv'
<1> USE NullAssumption DEF IInv, TypeOK, Goto, shared, table, heap, resp,
       status, OrNull, Insert, Bucket
<1>1. TypeOK'
  BY BucketAssumption DEF PCs, InvControl, InvPointers, HoldPCs, WritePCs,
     ReadPCs, Request
<1>2. InvTable' /\ InvControl'
  BY DEF InvTable, InvControl, SetPCs, GetPCs, WritePCs, ReadPCs
<1>3. InvPointers'
  BY BucketAssumption DEF InvPointers, InvControl, HoldPCs, WritePCs, ReadPCs,
     Request
<1>0. InvRwlock
  OBVIOUS
<1>4. InvRwlock'
  <2>1. PICK a \in Addrs \ allocated :
          /\ wrlocked' = [wrlocked EXCEPT ![a] = FALSE]
          /\ readers' = [readers EXCEPT ![a] = 0]
          /\ current' = [current EXCEPT ![t] = a]
    OBVIOUS
  <2>2. \A u \in Workers : current[u] # a
    BY DEF InvPointers
  <2>3. \A x \in Addrs : \A u \in Workers : Writes(u, x)' <=> Writes(u, x)
    BY <2>1 DEF Writes, WritePCs
  <2>4. \A x \in Addrs : ReadersOf(x)' = ReadersOf(x)
    BY <2>1 DEF ReadersOf, ReadPCs
  <2>5. ReadersOf(a) = {} /\ ~\E u \in Workers : Writes(u, a)
    BY <2>2 DEF ReadersOf, Writes
  <2>6. wrlocked'[a] = FALSE /\ readers'[a] = 0
    BY <2>1
  <2>7. \A x \in Addrs \ {a} : wrlocked'[x] = wrlocked[x] /\ readers'[x] = readers[x]
    BY <2>1
  <2> HIDE DEF IInv, TypeOK, Insert
  <2>8. \A x \in Addrs : wrlocked'[x] <=> \E u \in Workers : Writes(u, x)'
    BY <1>0, <2>3, <2>5, <2>6, <2>7 DEF InvRwlock
  <2>9. \A x \in Addrs : readers'[x] = Cardinality(ReadersOf(x)')
    BY <1>0, <2>4, <2>5, <2>6, <2>7, FS_EmptySet DEF InvRwlock
  <2> QED
    BY <1>0, <2>3, <2>6, <2>7, <2>8, <2>9 DEF InvRwlock
<1>5. InvValue'
  BY DEF InvValue, InvControl, InvPointers, HoldPCs, WritePCs, ReadPCs
<1>6. InvKey'
  <2>1. PICK a \in Addrs \ allocated :
          /\ allocated' = allocated \cup {a}
          /\ key' = [key EXCEPT ![a] = req[t].key]
          /\ value' = [value EXCEPT ![a] = NULL]
          /\ current' = [current EXCEPT ![t] = a]
    OBVIOUS
  <2>2. req[t] \in Request /\ req[t].key \in Keys
    BY DEF InvControl, Request
  <2>3. Matches(req[t].key, key'[current'[t]])
    BY <2>1, <2>2, PrefixAssumption DEF Matches
  <2>4. \A u \in Workers \ {t} : pc[u] \in HoldPCs =>
          current'[u] = current[u] /\ key'[current[u]] = key[current[u]]
    BY <2>1 DEF InvPointers
  <2>5. \A u \in Workers : pc'[u] \in HoldPCs =>
          Matches(req'[u].key, key'[current'[u]])
    BY <2>3, <2>4 DEF InvKey
  <2>6. \A x \in allocated' : value'[x] \in Request => Matches(value'[x].key, key'[x])
    BY <2>1 DEF InvKey
  <2>7. msg' = msg /\ req' = req /\ \A u \in Workers : msg[u] # NULL => pc'[u] = pc[u]
    BY DEF InvKey
  <2> QED
    BY <2>5, <2>6, <2>7 DEF InvKey
<1> QED
  BY <1>1, <1>2, <1>3, <1>4, <1>5, <1>6

(* The trywrlock of set_request preserves the invariant.                       *)
LEMMA TryWrLockIInv ==
  ASSUME SetGetOnly, IInv, NEW t \in Workers, TryWrLock(t)
  PROVE  IInv'
<1> USE NullAssumption DEF IInv, TypeOK, Goto, shared, table, heap, resp,
       status, OrNull, TryWrLock, LockFree
<1>1. TypeOK'
  BY ZenonT(80), BucketAssumption DEF PCs, InvControl, InvPointers, HoldPCs, WritePCs,
     ReadPCs, Request
<1>2. InvTable' /\ InvControl'
  BY DEF InvTable, InvControl, SetPCs, GetPCs, WritePCs, ReadPCs
<1>3. InvPointers'
  BY BucketAssumption DEF InvPointers, InvControl, HoldPCs, WritePCs, ReadPCs,
     Request
<1>4. InvRwlock'
  <2>0. current[t] \in Addrs
    BY DEF InvPointers, HoldPCs
  <2>1. \A a \in Addrs : ReadersOf(a)' = ReadersOf(a)
    BY DEF ReadersOf, ReadPCs
  <2>2. CASE LockFree(current[t])
    <3>1. \A a \in Addrs : \A u \in Workers :
            Writes(u, a)' <=> Writes(u, a) \/ (u = t /\ a = current[t])
      BY <2>0, <2>2 DEF Writes, WritePCs
    <3>2. /\ wrlocked'[current[t]] /\ readers'[current[t]] = 0
          /\ ~\E u \in Workers : Writes(u, current[t])
      BY <2>0, <2>2 DEF InvRwlock
    <3>3. /\ readers' = readers
          /\ \A a \in Addrs : a # current[t] => wrlocked'[a] = wrlocked[a]
      BY <2>0, <2>2
    <3>4. \A a \in Addrs : wrlocked'[a] <=> \E u \in Workers : Writes(u, a)'
      BY <2>0, <3>1, <3>2, <3>3 DEF InvRwlock
    <3>5. \A a \in Addrs : readers'[a] = Cardinality(ReadersOf(a)')
      BY <2>1, <3>3 DEF InvRwlock
    <3>6. \A a \in Addrs : \A u, v \in Workers :
            Writes(u, a)' /\ Writes(v, a)' => u = v
      BY <3>1, <3>2 DEF InvRwlock
    <3>7. \A a \in Addrs : wrlocked'[a] => readers'[a] = 0
      BY <3>2, <3>3 DEF InvRwlock
    <3> HIDE DEF IInv, TypeOK, TryWrLock
    <3> QED
      BY <3>4, <3>5, <3>6, <3>7 DEF InvRwlock
  <2>3. CASE ~LockFree(current[t])
    <3>1. \A a \in Addrs : \A u \in Workers : Writes(u, a)' <=> Writes(u, a)
      BY <2>3 DEF Writes, WritePCs
    <3> QED
      BY <2>1, <2>3, <3>1, RwlockFrame
  <2> QED
    BY <2>2, <2>3
<1>5. InvValue'
  BY DEF InvValue, InvControl, InvPointers, HoldPCs, WritePCs, ReadPCs
<1>6. InvKey'
  BY DEF InvKey, InvControl, InvPointers, HoldPCs, WritePCs, ReadPCs
<1> QED
  BY <1>1, <1>2, <1>3, <1>4, <1>5, <1>6

(* Writing under the write lock preserves the invariant.                       *)
LEMMA WriteIInv ==
  ASSUME SetGetOnly, IInv, NEW t \in Workers, Malloc(t) \/ Copy(t)
  PROVE  IInv'
<1> USE NullAssumption DEF IInv, TypeOK, Goto, shared, table, heap, resp,
       status, OrNull, Malloc, Copy
<1>1. TypeOK'
  <2>1. CASE Malloc(t)
    BY <2>1 DEF PCs, InvControl, InvPointers, HoldPCs, WritePCs
  <2>2. CASE Copy(t)
    BY <2>2 DEF PCs, InvControl, InvPointers, HoldPCs, WritePCs
  <2> QED
    BY <2>1, <2>2
<1>2. InvTable' /\ InvControl'
  BY DEF InvTable, InvControl, SetPCs, GetPCs, WritePCs, ReadPCs
<1>3. InvPointers'
  BY BucketAssumption DEF InvPointers, InvControl, HoldPCs, WritePCs, ReadPCs,
     Request
<1>4. InvRwlock'
  <2>1. \A a \in Addrs : ReadersOf(a)' = ReadersOf(a)
    BY DEF ReadersOf, ReadPCs, WritePCs
  <2>2. \A a \in Addrs : \A u \in Workers : Writes(u, a)' <=> Writes(u, a)
    BY DEF Writes, ReadPCs, WritePCs
  <2>3. QED
    BY <2>1, <2>2, RwlockFrame
<1>5. InvValue'
  BY DEF InvValue, InvControl, InvPointers, HoldPCs, WritePCs, ReadPCs
<1>6. InvKey'
  <2>1. CASE Malloc(t)
    BY <2>1 DEF InvKey, InvControl, InvPointers, HoldPCs, WritePCs, ReadPCs
  <2>2. CASE Copy(t)
    BY <2>2 DEF InvKey, InvControl, InvPointers, HoldPCs, WritePCs, ReadPCs
  <2> QED
    BY <2>1, <2>2
<1> QED
  BY <1>1, <1>2, <1>3, <1>4, <1>5, <1>6

(* Unlocking an item, which the worker has locked, preserves the invariant.    *)
LEMMA ItemUnlockIInv ==
  ASSUME SetGetOnly, IInv, NEW t \in Workers, ItemUnlock(t)
  PROVE  IInv'
<1> USE NullAssumption DEF IInv, TypeOK, Goto, shared, table, heap, resp,
       status, OrNull, ItemUnlock, RwUnlock
<1>0. current[t] \in Addrs /\ pc[t] \in WritePCs \cup ReadPCs
  BY DEF InvPointers, HoldPCs, WritePCs, ReadPCs
<1>1. \/ pc[t] = "wrunlock" /\ wrlocked[current[t]]
      \/ pc[t] = "rdunlock" /\ readers[current[t]] # 0
  <2>1. pc[t] = "wrunlock" => Writes(t, current[t])
    BY DEF Writes, WritePCs
  <2>2. pc[t] = "rdunlock" => t \in ReadersOf(current[t])
    BY DEF ReadersOf, ReadPCs
  <2>3. pc[t] = "rdunlock" => Cardinality(ReadersOf(current[t])) # 0
    BY <2>2, ReadersFinite, FS_EmptySet
  <2>4. pc[t] = "wrunlock" => wrlocked[current[t]]
    BY <1>0, <2>1 DEF InvRwlock
  <2>5. pc[t] = "rdunlock" => readers[current[t]] # 0
    BY <1>0, <2>3 DEF InvRwlock
  <2> QED
    BY <2>4, <2>5
<1>7. TypeOK'
  <2>1. readers[current[t]] \in Nat
    BY <1>0
  <2>2. readers' \in [Addrs -> Nat]
    <3>1. wrlocked[current[t]] \/ readers[current[t]] # 0
      BY <1>1
    <3>2. CASE wrlocked[current[t]]
      BY <1>0, <3>2
    <3>3. CASE ~wrlocked[current[t]]
      <4>1. readers' = [readers EXCEPT ![current[t]] = readers[current[t]] - 1]
        BY <1>0, <3>3
      <4>2. readers[current[t]] - 1 \in Nat
        <5>1. readers[current[t]] # 0
          BY <3>1, <3>3
        <5> HIDE DEF IInv, TypeOK, ItemUnlock, RwUnlock
        <5> QED
          BY <2>1, <5>1
      <4> QED
        BY <1>0, <4>1, <4>2
    <3> QED
      BY <3>2, <3>3
  <2> QED
    BY <1>0, <2>2 DEF PCs
<1>2. InvTable' /\ InvControl'
  BY DEF InvTable, InvControl, SetPCs, GetPCs, WritePCs, ReadPCs
<1>3. InvPointers'
  BY BucketAssumption DEF InvPointers, InvControl, HoldPCs, WritePCs, ReadPCs,
     Request
<1>4. InvRwlock'
  <2>1. CASE pc[t] = "wrunlock"
    <3>1. \A a \in Addrs : ReadersOf(a)' = ReadersOf(a)
      BY <2>1 DEF ReadersOf, ReadPCs
    <3>2. \A a \in Addrs : \A u \in Workers :
            Writes(u, a)' <=> Writes(u, a) /\ ~(u = t /\ a = current[t])
      BY <2>1, <1>0 DEF Writes, WritePCs
    <3>3. Writes(t, current[t]) /\ wrlocked[current[t]]
      BY <2>1, <1>0 DEF Writes, WritePCs, InvRwlock
    <3>4. ~wrlocked'[current[t]] /\ \A u \in Workers : ~Writes(u, current[t])'
      BY <1>0, <3>2, <3>3 DEF InvRwlock
    <3>5. /\ readers' = readers
          /\ \A a \in Addrs : a # current[t] => wrlocked'[a] = wrlocked[a]
      BY <1>0, <3>3
    <3>6. \A a \in Addrs : wrlocked'[a] <=> \E u \in Workers : Writes(u, a)'
      BY <1>0, <3>2, <3>4, <3>5 DEF InvRwlock
    <3> QED
      BY <3>1, <3>2, <3>4, <3>5, <3>6 DEF InvRwlock
  <2>2. CASE pc[t] = "rdunlock"
    <3>1. \A a \in Addrs : \A u \in Workers : Writes(u, a)' <=> Writes(u, a)
      BY <2>2 DEF Writes, WritePCs
    <3>2. t \in ReadersOf(current[t])
      BY <2>2 DEF ReadersOf, ReadPCs
    <3>3. ReadersOf(current[t])' = ReadersOf(current[t]) \ {t}
      BY <2>2 DEF ReadersOf, ReadPCs
    <3>4. \A a \in Addrs : a # current[t] => ReadersOf(a)' = ReadersOf(a)
      BY <2>2 DEF ReadersOf, ReadPCs
    <3>5. Cardinality(ReadersOf(current[t])') = readers[current[t]] - 1
      <4>1. Cardinality(ReadersOf(current[t]) \ {t}) = Cardinality(ReadersOf(current[t])) - 1
        <5>1. IsFiniteSet(ReadersOf(current[t]))
          BY ReadersFinite
        <5> HIDE DEF IInv, TypeOK, ItemUnlock
        <5> QED
          BY <3>2, <5>1, FS_RemoveElement
      <4> QED
        BY <1>0, <3>3, <4>1 DEF InvRwlock
    <3>6. ~wrlocked[current[t]]
      BY <1>0, <1>1, <2>2 DEF InvRwlock, ReadPCs
    <3>7. /\ wrlocked' = wrlocked
          /\ readers' = [readers EXCEPT ![current[t]] = @ - 1]
      BY <1>0, <3>6
    <3>8. \A a \in Addrs : readers'[a] = Cardinality(ReadersOf(a)')
      BY <1>0, <3>4, <3>5, <3>7 DEF InvRwlock
    <3>9. \A a \in Addrs : wrlocked'[a] => readers'[a] = 0
      BY <1>0, <3>6, <3>7 DEF InvRwlock
    <3> QED
      BY <3>1, <3>7, <3>8, <3>9 DEF InvRwlock
  <2> QED
    BY <2>1, <2>2
<1>5. InvValue'
  BY DEF InvValue, InvControl, InvPointers, HoldPCs, WritePCs, ReadPCs
<1>6. InvKey'
  BY DEF InvKey, InvControl, InvPointers, HoldPCs, WritePCs, ReadPCs
<1> QED
  BY <1>7, <1>2, <1>3, <1>4, <1>5, <1>6

(* The tryrdlock of get_request preserves the invariant.                       *)
LEMMA TryRdLockIInv ==
  ASSUME SetGetOnly, IInv, NEW t \in Workers, TryRdLock(t)
  PROVE  IInv'
<1> USE NullAssumption DEF IInv, TypeOK, Goto, shared, table, heap, resp,
       status, OrNull, TryRdLock
<1>1. TypeOK'
  BY BucketAssumption DEF PCs, InvControl, InvPointers, HoldPCs, WritePCs,
     ReadPCs, Request
<1>2. InvTable' /\ InvControl'
  BY DEF InvTable, InvControl, SetPCs, GetPCs, WritePCs, ReadPCs
<1>3. InvPointers'
  BY BucketAssumption DEF InvPointers, InvControl, HoldPCs, WritePCs, ReadPCs,
     Request
<1>4. InvRwlock'
  <2>0. current[t] \in Addrs
    BY DEF InvPointers, HoldPCs
  <2>1. \A a \in Addrs : \A u \in Workers : Writes(u, a)' <=> Writes(u, a)
    BY DEF Writes, WritePCs
  <2>2. CASE ~wrlocked[current[t]]
    <3>1. t \notin ReadersOf(current[t])
      BY DEF ReadersOf, ReadPCs
    <3>2. ReadersOf(current[t])' = ReadersOf(current[t]) \cup {t}
      BY <2>2 DEF ReadersOf, ReadPCs
    <3>3. \A a \in Addrs : a # current[t] => ReadersOf(a)' = ReadersOf(a)
      BY <2>2 DEF ReadersOf, ReadPCs
    <3>4. Cardinality(ReadersOf(current[t])') = readers[current[t]] + 1
      <4>1. Cardinality(ReadersOf(current[t]) \cup {t}) = Cardinality(ReadersOf(current[t])) + 1
        BY <3>1, ReadersFinite, FS_AddElement
      <4> QED
        BY <2>0, <3>2, <4>1 DEF InvRwlock
    <3>5. /\ wrlocked' = wrlocked
          /\ readers' = [readers EXCEPT ![current[t]] = @ + 1]
      BY <2>2
    <3>6. \A a \in Addrs : readers'[a] = Cardinality(ReadersOf(a)')
      BY <2>0, <3>3, <3>4, <3>5 DEF InvRwlock
    <3>7. \A a \in Addrs : wrlocked'[a] => readers'[a] = 0
      BY <2>0, <2>2, <3>5 DEF InvRwlock
    <3> QED
      BY <2>1, <3>5, <3>6, <3>7 DEF InvRwlock
  <2>3. CASE wrlocked[current[t]]
    <3>1. \A a \in Addrs : ReadersOf(a)' = ReadersOf(a)
      BY <2>3 DEF ReadersOf, ReadPCs
    <3> QED
      BY <2>1, <2>3, <3>1, RwlockFrame
  <2> QED
    BY <2>2, <2>3
<1>5. InvValue'
  BY DEF InvValue, InvControl, InvPointers, HoldPCs, WritePCs, ReadPCs
<1>6. InvKey'
  BY DEF InvKey, InvControl, InvPointers, HoldPCs, WritePCs, ReadPCs
<1> QED
  BY <1>1, <1>2, <1>3, <1>4, <1>5, <1>6

(* Reading, which no writer disturbs, preserves the invariant.                 *)
LEMMA ReadIInv ==
  ASSUME SetGetOnly, IInv, NEW t \in Workers, Read(t)
  PROVE  IInv'
<1> USE NullAssumption DEF IInv, TypeOK, Goto, shared, table, heap, resp,
       status, OrNull, Read
<1>1. TypeOK'
  BY BucketAssumption DEF PCs, InvControl, InvPointers, HoldPCs, WritePCs,
     ReadPCs, Request
<1>2. InvTable' /\ InvControl'
  BY DEF InvTable, InvControl, SetPCs, GetPCs, WritePCs, ReadPCs
<1>3. InvPointers'
  BY BucketAssumption DEF InvPointers, InvControl, HoldPCs, WritePCs, ReadPCs,
     Request
<1>4. InvRwlock'
  <2>1. \A a \in Addrs : ReadersOf(a)' = ReadersOf(a)
    BY DEF ReadersOf, ReadPCs, WritePCs
  <2>2. \A a \in Addrs : \A u \in Workers : Writes(u, a)' <=> Writes(u, a)
    BY DEF Writes, ReadPCs, WritePCs
  <2>3. QED
    BY <2>1, <2>2, RwlockFrame
<1>5. InvValue'
  BY DEF InvValue, InvControl, InvPointers, HoldPCs, WritePCs, ReadPCs
<1>6. InvKey'
  <2>1. current[t] \in allocated /\ t \in ReadersOf(current[t])
    BY DEF InvPointers, HoldPCs, ReadPCs, ReadersOf
  <2>2. readers[current[t]] # 0
    BY <2>1, ReadersFinite, FS_EmptySet DEF InvRwlock
  <2>3. ~\E u \in Workers : Writes(u, current[t])
    BY <2>1, <2>2 DEF InvRwlock
  <2>4. value[current[t]] # Garbage
    BY <2>1, <2>3 DEF InvValue, Writes, WritePCs
  <2>5. msg'[t] # NULL => msg'[t] \in Request /\ Matches(msg'[t].key, key[current[t]])
    BY <2>1, <2>4 DEF InvKey
  <2>6. Matches(req[t].key, key[current[t]]) /\ key[current[t]] \in Keys
    BY <2>1 DEF InvKey, InvPointers, HoldPCs, ReadPCs
  <2> QED
    BY <2>5, <2>6 DEF InvKey, HoldPCs, ReadPCs, WritePCs
<1> QED
  BY <1>1, <1>2, <1>3, <1>4, <1>5, <1>6

(* Sending the response preserves the invariant.                               *)
LEMMA RespondIInv ==
  ASSUME SetGetOnly, IInv, NEW t \in Workers, Respond(t)
  PROVE  IInv'
<1> USE NullAssumption DEF IInv, TypeOK, Goto, shared, table, heap, resp,
       status, OrNull, Respond
<1>1. TypeOK'
  BY BucketAssumption DEF PCs, InvControl, InvPointers, HoldPCs, WritePCs,
     ReadPCs, Request
<1>2. InvTable' /\ InvControl'
  BY DEF InvTable, InvControl, SetPCs, GetPCs, WritePCs, ReadPCs
<1>3. InvPointers'
  BY BucketAssumption DEF InvPointers, InvControl, HoldPCs, WritePCs, ReadPCs,
     Request
<1>4. InvRwlock'
  <2>1. \A a \in Addrs : ReadersOf(a)' = ReadersOf(a)
    BY DEF ReadersOf, ReadPCs, WritePCs
  <2>2. \A a \in Addrs : \A u \in Workers : Writes(u, a)' <=> Writes(u, a)
    BY DEF Writes, ReadPCs, WritePCs
  <2>3. QED
    BY <2>1, <2>2, RwlockFrame
<1>5. InvValue'
  BY DEF InvValue, InvControl, InvPointers, HoldPCs, WritePCs, ReadPCs
<1>6. InvKey'
  BY DEF InvKey, InvControl, InvPointers, HoldPCs, WritePCs, ReadPCs
<1> QED
  BY <1>1, <1>2, <1>3, <1>4, <1>5, <1>6

(* Every step of a server that gets only SET and GET requests preserves the   *)
(* invariant: the steps of DEL and RST, a failed allocation and a bad access   *)
(* cannot happen.                                                              *)
LEMMA NextIInv ==
  ASSUME SetGetOnly, MayFail = FALSE, IInv, [Next]_vars
  PROVE  IInv'
<1>1. CASE UNCHANGED vars
  <2> USE <1>1 DEF vars, shared, table, heap, resp, status, IInv
  <2>1. TypeOK' /\ InvTable' /\ InvControl' /\ InvPointers'
    BY DEF TypeOK, InvTable, InvControl, InvPointers
  <2>2. InvRwlock'
    BY RwlockFrame DEF ReadersOf, Writes
  <2>3. InvValue' /\ InvKey'
    BY DEF InvValue, InvKey
  <2> QED
    BY <2>1, <2>2, <2>3
<1>2. CASE Next
  <2>1. PICK t \in Workers : (~fault /\ Receive(t)) \/ Work(t)
    BY <1>2 DEF Next
  <2>2. ~Undefined(t) /\ ~AllocFail(t)
    BY NoBadAccess DEF Undefined, AllocFail
  <2>3. ~DelStep(t) /\ ~ResetStep(t)
    BY DEF IInv, InvControl, SetPCs, GetPCs, WritePCs, ReadPCs, DelStep,
       ResetStep, TryDelLock, DelBusy, Clear, Unlink, Free, ResetFree, ResetHt,
       ResetItems, ResetLocks, ResetFail
  <2>4. Receive(t) \/ SetGetStep(t)
    BY <2>1, <2>2, <2>3 DEF Work
  <2> QED
    BY <2>4, ReceiveIInv, LockIInv, SearchIInv, InsertIInv, TryWrLockIInv,
       WriteIInv, ItemUnlockIInv, TryRdLockIInv, ReadIInv, RespondIInv
    DEF SetGetStep
<1> QED
  BY <1>1, <1>2

(* The invariant holds for every set of workers, keys, addresses and buckets.  *)
THEOREM Invariance ==
  ASSUME SetGetOnly, MayFail = FALSE
  PROVE  Spec => []IInv
<1>1. Init => IInv
  BY InitIInv
<1>2. IInv /\ [Next]_vars => IInv'
  BY NextIInv
<1> QED
  BY <1>1, <1>2, PTL DEF Spec

(* Type correctness of the hash table under SET and GET requests.              *)
THEOREM TypeCorrect ==
  ASSUME SetGetOnly, MayFail = FALSE
  PROVE  Spec => []TypeOK
<1>1. IInv => TypeOK
  BY DEF IInv
<1> QED
  BY <1>1, Invariance, PTL

(* Searching the lists without the bucket mutex is safe as long as nothing is  *)
(* ever removed: SET and GET never touch memory that is not there.             *)
THEOREM MemorySafety ==
  ASSUME SetGetOnly, MayFail = FALSE
  PROVE  Spec => []NoFault
<1>1. IInv => NoFault
  BY DEF IInv, InvTable, NoFault
<1> QED
  BY <1>1, Invariance, PTL

(* The writers and readers of an item are those its rwlock counts.             *)
LEMMA Isolated == IInv => ItemIsolation
<1> SUFFICES ASSUME IInv, NEW t \in Workers, NEW u \in Workers, t # u,
                    current[t] # NULL, current[t] = current[u],
                    pc[t] \in WritePCs \cup DelPCs,
                    pc[u] \in WritePCs \cup DelPCs \cup ReadPCs
             PROVE  FALSE
  BY DEF ItemIsolation
<1>1. pc[t] \in WritePCs /\ pc[u] \in WritePCs \cup ReadPCs
  BY DEF IInv, InvControl, SetPCs, GetPCs, WritePCs, ReadPCs, DelPCs
<1>2. current[t] \in Addrs
  BY DEF IInv, TypeOK, OrNull
<1>3. Writes(t, current[t]) /\ ~Writes(u, current[t])
  BY <1>1, <1>2 DEF IInv, InvRwlock, Writes
<1>4. u \in ReadersOf(current[t])
  BY <1>1, <1>3 DEF ReadersOf, Writes
<1>5. readers[current[t]] = 0 /\ readers[current[t]] = Cardinality(ReadersOf(current[t]))
  BY <1>2, <1>3 DEF IInv, InvRwlock
<1> QED
  BY <1>4, <1>5, ReadersFinite, FS_EmptySet

(* The trywrlock of set_request and the tryrdlock of get_request isolate the   *)
(* writer of an item from every other worker on that item.                     *)
THEOREM Isolation ==
  ASSUME SetGetOnly, MayFail = FALSE
  PROVE  Spec => []ItemIsolation
  BY Isolated, Invariance, PTL

(* If no key is a proper prefix of another, a GET is only ever given a whole    *)
(* message that was SET under the key it asked for.                            *)
THEOREM PayloadCorrect ==
  ASSUME SetGetOnly, MayFail = FALSE,
         \A k \in Keys, s \in Keys : Matches(k, s) => k = s
  PROVE  Spec => []PayloadIntact
<1>1. IInv => PayloadIntact
  <2> SUFFICES ASSUME IInv, NEW t \in Workers, pc[t] = "respond", msg[t] # NULL
               PROVE  msg[t] \in Request /\ msg[t].key = req[t].key
    BY DEF PayloadIntact
  <2>1. msg[t] \in Request /\ req[t] \in Request
    BY DEF IInv, InvKey, InvControl, TypeOK, OrNull
  <2>2. msg[t].key \in Keys /\ req[t].key \in Keys
    BY <2>1 DEF Request
  <2>3. \E k \in Keys : Matches(msg[t].key, k) /\ Matches(req[t].key, k)
    BY DEF IInv, InvKey
  <2> QED
    BY <2>1, <2>2, <2>3
<1> QED
  BY <1>1, Invariance, PTL
=============================================================================
