------------------------------ MODULE MapProofs ------------------------------
(***************************************************************************)
(* The hash table implements the map of KVMap, if no key is a proper prefix  *)
(* of another: the exact map for one worker that is sent anything and whose  *)
(* allocations may fail, and the map with gaps for any set of workers that   *)
(* are sent SET and GET and have memory enough.                              *)
(***************************************************************************)
EXTENDS HashTableRefines, HashTableProofs, ChainProofs, TLAPS

NoPrefixes == \A k \in Keys, s \in Keys : Matches(k, s) => k = s

(* Whoever has found an item has found an entry of its own key.              *)
HasEntry(t) == HasItem(t) /\ pc[t] \notin {"advance", "unlink"}
Meets(t)    == HasEntry(t) => key[current[t]] = req[t].key
Removed(t)  == pc[t] = "unlink" => key[current[t]] = NULL

(* The response, from where it is decided to where it is sent.               *)
Reply(t) ==
  /\ msg[t] # NULL => pc[t] \in {"rdunlock", "respond"}
  /\ pc[t] \in {"wrunlock", "rdunlock"} => code[t] = "OK"
  /\ pc[t] = "unlock" /\ Method(t) = "DEL" => code[t] = "KEY_ERROR"

(* Nobody else fills the buffer of an item that a worker writes, reads or    *)
(* removes.                                                                  *)
Quiet(t) ==
  /\ pc[t] \in {"malloc", "read", "clear"} => Filling(current[t]) = {}
  /\ pc[t] = "copy" => Filling(current[t]) = {t}

(* A lock is only found taken when there is another request for the key.     *)
Rival(t) ==
  /\ pc[t] # "delbusy"
  /\ \/ pc[t] \in {"trywrlock", "trydel"} /\ ~LockFree(current[t])
     \/ pc[t] = "tryrdlock" /\ wrlocked[current[t]]
     => \E u \in Workers \ {t} : req[u] # NULL /\ req[u].key = req[t].key

(* An entry that is read or removed holds a message.                         *)
Written(t) == /\ pc[t] = "clear" => value_size[current[t]]
              /\ pc[t] = "read" => value_size[current[t]] \/ Gaps

Ground(t) == /\ InList(t) /\ Meets(t) /\ Removed(t) /\ Reply(t)
             /\ Quiet(t) /\ Rival(t) /\ Emptied(t) /\ Written(t)

(* What the refinement rests on, for many workers and for one.               *)
MapInv == ListInv /\ \A t \in Workers : Ground(t)

-----------------------------------------------------------------------------
(***************************************************************************)
(* The map of a state: what a key holds, and what a worker has answered.   *)
(***************************************************************************)
LEMMA OnlyOne == \A x : Only({x}) = x
  BY DEF Only

StoreFacts(k) ==
  /\ Entries(k) = {} => StoreOf(k) = Absent
  /\ \A a : (Entries(k) = {a} /\ Filling(a) = {}) =>
              StoreOf(k) = IF value_size[a] THEN value[a] ELSE Absent
  /\ \A a, u : (Entries(k) = {a} /\ Filling(a) = {u}) => StoreOf(k) = req[u]

LEMMA StoreIs == ASSUME NEW k PROVE StoreFacts(k) /\ StoreFacts(k)'
<1>1. StoreFacts(k)
  <2>1. Entries(k) = {} => StoreOf(k) = Absent
    BY DEF StoreOf
  <2>2. ASSUME NEW a, Entries(k) = {a}, Filling(a) = {}
        PROVE  StoreOf(k) = IF value_size[a] THEN value[a] ELSE Absent
    BY <2>2, OnlyOne DEF StoreOf
  <2>3. ASSUME NEW a, NEW u, Entries(k) = {a}, Filling(a) = {u}
        PROVE  StoreOf(k) = req[u]
    BY <2>3, OnlyOne DEF StoreOf
  <2> QED
    BY <2>1, <2>2, <2>3 DEF StoreFacts
<1>2. StoreFacts(k)'
  <2>1. Entries(k)' = {} => StoreOf(k)' = Absent
    BY DEF StoreOf
  <2>2. ASSUME NEW a, Entries(k)' = {a}, Filling(a)' = {}
        PROVE  StoreOf(k)' = IF value_size'[a] THEN value'[a] ELSE Absent
    BY <2>2, OnlyOne DEF StoreOf
  <2>3. ASSUME NEW a, NEW u, Entries(k)' = {a}, Filling(a)' = {u}
        PROVE  StoreOf(k)' = req'[u]
    BY <2>3, OnlyOne DEF StoreOf
  <2> QED
    BY <2>1, <2>2, <2>3 DEF StoreFacts
<1> QED
  BY <1>1, <1>2

LEMMA MapTypes ==
  ASSUME MapInv
  PROVE  /\ TypeOK /\ Base /\ UniqueKeys /\ next \in Pointers
         /\ \A b \in Buckets : items[b] \in OrNull(Addrs) /\ Chain(b) \subseteq Addrs
         /\ \A b \in Buckets : Chain(b) \subseteq allocated
         /\ \A t \in Workers : InList(t) /\ Meets(t) /\ Reply(t) /\ Quiet(t) /\ Rival(t) /\ Emptied(t)
         /\ \A t \in Workers : Written(t)
         /\ \A t \in Workers : pc[t] # "idle" =>
              /\ req[t] \in Request /\ req[t].key \in Keys /\ req[t].method \in Methods
              /\ Bucket(t) \in Buckets /\ req[t] # NULL
  BY Types, Busy, NullAssumption DEF MapInv, ListInv, Base, Lists, Linked, Ground

(* A key has at most one entry, and a buffer at most one writer.             *)
LEMMA EntriesOne ==
  ASSUME MapInv, NEW k \in Keys, NEW a \in Entries(k)
  PROVE  Entries(k) = {a} /\ a \in Addrs /\ a \in Chain(BucketOf[k]) /\ key[a] = k
<1>1. BucketOf[k] \in Buckets /\ k # NULL
  BY BucketAssumption, NullAssumption
<1> QED
  BY <1>1, MapTypes DEF Entries, UniqueKeys

LEMMA FillingOne ==
  ASSUME MapInv, NEW a, NEW u \in Filling(a)
  PROVE  Filling(a) = {u} /\ u \in Workers
<1>1. u \in Workers /\ pc[u] = "copy" /\ current[u] = a
  BY DEF Filling
<1>2. Quiet(u)
  BY <1>1, MapTypes
<1> QED
  BY <1>1, <1>2 DEF Quiet

(* What a key holds changes only with its entry.                             *)
LEMMA StoreFrame ==
  ASSUME MapInv, NEW k \in Keys, Entries(k)' = Entries(k),
         \A a \in Entries(k) : /\ value'[a] = value[a] /\ value_size'[a] = value_size[a]
                               /\ Filling(a)' = Filling(a)
                               /\ \A u \in Filling(a) : req'[u] = req[u]
  PROVE  StoreOf(k)' = StoreOf(k)
<1>0. StoreFacts(k) /\ StoreFacts(k)'
  BY StoreIs
<1>1. CASE Entries(k) = {}
  BY <1>0, <1>1 DEF StoreFacts
<1>2. ASSUME NEW a \in Entries(k) PROVE StoreOf(k)' = StoreOf(k)
  <2>1. Entries(k) = {a} /\ Entries(k)' = {a}
    BY <1>2, EntriesOne
  <2>2. CASE Filling(a) = {}
    <3>1. Filling(a)' = {} /\ value'[a] = value[a] /\ value_size'[a] = value_size[a]
      BY <1>2, <2>2
    <3>2. StoreOf(k) = IF value_size[a] THEN value[a] ELSE Absent
      BY <1>0, <2>1, <2>2 DEF StoreFacts
    <3>3. StoreOf(k)' = IF value_size'[a] THEN value'[a] ELSE Absent
      BY <1>0, <2>1, <3>1 DEF StoreFacts
    <3> QED
      BY <3>1, <3>2, <3>3
  <2>3. ASSUME NEW u \in Filling(a) PROVE StoreOf(k)' = StoreOf(k)
    <3>1. Filling(a) = {u} /\ Filling(a)' = {u} /\ req'[u] = req[u]
      BY <1>2, <2>3, FillingOne
    <3>2. StoreOf(k) = req[u]
      BY <1>0, <2>1, <3>1 DEF StoreFacts
    <3>3. StoreOf(k)' = req'[u]
      BY <1>0, <2>1, <3>1 DEF StoreFacts
    <3> QED
      BY <3>1, <3>2, <3>3
  <2> QED
    BY <2>2, <2>3
<1> QED
  BY <1>1, <1>2

Yes(m) == [code |-> "OK", msg |-> m]
No     == [code |-> "KEY_ERROR", msg |-> NULL]

OpenPCs == {"idle", "lock", "search", "insert", "trywrlock", "malloc", "tryrdlock", "read",
              "trydel", "delbusy", "clear", "reset_free"}
DonePCs   == {"copy", "wrunlock", "unlink", "free", "reset_ht", "reset_items", "reset_locks"}

AnswerFacts(t) ==
  /\ pc[t] \in OpenPCs => AnswerOf(t) = NULL
  /\ pc[t] \in DonePCs => AnswerOf(t) = Yes(NULL)
  /\ pc[t] = "rdunlock" => AnswerOf(t) = Yes(msg[t])
  /\ pc[t] = "respond" => AnswerOf(t) = [code |-> code[t], msg |-> msg[t]]
  /\ pc[t] \in {"scan", "advance"} /\ Method(t) # "SET" =>
       AnswerOf(t) = IF WillFind(t) THEN NULL ELSE No
  /\ pc[t] = "unlock" /\ Method(t) = "DEL" => AnswerOf(t) = No
  /\ pc[t] \in {"scan", "advance", "unlock"} /\ Method(t) = "SET" => AnswerOf(t) = NULL

LEMMA AnswerIs == ASSUME NEW t PROVE AnswerFacts(t) /\ AnswerFacts(t)'
<1>1. AnswerFacts(t)
  BY DEF AnswerFacts, AnswerOf, OpenPCs, DonePCs, Yes, No
<1>2. AnswerFacts(t)'
  BY DEF AnswerFacts, AnswerOf, OpenPCs, DonePCs, Yes, No
<1> QED
  BY <1>1, <1>2

(* A worker that has answered has, and one that takes no step keeps to it.   *)
LEMMA AnswerFrame ==
  ASSUME NEW u, pc'[u] = pc[u], req'[u] = req[u], code'[u] = code[u], msg'[u] = msg[u],
         (pc[u] \in {"scan", "advance"} /\ Method(u) # "SET") => (WillFind(u)' <=> WillFind(u))
  PROVE  AnswerOf(u)' = AnswerOf(u)
  BY DEF AnswerOf, Method

(* What lies ahead of a search does not change while its bucket does not.    *)
LEMMA FindFrame ==
  ASSUME MapInv, next' \in Pointers, NEW u \in Workers, pc[u] \in {"scan", "advance"}, Same(u),
         \A x \in Chain(Bucket(u)) : next'[x] = next[x] /\ key'[x] = key[x]
  PROVE  WillFind(u)' <=> WillFind(u)
<1>1. PICK b \in Buckets : b = Bucket(u)
  BY MapTypes
<1>2. /\ next \in Pointers /\ items[b] \in OrNull(Addrs) /\ Closed(Chain(b), next)
      /\ \A x \in Chain(b) : next'[x] = next[x] /\ key'[x] = key[x]
  BY <1>1, MapTypes, ReachClosed DEF Chain, ReachFrom
<1>3. PICK c \in OrNull(Chain(b)) : c = IF pc[u] = "scan" THEN current[u] ELSE next[current[u]]
  BY <1>1, <1>2, MapTypes DEF InList, HasItem, ItemPCs, Closed
<1>4. c \in OrNull(Addrs) /\ Reach(c, next) \subseteq Chain(b)
  BY <1>1, <1>2, <1>3, MapTypes, ReachPart DEF OrNull, Chain, ReachFrom
<1>5. Reach(c, next') = Reach(c, next)
  BY <1>2, <1>4, ReachSame
<1>6. c = (IF pc[u] = "scan" THEN current[u] ELSE next[current[u]])'
  <2>1. CASE pc[u] = "scan"
    BY <1>3, <2>1 DEF Same
  <2>2. CASE pc[u] = "advance"
    <3>1. current[u] \in Chain(b)
      BY <1>1, <2>2, MapTypes DEF InList, HasItem, ItemPCs
    <3> QED
      BY <1>2, <1>3, <2>2, <3>1 DEF Same
  <2> QED
    BY <2>1, <2>2
<1>7. WillFind(u) <=> \E a \in Reach(c, next) : Matches(req[u].key, key[a])
  BY <1>3 DEF WillFind, ReachFrom
<1>8. WillFind(u)' <=> \E a \in Reach(c, next') : Matches(req[u].key, key'[a])
  BY <1>6 DEF WillFind, ReachFrom, Same, Matches
<1> QED
  BY <1>2, <1>4, <1>5, <1>7, <1>8

-----------------------------------------------------------------------------
(***************************************************************************)
(* Steps.  A worker leaves the variables of the others alone.              *)
(***************************************************************************)
Local(t) == \A u \in Workers \ {t} : Same(u) /\ code'[u] = code[u] /\ msg'[u] = msg[u]

LEMMA StepLocal ==
  ASSUME TypeOK, NEW t \in Workers,
         Receive(t) \/ SetGetStep(t) \/ DelStep(t) \/ ResetStep(t)
  PROVE  Local(t)
<1> USE DEF TypeOK, Goto, Same, Local, resp
<1>1. CASE Receive(t) \/ Respond(t)
  BY <1>1 DEF Receive, Respond
<1>2. CASE Lock(t) \/ Search(t) \/ Compare(t) \/ Advance(t) \/ NotFound(t) \/ Unlock(t)
  BY <1>2 DEF Lock, Search, Compare, Advance, NotFound, Unlock
<1>3. CASE Insert(t)
  BY <1>3 DEF Insert
<1>4. CASE TryWrLock(t) \/ Malloc(t) \/ Copy(t) \/ ItemUnlock(t) \/ TryRdLock(t) \/ Read(t)
  BY <1>4 DEF TryWrLock, Malloc, Copy, ItemUnlock, TryRdLock, Read
<1>5. CASE DelStep(t)
  BY <1>5 DEF DelStep, TryDelLock, DelBusy, Clear, Unlink, Free
<1>6. CASE ResetStep(t)
  BY <1>6 DEF ResetStep, ResetFree, ResetHt, ResetItems, ResetLocks, ResetFail
<1> QED
  BY <1>1, <1>2, <1>3, <1>4, <1>5, <1>6 DEF SetGetStep

(* The answers of the others stand while their buckets do.                   *)
LEMMA OthersKeep ==
  ASSUME MapInv, MapInv', NEW t \in Workers, Local(t), NEW u \in Workers \ {t},
         pc[u] \in {"scan", "advance"} =>
           \A x \in Chain(Bucket(u)) : next'[x] = next[x] /\ key'[x] = key[x]
  PROVE  AnswerOf(u)' = AnswerOf(u)
<1>1. Same(u) /\ code'[u] = code[u] /\ msg'[u] = msg[u]
  BY DEF Local
<1>2. next' \in Pointers
  BY DEF MapInv, ListInv, Base, TypeOK, Pointers
<1>3. pc[u] \in {"scan", "advance"} => (WillFind(u)' <=> WillFind(u))
  BY <1>1, <1>2, FindFrame
<1> QED
  BY <1>1, <1>3, AnswerFrame DEF Same

(* Most steps touch neither a list nor a buffer.                             *)
Contents == <<items, next, key, value, value_size>>
StoreKept == (\A k \in Keys : StoreOf(k)' = StoreOf(k)) /\ Made' = Made

LEMMA KeptByLocal ==
  ASSUME MapInv, MapInv', NEW t \in Workers, Local(t), UNCHANGED Contents,
         pc[t] # "copy", pc'[t] # "copy"
  PROVE  StoreKept /\ \A u \in Workers \ {t} : AnswerOf(u)' = AnswerOf(u)
<1>1. \A k \in Keys : Entries(k)' = Entries(k)
  BY DEF Entries, Chain, ReachFrom, Contents
<1>2. ASSUME NEW a PROVE Filling(a)' = Filling(a)
  BY DEF Filling, Local, Same
<1>3. ASSUME NEW a, NEW u \in Filling(a) PROVE req'[u] = req[u]
  BY <1>3 DEF Filling, Local, Same
<1>4. StoreKept
  <2> SUFFICES ASSUME NEW k \in Keys PROVE StoreOf(k)' = StoreOf(k)
    BY <1>1 DEF StoreKept, Made
  <2>1. \A a \in Entries(k) : /\ value'[a] = value[a] /\ value_size'[a] = value_size[a]
                              /\ Filling(a)' = Filling(a)
                              /\ \A u \in Filling(a) : req'[u] = req[u]
    BY <1>2, <1>3 DEF Contents
  <2> QED
    BY <1>1, <2>1, StoreFrame
<1> QED
  BY <1>4, OthersKeep DEF Contents

(* How a step shows in the map.                                              *)
LEMMA MapStutter ==
  ASSUME NEW t \in Workers, StoreKept, UNCHANGED req,
         \A u \in Workers \ {t} : AnswerOf(u)' = AnswerOf(u), AnswerOf(t)' = AnswerOf(t)
  PROVE  UNCHANGED Map!vars
<1>1. \A u \in Workers : AnswerOf(u)' = AnswerOf(u)
  OBVIOUS
<1>2. [k \in Keys |-> StoreOf(k)]' = [k \in Keys |-> StoreOf(k)]
  BY DEF StoreKept
<1>3. [u \in Workers |-> AnswerOf(u)]' = [u \in Workers |-> AnswerOf(u)]
  BY <1>1
<1> QED
  BY <1>2, <1>3 DEF Map!vars, StoreKept

LEMMA MapDecide ==
  ASSUME NEW t \in Workers, NEW x,
         \A u \in Workers \ {t} : AnswerOf(u)' = AnswerOf(u), AnswerOf(t)' = x
  PROVE  [u \in Workers |-> AnswerOf(u)]' = [[u \in Workers |-> AnswerOf(u)] EXCEPT ![t] = x]
  OBVIOUS

LEMMA MapChange ==
  ASSUME NEW k \in Keys, NEW x,
         \A s \in Keys \ {k} : StoreOf(s)' = StoreOf(s), StoreOf(k)' = x
  PROVE  [s \in Keys |-> StoreOf(s)]' = [[s \in Keys |-> StoreOf(s)] EXCEPT ![k] = x]
  OBVIOUS

-----------------------------------------------------------------------------
(***************************************************************************)
(* Steps that do not show.                                                 *)
(***************************************************************************)
LEMMA LockMap ==
  ASSUME MapInv, MapInv', NEW t \in Workers, Lock(t) \/ Unlock(t) \/ ItemUnlock(t) \/ TryDelLock(t)
  PROVE  UNCHANGED Map!vars
<1>0. TypeOK /\ Base /\ Reply(t)
  BY MapTypes
<1>1. Local(t)
  BY <1>0, StepLocal DEF SetGetStep, DelStep
<1>2. UNCHANGED <<Contents, req, code, msg>> /\ pc[t] # "copy" /\ pc'[t] # "copy"
  BY <1>0 DEF Lock, Unlock, ItemUnlock, TryDelLock, Goto, TypeOK, Contents, heap, table, resp
<1>3. StoreKept /\ \A u \in Workers \ {t} : AnswerOf(u)' = AnswerOf(u)
  BY <1>1, <1>2, KeptByLocal
<1>4. AnswerFacts(t) /\ AnswerFacts(t)'
  BY AnswerIs
<1>5. AnswerOf(t)' = AnswerOf(t)
  <2>1. CASE Lock(t) \/ TryDelLock(t)
    <3>1. pc[t] \in OpenPCs /\ pc'[t] \in OpenPCs
      BY <1>0, <2>1 DEF Lock, TryDelLock, Goto, TypeOK, OpenPCs
    <3> QED
      BY <1>4, <3>1 DEF AnswerFacts
  <2>2. CASE Unlock(t)
    <3>1. /\ pc[t] = "unlock" /\ Method(t) \in {"SET", "DEL"} /\ msg[t] = NULL
          /\ pc'[t] = IF Method(t) = "SET" THEN "trywrlock" ELSE "respond"
      BY <1>0, <2>2 DEF Unlock, Goto, TypeOK, Base, Control, Reply
    <3>2. CASE Method(t) = "SET"
      BY <1>4, <3>1, <3>2 DEF AnswerFacts, OpenPCs
    <3>3. CASE Method(t) = "DEL"
      BY <1>0, <1>2, <1>4, <3>1, <3>3 DEF AnswerFacts, No, Reply
    <3> QED
      BY <3>1, <3>2, <3>3
  <2>3. CASE ItemUnlock(t)
    <3>1. pc[t] \in {"wrunlock", "rdunlock"} /\ pc'[t] = "respond"
      BY <1>0, <2>3 DEF ItemUnlock, Goto, TypeOK
    <3>2. code[t] = "OK" /\ (pc[t] = "wrunlock" => msg[t] = NULL)
      BY <1>0, <3>1 DEF Reply
    <3> QED
      BY <1>2, <1>4, <3>1, <3>2 DEF AnswerFacts, Yes, DonePCs
  <2> QED
    BY <2>1, <2>2, <2>3
<1> QED
  BY <1>2, <1>3, <1>5, MapStutter

(* A search for an entry that is there stays undecided until it finds it;    *)
(* one for an entry that is not has been decided when it began.              *)
LEMMA WalkMap ==
  ASSUME MapInv, MapInv', NEW t \in Workers, Compare(t) \/ Advance(t) \/ NotFound(t)
  PROVE  UNCHANGED Map!vars
<1>0. /\ TypeOK /\ Base /\ Reply(t) /\ InList(t) /\ pc[t] \in {"scan", "advance"}
      /\ Bucket(t) \in Buckets /\ Chain(Bucket(t)) \subseteq Addrs /\ next \in Pointers
  BY MapTypes DEF Compare, Advance, NotFound
<1>1. Local(t)
  BY <1>0, StepLocal DEF SetGetStep
<1>2. UNCHANGED <<Contents, req, msg>> /\ pc[t] # "copy" /\ pc'[t] # "copy"
  BY <1>0 DEF Compare, Advance, NotFound, Goto, TypeOK, Contents, shared, heap, table, resp
<1>3. StoreKept /\ \A u \in Workers \ {t} : AnswerOf(u)' = AnswerOf(u)
  BY <1>1, <1>2, KeptByLocal
<1>4. AnswerFacts(t) /\ AnswerFacts(t)' /\ Method(t)' = Method(t)
      /\ Method(t) \in {"SET", "GET", "DEL"}
  <2>1. Method(t) \in Methods /\ Method(t) # "RST"
    BY <1>0, MapTypes DEF Base, Control, Method
  <2> QED
    BY <1>2, <2>1, AnswerIs DEF Method, Methods
<1>5. CASE Compare(t)
  <2>1. /\ pc[t] = "scan" /\ current'[t] = current[t] /\ current[t] \in Addrs
        /\ pc'[t] = IF ~Matches(req[t].key, key[current[t]]) THEN "advance"
                    ELSE IF Method(t) = "SET" THEN "unlock"
                    ELSE IF Method(t) = "GET" THEN "tryrdlock" ELSE "trydel"
    BY <1>0, <1>5 DEF Compare, Goto, TypeOK, OrNull
  <2>2. Reach(current[t], next) = {current[t]} \cup Reach(next[current[t]], next)
    BY <1>0, <2>1, ReachStep
  <2>3. WillFind(t) <=> \E a \in Reach(current[t], next) : Matches(req[t].key, key[a])
    BY <2>1 DEF WillFind, ReachFrom
  <2>4. CASE Matches(req[t].key, key[current[t]])
    <3>1. WillFind(t)
      BY <2>2, <2>3, <2>4
    <3>2. AnswerOf(t) = NULL
      BY <1>4, <2>1, <3>1 DEF AnswerFacts
    <3>3. AnswerOf(t)' = NULL
      BY <1>4, <2>1, <2>4 DEF AnswerFacts, OpenPCs
    <3> QED
      BY <1>2, <1>3, <3>2, <3>3, MapStutter
  <2>5. CASE ~Matches(req[t].key, key[current[t]])
    <3>1. pc'[t] = "advance"
      BY <2>1, <2>5
    <3>2. WillFind(t)' <=> \E a \in Reach(next[current[t]], next) : Matches(req[t].key, key[a])
      BY <1>2, <2>1, <3>1 DEF WillFind, ReachFrom, Contents, Matches
    <3>3. WillFind(t)' <=> WillFind(t)
      BY <2>2, <2>3, <2>5, <3>2
    <3>4. AnswerOf(t)' = AnswerOf(t)
      BY <1>4, <2>1, <3>1, <3>3 DEF AnswerFacts
    <3> QED
      BY <1>2, <1>3, <3>4, MapStutter
  <2> QED
    BY <2>4, <2>5
<1>6. CASE Advance(t)
  <2>1. pc[t] = "advance" /\ pc'[t] = "scan" /\ current'[t] = next[current[t]]
    BY <1>0, <1>6 DEF Advance, Goto, TypeOK
  <2>2. WillFind(t)' <=> WillFind(t)
    BY <1>2, <2>1 DEF WillFind, ReachFrom, Contents, Matches
  <2>3. AnswerOf(t)' = AnswerOf(t)
    BY <1>4, <2>1, <2>2 DEF AnswerFacts
  <2> QED
    BY <1>2, <1>3, <2>3, MapStutter
<1>7. CASE NotFound(t)
  <2>1. /\ pc[t] = "scan" /\ current[t] = NULL
        /\ pc'[t] = IF Method(t) = "SET" THEN "insert"
                    ELSE IF Method(t) = "GET" THEN "respond" ELSE "unlock"
        /\ Method(t) # "SET" => code'[t] = "KEY_ERROR"
        /\ msg'[t] = NULL
    BY <1>0, <1>2, <1>7 DEF NotFound, Goto, TypeOK, Reply
  <2>2. Reach(current[t], next) = {}
    BY <1>0, <2>1, ReachClosed DEF OrNull
  <2>3. ~WillFind(t)
    BY <2>1, <2>2 DEF WillFind, ReachFrom
  <2>4. AnswerOf(t) = IF Method(t) = "SET" THEN NULL ELSE No
    BY <1>4, <2>1, <2>3 DEF AnswerFacts
  <2>5. AnswerOf(t)' = IF Method(t) = "SET" THEN NULL ELSE No
    BY <1>4, <2>1 DEF AnswerFacts, OpenPCs, No
  <2> QED
    BY <1>2, <1>3, <2>4, <2>5, MapStutter
<1> QED
  BY <1>5, <1>6, <1>7

(* What a worker finds is the one entry of its key.                          *)
LEMMA EntryFound ==
  ASSUME MapInv, NEW t \in Workers, HasEntry(t)
  PROVE  /\ Entries(req[t].key) = {current[t]} /\ req[t].key \in Keys
         /\ current[t] \in Addrs /\ req[t] \in Request /\ req[t] # NULL
<1>1. pc[t] # "idle"
  BY DEF HasEntry, HasItem, ItemPCs, DelPCs, WritePCs, ReadPCs
<1>2. /\ current[t] \in Chain(Bucket(t)) /\ key[current[t]] = req[t].key
      /\ req[t].key \in Keys /\ req[t] \in Request /\ req[t] # NULL
  BY <1>1, MapTypes DEF HasEntry, InList, Meets
<1>3. current[t] \in Entries(req[t].key)
  BY <1>2 DEF Entries, Bucket
<1> QED
  BY <1>2, <1>3, EntriesOne

LEMMA Stored ==
  ASSUME MapInv, NEW k \in Keys
  PROVE  /\ Entries(k) = {} => StoreOf(k) = Absent
         /\ \A a : (Entries(k) = {a} /\ Filling(a) = {}) =>
                     (StoreOf(k) = Absent <=> ~value_size[a])
<1>0. StoreFacts(k)
  BY StoreIs
<1>1. ASSUME NEW a, Entries(k) = {a}, Filling(a) = {}
      PROVE  StoreOf(k) = Absent <=> ~value_size[a]
  <2>1. a \in Addrs
    BY <1>1, EntriesOne
  <2>2. value[a] \in OrNull(Request \cup {Garbage})
    BY <2>1, MapTypes DEF TypeOK
  <2> QED
    BY <1>0, <1>1, <2>2, MarkAssumption DEF StoreFacts
<1> QED
  BY <1>0, <1>1 DEF StoreFacts

-----------------------------------------------------------------------------
(***************************************************************************)
(* Steps of SET and GET that show.                                         *)
(***************************************************************************)
LEMMA ReceiveMap ==
  ASSUME MapInv, MapInv', NEW t \in Workers, Receive(t)
  PROVE  Map!Call(t)
<1>0. TypeOK /\ Base /\ pc[t] = "idle"
  BY MapTypes DEF Receive
<1>1. Local(t)
  BY <1>0, StepLocal
<1>2. UNCHANGED Contents /\ pc'[t] \in {"search", "reset_free", "lock"}
  BY <1>0 DEF Receive, Goto, TypeOK, Contents, shared, heap, table
<1>3. StoreKept /\ \A u \in Workers \ {t} : AnswerOf(u)' = AnswerOf(u)
  BY <1>0, <1>1, <1>2, KeptByLocal
<1>4. AnswerOf(t)' = AnswerOf(t)
  <2>1. AnswerFacts(t) /\ AnswerFacts(t)'
    BY AnswerIs
  <2> QED
    BY <1>0, <1>2, <2>1 DEF AnswerFacts, OpenPCs
<1>5. \A u \in Workers : AnswerOf(u)' = AnswerOf(u)
  BY <1>3, <1>4
<1>6. [k \in Keys |-> StoreOf(k)]' = [k \in Keys |-> StoreOf(k)] /\ Made' = Made
  BY <1>3 DEF StoreKept
<1>7. [u \in Workers |-> AnswerOf(u)]' = [u \in Workers |-> AnswerOf(u)]
  BY <1>5
<1>8. req[t] = NULL /\ \E r \in Requests[t] : req' = [req EXCEPT ![t] = r]
  BY <1>0 DEF Receive, Base, Control
<1> QED
  BY <1>6, <1>7, <1>8 DEF Map!Call

LEMMA RespondMap ==
  ASSUME MapInv, MapInv', NEW t \in Workers, Respond(t)
  PROVE  Map!Return(t)
<1>0. TypeOK /\ Base /\ pc[t] = "respond"
  BY MapTypes DEF Respond
<1>1. Local(t)
  BY <1>0, StepLocal DEF SetGetStep
<1>2. UNCHANGED Contents /\ pc'[t] = "idle" /\ req' = [req EXCEPT ![t] = NULL]
  BY <1>0 DEF Respond, Goto, TypeOK, Contents, shared, heap, table
<1>3. StoreKept /\ \A u \in Workers \ {t} : AnswerOf(u)' = AnswerOf(u)
  BY <1>0, <1>1, <1>2, KeptByLocal
<1>4. AnswerOf(t)' = NULL /\ AnswerOf(t) # NULL
  <2>1. AnswerFacts(t) /\ AnswerFacts(t)'
    BY AnswerIs
  <2>2. AnswerOf(t) = [code |-> code[t], msg |-> msg[t]]
    BY <1>0, <2>1 DEF AnswerFacts
  <2>3. code[t] \in {"OK", "KEY_ERROR"} /\ msg[t] \in OrNull(Request \cup {Garbage})
    BY <1>0 DEF TypeOK
  <2>4. AnswerOf(t) \in Answers
    BY <2>2, <2>3 DEF Answers
  <2> QED
    BY <1>2, <2>1, <2>4, MarkAssumption DEF AnswerFacts, OpenPCs
<1>5. [k \in Keys |-> StoreOf(k)]' = [k \in Keys |-> StoreOf(k)] /\ Made' = Made
  BY <1>3 DEF StoreKept
<1>6. [u \in Workers |-> AnswerOf(u)]' = [[u \in Workers |-> AnswerOf(u)] EXCEPT ![t] = NULL]
  BY <1>3, <1>4, MapDecide
<1> QED
  BY <1>2, <1>4, <1>5, <1>6 DEF Map!Return

(* A GET or DEL whose key has no entry is decided when its search begins.    *)
LEMMA SearchMap ==
  ASSUME NoPrefixes, MapInv, MapInv', NEW t \in Workers, Search(t)
  PROVE  Map!Miss(t) \/ UNCHANGED Map!vars
<1>0. /\ TypeOK /\ Base /\ pc[t] = "search" /\ Bucket(t) \in Buckets
      /\ req[t] \in Request /\ req[t].key \in Keys /\ req[t] # NULL
  BY MapTypes DEF Search
<1>1. Local(t)
  BY <1>0, StepLocal DEF SetGetStep
<1>2. /\ UNCHANGED <<Contents, req>> /\ pc'[t] = "scan" /\ current'[t] = items[Bucket(t)]
  BY <1>0 DEF Search, Goto, TypeOK, Contents, shared, heap, table
<1>3. StoreKept /\ \A u \in Workers \ {t} : AnswerOf(u)' = AnswerOf(u)
  BY <1>0, <1>1, <1>2, KeptByLocal
<1>4. AnswerFacts(t) /\ AnswerFacts(t)' /\ Method(t)' = Method(t) /\ Method(t) # "RST"
      /\ Method(t) \in Methods
  BY <1>0, <1>2, AnswerIs, MapTypes DEF Method, Base, Control
<1>5. AnswerOf(t) = NULL
  BY <1>0, <1>4 DEF AnswerFacts, OpenPCs
<1>6. CASE Method(t) = "SET" \/ WillFind(t)'
  <2>1. AnswerOf(t)' = NULL
    BY <1>2, <1>4, <1>6 DEF AnswerFacts
  <2> QED
    BY <1>2, <1>3, <1>5, <2>1, MapStutter
<1>7. CASE Method(t) # "SET" /\ ~WillFind(t)'
  <2>1. AnswerOf(t)' = No
    BY <1>2, <1>4, <1>7 DEF AnswerFacts
  <2>2. Entries(req[t].key) = {}
    <3>1. \A a \in Chain(Bucket(t)) : ~Matches(req[t].key, key[a])
      BY <1>2, <1>7 DEF WillFind, ReachFrom, Chain, Contents, Matches
    <3>2. Matches(req[t].key, req[t].key)
      BY <1>0, PrefixAssumption DEF Matches
    <3> QED
      BY <3>1, <3>2 DEF Entries, Bucket
  <2>3. StoreOf(req[t].key) = Absent
    BY <1>0, <2>2, Stored
  <2>4. [u \in Workers |-> AnswerOf(u)]' = [[u \in Workers |-> AnswerOf(u)] EXCEPT ![t] = No]
    BY <1>3, <2>1, MapDecide
  <2>5. [k \in Keys |-> StoreOf(k)]' = [k \in Keys |-> StoreOf(k)] /\ Made' = Made
    BY <1>3 DEF StoreKept
  <2>6. req[t].method \in {"GET", "DEL"}
    BY <1>4, <1>7 DEF Method, Methods
  <2>7. Map!Miss(t)
    BY <1>0, <1>2, <1>5, <2>3, <2>4, <2>5, <2>6
       DEF Map!Miss, Map!Undecided, Map!Is, Map!Key, Map!Decide, No
  <2> QED
    BY <2>7
<1> QED
  BY <1>6, <1>7

(* A lock that is taken refuses the request.                                 *)
LEMMA TryMap ==
  ASSUME MapInv, MapInv', NEW t \in Workers, TryWrLock(t) \/ TryRdLock(t)
  PROVE  Map!Busy(t) \/ UNCHANGED Map!vars
<1>0. /\ TypeOK /\ Base /\ pc[t] \in {"trywrlock", "tryrdlock"}
      /\ req[t] # NULL /\ Rival(t) /\ Reply(t)
  BY MapTypes DEF TryWrLock, TryRdLock
<1>1. Local(t)
  BY <1>0, StepLocal DEF SetGetStep
<1>2. /\ UNCHANGED <<Contents, req, msg>>
      /\ pc'[t] \in {"malloc", "read", "respond"}
      /\ pc'[t] = "respond" =>
           /\ code'[t] = "KEY_ERROR"
           /\ \/ pc[t] = "trywrlock" /\ ~LockFree(current[t])
              \/ pc[t] = "tryrdlock" /\ wrlocked[current[t]]
  BY <1>0 DEF TryWrLock, TryRdLock, Goto, TypeOK, Contents, heap, table
<1>3. StoreKept /\ \A u \in Workers \ {t} : AnswerOf(u)' = AnswerOf(u)
  BY <1>0, <1>1, <1>2, KeptByLocal
<1>4. AnswerFacts(t) /\ AnswerFacts(t)'
  BY AnswerIs
<1>5. AnswerOf(t) = NULL
  BY <1>0, <1>4 DEF AnswerFacts, OpenPCs
<1>6. CASE pc'[t] # "respond"
  <2>1. AnswerOf(t)' = NULL
    BY <1>2, <1>4, <1>6 DEF AnswerFacts, OpenPCs
  <2> QED
    BY <1>2, <1>3, <1>5, <2>1, MapStutter
<1>7. CASE pc'[t] = "respond"
  <2>1. AnswerOf(t)' = No
    BY <1>0, <1>2, <1>4, <1>7 DEF AnswerFacts, No, Reply
  <2>2. \E u \in Workers \ {t} : req[u] # NULL /\ req[u].key = req[t].key
    BY <1>0, <1>2, <1>7 DEF Rival
  <2>3. req[t].method # "RST"
    BY <1>0 DEF Base, Control, Method, WritePCs, ReadPCs
  <2>4. [u \in Workers |-> AnswerOf(u)]' = [[u \in Workers |-> AnswerOf(u)] EXCEPT ![t] = No]
    BY <1>3, <2>1, MapDecide
  <2>5. [k \in Keys |-> StoreOf(k)]' = [k \in Keys |-> StoreOf(k)] /\ Made' = Made
    BY <1>3 DEF StoreKept
  <2>6. Map!Busy(t)
    BY <1>0, <1>2, <1>5, <2>2, <2>3, <2>4, <2>5
       DEF Map!Busy, Map!Undecided, Map!Is, Map!Key, Map!Decide, No
  <2> QED
    BY <2>6
<1> QED
  BY <1>6, <1>7

(* get_request reads what the key holds, or finds it unwritten.              *)
LEMMA ReadMap ==
  ASSUME MapInv, MapInv', NEW t \in Workers, Read(t)
  PROVE  Map!Hit(t) \/ Map!Unwritten(t)
<1>0. /\ TypeOK /\ Base /\ pc[t] = "read" /\ HasEntry(t) /\ Quiet(t) /\ Written(t)
  BY MapTypes DEF Read, HasEntry, HasItem, ItemPCs, ReadPCs
<1>a. PICK k \in Keys : k = req[t].key
  BY <1>0, EntryFound
<1>b. PICK a \in Addrs : a = current[t]
  BY <1>0, EntryFound
<1>1. Local(t)
  BY <1>0, StepLocal DEF SetGetStep
<1>2. /\ UNCHANGED <<Contents, req>> /\ pc'[t] = "rdunlock"
      /\ msg'[t] = IF value_size[a] THEN value[a] ELSE NULL
  BY <1>0, <1>b DEF Read, Goto, TypeOK, Contents, shared, heap, table
<1>3. StoreKept /\ \A u \in Workers \ {t} : AnswerOf(u)' = AnswerOf(u)
  BY <1>0, <1>1, <1>2, KeptByLocal
<1>4. AnswerFacts(t) /\ AnswerFacts(t)' /\ StoreFacts(k)
  BY AnswerIs, StoreIs
<1>5. AnswerOf(t) = NULL /\ AnswerOf(t)' = Yes(msg'[t])
  BY <1>0, <1>2, <1>4 DEF AnswerFacts, OpenPCs, Yes
<1>6. Entries(k) = {a} /\ req[t] # NULL
  BY <1>0, <1>a, <1>b, EntryFound
<1>7. Filling(a) = {}
  BY <1>0, <1>b DEF Quiet
<1>8. /\ StoreOf(k) = IF value_size[a] THEN value[a] ELSE Absent
      /\ StoreOf(k) = Absent <=> ~value_size[a]
  BY <1>4, <1>6, <1>7, Stored DEF StoreFacts
<1>9. k \in Made
  BY <1>6 DEF Made
<1>10. req[t].method = "GET"
  BY <1>0 DEF Base, Control, Method, ReadPCs
<1>11. [u \in Workers |-> AnswerOf(u)]'
         = [[u \in Workers |-> AnswerOf(u)] EXCEPT ![t] = Yes(msg'[t])]
  BY <1>3, <1>5, MapDecide
<1>12. [s \in Keys |-> StoreOf(s)]' = [s \in Keys |-> StoreOf(s)] /\ Made' = Made
  BY <1>3 DEF StoreKept
<1>13. CASE value_size[a]
  <2>1. msg'[t] = StoreOf(k) /\ StoreOf(k) # Absent
    BY <1>2, <1>8, <1>13
  <2>2. Map!Hit(t)
    BY <1>a, <1>2, <1>5, <1>6, <1>10, <1>11, <1>12, <2>1
       DEF Map!Hit, Map!Undecided, Map!Is, Map!Key, Map!Decide, Yes
  <2> QED
    BY <2>2
<1>14. CASE ~value_size[a]
  <2>1. msg'[t] = NULL /\ StoreOf(k) = Absent /\ Gaps
    BY <1>0, <1>b, <1>2, <1>8, <1>14 DEF Written
  <2>2. Map!Unwritten(t)
    BY <1>a, <1>2, <1>5, <1>6, <1>9, <1>10, <1>11, <1>12, <2>1
       DEF Map!Unwritten, Map!Undecided, Map!Is, Map!Key, Map!Decide, Yes
  <2> QED
    BY <2>2
<1> QED
  BY <1>13, <1>14

(* set_request replaces the buffer: from here on its message counts, ...     *)
LEMMA MallocMap ==
  ASSUME MapInv, MapInv', NEW t \in Workers, Malloc(t)
  PROVE  Map!Write(t)
<1>0. /\ TypeOK /\ Base /\ pc[t] = "malloc" /\ HasEntry(t) /\ Quiet(t)
  BY MapTypes DEF Malloc, HasEntry, HasItem, ItemPCs, WritePCs
<1>a. PICK k \in Keys : k = req[t].key
  BY <1>0, EntryFound
<1>b. PICK a \in Addrs : a = current[t]
  BY <1>0, EntryFound
<1>1. Local(t)
  BY <1>0, StepLocal DEF SetGetStep
<1>2. /\ UNCHANGED <<items, next, key, value_size, req, current>> /\ pc'[t] = "copy"
      /\ \A x \in Addrs : x # a => value'[x] = value[x]
  BY <1>0, <1>b DEF Malloc, Goto, TypeOK, table
<1>3. AnswerFacts(t) /\ AnswerFacts(t)' /\ StoreFacts(k)'
  BY AnswerIs, StoreIs
<1>4. AnswerOf(t) = NULL /\ AnswerOf(t)' = Yes(NULL)
  BY <1>0, <1>2, <1>3 DEF AnswerFacts, OpenPCs, DonePCs, Yes
<1>5. \A u \in Workers \ {t} : AnswerOf(u)' = AnswerOf(u)
  BY <1>1, <1>2, OthersKeep
<1>6. Entries(k) = {a} /\ req[t] # NULL
  BY <1>0, <1>a, <1>b, EntryFound
<1>7. \A s \in Keys : Entries(s)' = Entries(s)
  BY <1>2 DEF Entries, Chain, ReachFrom
<1>8. StoreOf(k)' = req[t]
  <2>1. Filling(a) = {}
    BY <1>0, <1>b DEF Quiet
  <2>2. Filling(a)' = {t}
    BY <1>b, <1>1, <1>2, <2>1 DEF Filling, Local, Same
  <2>3. StoreOf(k)' = req'[t]
    BY <1>3, <1>6, <1>7, <2>2 DEF StoreFacts
  <2> QED
    BY <1>2, <2>3
<1>9. ASSUME NEW s \in Keys \ {k} PROVE StoreOf(s)' = StoreOf(s)
  <2> SUFFICES ASSUME NEW x \in Entries(s)
               PROVE  /\ value'[x] = value[x] /\ value_size'[x] = value_size[x]
                      /\ Filling(x)' = Filling(x)
                      /\ \A u \in Filling(x) : req'[u] = req[u]
    BY <1>7, <1>9, StoreFrame
  <2>1. x \in Addrs /\ x # a
    BY <1>6, <1>9, EntriesOne
  <2> QED
    BY <1>0, <1>b, <1>1, <1>2, <2>1 DEF Filling, Local, Same
<1>10. Made' = Made \cup {k}
  BY <1>6, <1>7 DEF Made
<1>11. req[t].method = "SET"
  BY <1>0 DEF Base, Control, Method, WritePCs
<1>12. [u \in Workers |-> AnswerOf(u)]'
         = [[u \in Workers |-> AnswerOf(u)] EXCEPT ![t] = Yes(NULL)]
  BY <1>4, <1>5, MapDecide
<1>13. [s \in Keys |-> StoreOf(s)]' = [[s \in Keys |-> StoreOf(s)] EXCEPT ![k] = req[t]]
  BY <1>8, <1>9, MapChange
<1> QED
  BY <1>a, <1>2, <1>4, <1>6, <1>10, <1>11, <1>12, <1>13
     DEF Map!Write, Map!Undecided, Map!Is, Map!Key, Map!Decide, Yes

(* ... and that it is copied in does not show.                               *)
LEMMA CopyMap ==
  ASSUME MapInv, MapInv', NEW t \in Workers, Copy(t)
  PROVE  UNCHANGED Map!vars
<1>0. /\ TypeOK /\ Base /\ pc[t] = "copy" /\ HasEntry(t) /\ Quiet(t)
  BY MapTypes DEF Copy, HasEntry, HasItem, ItemPCs, WritePCs
<1>a. PICK k \in Keys : k = req[t].key
  BY <1>0, EntryFound
<1>b. PICK a \in Addrs : a = current[t]
  BY <1>0, EntryFound
<1>1. Local(t)
  BY <1>0, StepLocal DEF SetGetStep
<1>2. /\ UNCHANGED <<items, next, key, req, current>> /\ pc'[t] = "wrunlock"
      /\ \A x \in Addrs : x # a => value'[x] = value[x] /\ value_size'[x] = value_size[x]
      /\ value'[a] = req[t] /\ value_size'[a] = TRUE
  BY <1>0, <1>b DEF Copy, Goto, TypeOK, table
<1>3. AnswerFacts(t) /\ AnswerFacts(t)' /\ StoreFacts(k) /\ StoreFacts(k)'
  BY AnswerIs, StoreIs
<1>4. AnswerOf(t)' = AnswerOf(t)
  BY <1>0, <1>2, <1>3 DEF AnswerFacts, DonePCs, Yes
<1>5. \A u \in Workers \ {t} : AnswerOf(u)' = AnswerOf(u)
  BY <1>1, <1>2, OthersKeep
<1>6. Entries(k) = {a}
  BY <1>0, <1>a, <1>b, EntryFound
<1>7. \A s \in Keys : Entries(s)' = Entries(s)
  BY <1>2 DEF Entries, Chain, ReachFrom
<1>8. StoreOf(k)' = StoreOf(k)
  <2>1. Filling(a) = {t}
    BY <1>0, <1>b DEF Quiet
  <2>2. Filling(a)' = {}
    BY <1>b, <1>1, <1>2, <2>1 DEF Filling, Local, Same
  <2>3. StoreOf(k) = req[t]
    BY <1>3, <1>6, <2>1 DEF StoreFacts
  <2>4. StoreOf(k)' = IF value_size'[a] THEN value'[a] ELSE Absent
    BY <1>3, <1>6, <1>7, <2>2 DEF StoreFacts
  <2> QED
    BY <1>2, <2>3, <2>4
<1>9. ASSUME NEW s \in Keys \ {k} PROVE StoreOf(s)' = StoreOf(s)
  <2> SUFFICES ASSUME NEW x \in Entries(s)
               PROVE  /\ value'[x] = value[x] /\ value_size'[x] = value_size[x]
                      /\ Filling(x)' = Filling(x)
                      /\ \A u \in Filling(x) : req'[u] = req[u]
    BY <1>7, <1>9, StoreFrame
  <2>1. x \in Addrs /\ x # a
    BY <1>6, <1>9, EntriesOne
  <2> QED
    BY <1>0, <1>b, <1>1, <1>2, <2>1 DEF Filling, Local, Same
<1>10. StoreKept
  BY <1>7, <1>8, <1>9 DEF StoreKept, Made
<1> QED
  BY <1>2, <1>4, <1>5, <1>10, MapStutter

(* get_key_entry enters a key that has no entry; it holds nothing as yet.    *)
LEMMA InsertMap ==
  ASSUME MapInv, MapInv', NEW t \in Workers, Insert(t)
  PROVE  Map!Enter(t)
<1>0. /\ TypeOK /\ Base /\ pc[t] = "insert" /\ ListInv /\ Holder(t) /\ Bucket(t) \in Buckets
      /\ req[t].key \in Keys /\ req[t] # NULL /\ Base'
  BY MapTypes DEF Insert, MapInv, ListInv
<1>a. PICK k \in Keys : k = req[t].key
  BY <1>0
<1>1. Local(t)
  BY <1>0, StepLocal DEF SetGetStep
<1>b. PICK a \in Addrs \ allocated :
        /\ key' = [key EXCEPT ![a] = req[t].key]
        /\ value' = [value EXCEPT ![a] = NULL]
        /\ value_size' = [value_size EXCEPT ![a] = FALSE]
        /\ next' = [next EXCEPT ![a] = items[Bucket(t)]]
        /\ \A b \in Buckets :
             Chain(b)' = IF b = Bucket(t) THEN {a} \cup Chain(b) ELSE Chain(b)
  BY <1>0, InsertChains, Zenon
<1>2. /\ \A x \in Addrs : x # a => /\ key'[x] = key[x] /\ value'[x] = value[x]
                                   /\ value_size'[x] = value_size[x] /\ next'[x] = next[x]
      /\ key'[a] = k /\ value_size'[a] = FALSE
  BY <1>0, <1>a, <1>b DEF TypeOK
<1>3. UNCHANGED req /\ pc'[t] = "unlock"
  BY <1>0 DEF Insert, Goto, TypeOK
<1>4. \A b \in Buckets : a \notin Chain(b) /\ Chain(b) \subseteq Addrs
  BY MapTypes
<1>5. req[t].method = "SET" /\ Method(t)' = "SET"
  BY <1>0, <1>3 DEF Base, Control, Method
<1>6. AnswerOf(t) = NULL /\ AnswerOf(t)' = NULL
  <2>1. AnswerFacts(t) /\ AnswerFacts(t)'
    BY AnswerIs
  <2> QED
    BY <1>0, <1>3, <1>5, <2>1 DEF AnswerFacts, OpenPCs
<1>7. ASSUME NEW u \in Workers \ {t} PROVE AnswerOf(u)' = AnswerOf(u)
  <2>1. pc[u] \in {"scan", "advance"} =>
          \A x \in Chain(Bucket(u)) : next'[x] = next[x] /\ key'[x] = key[x]
    BY <1>2, <1>4, MapTypes
  <2> QED
    BY <1>1, <1>7, <2>1, OthersKeep
<1>8. ASSUME NEW x, NEW s \in Keys, x \in Entries(s)
      PROVE  Filling(x)' = Filling(x) /\ \A u \in Filling(x) : req'[u] = req[u]
  BY <1>0, <1>1, <1>3 DEF Filling, Local, Same
<1>9. \A s \in Keys : Entries(s)' = Entries(s) \cup (IF s = k THEN {a} ELSE {})
  <2> SUFFICES ASSUME NEW s \in Keys
               PROVE  Entries(s)' = Entries(s) \cup (IF s = k THEN {a} ELSE {})
    OBVIOUS
  <2>1. BucketOf[s] \in Buckets /\ BucketOf[k] = Bucket(t)
    BY <1>a, BucketAssumption DEF Bucket
  <2>2. Entries(s)' = {x \in Chain(BucketOf[s])' : key'[x] = s}
    BY DEF Entries
  <2>3. Entries(s) = {x \in Chain(BucketOf[s]) : key[x] = s}
    BY DEF Entries
  <2>4. \A x \in Chain(BucketOf[s]) : key'[x] = key[x] /\ x # a
    BY <1>2, <1>4, <2>1
  <2>5. CASE BucketOf[s] = Bucket(t)
    <3>1. Chain(BucketOf[s])' = {a} \cup Chain(BucketOf[s])
      BY <1>b, <2>1, <2>5
    <3> QED
      BY <1>2, <2>2, <2>3, <2>4, <3>1
  <2>6. CASE BucketOf[s] # Bucket(t)
    <3>1. Chain(BucketOf[s])' = Chain(BucketOf[s]) /\ s # k
      BY <1>b, <2>1, <2>6
    <3> QED
      BY <2>2, <2>3, <2>4, <3>1
  <2> QED
    BY <2>5, <2>6
<1>10. Entries(k) = {}
  BY <1>0, <1>a, <1>5 DEF Entries, Holder, Ahead, Inside, Bucket, Method
<1>11. StoreOf(k) = Absent
  BY <1>10, Stored
<1>12. StoreOf(k)' = Absent
  <2>1. StoreFacts(k)'
    BY StoreIs
  <2>2. Entries(k)' = {a}
    BY <1>9, <1>10
  <2>3. \A u \in Workers \ {t} : pc[u] = "copy" => current[u] # a
    <3> SUFFICES ASSUME NEW u \in Workers, pc[u] = "copy" PROVE current[u] # a
      OBVIOUS
    <3>1. InList(u) /\ HasItem(u) /\ Bucket(u) \in Buckets
      BY MapTypes DEF HasItem, ItemPCs, WritePCs
    <3> QED
      BY <1>4, <3>1 DEF InList
  <2>4. Filling(a)' = {}
    BY <1>1, <1>3, <2>3 DEF Filling, Local, Same
  <2> QED
    BY <1>2, <2>1, <2>2, <2>4 DEF StoreFacts
<1>13. ASSUME NEW s \in Keys \ {k} PROVE StoreOf(s)' = StoreOf(s)
  <2>1. Entries(s)' = Entries(s)
    BY <1>9, <1>13
  <2>2. \A x \in Entries(s) : /\ value'[x] = value[x] /\ value_size'[x] = value_size[x]
                              /\ Filling(x)' = Filling(x)
                              /\ \A u \in Filling(x) : req'[u] = req[u]
    <3> SUFFICES ASSUME NEW x \in Entries(s)
                 PROVE  value'[x] = value[x] /\ value_size'[x] = value_size[x]
      BY <1>8, <1>13
    <3>1. x \in Addrs /\ x \in Chain(BucketOf[s]) /\ BucketOf[s] \in Buckets
      BY <1>13, EntriesOne, BucketAssumption
    <3> QED
      BY <1>2, <1>4, <3>1
  <2> QED
    BY <1>13, <2>1, <2>2, StoreFrame
<1>14. [s \in Keys |-> StoreOf(s)]' = [s \in Keys |-> StoreOf(s)]
  <2>1. \A s \in Keys : StoreOf(s)' = StoreOf(s)
    BY <1>11, <1>12, <1>13
  <2> QED
    BY <2>1
<1>15. [u \in Workers |-> AnswerOf(u)]' = [u \in Workers |-> AnswerOf(u)]
  BY <1>6, <1>7
<1>16. Made' = Made \cup {k}
  BY <1>9 DEF Made
<1> QED
  BY <1>a, <1>0, <1>3, <1>5, <1>6, <1>14, <1>15, <1>16
     DEF Map!Enter, Map!Undecided, Map!Is, Map!Key

-----------------------------------------------------------------------------
(***************************************************************************)
(* DEL and RST, of a single worker.                                        *)
(***************************************************************************)
LEMMA ClearMap ==
  ASSUME Sole, MapInv, MapInv', NEW t \in Workers, Clear(t)
  PROVE  Map!Delete(t)
<1>0. /\ TypeOK /\ Base /\ pc[t] = "clear" /\ HasEntry(t)
      /\ Written(t) /\ \A u \in Workers : u = t
  BY MapTypes DEF Clear, HasEntry, HasItem, ItemPCs, DelPCs, Sole
<1>a. PICK k \in Keys : k = req[t].key
  BY <1>0, EntryFound
<1>b. PICK a \in Addrs : a = current[t]
  BY <1>0, EntryFound
<1>1. /\ UNCHANGED <<items, next, req, current>> /\ pc'[t] = "unlink"
      /\ \A x \in Addrs : x # a => /\ value'[x] = value[x] /\ value_size'[x] = value_size[x]
                                   /\ key'[x] = key[x]
      /\ key'[a] = NULL
  BY <1>0, <1>b DEF Clear, Goto, TypeOK, table
<1>2. AnswerFacts(t) /\ AnswerFacts(t)' /\ StoreFacts(k)'
  BY AnswerIs, StoreIs
<1>3. AnswerOf(t) = NULL /\ AnswerOf(t)' = Yes(NULL)
  BY <1>0, <1>1, <1>2 DEF AnswerFacts, OpenPCs, DonePCs, Yes
<1>4. Entries(k) = {a} /\ req[t] # NULL
  BY <1>0, <1>a, <1>b, EntryFound
<1>5. \A s \in Keys : Entries(s)' = Entries(s) \ {a}
  <2> SUFFICES ASSUME NEW s \in Keys PROVE Entries(s)' = Entries(s) \ {a}
    OBVIOUS
  <2>1. Chain(BucketOf[s])' = Chain(BucketOf[s]) /\ Chain(BucketOf[s]) \subseteq Addrs
    BY <1>1, BucketAssumption, MapTypes DEF Chain, ReachFrom
  <2>2. s # NULL
    BY NullAssumption
  <2> QED
    BY <1>1, <2>1, <2>2 DEF Entries
<1>6. StoreOf(k)' = Absent
  BY <1>2, <1>4, <1>5 DEF StoreFacts
<1>7. ASSUME NEW s \in Keys \ {k} PROVE StoreOf(s)' = StoreOf(s)
  <2>1. \A x \in Entries(s) : x \in Addrs /\ x # a
    BY <1>4, <1>7, EntriesOne
  <2>2. Entries(s)' = Entries(s)
    BY <1>5, <1>7, <2>1
  <2>3. \A x \in Entries(s) : Filling(x)' = {} /\ Filling(x) = {}
    BY <1>0, <1>1 DEF Filling
  <2> QED
    BY <1>1, <1>7, <2>1, <2>2, <2>3, StoreFrame
<1>8. StoreOf(k) # Absent
  <2>1. Filling(a) = {} /\ value_size[a]
    BY <1>0, <1>b DEF Filling, Written
  <2> QED
    BY <1>4, <2>1, Stored
<1>9. req[t].method = "DEL"
  BY <1>0 DEF Base, Control, Method, DelPCs
<1>10. [u \in Workers |-> AnswerOf(u)]'
         = [[u \in Workers |-> AnswerOf(u)] EXCEPT ![t] = Yes(NULL)]
  BY <1>0, <1>3, MapDecide
<1>11. [s \in Keys |-> StoreOf(s)]' = [[s \in Keys |-> StoreOf(s)] EXCEPT ![k] = Absent]
  BY <1>6, <1>7, MapChange
<1>12. Made' = Made \ {k}
  <2>1. \A s \in Keys \ {k} : a \notin Entries(s)
    BY <1>4, EntriesOne
  <2>2. \A s \in Keys : Entries(s)' = {} <=> (s = k \/ Entries(s) = {})
    BY <1>4, <1>5, <2>1
  <2> QED
    BY <2>2 DEF Made
<1> QED
  BY <1>a, <1>1, <1>3, <1>4, <1>8, <1>9, <1>10, <1>11, <1>12
     DEF Map!Delete, Map!Undecided, Map!Is, Map!Key, Map!Decide, Yes

(* The item that is unlinked and freed is no entry any more.                 *)
LEMMA RemoveMap ==
  ASSUME Sole, MapInv, MapInv', NEW t \in Workers, Unlink(t) \/ Free(t)
  PROVE  UNCHANGED Map!vars
<1>0. /\ TypeOK /\ Base /\ ListInv /\ Base' /\ pc[t] \in {"unlink", "free"} /\ Reply(t)
      /\ \A u \in Workers : u = t
  BY MapTypes DEF Unlink, Free, Sole, MapInv, ListInv
<1>1. /\ UNCHANGED <<key, value, value_size, req, current, msg>>
      /\ pc'[t] \in {"free", "respond"}
      /\ pc'[t] = "respond" => code'[t] = "OK"
  BY <1>0 DEF Unlink, Free, Goto, TypeOK, resp
<1>2. AnswerOf(t)' = AnswerOf(t)
  <2>1. AnswerFacts(t) /\ AnswerFacts(t)'
    BY AnswerIs
  <2>2. msg'[t] = NULL
    BY <1>0, <1>1 DEF Reply
  <2> QED
    BY <1>0, <1>1, <2>1, <2>2 DEF AnswerFacts, DonePCs, Yes
<1>3. ASSUME NEW s \in Keys PROVE Entries(s)' = Entries(s)
  <2>1. BucketOf[s] \in Buckets /\ s # NULL
    BY BucketAssumption, NullAssumption
  <2>2. CASE Free(t)
    <3>1. Chain(BucketOf[s])' = Chain(BucketOf[s])
      BY <1>0, <2>1, <2>2, FreeChains
    <3> QED
      BY <1>1, <3>1 DEF Entries
  <2>3. CASE Unlink(t)
    <3>1. Chain(BucketOf[s])' = Chain(BucketOf[s]) \ {current[t]}
      BY <1>0, <2>1, <2>3, UnlinkChains
    <3>2. key[current[t]] # s \/ current[t] \notin Chain(BucketOf[s])
      <4>1. pc[t] = "unlink"
        BY <2>3 DEF Unlink
      <4>2. key[current[t]] = NULL
        BY <4>1, <1>0 DEF MapInv, Ground, Removed
      <4> QED
        BY <2>1, <4>2
    <3> QED
      BY <1>1, <3>1, <3>2 DEF Entries
  <2> QED
    BY <2>2, <2>3
<1>4. \A x : Filling(x)' = {} /\ Filling(x) = {}
  BY <1>0, <1>1 DEF Filling
<1>5. StoreKept
  BY <1>1, <1>3, <1>4, StoreFrame DEF StoreKept, Made
<1> QED
  BY <1>0, <1>1, <1>2, <1>5, MapStutter

(* init_hashtable: the map is empty from the moment the table is dropped.    *)
LEMMA NothingStored ==
  ASSUME NEW k \in Keys
  PROVE  /\ (TypeOK /\ items = NoItems) => Entries(k) = {} /\ StoreOf(k) = Absent
         /\ (TypeOK' /\ items' = NoItems) => Entries(k)' = {} /\ StoreOf(k)' = Absent
<1>0. BucketOf[k] \in Buckets /\ StoreFacts(k) /\ StoreFacts(k)'
  BY BucketAssumption, StoreIs
<1>1. ASSUME TypeOK, items = NoItems PROVE Entries(k) = {} /\ StoreOf(k) = Absent
  <2>1. items[BucketOf[k]] = NULL /\ next \in Pointers
    BY <1>0, <1>1 DEF NoItems, TypeOK, Pointers
  <2>2. Chain(BucketOf[k]) = {}
    BY <2>1, ReachClosed DEF Chain, ReachFrom, OrNull
  <2> QED
    BY <1>0, <2>2 DEF StoreFacts, Entries
<1>2. ASSUME TypeOK', items' = NoItems PROVE Entries(k)' = {} /\ StoreOf(k)' = Absent
  <2>1. items'[BucketOf[k]] = NULL /\ next' \in Pointers
    BY <1>0, <1>2 DEF NoItems, TypeOK, Pointers
  <2>2. Chain(BucketOf[k])' = {}
    BY <2>1, ReachClosed DEF Chain, ReachFrom, OrNull
  <2> QED
    BY <1>0, <2>2 DEF StoreFacts, Entries
<1> QED
  BY <1>1, <1>2

LEMMA ResetMap ==
  ASSUME Sole, MapInv, MapInv', NEW t \in Workers, ResetStep(t)
  PROVE  Map!Reset(t) \/ UNCHANGED Map!vars
<1>0. /\ TypeOK /\ TypeOK' /\ Base /\ Reply(t) /\ Emptied(t) /\ req[t] # NULL
      /\ pc[t] \in ResetPCs /\ \A u \in Workers : u = t
  BY MapTypes DEF ResetStep, ResetFree, ResetHt, ResetItems, ResetLocks, ResetFail, ResetPCs, Sole,
                  MapInv, ListInv, Base
<1>1. AnswerFacts(t) /\ AnswerFacts(t)'
  BY AnswerIs
<1>2. UNCHANGED <<req, msg>> /\ msg[t] = NULL
  BY <1>0 DEF ResetStep, ResetFree, ResetHt, ResetItems, ResetLocks, ResetFail, Reply, resp, ResetPCs
<1>3. CASE ResetFree(t)
  <2>1. pc[t] = "reset_free" /\ pc'[t] = "reset_ht" /\ items' = NoItems
    BY <1>0, <1>3 DEF ResetFree, Goto, TypeOK
  <2>2. AnswerOf(t) = NULL /\ AnswerOf(t)' = Yes(NULL)
    BY <1>1, <2>1 DEF AnswerFacts, OpenPCs, DonePCs, Yes
  <2>3. [k \in Keys |-> StoreOf(k)]' = [k \in Keys |-> Absent] /\ Made' = {}
    BY <1>0, <2>1, NothingStored DEF Made
  <2>4. [u \in Workers |-> AnswerOf(u)]'
          = [[u \in Workers |-> AnswerOf(u)] EXCEPT ![t] = Yes(NULL)]
    BY <1>0, <2>2, MapDecide
  <2>5. req[t].method = "RST"
    BY <1>0, <2>1 DEF Base, Control, Method, ResetPCs
  <2>6. Map!Reset(t)
    BY <1>0, <1>2, <2>2, <2>3, <2>4, <2>5 DEF Map!Reset, Map!Undecided, Map!Is, Map!Decide, Yes
  <2> QED
    BY <2>6
<1>4. CASE ResetHt(t) \/ ResetItems(t) \/ ResetLocks(t) \/ ResetFail(t)
  <2>1. /\ pc[t] \in {"reset_ht", "reset_items", "reset_locks"}
        /\ pc'[t] \in {"reset_items", "reset_locks", "respond"}
        /\ pc'[t] = "respond" => code'[t] = "OK"
        /\ items' = items \/ items' = NoItems
    BY <1>0, <1>4 DEF ResetHt, ResetItems, ResetLocks, ResetFail, Goto, TypeOK
  <2>2. items = NoItems /\ items' = NoItems
    BY <1>0, <2>1 DEF Emptied
  <2>3. StoreKept
    BY <1>0, <2>2, NothingStored DEF StoreKept, Made
  <2>4. AnswerOf(t)' = AnswerOf(t)
    BY <1>1, <1>2, <2>1 DEF AnswerFacts, DonePCs, Yes
  <2> QED
    BY <1>0, <1>2, <2>3, <2>4, MapStutter
<1> QED
  BY <1>3, <1>4 DEF ResetStep

-----------------------------------------------------------------------------
(***************************************************************************)
(* Every step is one of the map, or none.                                  *)
(***************************************************************************)
LEMMA SameMap ==
  ASSUME UNCHANGED <<shared, pc, req, current, resp>>
  PROVE  UNCHANGED Map!vars
<1>1. UNCHANGED <<items, next, key, value, value_size, pc, req, current, code, msg>>
  BY DEF shared, table, heap, resp
<1>2. ASSUME NEW k PROVE StoreOf(k)' = StoreOf(k) /\ Entries(k)' = Entries(k)
  <2>1. Entries(k)' = Entries(k)
    BY <1>1 DEF Entries, Chain, ReachFrom
  <2>2. Filling(Only(Entries(k)))' = Filling(Only(Entries(k)))
    BY <1>1, <2>1 DEF Filling
  <2> QED
    BY <1>1, <2>1, <2>2 DEF StoreOf
<1>3. ASSUME NEW u PROVE AnswerOf(u)' = AnswerOf(u)
  <2>1. WillFind(u)' <=> WillFind(u)
    BY <1>1 DEF WillFind, ReachFrom, Matches
  <2> QED
    BY <1>1, <2>1, AnswerFrame
<1>4. [k \in Keys |-> StoreOf(k)]' = [k \in Keys |-> StoreOf(k)]
  BY <1>2
<1>5. [u \in Workers |-> AnswerOf(u)]' = [u \in Workers |-> AnswerOf(u)]
  BY <1>3
<1>6. Made' = Made
  BY <1>2 DEF Made
<1> QED
  BY <1>1, <1>4, <1>5, <1>6 DEF Map!vars

LEMMA MapStep ==
  ASSUME NoPrefixes, Sole \/ SetGetOnly, MapInv, MapInv', [Next]_vars
  PROVE  [Map!Next]_(Map!vars)
<1>1. CASE UNCHANGED vars
  BY <1>1, SameMap DEF vars
<1>2. CASE Next
  <2>1. PICK t \in Workers : \/ Receive(t) \/ SetGetStep(t) \/ DelStep(t) \/ ResetStep(t)
                             \/ Undefined(t) \/ AllocFail(t)
    BY <1>2 DEF Next, Work
  <2>2. ASSUME Map!Call(t) \/ Map!Enter(t) \/ Map!Write(t) \/ Map!Hit(t)
               \/ Map!Unwritten(t) \/ Map!Miss(t) \/ Map!Busy(t) \/ Map!Delete(t) \/ Map!Reset(t) \/ Map!Return(t)
        PROVE  Map!Next
    BY <2>2, Zenon DEF Map!Next
  <2>3. CASE Undefined(t) \/ AllocFail(t)
    BY <2>3, SameMap DEF Undefined, AllocFail
  <2>4. CASE Receive(t) \/ Respond(t) \/ Read(t) \/ Malloc(t) \/ Insert(t)
    BY <2>2, <2>4, ReceiveMap, RespondMap, ReadMap, MallocMap, InsertMap
  <2>5. CASE Search(t) \/ TryWrLock(t) \/ TryRdLock(t)
    BY <2>2, <2>5, SearchMap, TryMap
  <2>6. CASE \/ Lock(t) \/ Unlock(t) \/ ItemUnlock(t) \/ TryDelLock(t)
             \/ Compare(t) \/ Advance(t) \/ NotFound(t) \/ Copy(t)
    BY <2>6, LockMap, WalkMap, CopyMap
  <2>7. ASSUME Clear(t) \/ Unlink(t) \/ Free(t) \/ ResetStep(t) PROVE Sole
    <3>1. pc[t] \in {"clear", "unlink", "free"} \cup ResetPCs
      BY <2>7 DEF Clear, Unlink, Free, ResetStep, ResetFree, ResetHt, ResetItems, ResetLocks,
                  ResetFail, ResetPCs
    <3>2. Method(t) \in {"DEL", "RST"} /\ req[t] \in Requests[t]
      BY <3>1, MapTypes, Busy DEF Base, Control, DelPCs, ResetPCs
    <3> QED
      BY <3>2 DEF SetGetOnly, Method
  <2>8. CASE Clear(t) \/ Unlink(t) \/ Free(t) \/ ResetStep(t)
    BY <2>2, <2>7, <2>8, ClearMap, RemoveMap, ResetMap
  <2>9. ~DelBusy(t)
    BY MapTypes DEF DelBusy, Rival
  <2> QED
    BY <2>1, <2>3, <2>4, <2>5, <2>6, <2>8, <2>9 DEF SetGetStep, DelStep
<1> QED
  BY <1>1, <1>2

LEMMA MapStart == Init => Map!Init
<1> SUFFICES ASSUME Init PROVE Map!Init
  OBVIOUS
<1>1. TypeOK /\ items = NoItems
  BY InitBase DEF Base, Init, NoItems
<1>2. (\A k \in Keys : StoreOf(k) = Absent) /\ Made = {}
  BY <1>1, NothingStored DEF Made
<1>3. \A t \in Workers : AnswerOf(t) = NULL
  BY AnswerIs DEF AnswerFacts, OpenPCs, Init
<1> QED
  BY <1>2, <1>3 DEF Map!Init, Init

-----------------------------------------------------------------------------
(***************************************************************************)
(* What the refinement rests on is invariant.                              *)
(***************************************************************************)
LEMMA ReplyStep ==
  ASSUME Base, NEW t \in Workers, Reply(t),
         Receive(t) \/ SetGetStep(t) \/ DelStep(t) \/ ResetStep(t)
  PROVE  \A u \in Workers : Reply(u) => Reply(u)'
<1>0. TypeOK /\ Control /\ Local(t)
  BY StepLocal DEF Base
<1>1. Reply(t)'
  <2>1. CASE \/ Receive(t) \/ Lock(t) \/ Search(t) \/ Compare(t) \/ Advance(t) \/ Insert(t)
    <3>1. /\ UNCHANGED <<code, msg>> /\ pc[t] \notin {"rdunlock", "respond"}
          /\ pc'[t] \notin {"wrunlock", "rdunlock"}
          /\ pc'[t] = "unlock" => Method(t)' = "SET"
      <4>1. CASE Receive(t)
        <5>1. pc'[t] \in {"search", "reset_free", "lock"}
          BY <1>0, <4>1 DEF Receive, Goto, TypeOK
        <5> QED
          BY <4>1, <5>1 DEF Receive, resp
      <4>2. CASE Lock(t) \/ Search(t) \/ Compare(t) \/ Advance(t)
        BY <1>0, <4>2 DEF Lock, Search, Compare, Advance, Goto, TypeOK, Method, resp
      <4>3. CASE Insert(t)
        BY <1>0, <4>3 DEF Insert, Goto, TypeOK, Method, resp, Control
      <4> QED
        BY <2>1, <4>1, <4>2, <4>3
    <3> QED
      BY <3>1 DEF Reply
  <2>2. CASE \/ NotFound(t) \/ Unlock(t) \/ TryWrLock(t) \/ Malloc(t) \/ Copy(t) \/ ItemUnlock(t)
    BY <1>0, <2>2 DEF NotFound, Unlock, TryWrLock, Malloc, Copy, ItemUnlock, Goto, TypeOK, Method,
                      resp, Reply
  <2>3. CASE TryRdLock(t) \/ Read(t) \/ Respond(t)
    BY <1>0, <2>3 DEF TryRdLock, Read, Respond, Goto, TypeOK, resp, Reply
  <2>4. CASE DelStep(t)
    BY <1>0, <2>4 DEF DelStep, TryDelLock, DelBusy, Clear, Unlink, Free, Goto, TypeOK, resp, Reply
  <2>5. CASE ResetStep(t)
    BY <1>0, <2>5 DEF ResetStep, ResetFree, ResetHt, ResetItems, ResetLocks, ResetFail, Goto, TypeOK,
                      resp, Reply
  <2> QED
    BY <2>1, <2>2, <2>3, <2>4, <2>5 DEF SetGetStep
<1>2. ASSUME NEW u \in Workers, u # t, Reply(u) PROVE Reply(u)'
  BY <1>0, <1>2 DEF Local, Same, Reply, Method
<1> QED
  BY <1>1, <1>2

(* Many workers, SET and GET: the lists only grow, ...                       *)
LEMMA ChainsGrow ==
  ASSUME ListInv, Base', NEW t \in Workers, Receive(t) \/ SetGetStep(t), NEW b \in Buckets
  PROVE  Chain(b) \subseteq Chain(b)'
<1>1. CASE Insert(t)
  BY <1>1, InsertChains
<1>2. CASE ~Insert(t)
  <2>1. UNCHANGED <<items, next>>
    BY <1>2 DEF Receive, SetGetStep, Lock, Search, Compare, Advance, NotFound, Unlock, TryWrLock,
                Malloc, Copy, ItemUnlock, TryRdLock, Read, Respond, shared, table, heap
  <2> QED
    BY <2>1 DEF Chain, ReachFrom
<1> QED
  BY <1>1, <1>2

Searching == \A t \in Workers : InList(t) /\ Reply(t)

LEMMA NextSearching ==
  ASSUME SetGetOnly, MayFail = FALSE
  PROVE  IInv /\ ListInv /\ ListInv' /\ Searching /\ [Next]_vars => Searching'
<1> SUFFICES ASSUME IInv, ListInv, ListInv', Searching, [Next]_vars PROVE Searching'
  OBVIOUS
<1>1. CASE UNCHANGED vars
  <2>1. UNCHANGED <<items, next, pc, req, current, code, msg>>
    BY <1>1 DEF vars, shared, table, heap, resp
  <2> QED
    BY <2>1 DEF Searching, InList, HasItem, Reply, Method, Bucket, Chain, ReachFrom
<1>2. CASE Next
  <2>1. PICK t \in Workers : (~fault /\ Receive(t)) \/ Work(t)
    BY <1>2 DEF Next
  <2>2. ~Undefined(t) /\ ~AllocFail(t)
    BY NoBadAccess DEF Undefined, AllocFail
  <2>3. ~DelStep(t) /\ ~ResetStep(t)
    BY DEF IInv, InvControl, SetPCs, GetPCs, WritePCs, ReadPCs, DelStep, ResetStep, TryDelLock,
       DelBusy, Clear, Unlink, Free, ResetFree, ResetHt, ResetItems, ResetLocks, ResetFail
  <2>4. Receive(t) \/ SetGetStep(t)
    BY <2>1, <2>2, <2>3 DEF Work
  <2>5. Base /\ Base' /\ TypeOK /\ Local(t)
    BY <2>4, StepLocal DEF ListInv, Base
  <2>6. \A u \in Workers : Reply(u)'
    BY <2>4, <2>5, ReplyStep DEF Searching
  <2>7. InList(t)'
    BY <2>4, InListStep DEF Searching
  <2>8. ASSUME NEW u \in Workers, u # t PROVE InList(u)'
    <3>1. Same(u) /\ InList(u)
      BY <2>5, <2>8 DEF Local, Searching
    <3>2. CASE pc[u] = "scan" \/ HasItem(u)
      <4>1. PICK b \in Buckets : b = Bucket(u)
        BY <2>5, <3>2, Busy DEF HasItem, ItemPCs, WritePCs, ReadPCs, DelPCs
      <4>2. Chain(b) \subseteq Chain(b)'
        BY <2>4, <2>5, ChainsGrow
      <4>3. Bucket(u)' = b /\ (HasItem(u)' <=> HasItem(u))
        BY <3>1, <4>1 DEF Same, Bucket, HasItem, Method
      <4>4. /\ pc[u] = "scan" => current[u] \in OrNull(Chain(b))
            /\ HasItem(u) => current[u] \in Chain(b)
        BY <3>1, <4>1 DEF InList
      <4> QED
        BY <3>1, <4>2, <4>3, <4>4 DEF InList, Same, OrNull
    <3>3. CASE ~(pc[u] = "scan" \/ HasItem(u))
      BY <3>1, <3>3 DEF InList, Same, HasItem, Method
    <3> QED
      BY <3>2, <3>3
  <2> QED
    BY <2>6, <2>7, <2>8 DEF Searching
<1> QED
  BY <1>1, <1>2

(* ... and the rwlocks tell who is at work on which entry.                   *)
LEMMA ManyGround ==
  ASSUME NoPrefixes, Gaps = TRUE, IInv, ListInv, Searching
  PROVE  MapInv
<1>0. Base /\ TypeOK /\ InvControl /\ InvPointers /\ InvRwlock /\ InvKey
  BY DEF IInv, ListInv, Base
<1>1. ASSUME NEW t \in Workers
      PROVE  /\ pc[t] \notin {"unlink", "delbusy", "trydel", "clear", "reset_ht", "reset_items",
                             "reset_locks"}
             /\ HasEntry(t) => pc[t] \in HoldPCs /\ pc[t] # "idle"
  BY <1>0 DEF InvControl, SetPCs, GetPCs, WritePCs, ReadPCs, HasEntry, HasItem, ItemPCs, DelPCs, HoldPCs
<1>2. ASSUME NEW t \in Workers, HasEntry(t)
      PROVE  /\ key[current[t]] = req[t].key /\ current[t] \in Addrs
             /\ req[t] # NULL
  <2>1. pc[t] \in HoldPCs /\ pc[t] # "idle"
    BY <1>1, <1>2
  <2>2. Matches(req[t].key, key[current[t]]) /\ req[t].key \in Keys /\ req[t] # NULL
    BY <1>0, <2>1, Busy, NullAssumption DEF InvKey
  <2>3. key[current[t]] \in Keys
    BY <2>2, PrefixAssumption DEF Matches
  <2>4. current[t] \in Addrs
    BY <1>0, <2>1 DEF InvPointers, TypeOK, OrNull
  <2> QED
    BY <2>2, <2>3, <2>4 DEF NoPrefixes
<1>3. ASSUME NEW t \in Workers PROVE Quiet(t)
  <2>1. ASSUME pc[t] \in {"malloc", "copy", "read"}, NEW u \in Filling(current[t]), u # t
        PROVE  FALSE
    <3>1. u \in Workers /\ pc[u] = "copy" /\ current[u] = current[t]
      BY <2>1 DEF Filling
    <3>2. current[t] # NULL
      BY <1>0, <2>1 DEF InvPointers, HoldPCs, WritePCs, ReadPCs
    <3>3. ItemIsolation
      BY Isolated
    <3> QED
      BY <2>1, <3>1, <3>2, <3>3 DEF ItemIsolation, WritePCs, ReadPCs
  <2> QED
    BY <1>1, <2>1 DEF Quiet, Filling
<1>4. ASSUME NEW t \in Workers PROVE Rival(t)
  <2> SUFFICES ASSUME \/ pc[t] = "trywrlock" /\ ~LockFree(current[t])
                      \/ pc[t] = "tryrdlock" /\ wrlocked[current[t]]
               PROVE  \E u \in Workers \ {t} : req[u] # NULL /\ req[u].key = req[t].key
    BY <1>1 DEF Rival
  <2>1. HasEntry(t) /\ pc[t] \notin WritePCs \cup ReadPCs
    BY DEF HasEntry, HasItem, ItemPCs, WritePCs, ReadPCs
  <2>2. current[t] \in Addrs
    BY <1>2, <2>1
  <2>3. \E u \in Workers : Writes(u, current[t]) \/ u \in ReadersOf(current[t])
    <3>1. CASE wrlocked[current[t]]
      BY <1>0, <2>2, <3>1 DEF InvRwlock
    <3>2. CASE readers[current[t]] # 0
      <4>1. ReadersOf(current[t]) # {}
        BY <1>0, <2>2, <3>2, FS_EmptySet DEF InvRwlock
      <4> QED
        BY <4>1 DEF ReadersOf
    <3> QED
      BY <3>1, <3>2 DEF LockFree
  <2>4. PICK u \in Workers : pc[u] \in WritePCs \cup ReadPCs /\ current[u] = current[t]
    BY <2>3 DEF Writes, ReadersOf
  <2>5. HasEntry(u) /\ u # t
    BY <2>1, <2>4 DEF HasEntry, HasItem, ItemPCs, WritePCs, ReadPCs
  <2> QED
    BY <1>2, <2>1, <2>4, <2>5
<1>5. ASSUME NEW t \in Workers PROVE Ground(t)
  BY <1>1, <1>2, <1>3, <1>4 DEF Ground, Searching, Meets, Removed, Emptied, Written
<1> QED
  BY <1>5 DEF MapInv

(* One worker, any requests.                                                 *)
LEMMA MeetsStep ==
  ASSUME NoPrefixes, ListInv, NEW t \in Workers, Meets(t), Removed(t),
         Receive(t) \/ SetGetStep(t) \/ DelStep(t) \/ ResetStep(t)
  PROVE  Meets(t)' /\ Removed(t)'
<1>0. TypeOK /\ Base /\ Control
  BY DEF ListInv, Base
<1> USE DEF HasEntry, HasItem, ItemPCs, WritePCs, ReadPCs, DelPCs
<1>1. CASE \/ Receive(t) \/ Lock(t) \/ Search(t) \/ Advance(t) \/ Respond(t) \/ ItemUnlock(t)
           \/ DelBusy(t) \/ Unlink(t) \/ Free(t) \/ ResetStep(t)
  <2>1. ~HasEntry(t)' /\ pc'[t] # "unlink"
    <3>1. CASE Receive(t)
      <4>1. pc'[t] \in {"search", "reset_free", "lock"}
        BY <1>0, <3>1 DEF Receive, Goto, TypeOK
      <4> QED
        BY <4>1
    <3>2. CASE DelBusy(t)
      BY <1>0, <3>2 DEF DelBusy, Goto, TypeOK, Control, Method
    <3>3. CASE \/ Lock(t) \/ Search(t) \/ Advance(t) \/ Respond(t) \/ ItemUnlock(t) \/ Unlink(t)
               \/ Free(t)
      BY <1>0, <3>3 DEF Lock, Search, Advance, Respond, ItemUnlock, Unlink, Free, Goto, TypeOK
    <3>4. CASE ResetStep(t)
      BY <1>0, <3>4 DEF ResetStep, ResetFree, ResetHt, ResetItems, ResetLocks, ResetFail, Goto, TypeOK
    <3> QED
      BY <1>1, <3>1, <3>2, <3>3, <3>4
  <2> QED
    BY <2>1 DEF Meets, Removed
<1>2. CASE Compare(t)
  <2>1. /\ UNCHANGED <<key, req, current>> /\ pc'[t] # "unlink" /\ req[t].key \in Keys
        /\ HasEntry(t)' => Matches(req[t].key, key[current[t]])
    BY <1>0, <1>2, Busy DEF Compare, Goto, TypeOK, shared, heap
  <2>2. Matches(req[t].key, key[current[t]]) => key[current[t]] = req[t].key
    BY <2>1, PrefixAssumption DEF NoPrefixes, Matches
  <2> QED
    BY <2>1, <2>2 DEF Meets, Removed
<1>3. CASE Insert(t)
  <2>1. PICK a \in Addrs \ allocated : /\ key' = [key EXCEPT ![a] = req[t].key]
                                       /\ current' = [current EXCEPT ![t] = a]
    BY <1>3, Zenon DEF Insert
  <2>2. UNCHANGED req /\ pc'[t] = "unlock"
    BY <1>0, <1>3 DEF Insert, Goto, TypeOK
  <2>3. key'[current'[t]] = req[t].key
    BY <1>0, <2>1 DEF TypeOK
  <2> QED
    BY <2>2, <2>3 DEF Meets, Removed
<1>4. CASE Clear(t)
  <2>1. current[t] \in Addrs /\ pc'[t] = "unlink"
    BY <1>0, <1>4 DEF Clear, Goto, TypeOK, Control
  <2>2. key'[current'[t]] = NULL
    BY <1>0, <1>4, <2>1 DEF Clear, TypeOK
  <2> QED
    BY <2>1, <2>2 DEF Meets, Removed
<1>5. CASE \/ NotFound(t) \/ Unlock(t) \/ TryWrLock(t) \/ Malloc(t) \/ Copy(t)
           \/ TryRdLock(t) \/ Read(t) \/ TryDelLock(t)
  <2>1. UNCHANGED <<key, req, current>>
    BY <1>5 DEF NotFound, Unlock, TryWrLock, Malloc, Copy, TryRdLock, Read, TryDelLock, shared, heap
  <2>2. (HasEntry(t)' => HasEntry(t)) /\ pc'[t] # "unlink"
    <3>1. CASE NotFound(t) \/ Unlock(t)
      BY <1>0, <3>1 DEF NotFound, Unlock, Goto, TypeOK, Method
    <3>2. CASE TryWrLock(t) \/ Malloc(t) \/ Copy(t)
      BY <1>0, <3>2 DEF TryWrLock, Malloc, Copy, Goto, TypeOK
    <3>3. CASE TryRdLock(t) \/ Read(t) \/ TryDelLock(t)
      BY <1>0, <3>3 DEF TryRdLock, Read, TryDelLock, Goto, TypeOK
    <3> QED
      BY <1>5, <3>1, <3>2, <3>3
  <2> QED
    BY <2>1, <2>2 DEF Meets, Removed
<1> QED
  BY <1>1, <1>2, <1>3, <1>4, <1>5 DEF SetGetStep, DelStep

Working == \A t \in Workers : Meets(t) /\ Removed(t) /\ Reply(t)

LEMMA NextWorking ==
  ASSUME NoPrefixes, Sole
  PROVE  ListInv /\ Working /\ [Next]_vars => Working'
<1> SUFFICES ASSUME ListInv, Working, [Next]_vars PROVE Working'
  OBVIOUS
<1>0. Base
  BY DEF ListInv
<1>1. ASSUME UNCHANGED <<key, pc, req, current, code, msg>> PROVE Working'
  BY <1>1 DEF Working, Meets, Removed, Reply, HasEntry, HasItem, Method
<1>2. CASE UNCHANGED vars
  BY <1>1, <1>2 DEF vars, shared, heap, resp
<1>3. CASE Next
  <2>1. PICK t \in Workers : \/ Receive(t) \/ SetGetStep(t) \/ DelStep(t) \/ ResetStep(t)
                             \/ Undefined(t) \/ AllocFail(t)
    BY <1>3 DEF Next, Work
  <2>2. CASE Undefined(t) \/ AllocFail(t)
    BY <1>1, <2>2 DEF Undefined, AllocFail, shared, heap, resp
  <2>3. CASE Receive(t) \/ SetGetStep(t) \/ DelStep(t) \/ ResetStep(t)
    <3>1. \A u \in Workers : u = t
      BY DEF Sole
    <3>2. Meets(t)' /\ Removed(t)'
      BY <2>3, MeetsStep DEF Working
    <3>3. Reply(t)'
      BY <1>0, <2>3, ReplyStep DEF Working
    <3> QED
      BY <3>1, <3>2, <3>3 DEF Working
  <2> QED
    BY <2>1, <2>2, <2>3
<1> QED
  BY <1>2, <1>3

(* A single worker leaves no entry without a message, but for the one that   *)
(* its SET has made and not yet filled, or its DEL has emptied.              *)
Unfilled(t) == \/ pc[t] = "unlock" /\ Method(t) = "SET"
               \/ pc[t] \in {"trywrlock", "malloc", "copy", "unlink"}
Filled == \A t \in Workers, b \in Buckets : \A a \in Chain(b) :
             value_size[a] \/ (Unfilled(t) /\ current[t] = a)

LEMMA FilledStep ==
  ASSUME Sole, ListInv, ListInv', SerialInv, Filled, NEW t \in Workers,
         Receive(t) \/ SetGetStep(t) \/ DelStep(t) \/ ResetStep(t)
  PROVE  Filled'
<1>0. /\ TypeOK /\ TypeOK' /\ Base /\ Base' /\ RwHeld(t) /\ InList(t) /\ next' \in Pointers
      /\ \A u \in Workers : u = t
      /\ \A b \in Buckets : Chain(b) \subseteq Addrs
  BY Types DEF ListInv, Base, SerialInv, Serial, Sole, TypeOK, Pointers
<1> SUFFICES ASSUME NEW b \in Buckets, NEW a \in Chain(b)'
             PROVE  value_size'[a] \/ (Unfilled(t)' /\ current'[t] = a)
  BY <1>0 DEF Filled
<1>1. \A x \in Chain(b) : x \in Addrs /\ (value_size[x] \/ (Unfilled(t) /\ current[t] = x))
  BY <1>0 DEF Filled
<1>2. ASSUME UNCHANGED <<items, next>> PROVE a \in Chain(b)
  BY <1>2 DEF Chain, ReachFrom
<1>3. CASE \/ Receive(t) \/ Lock(t) \/ Search(t) \/ Compare(t) \/ Advance(t) \/ NotFound(t)
           \/ ItemUnlock(t) \/ TryRdLock(t) \/ Read(t) \/ Respond(t)
           \/ TryDelLock(t) \/ DelBusy(t) \/ ResetHt(t)
  <2>1. ~Unfilled(t) /\ UNCHANGED <<items, next, value_size>>
    BY <1>3 DEF Receive, Lock, Search, Compare, Advance, NotFound, ItemUnlock, TryRdLock, Read,
         Respond, TryDelLock, DelBusy, ResetHt, shared, table, heap, Unfilled
  <2> QED
    BY <1>1, <1>2, <2>1
<1>4. CASE Unlock(t) \/ TryWrLock(t) \/ Malloc(t)
  <2>1. UNCHANGED <<items, next, value_size, current, req>>
    BY <1>4 DEF Unlock, TryWrLock, Malloc, table, heap
  <2>2. Unfilled(t) => Unfilled(t)'
    <3>1. CASE Unlock(t)
      BY <1>0, <3>1 DEF Unlock, Goto, TypeOK, Unfilled, Method
    <3>2. CASE TryWrLock(t)
      <4>1. pc[t] = "trywrlock" /\ current[t] \in Addrs
        BY <1>0, <3>2 DEF TryWrLock, Base, Control, ItemPCs
      <4>2. LockFree(current[t])
        BY <1>0, <4>1 DEF RwHeld, LockFree, WritePCs, DelPCs, ReadPCs
      <4>3. pc'[t] = "malloc"
        BY <1>0, <3>2, <4>2 DEF TryWrLock, Goto, TypeOK
      <4> QED
        BY <4>3 DEF Unfilled
    <3>3. CASE Malloc(t)
      BY <1>0, <3>3 DEF Malloc, Goto, TypeOK, Unfilled
    <3> QED
      BY <1>4, <3>1, <3>2, <3>3
  <2> QED
    BY <1>1, <1>2, <2>1, <2>2
<1>5. CASE Copy(t)
  <2>1. /\ UNCHANGED <<items, next>> /\ current[t] \in Addrs
        /\ value_size' = [value_size EXCEPT ![current[t]] = TRUE]
    BY <1>0, <1>5 DEF Copy, table, Base, Control, ItemPCs, WritePCs
  <2> QED
    BY <1>0, <1>1, <1>2, <2>1 DEF TypeOK
<1>6. CASE Clear(t)
  <2>1. /\ UNCHANGED <<items, next, current>> /\ current[t] \in Addrs
        /\ pc[t] = "clear" /\ pc'[t] = "unlink"
        /\ \A x \in Addrs : x # current[t] => value_size'[x] = value_size[x]
    BY <1>0, <1>6 DEF Clear, table, Base, Control, ItemPCs, DelPCs, Goto, TypeOK
  <2> QED
    BY <1>1, <1>2, <2>1 DEF Unfilled
<1>7. CASE Unlink(t)
  <2>1. Chain(b)' = Chain(b) \ {current[t]} /\ UNCHANGED value_size
    BY <1>0, <1>7, UnlinkChains DEF Unlink
  <2> QED
    BY <1>1, <2>1
<1>8. CASE Free(t)
  <2>1. Chain(b)' = Chain(b) /\ UNCHANGED value_size /\ ~Unfilled(t)
    BY <1>0, <1>8, FreeChains DEF Free, Unfilled
  <2> QED
    BY <1>1, <2>1
<1>9. CASE Insert(t)
  <2>1. PICK x \in Addrs \ allocated :
          /\ value_size' = [value_size EXCEPT ![x] = FALSE]
          /\ current' = [current EXCEPT ![t] = x]
          /\ \A d \in Buckets :
               Chain(d)' = IF d = Bucket(t) THEN {x} \cup Chain(d) ELSE Chain(d)
    BY <1>0, <1>9, InsertChains, Zenon
  <2>2. pc[t] = "insert" /\ pc'[t] = "unlock" /\ Method(t)' = "SET"
    BY <1>0, <1>9 DEF Insert, Goto, TypeOK, Base, Control, Method
  <2>3. a = x \/ a \in Chain(b)
    BY <2>1
  <2>4. current'[t] = x /\ (a # x /\ a \in Addrs => value_size'[a] = value_size[a])
    BY <1>0, <2>1 DEF TypeOK
  <2> QED
    BY <1>1, <2>2, <2>3, <2>4 DEF Unfilled
<1>10. CASE ResetFree(t) \/ ResetItems(t) \/ ResetFail(t)
  <2>1. items' = NoItems
    BY <1>10 DEF ResetFree, ResetItems, ResetFail
  <2>2. items'[b] = NULL
    BY <2>1 DEF NoItems
  <2>3. Chain(b)' = {}
    BY <1>0, <2>2, ReachClosed DEF Chain, ReachFrom, OrNull
  <2> QED
    BY <2>3
<1>11. CASE ResetLocks(t)
  <2>1. ~Unfilled(t) /\ UNCHANGED <<items, next, value_size>>
    BY <1>11 DEF ResetLocks, heap, Unfilled
  <2> QED
    BY <1>1, <1>2, <2>1
<1> QED
  BY <1>3, <1>4, <1>5, <1>6, <1>7, <1>8, <1>9, <1>10, <1>11
     DEF SetGetStep, DelStep, ResetStep

LEMMA StartFilled == Init => Filled
<1> SUFFICES ASSUME Init, NEW b \in Buckets PROVE Chain(b) = {}
  BY DEF Filled
<1>1. items[b] = NULL /\ next \in Pointers
  BY InitBase DEF Init, Base, TypeOK, Pointers
<1> QED
  BY <1>1, ReachClosed DEF Chain, ReachFrom, OrNull

LEMMA NextFilled ==
  ASSUME Sole
  PROVE  ListInv /\ ListInv' /\ SerialInv /\ Filled /\ [Next]_vars => Filled'
<1> SUFFICES ASSUME ListInv, ListInv', SerialInv, Filled, [Next]_vars PROVE Filled'
  OBVIOUS
<1>1. ASSUME UNCHANGED <<items, next, value_size, pc, req, current>> PROVE Filled'
  BY <1>1 DEF Filled, Unfilled, Method, Chain, ReachFrom
<1>2. CASE UNCHANGED vars
  BY <1>1, <1>2 DEF vars, shared, table, heap
<1>3. CASE Next
  <2>1. PICK t \in Workers : \/ Receive(t) \/ SetGetStep(t) \/ DelStep(t) \/ ResetStep(t)
                             \/ Undefined(t) \/ AllocFail(t)
    BY <1>3 DEF Next, Work
  <2>2. CASE Undefined(t) \/ AllocFail(t)
    BY <1>1, <2>2 DEF Undefined, AllocFail, shared, table, heap
  <2>3. CASE Receive(t) \/ SetGetStep(t) \/ DelStep(t) \/ ResetStep(t)
    BY <2>3, FilledStep
  <2> QED
    BY <2>1, <2>2, <2>3
<1> QED
  BY <1>2, <1>3

LEMMA OneGround ==
  ASSUME Sole, ListInv, SerialInv, Working, Filled
  PROVE  MapInv
<1>1. ASSUME NEW t \in Workers PROVE Quiet(t)
  BY DEF Sole, Quiet, Filling
<1>2. ASSUME NEW t \in Workers PROVE Rival(t)
  <2>1. RwHeld(t)
    BY DEF SerialInv, Serial
  <2>2. ASSUME pc[t] \in {"trywrlock", "trydel", "tryrdlock"}
        PROVE  LockFree(current[t]) /\ ~wrlocked[current[t]]
    <3>1. current[t] \in Addrs
      BY <2>2 DEF ListInv, Base, Control, ItemPCs
    <3> QED
      BY <2>1, <2>2, <3>1 DEF RwHeld, LockFree, WritePCs, DelPCs, ReadPCs
  <2> QED
    BY <2>1, <2>2 DEF Rival, RwHeld
<1>3. ASSUME NEW t \in Workers PROVE Written(t)
  <2> SUFFICES ASSUME pc[t] \in {"clear", "read"} PROVE value_size[current[t]]
    BY DEF Written
  <2>1. InList(t) /\ HasItem(t) /\ Bucket(t) \in Buckets
    BY Busy DEF SerialInv, Serial, HasItem, ItemPCs, DelPCs, ReadPCs, ListInv
  <2> QED
    BY <2>1 DEF InList, Filled, Unfilled
<1> QED
  BY <1>1, <1>2, <1>3 DEF MapInv, Ground, SerialInv, Serial, Working

-----------------------------------------------------------------------------
(* Any number of workers that execute SETs and GETs at the same time, with   *)
(* searches that take no mutex and locks that are only tried, are one map:    *)
(* every message is stored, and every GET answered, at one instant of its     *)
(* request, and a request is refused only when there is another for its key.  *)
(* The one gap is a GET that is answered OK, with nothing, for a key that a   *)
(* SET has entered and none has written.                                      *)
THEOREM ConcurrentMap ==
  ASSUME NoPrefixes, SetGetOnly, MayFail = FALSE, Gaps = TRUE
  PROVE  Spec => ImplementsMap
<1>1. RstAlone
  BY DEF SetGetOnly, RstAlone
<1>2. Spec => []IInv
  BY Invariance
<1>3. Spec => []ListInv
  BY <1>1, ListInvariance
<1>4. Init => Searching
  BY DEF Init, Searching, InList, HasItem, Reply, ItemPCs, WritePCs, ReadPCs, DelPCs
<1>5. IInv /\ ListInv /\ ListInv' /\ Searching /\ [Next]_vars => Searching'
  BY NextSearching
<1>6. IInv /\ ListInv /\ Searching => MapInv
  BY ManyGround
<1>7. MapInv /\ MapInv' /\ [Next]_vars => [Map!Next]_(Map!vars)
  BY MapStep
<1>8. Spec => Map!Init /\ [][Map!Next]_(Map!vars)
  BY <1>2, <1>3, <1>4, <1>5, <1>6, <1>7, MapStart, PTL DEF Spec
<1> QED
  BY <1>8 DEF ImplementsMap, Map!Spec

(* A single worker executes SET, GET, DEL and RST in any order as the map    *)
(* does, exactly (also with Gaps = FALSE: no GET finds an entry without its   *)
(* message), and refuses nothing; after a failed allocation, too, as long as  *)
(* behaviour is defined.                                                     *)
THEOREM SerialMap ==
  ASSUME NoPrefixes, Sole
  PROVE  Spec => ImplementsMap
<1>1. Spec => [](ListInv /\ SerialInv)
  BY SerialInvariance
<1>2. Init => Working
  BY DEF Init, Working, Meets, Removed, Reply, HasEntry, HasItem, ItemPCs, WritePCs, ReadPCs, DelPCs
<1>3. ListInv /\ Working /\ [Next]_vars => Working'
  BY NextWorking
<1>4. Init => Filled
  BY StartFilled
<1>5. ListInv /\ ListInv' /\ SerialInv /\ Filled /\ [Next]_vars => Filled'
  BY NextFilled
<1>6. ListInv /\ SerialInv /\ Working /\ Filled => MapInv
  BY OneGround
<1>7. MapInv /\ MapInv' /\ [Next]_vars => [Map!Next]_(Map!vars)
  BY MapStep
<1>8. Spec => Map!Init /\ [][Map!Next]_(Map!vars)
  BY <1>1, <1>2, <1>3, <1>4, <1>5, <1>6, <1>7, MapStart, PTL DEF Spec
<1> QED
  BY <1>8 DEF ImplementsMap, Map!Spec
=============================================================================
