------------------------------ MODULE HashTable ------------------------------
(***************************************************************************)
(* The shared hash table of the key-value server (src/server/hash.c) and    *)
(* the requests the worker threads execute on it (src/server/kvstore.c).    *)
(* Every worker thread of main_job runs SET, GET, DEL and RST requests      *)
(* concurrently with the others.  One step of the model is one access to    *)
(* shared memory, or a run of them that no other thread can tell apart.     *)
(*                                                                          *)
(* Memory is modelled explicitly: an item lives at an address, a freed       *)
(* address may be handed out again, and a step that would touch memory that *)
(* is not there (a freed item, a NULL key or buffer, a table that is being  *)
(* rebuilt), or release a lock nobody holds, sets fault: from there on the   *)
(* process has no defined behaviour and the model stops.                    *)
(*                                                                          *)
(* The bytes of a message are identified with the SET request that carried  *)
(* them; all messages have the same positive length, so that value_size     *)
(* only tells an entry that was never written (0) from one that was.        *)
(***************************************************************************)
EXTENDS Integers, FiniteSets

CONSTANTS Workers,    \* the server's worker threads
          Keys, Msgs, \* keys and message payloads
          Addrs,      \* where calloc may place a hash_item_t (bounds the heap)
          Buckets,    \* indices of ht->items and ht->locks
          BucketOf,   \* hash(key) % capacity
          PrefixOf,   \* <<k, s>>: the first strlen(k) bytes of s are k
          Requests,   \* the requests each worker may be sent
          MayFail,    \* whether an allocation may return NULL
          NULL, Garbage

Methods == {"SET", "GET", "DEL", "RST"}
Request == [method : Methods, key : Keys, msg : Msgs]

ASSUME WorkersAssumption  == IsFiniteSet(Workers)
ASSUME BucketAssumption   == BucketOf \in [Keys -> Buckets]
ASSUME PrefixAssumption   == /\ PrefixOf \subseteq Keys \X Keys
                             /\ \A k \in Keys : <<k, k>> \in PrefixOf
ASSUME RequestsAssumption == Requests \in [Workers -> SUBSET Request]
ASSUME MayFailAssumption  == MayFail \in BOOLEAN
ASSUME NullAssumption     == /\ NULL \notin Addrs /\ NULL \notin Workers
                             /\ NULL \notin Keys  /\ NULL \notin Request
                             /\ Garbage \notin Request /\ Garbage # NULL

VARIABLES
  ht,         \* the global pointer: "null", "live" or "freed" (dangling)
  ht_fields,  \* which arrays of the live table are allocated
  items,      \* ht->items: first item of each bucket
  locks,      \* ht->locks: the worker holding each bucket's mutex, or NULL
  allocated,  \* addresses that hold an item
  key, value, value_size, next, prev,  \* the fields of hash_item_t
  wrlocked, readers,                   \* item->rwlock: writer and reader count
  pc,         \* what each worker does next
  req,        \* the request a worker is executing, NULL when it has none
  current,    \* current of search, which becomes entry or item
  item_head,  \* item_head of get_key_entry
  code, msg,  \* the worker's response
  fault,      \* the process ran into undefined behaviour
  oom         \* history: an allocation has failed

heap   == <<allocated, key, value, value_size, next, prev>>
table  == <<ht, ht_fields, items, locks>>
shared == <<table, heap, wrlocked, readers>>
resp   == <<code, msg>>
status == <<fault, oom>>
vars   == <<shared, pc, req, current, item_head, resp, status>>

OrNull(S) == S \cup {NULL}

PCs == {"idle", "lock", "search", "scan", "advance", "insert", "unlock",
        "trywrlock", "malloc", "copy", "wrunlock",
        "tryrdlock", "read", "rdunlock",
        "trydel", "delbusy", "clear", "unlink", "free",
        "reset_free", "reset_ht", "reset_items", "reset_locks", "respond"}

(***************************************************************************)
(* Types of the variables.                                                 *)
(***************************************************************************)
TypeOK ==
  /\ ht \in {"null", "live", "freed"}
  /\ ht_fields \subseteq {"items", "locks"}
  /\ items \in [Buckets -> OrNull(Addrs)]
  /\ locks \in [Buckets -> OrNull(Workers)]
  /\ allocated \subseteq Addrs
  /\ key \in [Addrs -> OrNull(Keys)]
  /\ value \in [Addrs -> OrNull(Request \cup {Garbage})]
  /\ value_size \in [Addrs -> BOOLEAN]
  /\ next \in [Addrs -> OrNull(Addrs)]
  /\ prev \in [Addrs -> OrNull(Addrs)]
  /\ wrlocked \in [Addrs -> BOOLEAN]
  /\ readers \in [Addrs -> Nat]
  /\ pc \in [Workers -> PCs]
  /\ req \in [Workers -> OrNull(Request)]
  /\ current \in [Workers -> OrNull(Addrs)]
  /\ item_head \in [Workers -> OrNull(Addrs)]
  /\ code \in [Workers -> {"OK", "KEY_ERROR"}]
  /\ msg \in [Workers -> OrNull(Request \cup {Garbage})]
  /\ fault \in BOOLEAN
  /\ oom \in BOOLEAN

(* main builds an empty table before it accepts the first connection, and   *)
(* exits when it cannot.                                                    *)
Init ==
  /\ ht = "live"
  /\ ht_fields = {"items", "locks"}
  /\ items = [b \in Buckets |-> NULL]
  /\ locks = [b \in Buckets |-> NULL]
  /\ allocated = {}
  /\ key = [a \in Addrs |-> NULL]
  /\ value = [a \in Addrs |-> NULL]
  /\ value_size = [a \in Addrs |-> FALSE]
  /\ next = [a \in Addrs |-> NULL]
  /\ prev = [a \in Addrs |-> NULL]
  /\ wrlocked = [a \in Addrs |-> FALSE]
  /\ readers = [a \in Addrs |-> 0]
  /\ pc = [t \in Workers |-> "idle"]
  /\ req = [t \in Workers |-> NULL]
  /\ current = [t \in Workers |-> NULL]
  /\ item_head = [t \in Workers |-> NULL]
  /\ code = [t \in Workers |-> "OK"]
  /\ msg = [t \in Workers |-> NULL]
  /\ fault = FALSE
  /\ oom = FALSE

-----------------------------------------------------------------------------
Method(t) == req[t].method
Bucket(t) == BucketOf[req[t].key]

(* Faulty variant of Matches: the first entry of the bucket is taken.        *)
MatchesAny(wanted, stored) == TRUE

(* strncmp(current->key, key, key_len) == 0 with key_len = strlen(key)       *)
Matches(wanted, stored) == <<wanted, stored>> \in PrefixOf

(* ht->capacity is set right after ht->items is allocated, so a bucket can   *)
(* be computed and its list read exactly when the items array is there.      *)
ItemsThere == ht = "live" /\ "items" \in ht_fields
LocksThere == ht = "live" /\ "locks" \in ht_fields

Freed(a) == a # NULL /\ a \notin allocated

(* Faulty variant of LockFree: a writer does not wait for readers.            *)
LockFreeOfWriter(a) == ~wrlocked[a]

(* trywrlock would succeed                                                   *)
LockFree(a) == ~wrlocked[a] /\ readers[a] = 0

(* The next step of worker t has no defined outcome.                         *)
BadAccess(t) ==
  \/ pc[t] = "lock" /\ ~(ItemsThere /\ LocksThere)
  \/ pc[t] = "search" /\ ~ItemsThere
  \/ pc[t] = "scan" /\ current[t] # NULL
       /\ (Freed(current[t]) \/ key[current[t]] = NULL)
  \/ pc[t] = "insert" /\ (~ItemsThere \/ Freed(item_head[t]))
  \/ pc[t] = "unlock" /\ ~LocksThere
  \/ pc[t] \in {"advance", "trywrlock", "malloc", "copy", "wrunlock",
                "tryrdlock", "read", "rdunlock", "trydel", "delbusy", "clear",
                "unlink", "free"} /\ Freed(current[t])
  \/ pc[t] = "copy" /\ value[current[t]] = NULL
  \/ pc[t] = "read" /\ value_size[current[t]] /\ value[current[t]] = NULL
  \/ pc[t] \in {"wrunlock", "rdunlock", "delbusy"} /\ LockFree(current[t])
  \/ pc[t] = "unlink" /\ (\/ ~ItemsThere
                          \/ Freed(next[current[t]])
                          \/ Freed(prev[current[t]]))
  \/ pc[t] = "free" /\ ~LocksThere
  \/ pc[t] = "reset_free" /\ ht = "freed"
  \/ pc[t] \in {"reset_items", "reset_locks"} /\ ht # "live"

(* ... or may have none: it unlocks the write lock of another thread.        *)
ForeignUnlock(t) == pc[t] = "delbusy" /\ wrlocked[current[t]]

Goto(t, label) == pc' = [pc EXCEPT ![t] = label]

-----------------------------------------------------------------------------
(* recv_request hands main_job a request; the response is zeroed (code OK,   *)
(* no payload: see Respond) and the switch on the method is taken.           *)
Receive(t) ==
  /\ pc[t] = "idle"
  /\ \E r \in Requests[t] :
       /\ req' = [req EXCEPT ![t] = r]
       /\ Goto(t, IF r.method = "GET" THEN "search"
                  ELSE IF r.method = "RST" THEN "reset_free" ELSE "lock")
  /\ UNCHANGED <<shared, current, item_head, resp, status>>

(* Faulty variant of Lock: the bucket mutex excludes nobody.                 *)
LockAnyway(t) ==
  /\ pc[t] = "lock"
  /\ locks' = [locks EXCEPT ![Bucket(t)] = t]
  /\ item_head' = [item_head EXCEPT ![t] = items[Bucket(t)]]
  /\ Goto(t, "search")
  /\ UNCHANGED <<ht, ht_fields, items, heap, wrlocked, readers, req, current,
                 resp, status>>

(* pthread_mutex_lock(&ht->locks[bucket]); get_key_entry then reads the head *)
(* (remove_item does not, and never looks at item_head)                      *)
Lock(t) ==
  /\ pc[t] = "lock"
  /\ locks[Bucket(t)] = NULL
  /\ locks' = [locks EXCEPT ![Bucket(t)] = t]
  /\ item_head' = [item_head EXCEPT ![t] = items[Bucket(t)]]
  /\ Goto(t, "search")
  /\ UNCHANGED <<ht, ht_fields, items, heap, wrlocked, readers, req, current,
                 resp, status>>

(* search: current = ht->items[bucket].  GET comes here without the mutex.   *)
Search(t) ==
  /\ pc[t] = "search"
  /\ current' = [current EXCEPT ![t] = items[Bucket(t)]]
  /\ Goto(t, "scan")
  /\ UNCHANGED <<shared, req, item_head, resp, status>>

(* search: strncmp on the current item; on a match the caller goes on        *)
Compare(t) ==
  /\ pc[t] = "scan" /\ current[t] # NULL
  /\ Goto(t, IF ~Matches(req[t].key, key[current[t]]) THEN "advance"
             ELSE IF Method(t) = "SET" THEN "unlock"
             ELSE IF Method(t) = "GET" THEN "tryrdlock" ELSE "trydel")
  /\ UNCHANGED <<shared, req, current, item_head, resp, status>>

(* Faulty variant of Advance: the search does not move on.                   *)
AdvanceNowhere(t) ==
  /\ pc[t] = "advance"
  /\ Goto(t, "scan")
  /\ UNCHANGED <<shared, req, current, item_head, resp, status>>

(* search: current = current->next                                           *)
Advance(t) ==
  /\ pc[t] = "advance"
  /\ current' = [current EXCEPT ![t] = next[current[t]]]
  /\ Goto(t, "scan")
  /\ UNCHANGED <<shared, req, item_head, resp, status>>

(* search returns NULL: SET makes an entry, GET and DEL answer KEY_ERROR.    *)
NotFound(t) ==
  /\ pc[t] = "scan" /\ current[t] = NULL
  /\ Goto(t, IF Method(t) = "SET" THEN "insert"
             ELSE IF Method(t) = "GET" THEN "respond" ELSE "unlock")
  /\ code' = [code EXCEPT ![t] = IF Method(t) = "SET" THEN @ ELSE "KEY_ERROR"]
  /\ UNCHANGED <<shared, req, current, item_head, msg, status>>

-----------------------------------------------------------------------------
(* Faulty variant of Insert: entry->next = item_head is forgotten.           *)
InsertDropsList(t) ==
  /\ pc[t] = "insert"
  /\ \E a \in Addrs \ allocated :
       /\ allocated' = allocated \cup {a}
       /\ key' = [key EXCEPT ![a] = req[t].key]
       /\ items' = [items EXCEPT ![Bucket(t)] = a]
       /\ current' = [current EXCEPT ![t] = a]
  /\ Goto(t, "unlock")
  /\ UNCHANGED <<ht, ht_fields, locks, value, value_size, wrlocked, readers,
                 next, prev, req, item_head, resp, status>>

(* get_key_entry: a zeroed entry at the head of the bucket.  The entry is    *)
(* private until the last store, ht->items[bucket] = entry.                  *)
Insert(t) ==
  /\ pc[t] = "insert"
  /\ \E a \in Addrs \ allocated :
       /\ allocated' = allocated \cup {a}
       /\ key' = [key EXCEPT ![a] = req[t].key]
       /\ value' = [value EXCEPT ![a] = NULL]
       /\ value_size' = [value_size EXCEPT ![a] = FALSE]
       /\ wrlocked' = [wrlocked EXCEPT ![a] = FALSE]
       /\ readers' = [readers EXCEPT ![a] = 0]
       /\ next' = [next EXCEPT ![a] = item_head[t]]
       /\ prev' = [x \in Addrs |-> IF x = a THEN NULL
                                   ELSE IF x = item_head[t] THEN a ELSE prev[x]]
       /\ items' = [items EXCEPT ![Bucket(t)] = a]
       /\ current' = [current EXCEPT ![t] = a]
  /\ Goto(t, "unlock")
  /\ UNCHANGED <<ht, ht_fields, locks, req, item_head, resp, status>>

(* Faulty variant of Unlock: remove_item gives up without it.                *)
UnlockOnlySet(t) ==
  /\ pc[t] = "unlock"
  /\ locks' = IF Method(t) = "SET" THEN [locks EXCEPT ![Bucket(t)] = NULL] ELSE locks
  /\ Goto(t, IF Method(t) = "SET" THEN "trywrlock" ELSE "respond")
  /\ UNCHANGED <<ht, ht_fields, items, heap, wrlocked, readers, req, current,
                 item_head, resp, status>>

(* pthread_mutex_unlock at the end of get_key_entry and where remove_item    *)
(* gives up; whoever the mutex belongs to, it is free afterwards.            *)
Unlock(t) ==
  /\ pc[t] = "unlock"
  /\ locks' = [locks EXCEPT ![Bucket(t)] = NULL]
  /\ Goto(t, IF Method(t) = "SET" THEN "trywrlock" ELSE "respond")
  /\ UNCHANGED <<ht, ht_fields, items, heap, wrlocked, readers, req, current,
                 item_head, resp, status>>

(* set_request: trywrlock on the entry, which the bucket mutex no longer     *)
(* protects; KEY_ERROR when somebody holds it.                               *)
TryWrLock(t) ==
  /\ pc[t] = "trywrlock"
  /\ \/ /\ LockFree(current[t])
        /\ wrlocked' = [wrlocked EXCEPT ![current[t]] = TRUE]
        /\ Goto(t, "malloc") /\ UNCHANGED code
     \/ /\ ~LockFree(current[t])
        /\ code' = [code EXCEPT ![t] = "KEY_ERROR"]
        /\ Goto(t, "respond") /\ UNCHANGED wrlocked
  /\ UNCHANGED <<table, heap, readers, req, current, item_head, msg, status>>

(* Faulty variant of Malloc: the message goes into the old buffer.           *)
MallocSkipped(t) ==
  /\ pc[t] = "malloc"
  /\ Goto(t, "copy")
  /\ UNCHANGED <<shared, req, current, item_head, resp, status>>

(* set_request: item->value = malloc(MSG_SIZE), with the old value_size      *)
Malloc(t) ==
  /\ pc[t] = "malloc"
  /\ value' = [value EXCEPT ![current[t]] = Garbage]
  /\ Goto(t, "copy")
  /\ UNCHANGED <<table, allocated, key, value_size, next, prev, wrlocked,
                 readers, req, current, item_head, resp, status>>

(* set_request: the message is copied, value_size set, and the answer is OK  *)
Copy(t) ==
  /\ pc[t] = "copy"
  /\ value' = [value EXCEPT ![current[t]] = req[t]]
  /\ value_size' = [value_size EXCEPT ![current[t]] = TRUE]
  /\ code' = [code EXCEPT ![t] = "OK"]
  /\ Goto(t, "wrunlock")
  /\ UNCHANGED <<table, allocated, key, next, prev, wrlocked, readers, req,
                 current, item_head, msg, status>>

(* pthread_rwlock_unlock(&item->rwlock), called by a holder of the lock: it  *)
(* ends the writer if there is one, and otherwise takes one reader off.  For *)
(* a caller that holds nothing see DelBusy.                                  *)
RwUnlock(a) ==
  /\ wrlocked' = [wrlocked EXCEPT ![a] = FALSE]
  /\ readers' = [readers EXCEPT ![a] = IF wrlocked[a] THEN @ ELSE @ - 1]

(* The end of set_request and of get_request.                                *)
ItemUnlock(t) ==
  /\ pc[t] \in {"wrunlock", "rdunlock"}
  /\ RwUnlock(current[t])
  /\ Goto(t, "respond")
  /\ UNCHANGED <<table, heap, req, current, item_head, resp, status>>

-----------------------------------------------------------------------------
(* Faulty variant of TryRdLock: its result is not looked at.                 *)
TryRdLockAnyway(t) ==
  /\ pc[t] = "tryrdlock"
  /\ readers' = [readers EXCEPT ![current[t]] = @ + 1]
  /\ Goto(t, "read")
  /\ UNCHANGED <<table, heap, wrlocked, req, current, item_head, resp, status>>

(* get_request: tryrdlock; KEY_ERROR when a writer holds the item.           *)
TryRdLock(t) ==
  /\ pc[t] = "tryrdlock"
  /\ \/ /\ ~wrlocked[current[t]]
        /\ readers' = [readers EXCEPT ![current[t]] = @ + 1]
        /\ Goto(t, "read") /\ UNCHANGED code
     \/ /\ wrlocked[current[t]]
        /\ code' = [code EXCEPT ![t] = "KEY_ERROR"]
        /\ Goto(t, "respond") /\ UNCHANGED readers
  /\ UNCHANGED <<table, heap, wrlocked, req, current, item_head, msg, status>>

(* get_request: OK, and value_size bytes of the value                        *)
Read(t) ==
  /\ pc[t] = "read"
  /\ code' = [code EXCEPT ![t] = "OK"]
  /\ msg' = [msg EXCEPT ![t] = IF value_size[current[t]]
                               THEN value[current[t]] ELSE NULL]
  /\ Goto(t, "rdunlock")
  /\ UNCHANGED <<shared, req, current, item_head, status>>

-----------------------------------------------------------------------------
(* remove_item: trywrlock on the item, under the bucket mutex                *)
TryDelLock(t) ==
  /\ pc[t] = "trydel"
  /\ wrlocked' = [wrlocked EXCEPT ![current[t]] = @ \/ LockFree(current[t])]
  /\ Goto(t, IF LockFree(current[t]) THEN "clear" ELSE "delbusy")
  /\ UNCHANGED <<table, heap, readers, req, current, item_head, resp, status>>

(* remove_item, the item is busy: it unlocks the rwlock it did not get.      *)
(* What that does is undefined.  If the lock is held by readers, glibc takes *)
(* one of them off; if by a writer, old versions end the writer, and newer   *)
(* ones, which compare the caller with the writer, corrupt the reader count  *)
(* (ForeignUnlock).                                                          *)
DelBusy(t) ==
  /\ pc[t] = "delbusy"
  /\ RwUnlock(current[t])
  /\ code' = [code EXCEPT ![t] = "KEY_ERROR"]
  /\ Goto(t, "unlock")
  /\ UNCHANGED <<table, heap, req, current, item_head, msg, status>>

(* remove_item: value and key are freed and set to NULL, value_size to 0,    *)
(* while the item is still in the list                                       *)
Clear(t) ==
  /\ pc[t] = "clear"
  /\ value' = [value EXCEPT ![current[t]] = NULL]
  /\ value_size' = [value_size EXCEPT ![current[t]] = FALSE]
  /\ key' = [key EXCEPT ![current[t]] = NULL]
  /\ Goto(t, "unlink")
  /\ UNCHANGED <<table, allocated, next, prev, wrlocked, readers, req, current,
                 item_head, resp, status>>

(* Faulty variant of Unlink: the head of the bucket is not updated.          *)
UnlinkKeepsHead(t) ==
  /\ pc[t] = "unlink"
  /\ LET c == current[t] IN
       /\ prev' = [x \in Addrs |-> IF x = next[c] THEN prev[c] ELSE prev[x]]
       /\ next' = [x \in Addrs |-> IF x = prev[c] THEN next[c] ELSE next[x]]
  /\ Goto(t, "free")
  /\ UNCHANGED <<table, allocated, key, value, value_size, wrlocked, readers,
                 req, current, item_head, resp, status>>

(* remove_item: the item leaves the doubly linked list of its bucket         *)
Unlink(t) ==
  /\ pc[t] = "unlink"
  /\ LET c == current[t] IN
       /\ prev' = [x \in Addrs |-> IF x = next[c] THEN prev[c] ELSE prev[x]]
       /\ next' = [x \in Addrs |-> IF x = prev[c] THEN next[c] ELSE next[x]]
       /\ items' = [items EXCEPT ![Bucket(t)] = IF @ = c THEN next[c] ELSE @]
  /\ Goto(t, "free")
  /\ UNCHANGED <<ht, ht_fields, locks, allocated, key, value, value_size,
                 wrlocked, readers, req, current, item_head, resp, status>>

(* remove_item: free(item), the mutex is released, and DEL answers OK.  What  *)
(* freed memory holds (a lock never released, too) is not kept: to read it is *)
(* a bad access, and calloc zeroes it.                                        *)
Free(t) ==
  /\ pc[t] = "free"
  /\ allocated' = allocated \ {current[t]}
  /\ next' = [next EXCEPT ![current[t]] = NULL]
  /\ prev' = [prev EXCEPT ![current[t]] = NULL]
  /\ wrlocked' = [wrlocked EXCEPT ![current[t]] = FALSE]
  /\ readers' = [readers EXCEPT ![current[t]] = 0]
  /\ locks' = [locks EXCEPT ![Bucket(t)] = NULL]
  /\ code' = [code EXCEPT ![t] = "OK"]
  /\ Goto(t, "respond")
  /\ UNCHANGED <<ht, ht_fields, items, key, value, value_size, req, current,
                 item_head, msg, status>>

-----------------------------------------------------------------------------
NoItems == [b \in Buckets |-> NULL]

(* init_hashtable on RST: the old table goes, its items are never freed.     *)
ResetFree(t) ==
  /\ pc[t] = "reset_free"
  /\ ht' = IF ht = "null" THEN "null" ELSE "freed"
  /\ ht_fields' = {} /\ items' = NoItems
  /\ Goto(t, "reset_ht")
  /\ UNCHANGED <<locks, heap, wrlocked, readers, req, current, item_head, resp,
                 status>>

(* init_hashtable: a zeroed table, of capacity 0 and without arrays          *)
ResetHt(t) ==
  /\ pc[t] = "reset_ht"
  /\ ht' = "live" /\ ht_fields' = {}
  /\ Goto(t, "reset_items")
  /\ UNCHANGED <<items, locks, heap, wrlocked, readers, req, current,
                 item_head, resp, status>>

(* init_hashtable: zeroed buckets, and then the capacity                     *)
ResetItems(t) ==
  /\ pc[t] = "reset_items"
  /\ items' = NoItems /\ ht_fields' = ht_fields \cup {"items"}
  /\ Goto(t, "reset_locks")
  /\ UNCHANGED <<ht, locks, heap, wrlocked, readers, req, current, item_head,
                 resp, status>>

(* init_hashtable: zeroed mutexes, whoever held the old ones; RST answers OK *)
ResetLocks(t) ==
  /\ pc[t] = "reset_locks"
  /\ locks' = [b \in Buckets |-> NULL] /\ ht_fields' = ht_fields \cup {"locks"}
  /\ code' = [code EXCEPT ![t] = "OK"]
  /\ Goto(t, "respond")
  /\ UNCHANGED <<ht, items, heap, wrlocked, readers, req, current, item_head,
                 msg, status>>

(* init_hashtable returns -1 with ht = NULL, or -2 or -3 with ht dangling;    *)
(* main_job ignores the result and answers OK.                               *)
ResetFail(t) ==
  /\ MayFail
  /\ pc[t] \in {"reset_ht", "reset_items", "reset_locks"}
  /\ ht' = IF pc[t] = "reset_ht" THEN "null" ELSE "freed"
  /\ ht_fields' = {} /\ items' = NoItems
  /\ oom' = TRUE
  /\ code' = [code EXCEPT ![t] = "OK"]
  /\ Goto(t, "respond")
  /\ UNCHANGED <<locks, heap, wrlocked, readers, req, current, item_head, msg,
                 fault>>

(* get_key_entry and set_request use what calloc and malloc return unchecked *)
AllocFail(t) ==
  /\ MayFail
  /\ pc[t] \in {"insert", "malloc"}
  /\ fault' = TRUE /\ oom' = TRUE
  /\ UNCHANGED <<shared, pc, req, current, item_head, resp>>

(* The response is sent and the worker waits for its next request.  Zeroing  *)
(* the response for that request is done here: nothing reads it in between.  *)
Respond(t) ==
  /\ pc[t] = "respond"
  /\ Goto(t, "idle")
  /\ req' = [req EXCEPT ![t] = NULL]
  /\ current' = [current EXCEPT ![t] = NULL]
  /\ item_head' = [item_head EXCEPT ![t] = NULL]
  /\ code' = [code EXCEPT ![t] = "OK"]
  /\ msg' = [msg EXCEPT ![t] = NULL]
  /\ UNCHANGED <<shared, status>>

(* A bad access: anything may happen, the model stops here.                  *)
Undefined(t) ==
  /\ BadAccess(t) \/ ForeignUnlock(t)
  /\ fault' = TRUE
  /\ UNCHANGED <<shared, pc, req, current, item_head, resp, oom>>

-----------------------------------------------------------------------------
SetGetStep(t) ==
  \/ Lock(t) \/ Search(t) \/ Compare(t) \/ Advance(t) \/ NotFound(t)
  \/ Insert(t) \/ Unlock(t) \/ TryWrLock(t) \/ Malloc(t) \/ Copy(t)
  \/ ItemUnlock(t) \/ TryRdLock(t) \/ Read(t) \/ Respond(t)

DelStep(t) == TryDelLock(t) \/ DelBusy(t) \/ Clear(t) \/ Unlink(t) \/ Free(t)

ResetStep(t) ==
  ResetFree(t) \/ ResetHt(t) \/ ResetItems(t) \/ ResetLocks(t) \/ ResetFail(t)

(* Executing a request, as opposed to waiting for one                        *)
Work(t) ==
  /\ ~fault
  /\ \/ Undefined(t)
     \/ ~BadAccess(t) /\ (SetGetStep(t) \/ DelStep(t) \/ ResetStep(t)
                          \/ AllocFail(t))

Next == \E t \in Workers : (~fault /\ Receive(t)) \/ Work(t)

Spec == Init /\ [][Next]_vars

(* The operating system keeps running every thread that can run.             *)
FairSpec == Spec /\ \A t \in Workers : WF_vars(Work(t))

-----------------------------------------------------------------------------
(***************************************************************************)
(* Properties.                                                             *)
(***************************************************************************)
WritePCs == {"malloc", "copy", "wrunlock"}
DelPCs   == {"clear", "unlink", "free"}
ReadPCs  == {"read", "rdunlock"}

(* No request makes the server touch memory that is not there: every         *)
(* dereference of search, get_key_entry, remove_item, set_request and        *)
(* get_request is of a live item, a live key, a live buffer and a live table. *)
NoFault == ~fault

(* The only way into undefined behaviour is an allocation that failed before *)
(* (get_key_entry, set_request and RST do not check for it).                 *)
FaultOnlyAfterOom == fault => oom

(* The item rwlock isolates set_request and remove_item: while one worker is *)
(* between its trywrlock and its unlock or free, no other worker reads or     *)
(* writes that item.                                                         *)
ItemIsolation ==
  \A t, u \in Workers :
    (t # u /\ current[t] # NULL /\ current[t] = current[u])
      => ~ /\ pc[t] \in WritePCs \cup DelPCs
           /\ pc[u] \in WritePCs \cup DelPCs \cup ReadPCs

(* A payload that get_request returns is one message, complete, and it was   *)
(* SET under the very key the GET asked for.                                 *)
PayloadIntact ==
  \A t \in Workers :
    (pc[t] = "respond" /\ msg[t] # NULL)
      => msg[t] \in Request /\ msg[t].key = req[t].key

(* A GET that is answered OK carries the value requested.                     *)
GetCarriesValue ==
  \A t \in Workers :
    (pc[t] = "respond" /\ Method(t) = "GET" /\ code[t] = "OK") => msg[t] # NULL

(* The items that a walk along the pointers nx meets, from address a on: the *)
(* least set that has a, unless it is NULL, and is closed under nx.          *)
Closed(S, nx) == \A x \in S : nx[x] \in OrNull(S)
Reach(a, nx)  == {x \in Addrs : \A S \in SUBSET Addrs :
                                  (a \in OrNull(S) /\ Closed(S, nx)) => x \in S}
ReachFrom(a)  == Reach(a, next)
Chain(b)      == ReachFrom(items[b])

(* Whenever nobody holds a bucket's mutex its list is a proper doubly linked *)
(* list of live items that hash to that bucket: it ends, and next and prev    *)
(* of neighbours agree.                                                      *)
ChainOK ==
  \A b \in Buckets : (locks[b] = NULL /\ ItemsThere) =>
    /\ items[b] # NULL =>
         prev[items[b]] = NULL /\ \E a \in Chain(b) : next[a] = NULL
    /\ \A a \in Chain(b) :
         /\ a \in allocated
         /\ key[a] # NULL /\ BucketOf[key[a]] = b
         /\ next[a] # NULL => prev[next[a]] = a

(* A bucket never has two entries for one key: a SET that finds no entry     *)
(* inserts one only if no other SET did so since it looked.                  *)
UniqueKeys ==
  \A b \in Buckets : \A a, c \in Chain(b) :
    (a # c /\ key[a] # NULL) => key[a] # key[c]

(* No insertion or removal loses an entry: every allocated item is in the    *)
(* list of a bucket, or is held by the DEL that has just unlinked it.        *)
NoLostItem ==
  allocated \subseteq (UNION {Chain(b) : b \in Buckets})
                      \cup {current[t] : t \in {u \in Workers : pc[u] = "free"}}

(* get_request takes no lock it could wait for: every GET is answered.       *)
GetCompletes ==
  \A t \in Workers :
    (pc[t] = "search" /\ Method(t) = "GET") ~> (pc[t] = "respond")

(* Every path through get_key_entry and remove_item gives the mutex back:    *)
(* found, not found, busy and removed; unless a bad access comes first.      *)
MutexReleased ==
  \A t \in Workers, b \in Buckets : (locks[b] = t) ~> (locks[b] # t \/ fault)

-----------------------------------------------------------------------------
(***************************************************************************)
(* The inductive invariant of a server that is sent only SET and GET        *)
(* requests and never runs out of memory.                                   *)
(***************************************************************************)
SetGetOnly == \A t \in Workers : \A r \in Requests[t] :
                 r.method \in {"SET", "GET"}

SetPCs  == {"lock", "insert", "unlock", "trywrlock"} \cup WritePCs
GetPCs  == {"tryrdlock"} \cup ReadPCs
HoldPCs == {"unlock", "trywrlock", "tryrdlock"} \cup WritePCs \cup ReadPCs

Writes(t, a) == pc[t] \in WritePCs /\ current[t] = a
ReadersOf(a) == {t \in Workers : pc[t] \in ReadPCs /\ current[t] = a}

InvTable == ht = "live" /\ ht_fields = {"items", "locks"} /\ fault = FALSE

InvControl ==
  \A t \in Workers :
    /\ pc[t] \in {"idle", "search", "scan", "advance", "respond"}
                   \cup SetPCs \cup GetPCs
    /\ pc[t] = "idle" <=> req[t] = NULL
    /\ req[t] # NULL => req[t].method \in {"SET", "GET"}
    /\ pc[t] \in SetPCs => req[t].method = "SET"
    /\ pc[t] \in GetPCs => req[t].method = "GET"

(* No pointer dangles, and whoever works on an item has one.                 *)
InvPointers ==
  /\ \A b \in Buckets : items[b] \in OrNull(allocated)
  /\ \A a \in allocated : next[a] \in OrNull(allocated) /\ key[a] \in Keys
  /\ \A t \in Workers :
       /\ current[t] \in OrNull(allocated)
       /\ item_head[t] \in OrNull(allocated)
       /\ pc[t] \in HoldPCs \cup {"advance"} => current[t] # NULL

(* The state of an item's rwlock says who is working on the item.            *)
InvRwlock ==
  /\ \A a \in Addrs : wrlocked[a] <=> \E t \in Workers : Writes(t, a)
  /\ \A a \in Addrs : \A t, u \in Workers :
       Writes(t, a) /\ Writes(u, a) => t = u
  /\ \A a \in Addrs : readers[a] = Cardinality(ReadersOf(a))
  /\ \A a \in Addrs : wrlocked[a] => readers[a] = 0

(* A buffer is garbage only while its writer is about to fill it.            *)
InvValue ==
  /\ \A a \in Addrs : value[a] = Garbage =>
                         \E t \in Workers : pc[t] = "copy" /\ current[t] = a
  /\ \A a \in Addrs : value_size[a] => value[a] # NULL
  /\ \A t \in Workers : pc[t] = "copy" => value[current[t]] # NULL

(* A request, and a message, only meet an entry whose key their key matches. *)
InvKey ==
  /\ \A t \in Workers : pc[t] \in HoldPCs =>
                             Matches(req[t].key, key[current[t]])
  /\ \A a \in allocated : value[a] \in Request =>
                             Matches(value[a].key, key[a])
  /\ \A t \in Workers : msg[t] # NULL =>
       /\ pc[t] \in {"rdunlock", "respond"}
       /\ msg[t] \in Request
       /\ \E k \in Keys : Matches(msg[t].key, k) /\ Matches(req[t].key, k)

(* The inductive invariant: it implies NoFault, ItemIsolation and, when no   *)
(* key is a proper prefix of another, PayloadIntact.                         *)
IInv == /\ TypeOK /\ InvTable /\ InvControl /\ InvPointers
        /\ InvRwlock /\ InvValue /\ InvKey
=============================================================================
