--------------------------- MODULE HashTableRefines ---------------------------
(***************************************************************************)
(* The hash table of the server implements the map of KVMap.                *)
(*                                                                          *)
(* A SET takes effect when it replaces the buffer under the item's write    *)
(* lock, a GET when it reads under the read lock or, if it finds nothing,    *)
(* when it starts down a list that does not hold its key, a DEL when it      *)
(* clears the key, and an RST when it drops the old table.                  *)
(***************************************************************************)
EXTENDS HashTable

CONSTANTS Absent,
          Gaps  \* see KVMap

Answers == [code : {"OK", "KEY_ERROR"}, msg : OrNull(Request \cup {Garbage})]

ASSUME MarkAssumption == /\ NULL \notin Answers
                         /\ Absent \notin OrNull(Request \cup {Garbage})
ASSUME GapsAssumption == Gaps \in BOOLEAN

(* The one member of a set that has one                                      *)
Only(S) == CHOOSE x \in S : TRUE

(* The entries of a key that are linked into its bucket                      *)
Entries(k) == {a \in Chain(BucketOf[k]) : key[a] = k}

Made == {k \in Keys : Entries(k) # {}}

(* The SETs that have replaced the buffer of item a and are filling it       *)
Filling(a) == {t \in Workers : current[t] = a /\ pc[t] = "copy"}

(* An entry that was made and never written holds nothing.                   *)
StoreOf(k) ==
  IF Entries(k) = {} THEN Absent
  ELSE LET a == Only(Entries(k))
       IN  IF Filling(a) # {} THEN req[Only(Filling(a))]
           ELSE IF value_size[a] THEN value[a] ELSE Absent

(* What is left of the list that worker t is searching holds its key.        *)
WillFind(t) ==
  \E a \in ReachFrom(IF pc[t] = "scan" THEN current[t] ELSE next[current[t]]) :
     Matches(req[t].key, key[a])

AnswerOf(t) ==
  LET ok(m) == [code |-> "OK", msg |-> m]
      no    == [code |-> "KEY_ERROR", msg |-> NULL]
  IN  CASE pc[t] \in {"copy", "wrunlock"} -> ok(NULL)
        [] pc[t] = "rdunlock" -> ok(msg[t])
        [] pc[t] \in {"scan", "advance"} /\ Method(t) # "SET" ->
             IF WillFind(t) THEN NULL ELSE no
        [] pc[t] = "unlock" /\ Method(t) = "DEL" -> no
        [] pc[t] \in {"unlink", "free"} -> ok(NULL)
        [] pc[t] \in {"reset_ht", "reset_items", "reset_locks"} -> ok(NULL)
        [] pc[t] = "respond" -> [code |-> code[t], msg |-> msg[t]]
        [] OTHER -> NULL

Map == INSTANCE KVMap WITH
         store   <- [k \in Keys |-> StoreOf(k)],
         made    <- Made,
         pending <- req,
         answer  <- [t \in Workers |-> AnswerOf(t)]

(* Every response of set_request, get_request, del_request and RST, and the  *)
(* order in which their effects are seen, is one the map allows: the exact    *)
(* map with Gaps = FALSE, and with Gaps = TRUE the one that also answers OK   *)
(* for an entry that get_key_entry has made and no SET has written.           *)
ImplementsMap == Map!Spec
=============================================================================
