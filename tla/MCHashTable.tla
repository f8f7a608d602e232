----------------------------- MODULE MCHashTable -----------------------------
(***************************************************************************)
(* Small instances of the hash table for TLC.  Keys k1 and k2 share bucket   *)
(* b1, k3 is alone in b2.                                                   *)
(***************************************************************************)
EXTENDS HashTableRefines, TLC

CONSTANTS k1, k2, k3, b1, b2, w1, w2, m1, m2

(* Addresses are interchangeable, and so are workers with equal requests.    *)
AddrSymmetry == Permutations(Addrs)
Symmetry == Permutations(Addrs) \cup Permutations(Workers)

MCBucketOf == [k \in Keys |-> IF k = k3 THEN b2 ELSE b1]

(* No key is a proper prefix of another; or k1 is a prefix of k2.            *)
ExactKeys  == {<<k, k>> : k \in Keys}
PrefixKeys == ExactKeys \cup {<<k1, k2>>}

Ask(methods, keys, msgs) ==
       [method : methods \cap {"SET"}, key : keys, msg : msgs]
  \cup [method : methods \ {"SET"}, key : keys, msg : {CHOOSE m \in msgs : TRUE}]

(* Every worker GETs every key and SETs it to a message of its own.          *)
SetGetRequests == [t \in Workers |->
  Ask({"SET", "GET"}, Keys, IF t = w1 THEN {m1} ELSE {m2})]

(* Both workers SET both keys and DEL k1; w1 also DELs k2, and w2 GETs k1.   *)
SetGetDelRequests == [t \in Workers |->
  Ask({"SET"}, Keys, Msgs) \cup Ask({"DEL"}, {k1}, Msgs)
    \cup IF t = w1 THEN Ask({"DEL"}, {k2}, Msgs) ELSE Ask({"GET"}, {k1}, Msgs)]

(* One worker sends every request there is.                                  *)
AllRequests == [t \in Workers |-> Ask({"SET", "GET", "DEL"}, Keys, Msgs)
                                   \cup Ask({"RST"}, {k1}, {m1})]

(* Each worker keeps to a key of its own in the same bucket; w1 also DELs.   *)
OwnKeyRequests == [t \in Workers |->
  IF t = w1 THEN Ask({"SET", "DEL"}, {k1}, Msgs)
            ELSE Ask({"SET", "GET"}, {k2}, Msgs)]
=============================================================================
