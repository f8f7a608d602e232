-------------------------------- MODULE KVMap --------------------------------
(***************************************************************************)
(* What the key-value server promises its clients: a map from keys to       *)
(* messages on which every request takes effect at one instant between its  *)
(* call and its return.  A SET stores its message, a GET that is answered OK *)
(* gets the message stored, and a request for a key with no message is       *)
(* answered KEY_ERROR.  The locks of the implementation are only ever tried, *)
(* so a request may also be refused with KEY_ERROR, but only because another *)
(* request for the same key is under way.                                    *)
(*                                                                          *)
(* The code does not keep that promise when requests overlap: a SET enters a *)
(* new key in the table before it stores a message, and a GET that finds     *)
(* such an entry is answered OK with nothing.  This is the action Unwritten. *)
(* With Gaps = FALSE it is left out, and the map is exact: made, the keys    *)
(* entered, then has no influence on any response.                          *)
(***************************************************************************)
CONSTANTS Workers, Keys, Requests, NULL, Absent,
          Gaps  \* whether a key that was entered but never written is found

VARIABLES store,    \* the message stored under each key, or Absent
          made,     \* the keys that were entered, written or not
          pending,  \* the request each worker executes, or NULL
          answer    \* its response once the request took effect, else NULL

vars == <<store, made, pending, answer>>

Init ==
  /\ store = [k \in Keys |-> Absent]
  /\ made = {}
  /\ pending = [t \in Workers |-> NULL]
  /\ answer = [t \in Workers |-> NULL]

Undecided(t) == pending[t] # NULL /\ answer[t] = NULL
Is(t, method) == pending[t].method = method
Key(t) == pending[t].key
Decide(t, code, msg) ==
  answer' = [answer EXCEPT ![t] = [code |-> code, msg |-> msg]]

Call(t) ==
  /\ pending[t] = NULL
  /\ \E r \in Requests[t] : pending' = [pending EXCEPT ![t] = r]
  /\ UNCHANGED <<store, made, answer>>

(* A SET enters its key.  It may be refused afterwards.                      *)
Enter(t) ==
  /\ Undecided(t) /\ Is(t, "SET")
  /\ made' = made \cup {Key(t)}
  /\ UNCHANGED <<store, pending, answer>>

Write(t) ==
  /\ Undecided(t) /\ Is(t, "SET")
  /\ store' = [store EXCEPT ![Key(t)] = pending[t]]
  /\ made' = made \cup {Key(t)}
  /\ Decide(t, "OK", NULL)
  /\ UNCHANGED pending

Hit(t) ==
  /\ Undecided(t) /\ Is(t, "GET")
  /\ store[Key(t)] # Absent
  /\ Decide(t, "OK", store[Key(t)])
  /\ UNCHANGED <<store, made, pending>>

(* The gap: OK without a message, for a key entered and not yet written.     *)
Unwritten(t) ==
  /\ Gaps
  /\ Undecided(t) /\ Is(t, "GET")
  /\ store[Key(t)] = Absent /\ Key(t) \in made
  /\ Decide(t, "OK", NULL)
  /\ UNCHANGED <<store, made, pending>>

Miss(t) ==
  /\ Undecided(t) /\ (Is(t, "GET") \/ Is(t, "DEL"))
  /\ store[Key(t)] = Absent
  /\ Decide(t, "KEY_ERROR", NULL)
  /\ UNCHANGED <<store, made, pending>>

(* A refusal needs a rival on the same key.                                  *)
Busy(t) ==
  /\ Undecided(t) /\ ~Is(t, "RST")
  /\ \E u \in Workers \ {t} : pending[u] # NULL /\ Key(u) = Key(t)
  /\ Decide(t, "KEY_ERROR", NULL)
  /\ UNCHANGED <<store, made, pending>>

Delete(t) ==
  /\ Undecided(t) /\ Is(t, "DEL")
  /\ store[Key(t)] # Absent
  /\ store' = [store EXCEPT ![Key(t)] = Absent]
  /\ made' = made \ {Key(t)}
  /\ Decide(t, "OK", NULL)
  /\ UNCHANGED pending

Reset(t) ==
  /\ Undecided(t) /\ Is(t, "RST")
  /\ store' = [k \in Keys |-> Absent]
  /\ made' = {}
  /\ Decide(t, "OK", NULL)
  /\ UNCHANGED pending

Return(t) ==
  /\ answer[t] # NULL
  /\ pending' = [pending EXCEPT ![t] = NULL]
  /\ answer' = [answer EXCEPT ![t] = NULL]
  /\ UNCHANGED <<store, made>>

Next == \E t \in Workers :
          \/ Call(t) \/ Enter(t) \/ Write(t) \/ Hit(t) \/ Unwritten(t)
          \/ Miss(t) \/ Busy(t) \/ Delete(t) \/ Reset(t) \/ Return(t)

Spec == Init /\ [][Next]_vars
=============================================================================
