-------------------------- MODULE RequestResponse --------------------------
(***************************************************************************)
(* What a connection of the key-value store promises, whatever carries it: *)
(* the client makes one call at a time, the server carries it out exactly  *)
(* once, and only then does the call return.  The promise holds while the  *)
(* connection is sound; what makes it unsound (a client that died, a       *)
(* broken queue pair, a message cut in two) is for the refinement to say.  *)
(***************************************************************************)
EXTENDS Naturals

VARIABLES called,    \* calls the client has made
          done,      \* requests the server has carried out
          returned,  \* calls that have returned
          sound

vars == <<called, done, returned, sound>>

Init == called = 0 /\ done = 0 /\ returned = 0 /\ sound = TRUE

Call ==
  /\ returned = called
  /\ called' = called + 1
  /\ UNCHANGED <<done, returned>>

Do ==
  /\ done < called
  /\ done' = done + 1
  /\ UNCHANGED <<called, returned>>

Return ==
  /\ returned < called /\ done = called
  /\ returned' = returned + 1
  /\ UNCHANGED <<called, done>>

(* Once it is not sound a connection stays so, and promises nothing.       *)
Next == \/ sound /\ sound' /\ (Call \/ Do \/ Return)
        \/ ~sound'

Spec == Init /\ [][Next]_vars
=============================================================================
