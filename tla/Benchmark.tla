------------------------------ MODULE Benchmark ------------------------------
(***************************************************************************)
(* The benchmark and the server together: main of benchmark.c creates a    *)
(* thread per client, each runs start_instance, connects (see Connect) and *)
(* does its share of the operations; main joins the threads in order and   *)
(* reports what they did.  Others connect to the server from elsewhere,    *)
(* and leave, at any time.                                                 *)
(*                                                                         *)
(* main hands every thread the same struct thread_args, of which only      *)
(* instance_nr differs, and sleeps for 0.1 s before it writes it for the   *)
(* next. When prompt, the sleep is long enough for what it is meant for:   *)
(* the thread has read its arguments and its connection is established.    *)
(* After the loop the struct is out of scope, and a thread that reads it   *)
(* finds its last content or anything else (N); only instance_nr is        *)
(* followed.                                                               *)
(*                                                                         *)
(* An operation is one step: it ends when the client's worker is there,    *)
(* since Session and TcpSession show that operations end (over UD the      *)
(* workers share the requests of all clients, see DgramServer).  Over UC   *)
(* and UD it may also fail (Session: a full receive queue), over RC when   *)
(* the server is down. pthread_create succeeds.                            *)
(***************************************************************************)
EXTENDS Connect

CONSTANTS N,       \* clients: threads of the benchmark, 0 .. N-1
          Others,  \* other clients of the server
          NumOps,  \* values of the option num_ops
          Sleeps   \* whether the sleep of main is long enough

Threads == 0 .. N-1

ASSUME ThreadsAssumption == N \in Nat \ {0} /\ Clients = Threads \cup Others
ASSUME OthersAssumption  == Others \cap Threads = {} /\ NumOps \subseteq Nat
ASSUME SleepsAssumption  == Sleeps \subseteq BOOLEAN

VARIABLES
  num_ops, prompt,
  mpc, i,       \* main: control, and the thread it creates or joins
  args,         \* args.instance_nr, on the stack of main
  ipc,          \* control of each thread
  instance_nr,  \* of each thread
  count,        \* operations each thread has finished
  cut,          \* the threads that returned from an operation that failed
  reported      \* data_processing: operations reported for each thread

options   == <<num_ops, prompt>>
main      == <<mpc, i, args, reported>>
instances == <<ipc, instance_nr, count, cut>>
vars      == <<connVars, options, main, instances>>

Share == num_ops \div N   \* args.num_ops

(***************************************************************************)
(* Types of the variables.                                                 *)
(***************************************************************************)
TypeOK ==
  /\ ConnTypeOK
  /\ num_ops \in NumOps /\ prompt \in Sleeps
  /\ mpc \in {"create", "sleep", "join", "done"} /\ i \in Threads
  /\ args \in Threads
  /\ ipc \in [Threads -> {"off", "created", "started", "returned"}]
  /\ instance_nr \in [Threads -> 0 .. N \cup {None}]
  /\ count \in [Threads -> Nat] /\ cut \subseteq Threads
  /\ reported \in [Threads -> Nat]

Init ==
  /\ ConnInit
  /\ num_ops \in NumOps /\ prompt \in Sleeps
  /\ mpc = "create" /\ i = 0 /\ args = 0
  /\ ipc = [t \in Threads |-> "off"]
  /\ instance_nr = [t \in Threads |-> None]
  /\ count = [t \in Threads |-> 0] /\ cut = {}
  /\ reported = [t \in Threads |-> 0]

-----------------------------------------------------------------------------
(* main fills in args and creates thread i ...                             *)
Create ==
  /\ mpc = "create"
  /\ args' = i
  /\ ipc' = [ipc EXCEPT ![i] = "created"]
  /\ mpc' = "sleep"
  /\ UNCHANGED <<connVars, options, i, reported, instance_nr, count, cut>>

(* What the sleep is for: the server has what it needs of thread i.        *)
Settled(t) ==
  \/ cst[t] = "failed"
  \/ cst[t] = "connected" /\ (type = "RC" => id[t] = "established")

(* Faulty variant of Awake: main goes on as soon as it has created a       *)
(* thread.                                                                 *)
AwakeAtOnce ==
  /\ mpc = "sleep"
  /\ \/ i < N - 1 /\ i' = i + 1 /\ mpc' = "create"
     \/ i = N - 1 /\ i' = 0 /\ mpc' = "join"
  /\ UNCHANGED <<connVars, options, args, reported, instances>>

(* ... sleeps, and goes on.                                                *)
Awake ==
  /\ mpc = "sleep" /\ (prompt => Settled(i))
  /\ \/ i < N - 1 /\ i' = i + 1 /\ mpc' = "create"
     \/ i = N - 1 /\ i' = 0 /\ mpc' = "join"
  /\ UNCHANGED <<connVars, options, args, reported, instances>>

(* data_processing counts the operations whose time stamps are allocated,  *)
(* which the one that failed has, too; there are none if connecting        *)
(* failed.                                                                 *)
Counted(t) ==
  LET n == count[t] + (IF t \in cut THEN 1 ELSE 0)
  IN IF n < Share THEN n ELSE Share

(* main waits for the threads, in order, and processes what each returned. *)
Join ==
  /\ mpc = "join" /\ ipc[i] = "returned"
  /\ reported' = [reported EXCEPT ![i] = Counted(i)]
  /\ \/ i < N - 1 /\ i' = i + 1 /\ UNCHANGED mpc
     \/ i = N - 1 /\ mpc' = "done" /\ UNCHANGED i
  /\ UNCHANGED <<connVars, options, args, instances>>

-----------------------------------------------------------------------------
(* start_instance reads its arguments ...                                  *)
Start(t) ==
  /\ ipc[t] = "created"
  /\ ipc' = [ipc EXCEPT ![t] = "started"]
  /\ \E nr \in IF mpc \in {"join", "done"} THEN {args, N} ELSE {args} :
       instance_nr' = [instance_nr EXCEPT ![t] = nr]
  /\ UNCHANGED <<connVars, options, main, count, cut>>

(* ... and connects; if that fails it returns NULL ...                     *)
ConnectThread(t) ==
  /\ ipc[t] = "started" /\ (Connect(t) \/ Connecting(t))
  /\ UNCHANGED <<options, main, instances>>

ConnectFailed(t) ==
  /\ ipc[t] = "started" /\ cst[t] = "failed"
  /\ ipc' = [ipc EXCEPT ![t] = "returned"]
  /\ UNCHANGED <<connVars, options, main, instance_nr, count, cut>>

(* Faulty variant of Operation: one operation too many.                    *)
OperationBeyond(t) ==
  /\ ipc[t] = "started" /\ cst[t] = "connected" /\ t \in Range(workers)
  /\ count' = [count EXCEPT ![t] = @ + 1]
  /\ ipc' = [ipc EXCEPT ![t] = IF count[t] + 1 <= Share THEN @ ELSE "returned"]
  /\ UNCHANGED <<connVars, options, main, instance_nr, cut>>

(* ... or does one operation after the other, at least one, ...            *)
Operation(t) ==
  /\ ipc[t] = "started" /\ cst[t] = "connected" /\ t \in Range(workers)
  /\ apc # "crashed"
  /\ count' = [count EXCEPT ![t] = @ + 1]
  /\ ipc' = [ipc EXCEPT ![t] = IF count[t] + 1 < Share THEN @ ELSE "returned"]
  /\ UNCHANGED <<connVars, options, main, instance_nr, cut>>

(* ... and returns at once from one that fails.                            *)
OperationFails(t) ==
  /\ ipc[t] = "started" /\ cst[t] = "connected"
  /\ OverSocket \/ apc = "crashed"
  /\ cut' = cut \cup {t}
  /\ ipc' = [ipc EXCEPT ![t] = "returned"]
  /\ UNCHANGED <<connVars, options, main, instance_nr, count>>

Thread(t) == \/ Start(t) \/ ConnectThread(t) \/ ConnectFailed(t) \/ Operation(t)
             \/ OperationFails(t)

Main == Create \/ Awake \/ Join

(* The server and the connection manager.                                  *)
Server == Accept /\ UNCHANGED <<options, main, instances>>
Managed(c) == Manager(c) /\ UNCHANGED <<options, main, instances>>

(* Other clients come and go.  The threads go when the process has ended.  *)
Come(c)  == Connect(c) /\ UNCHANGED <<options, main, instances>>
Other(c) == Connecting(c) /\ UNCHANGED <<options, main, instances>>
Go(c)    == /\ Die(c) /\ (c \in Threads => mpc = "done")
            /\ UNCHANGED <<options, main, instances>>

Next == \/ Main \/ Server
        \/ \E t \in Threads : Thread(t)
        \/ \E c \in Others : Come(c) \/ Other(c)
        \/ \E c \in Clients : Managed(c) \/ Go(c)

Spec == Init /\ [][Next]_vars

(* All threads run, and the connection manager delivers.  Nobody need      *)
(* come, go or fail.                                                       *)
FairSpec ==
  /\ Spec /\ WF_vars(Main) /\ WF_vars(Server)
  /\ \A t \in Threads : WF_vars(Start(t) \/ ConnectThread(t) \/ ConnectFailed(t)
                                \/ Operation(t))
  /\ \A c \in Others : WF_vars(Other(c))
  /\ \A c \in Clients : WF_vars(Managed(c))

-----------------------------------------------------------------------------
(***************************************************************************)
(* Properties.                                                             *)
(***************************************************************************)
Alone == \A c \in Others : cst[c] = "new"

(* What main sleeps for, "to not interfere with connection                 *)
(* establishments": if the sleep is long enough and nobody else connects,  *)
(* no connection is disturbed by the next, and the n-th connection the     *)
(* server accepts, at which it answers instance n over UD, is that of      *)
(* instance n: threads read distinct numbers from the struct they share,   *)
(* and are accepted in that order.                                         *)
SleepSuffices ==
  (prompt /\ Alone) =>
    /\ disturbed = {}
    /\ \A k \in 1..Len(workers) : instance_nr[workers[k]] = k - 1

(* The benchmark ends, unless the server is brought down or one of the     *)
(* benchmark's connections was disturbed: then its thread may wait for     *)
(* ever, and main with it.                                                 *)
BenchmarkEnds ==
  (mpc = "create") ~> (mpc = "done" \/ disturbed \cap Threads # {}
                       \/ apc = "crashed")

(* What data_processing prints for each client is what its thread did,     *)
(* whatever num_ops leaves over when it is divided by the clients, and     *)
(* whether or not the thread failed; but for the operation that failed,    *)
(* which is counted, and for the one that a thread does although its share *)
(* is zero, which is not.  A thread whose connection and operations did    *)
(* not fail did its share: num_ops \div N operations, not the num_ops      *)
(* "per client" of the usage text (benchmark.c:20), and the total that     *)
(* main prints in the end is the option, not a count.                      *)
ReportExact ==
  mpc = "done" => \A t \in Threads :
    /\ reported[t] = IF Share = 0 THEN 0
                     ELSE count[t] + (IF t \in cut THEN 1 ELSE 0)
    /\ IF cst[t] = "failed" THEN count[t] = 0
       ELSE t \notin cut => count[t] = (IF Share = 0 THEN 1 ELSE Share)
=============================================================================
