# A verification of the RDMA key-value store in TLA+

This directory models the multithreaded key-value server of the repository
(`src/src/server`), its transports (`src/src/rdma_common.c` and the
`*_server_utils.c`), and the clients of its benchmark (`src/src/client`,
`src/src/benchmarking`). Every module is translated from the code; TLC checks
it on small instances, and TLAPS proves the central safety properties for every
value of the constants.

## 1. The system

| Component | State | Operations | Hard part |
|---|---|---|---|
| Hash table (`hash.c`) | 1024 buckets, each a doubly linked list of items; a mutex per bucket, a rwlock per item | `init_hashtable`, `search`, `get_key_entry`, `remove_item` | threads in one list, `search` without the mutex, freed items |
| Request execution (`kvstore.c`) | the response of each worker | `set_request`, `get_request`, `del_request`, RST | entry used after the mutex is released; tried locks |
| Worker loop (`main_job`, `server_utils.c`) | `request_count`, ring of request buffers | prepare, receive, dispatch, ready, execute, send | which buffer holds the request; when it may be overwritten |
| Dispatcher (`request_dispatcher.c`) | none | answers PING, UNK, SETOPT, EXIT | `main_job` answers them a second time |
| UD server (`ud_server_utils.c`) | one queue pair, ring of 1024 buffers, two completion queues, a lock, attributes and address handles of all clients | accept, receive, post, send | all workers share all of it |
| RC and UC server (`rc_`, `uc_server_utils.c`) | per client: queue pair, ring of 5 buffers, one completion queue | accept, receive, post, send | sends and receives complete in one queue; broken queue pair |
| Completions (`rdma_common.c`) | completion queue, event channel | poll, block, time out | one event for several completions |
| Clients (`client/`, `instance.c`) | request and response buffer, posted receives | `send_request`, `receive_response`, retry loop | late responses, retries |
| TCP (`tcp_*_utils.c`) | a socket per client | accept, select, read, write | idle timeout, messages that arrive in pieces, end of stream |
| Accepting (`main` of `kvstore.c`, `*_accept_new_connection`) | listening socket or event channel, the connection being made | wait, prepare, accept, establish, start worker | one thread and one channel for all clients; clients that go away in between |
| Benchmark (`benchmark.c`) | threads, argument struct, results | create, sleep, join, report | shared struct, order of connecting, threads that never return |

How they interact. `main` builds the table, then accepts connections, one after
the other, and starts one worker thread for each. A worker waits for a
completion (RDMA) or a socket (TCP), looks at the buffer at `request_count`,
lets the dispatcher answer what needs no table, executes the rest on the shared
table and sends one response. A benchmark client sends a request, waits until
the send completes, posts its response buffer, waits for a completion, and goes
on; over UC and UD it starts over when nothing came for 100 ms. The benchmark's
`main` starts such a client in each of its threads, 0.1 s apart, joins them and
prints what they did.

What makes each part correct: the table behaves like one map on which requests
are atomic, no thread touches memory that is gone, and locks are given back;
each worker executes each request once, from a buffer nobody overwrites, and
its response goes to the client that asked; a client that goes on has the
response to what it asked; queues do not overrun, and every operation ends;
every client that connects gets a worker, whatever others do meanwhile.
`PROJECT.json` lists the hazards at the lines where they bite.

## 2. Modules

| Module | What it is |
|---|---|
| `HashTable` | table, item memory, locks and the four requests, for any number of workers |
| `KVMap` | abstract specification: an atomic map whose requests may be refused when there is a rival on the same key |
| `HashTableRefines` | the refinement mapping from `HashTable` to `KVMap` |
| `HashTableProofs` | theorems about `HashTable` with SET and GET |
| `ChainProofs` | theorems about the lists of `HashTable`, with all requests and failing allocations |
| `MapProofs` | theorems that `HashTable` implements `KVMap` |
| `DgramServer` | the UD server: shared ring, completion queues, lock, accept |
| `DgramServerProofs` | theorems about `DgramServer` |
| `Session` | one RC or UC connection: benchmark client, worker and the two adapters |
| `TcpSession` | one TCP connection: benchmark client, worker and the two byte streams |
| `SessionProofs` | theorems about `Session` |
| `TcpProofs` | theorems about `TcpSession` |
| `RequestResponse` | abstract specification of a connection: one call at a time, carried out exactly once before it returns; `Session` (RC) and `TcpSession` implement it |
| `Connect` | the accept loop of the server and the connecting clients, over all four transports |
| `Benchmark` | composes `Connect` with the benchmark's `main` and its threads |
| `BenchmarkProofs` | theorems about `Connect` and `Benchmark` |
| `MCHashTable`, `MCDgramServer`, `MCSession`, `MCTcpSession`, `MCBenchmark` | instances for TLC |

The definitions called "Faulty variant of ..." are slightly wrong versions of
the operator they stand before. They are not part of any specification; each
shows that the property paired with it in `PROJECT.json` can fail.

### HashTable

One step is one access to shared memory, or a run of accesses that no other
thread can tell apart; a step is named after the lines it stands for (`Lock`,
`Search`, `Compare`, `Advance`, `Insert`, `TryWrLock`, `Malloc`, `Copy`, ...).
Items live at addresses, `Free` gives an address back and `Insert` may reuse
it. A step that would dereference a freed item, a NULL key or buffer or a
missing table, or unlock a lock nobody holds, sets `fault`, where the model
stops; so may an unlock of a lock that another thread holds for writing
(`ForeignUnlock`): the C program has no defined behaviour from there. Messages are
identified with the SET that carried them, and `PrefixOf` says which keys
`strncmp(stored, wanted, strlen(wanted))` confuses. `RwUnlock` is what POSIX
promises a thread that holds the lock: it ends the writer if there is one, else
takes one reader off. The busy path of `remove_item` unlocks what it does not
hold, which is undefined; `DelBusy` allows both what glibc may do, to treat it
like an unlock by the holder, and, if there is a writer, a fault. Accesses
are taken in program order (x86, and locks around all writes but the publishing
store of an entry).

`KVMap` is the promise: a request takes effect at one instant, a GET that is
answered OK gets the message stored, and a refusal (`KEY_ERROR` from a failed
trylock) needs another request under way for the same key. The code breaks it in
one place: a SET enters its key in the table before it stores a message, and a
GET in between is answered OK with nothing. That is the action `Unwritten` of
`KVMap`, which exists only if `Gaps = TRUE`; `ht_unwritten` shows the case, against
the design's claim, and with `Gaps = FALSE` (`ht_serial`) the map is exact. `made` keeps
the keys that were entered and is of no consequence for any other response. The
mapping places the effect of a SET where it replaces the buffer, of a GET where it
reads, or, when it finds nothing, where it begins to walk a list that does not
hold its key, of a DEL where it clears the key, and of an RST where it drops
the table.

### DgramServer

A request is its number in order of arrival. The ring, the lock, the counter
and the two completion counts are those of `struct ud_server_info`; `mine`,
`taken`, `log`, `served` and `spoilt` are history. Taking a completion, taking the lock
and looking at the buffer are separate steps, as in `ud_receive_header`;
`Ready` posts the buffer again and unlocks, before `Zero` clears the response and
`Execute` fills it (PING and UNK, answered by the dispatcher, leave it empty). What
`Transmit` sends is what the response holds when it leaves: `served` has the
requests whose answer went out, `spoilt` those for which something else did. A
worker takes any send completion as its own (`ud_server_utils.c:276`), so it may go
on and clear a response that has not left yet (`kvstore.c:91`). Accepting is two
steps, since the client is told the server's attributes (`Exchange`) before its
address handle exists (`Accept`). Receives are used, and sends completed, in
the order posted. The polling design is modelled. Of a client only its window
of unanswered requests is kept; a lost datagram is one that never arrives.

### Session

Both ends have a receive queue, a send queue and one completion queue, and
`Take` hands out the next completion whatever it completes, as both waits in
`rdma_common.c` do. A send reads its buffer when it leaves (`Transmit`). Over RC
a send completes when acknowledged; over UC when it has left, and the message
may be lost. `Wake` is `ibv_get_cq_event` with `ibv_req_notify_cq`; `EventOnArm`
says whether the adapter raises an event for completions already queued at that
moment: the verbs interface does not promise it, many adapters do it. Whether an
end blocks is chosen at the start from `Designs` (the option `--blocking` of the
server and of the benchmark). `Crash`
and `Break` are the death of the client and the error state into which an
undeliverable response takes the queue pair. The return value `-errno` of
`rc_receive_header` is never -1 (nothing on that path sets EPERM), so the
worker goes on after an error.

`unanswered` (history) counts requests sent less responses that reached the
client. A UC client whose receive queue is full gives up, or, when `errno`
happens to be 0, takes the failed post for a timeout (`PostResponse`).

### TcpSession

A message is a sequence of `Parts` parts, each marked with the operation it
belongs to; a stream delivers any number of them at a time. `Read` takes what is
there, up to a whole request, and ends the worker if it is less; `main_job`
returns without closing the socket. `ReceiveResponse` takes whatever came for a
whole response and leaves the rest of the buffer as it was. `short` remembers
that either happened. `Select` may time out, and the worker then blocks in
`Read`. `conn` is what the client's socket knows of the server: open, ended
(`fin`) or reset. `Exit` is what EXIT does, `Stop` any other end of the server.

### Connect

`apc` is where `main` is in accepting client `cur`. Over RC `chan` is the event
channel, `id` the state the connection manager keeps for a client, and
`disturbed` (history) the clients for whose ESTABLISHED another event was taken.
Over sockets `chan` is the backlog. `RcWait`, `RcPost` (all request buffers),
`RcAccept` (`rdma_accept`) and `RcEstablished` are the parts of
`rc_accept_new_connection`, between which clients and the connection manager
take steps; `SocketAccept`, `SwapAttrs` and `SocketFinish` those of `uc_` and
`ud_accept_new_connection`. The tests of return values are those of the code:
`process_rdma_cm_event` returns `-status`, which is positive for a negative
status, and `main` only tests for a negative result; the worker that is then
started uses memory that was never set, and the server is down (`crashed`).

### Benchmark

`prompt` says whether `usleep(100000)` is long enough for the new thread to read
its arguments and to be connected; nothing in the code makes it so, and both
cases are explored. An operation is one step here; that it ends is what
`Session` and `TcpSession` check.

## 3. What is checked

Runs that pass:

| Run | Bounds | Shows |
|---|---|---|
| `ht_set_get` | 2 workers, 2 keys in one bucket, SET and GET | no fault, isolated items, intact payloads; refines `KVMap`, with its gap; every GET ends; `IInv` |
| `ht_del` | 2 workers and 2 items on 2 keys in one bucket; both SET both keys and DEL the first, one DELs the second, the other GETs the first | lists stay well formed, keys unique and no item lost, and every path of an insertion or a removal (not found, busy, removing) gives the mutex back, until a bad access |
| `ht_serial` | 1 worker, 3 keys in 2 buckets, all requests, failing allocations | sequential correctness: refines `KVMap` without its gap, faults only after a failed allocation |
| `dg_ring` | 2 workers, 2 clients, ring of 2, 3 requests of all methods | oldest first, no duplicates, intact within a lap, right receiver, send completions add up; `IInv`; for every request something goes out unless an UNK has come, its answer unless that was spoilt |
| `ss_rc` | RC, the real sizes 5, 8 and 16; 11 operations; each end polling or blocking; the client may die | responses match, requests fresh, receiver ready, queues and completion queues fit, every operation of a living client ends; implements `RequestResponse` |
| `ss_uc` | UC, ring of 2, 3 work requests, 2 operations with 2 retries each; each end polling or blocking | the request count stays in step with the receive queue, whatever is lost or late; the client is never stuck, and gives up only after as many missing responses as its queue has places |
| `tcp` | 3 operations of 2 parts each, KV, PING and EXIT | whole requests, in order and once; matching responses and the end of every operation while no message is cut in two; workers end with their clients; implements `RequestResponse` |
| `startup` | 2 threads and one other client, 1 or 5 operations, each transport, sleep long enough or not | buffers are posted before a client can send, the sleep keeps the threads apart, the report is what was done but for the cases it names, only a client lost in its handshake brings the server down, connected clients get workers, the accept loop comes back, the benchmark ends |

Runs that are expected to find a violation, each of a statement in the
repository (quoted in `PROJECT.json`, "findings"):

| Run | What happens |
|---|---|
| `ht_prefix` | a GET of a key returns the value of a longer key that begins with it |
| `ht_unwritten` | a GET of a key that a SET has entered and not yet written is answered OK without a value |
| `ht_del_other_key` | a GET meets an item that the DEL of another key is removing |
| `ss_uc_match` | a late response is taken for the next one |

Where the passing runs stop. Each of these is a value of a constant with which
one of the properties above fails; they mark the conditions under which the
properties hold, and are not runs of their own:

- `HashTable`, `ItemIsolation` with DEL: the busy path of `remove_item` takes a
  reader off that is another worker's (`hash.c:85`), and the next SET or DEL of
  the same worker gets the lock while the item is read. No run checks
  `ItemIsolation` with DEL.
- `HashTable`, `NoFault` with RST and 2 workers: RST frees the table under the
  other worker (`kvstore.c:108`).
- `HashTable`, `ImplementsMap` with `Gaps = FALSE` and two workers: the case of
  `ht_unwritten` (`kvstore.c:26`).
- `DgramServer`, `EveryRequestAnswered` without its exception for UNK: one UNK
  request leaves the ring locked and stops the UD server (`kvstore.c:88`).
- `DgramServer`, without the lap condition of `IntactWithinRing`: the buffer is
  posted before its request is executed and may be overwritten
  (`server_utils.c:271`).
- `DgramServer`, `EveryRequestAnswered` with `served` alone: a worker that took the send
  completion of another zeroes its response before it has left, or answers its
  next request in it, and the client gets that (`ud_server_utils.c:276`,
  `kvstore.c:91`).
- `DgramServer`, `Routed` with `AnyOrder = TRUE`: clients that connect out of the
  order of their numbers get each other's responses (`ud_server_utils.c:214`).
- `DgramServer`, `Routed` with `EarlySend = TRUE`: a request that is taken before
  its client's address handle exists is answered to nobody or to another
  (`ud_server_utils.c:221`); the `sleep` in `instance.c:149` makes it unlikely.
- `Session`, `OpsComplete` with a blocking end and `EventOnArm = FALSE`: one event
  stands for two completions and both ends wait for ever (`rdma_common.c:83`).
- `Session`, `FreshRequest` with UNK: the worker reads the wrong buffer
  (`kvstore.c:88`). `ResponseMatches` with PING: its second response is taken for
  the next one (`request_dispatcher.c:64`). No client of the benchmark sends
  either.
- `Session`, `FreshRequest` without its condition that the queue pair works: when
  the client dies, the flushed completions make `rc_receive_header` return
  `-errno`, which is not the -1 that `recv_request` tests for
  (`server_utils.c:218`), so that the worker takes them for requests and executes
  what is in its ring again.
- `Session`, `NeverStuck` with a blocking UC client and `EventOnArm = FALSE`: its
  timeout starts after an event that a lost response never raises
  (`rdma_common.c:126`). With `EventOnArm = TRUE` a late event of the send before
  wakes it.
- `TcpSession`, `OpsComplete` and `ResponseMatches` without `short`: a request that
  arrives in two pieces ends its worker while the client waits for ever
  (`tcp_server_utils.c:123`), and a response that does is taken for two
  (`tcp_client_utils.c:43`).
- `TcpSession`: an idle connection is not closed after TIMEOUT seconds, as the
  comment in `tcp_server_utils.c:112` has it. `select` then returns 0, and only
  -1 is tested for. `OpsComplete` depends on it: a client that pauses is still
  served.
- `Connect`, `WorkerForEach` without `disturbed`: an event of another connection
  where ESTABLISHED is expected leaves an RC client connected to nobody
  (`rc_server_utils.c:210`).
- `Connect`, without `CrashOnlyIfLost`'s condition: a client that times out in its
  handshake brings the RC server down (`rdma_common.c:47`).
- `Benchmark`, `SleepSuffices` without `prompt`: threads read the number of a later
  thread or connect in another order; without `Alone`, another client takes a
  place in the order, and UD responses go to the wrong client.
- `Benchmark`, where `ReportExact` names an exception: with fewer operations than
  clients each thread does one nevertheless, past the end of its array
  (`instance.c:153`), and none is reported; a failed operation is reported
  (`benchmark.c:89`). The total that `main` prints is `num_ops`, also with a
  remainder or after a failure (`benchmark.c:234`). The usage text calls the
  option the number of operations per client (`benchmark.c:20`); the code divides
  it by the clients (`benchmark.c:206`).

Bounds. Two workers suffice for every race in the table that the runs are about.
The UD ring is scaled from 1024 to 2, so that laps happen; the proofs are for
every size. `ss_rc` keeps the real sizes, with more operations than two laps of
the ring. `Window`, `MaxRequests`, `MaxOps`, `MaxRetries` and `MaxTaken` only
cut off the environment or the length of a run. `startup` needs two threads,
since it is about what one does to the next, and a third client for what comes
from outside; five operations leave a remainder and give each thread a second
one, and one operation leaves each an empty share. `tcp` needs two parts to cut
a message in two, and three operations to see what a cut does to those after.
The type invariants of `Session`, `TcpSession` and `Benchmark`, and the
inductive invariants of their proofs, hold on the same instances; they are
proved, and left out of the runs. Deadlock is not checked where a run ends
because the bounded client has nothing left to send, because the model stops at
`fault`, or because every worker waits for requests.

Fairness. `ht_set_get`, `ht_del`, `dg_ring`, `ss_rc`, `tcp` and `startup` assume
weak fairness of each thread's steps (the operating system runs threads that can
run) and of the network: over RC what is posted leaves, arrives and completes,
over TCP what is written arrives in some pieces, and the connection manager
delivers the last message of a handshake or the news that a client has gone.
`ss_uc` assumes it of the client, of its clock (`gettimeofday` advances) and of
the adapters sending. Nothing is assumed of clients that have no request
pending, of clients leaving, of failures, nor of messages over UC and UD; weak
fairness of a thread gives it no claim on a mutex that others keep taking, so
that nothing is claimed of a SET that waits for one. An other client that has
connected its socket goes on to write its attributes or goes away: one that is
silent for ever would stall the accept loop (`uc_server_utils.c:193`).

## 4. What is proved

`HashTableProofs`, under two hypotheses: only SET and GET are sent
(`SetGetOnly`) and allocations succeed. For any workers, keys, messages,
addresses and buckets:

- `Invariance`: `Spec => []IInv`, and from it
- `TypeCorrect`, `MemorySafety` (`NoFault`), `Isolation` (`ItemIsolation`),
- `PayloadCorrect` (`PayloadIntact`), if no key is a proper prefix of another.

None of the three properties is inductive. `IInv` adds that no pointer dangles
(`InvPointers`), that the rwlock of an item says exactly which workers are
between their trylock and their unlock, with the number of readers as the
cardinality of a set (`InvRwlock`), that a buffer holds garbage only while its
writer is about to fill it (`InvValue`), and that a request, an entry and a
message only meet when their keys match (`InvKey`). The hypotheses are needed:
`ht_del_other_key` and `ht_serial` (`FaultOnlyAfterOom`) show what happens
without them.

`ChainProofs`, for any workers, keys, addresses and buckets, any keys that are
prefixes of others, and allocations that may fail:

- `AlwaysTyped` (`TypeOK`), without a hypothesis;
- `ListsWellFormed` (`ChainOK`) and `KeysUnique` (`UniqueKeys`), if RST is sent only
  to a server with one worker (`RstAlone`);
- `NothingLost` (`NoLostItem`), if nobody sends RST (`NoRst`), which drops the lists
  without freeing their items;
- `SerialSafety` (`FaultOnlyAfterOom`), for a server with one worker (`Sole`): two
  workers run into freed items (`ht_del_other_key`), or into the table that RST
  takes away.

The items of a bucket are the least set that has its head and is closed under
`next`, which needs no recursion; nine lemmas say what an insertion at the head
and an unlinking do to it. `ListInv` is the inductive invariant: at every step,
not only when the mutex is free, the lists are doubly linked, end, and share no
item (`Linked`, `Disjoint`); an item without a key is the one that the DEL holding
the mutex is about to unlink (`Hashed`); whoever is inside a mutex has it, has the
head it read, stands on an item of the list (`Mutex`, `Head`, `Place`), and has
not passed an entry of its key (`Ahead`, which is why `Insert` makes no second
one); items being freed are in no list (`Place`, `Freeing`), and all others are in
one (`Kept`). Nothing is said of a GET, which has no mutex and may stand on freed
memory: it writes nothing to the lists. `SerialInv` adds for a single worker that
it stands on an item of its list whose rwlock is its own, and that the table is
whole whenever it is used.

`MapProofs`, if no key is a proper prefix of another (`NoPrefixes`; `ht_prefix` shows
what happens otherwise), `Spec => ImplementsMap`:

- `ConcurrentMap`, for any number of workers that are sent SET and GET and have
  memory enough, with `Gaps = TRUE`;
- `SerialMap`, for one worker that is sent anything and whose allocations may
  fail, with `Gaps` or without: for a single worker the map is exact, which rests
  on every entry having its message when no SET is under way (`Filled`).

Both go step by step through the code, on one invariant, `MapInv`, which follows
from `IInv` and `ListInv` in the first case and from `SerialInv` and `ListInv` in the
second: every worker that has found an item stands on the entry of its own key
in the list of its bucket (`InList`, `Meets`); nobody else fills a buffer that a
worker writes, reads or removes (`Quiet`); a lock is found taken only when there
is another request for the key, which is what makes a refusal legal (`Rival`); and
a response is left alone once decided (`Reply`). A GET that will find nothing is
decided when it begins to walk: what lies ahead of it in the list does not
change, since insertions are made behind its back, at the head (`FindFrame`).
`MarkAssumption` only says that the marks `Absent` and `NULL` of the mapping are no
messages and no responses, `GapsAssumption` that `Gaps` is a truth value.

`DgramServerProofs`, for every ring size and any workers, clients and methods:

- `Invariance`: `Spec => []IInv`, and from it
- `OldestFirst` (`TakesOldest`), `ExclusiveRequests` (`NoDuplicate`),
  `RequestsIntact` (`IntactWithinRing`).

The argument: the requests nobody took fill the ring from `request_count` on, in
order, and the posted buffers follow, in order (`InvRing`, with `Dist` as the
distance around the ring); every completion, queued or taken, stands for one
request nobody took (`InvTickets`), so a worker with the lock always finds one;
and the lock has one holder (`InvLock`). `InvWork` follows a buffer from
`Ready` to `Execute`: it stays intact while fewer than N requests have arrived
since.

Two more theorems need more than `IInv`:

- `CompletionsAddUp` (`SendsMatchWaiters`): responses not yet completed and
  completions not yet taken are as many as the workers that wait, although a
  worker may take the completion of another.
- `ResponsesRouted` (`Routed`), if clients connect in the order of their ids and
  send only once a worker was started for them (`AnyOrder` and `EarlySend` are
  `FALSE`). `InvConn` says which address handles exist at each step of `accept`,
  `InvRoute` that a request in the ring or in hand comes from a client that has
  one. What happens without the hypotheses is described in section 3; that a
  long enough sleep establishes the first of them for the benchmark is
  `SleepIsEnough` below.

`SessionProofs`, for every size of the ring, of the queues, and any number of
operations and retries. Over RC and UC:

- `Invariance` and `TypeCorrect`, without a hypothesis;
- `GivesUpLate` (`GivesUpOnlyUnanswered`, an action property), without a
  hypothesis: `InvGivesUp` bounds the posted buffers by the missing responses;
- `WorkerInStep` (`FreshRequest`), if no UNK request is sent: no client of the
  repository sends one, and with one the property fails (section 3). The worker
  never looks at which buffer a completion is for, nor whether it is one of a
  send or a receive; `InvStage` gives, for every stage of its loop, the number
  of completions it has or will get and of the buffers posted, and `InvRing` says
  that the n-th request to arrive lies in buffer n modulo the size of the ring.

Over RC, with requests for the hash table only (`Methods \subseteq {"KV"}`, which
is what the benchmark sends; PING is answered twice and breaks the first of them):

- `ResponsesMatch` (`ResponseMatches`), `ReceiversReady` (`ReceiverReady`),
- `QueuesNeverOverflow` (`QueuesFit`), for completion queues with more places than
  the ring has buffers, which is less than the code gives them,
- `RcImplementsService` (`ImplementsService`): the refinement of
  `RequestResponse`, step by step.

All four rest on `RcInv`: there is at most one request without an answer, and it
is in exactly one place, among the client's send queue, the network, the ring,
the worker, and the way back (`InvToken`); the client is due two completions for
an operation, whichever comes first (`InvClient`); `InvSent` and `InvDone` say
which request that is and that its response is the one in the buffer;
`InvBroken` what is left of this after the client died.

`TcpProofs`, for messages of any number of parts, without a hypothesis:

- `Invariance`, `TypeCorrect`, `RequestsWhole` (`WholeRequests`), `ResponsesMatch`
  (`ResponseMatches`), and `TcpImplementsService` (`ImplementsService`).

`InvRequests` says that the worker's buffer and the stream, put together, are
whole requests from the next one on; `InvAnswers` the same of the way back, as
long as no message was cut in two.

`BenchmarkProofs`, for any number of threads and other clients, over all four
transports, without a hypothesis:

- `Invariance`, `TypeCorrect`, `BuffersPostedFirst` (`BuffersFirst`),
  `CrashNeedsLoss` (`CrashOnlyIfLost`), `ReportTrue` (`ReportExact`),
- `SleepIsEnough` (`SleepSuffices`): `InvTurns` says that `main` only goes on when
  the last thread has its number and its connection; `InvOrder` follows the
  events those connections raise through the event channel, and how many of
  them the accept loop has taken. It allows for threads that leave when the
  benchmark is over while the last of them is still being accepted.

Only model-checked: liveness (the prover has no `ENABLED` and no fairness). Every
invariant, action property and refinement of the passing runs is proved, under
the hypotheses named above.

## 5. Not modelled

- The hash function: any assignment of keys to buckets is allowed.
- Option parsing of the server and the benchmark: sequential string handling.
  (Reading it: `-b` is missing from the server's option string, and an unknown
  `--rdma` falls through to blocking, `server_utils.c:61` and `:88`; `-o` of the
  benchmark takes no argument there, `benchmark.c:136`.)
- Failures of socket, device and memory set-up, which end the program or are
  not tested.
- The socket option of SETOPT, and the path after `connection_close`, which no
  client sets. The disconnect functions of the clients, which nobody calls.
- The blocking design over UD, and the UD client beyond its window of requests.
- What a UD client that goes away while connecting leaves in the address table:
  the attributes of all zeros replace the address handle of client 0
  (`ud_server_utils.c:237`).
- Leaks (the old buffer on SET, all items on RST, the resources of clients that
  have gone).
- Time stamps, rates and files of the benchmark, the plotting scripts and the
  thesis text.

## 6. Plan

1. Done: `HashTable`, `KVMap`, `DgramServer`, `Session`, `TcpSession`,
   `RequestResponse`, `Connect`, `Benchmark`, and the proofs listed above.
2. That `DgramServer`, seen by one client, is the request-response service; the
   blocking design over UD.
