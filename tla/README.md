# Verification of termux-glibc-compat

TLA+ models, TLC runs and TLAPS proofs for the System V semaphores of
termux-glibc-compat, from the libc entry points to the broker, and for its
preloaded libraries.  Paths such as `sem_store.c` are relative to `src/src/`.

## The system

| part | source | state | operations |
|------|--------|-------|------------|
| semaphore store | `sem_store.c` | array of sets (generation, key, owner, values, last PIDs, waiter counts), undo table | get, remove, setval, setall, set_metadata, adjust_wait_count, tryop, process_exit; reads |
| broker | `broker_server.c` | mutex, one condition variable, FIFO of waiters (nodes on the workers' stacks), process watchers | receive, dispatch, wait loop, send; monitor scan and sleep |
| dispatcher | `broker_dispatch.c` | none | one store call per opcode |
| client | `client.c` | socket, owner PID, request ID | connect, exchange, close |
| protocol, transport | `protocol.c`, `transport.c` | none; the socket file | encode, decode; listen, connect, framed I/O |
| daemon | `tgcompatd.c` | worker slots, listener | accept, reap, shutdown |
| glibc overlay | `integration/termux-glibc/overlay/` | a client per thread | the libc entry points; GETALL and SETALL in two requests |
| session script | `scripts/tgcompat-session.sh` | pid file, socket file | start, stop, restart, run, status |
| preload shims | `exec_shim.c`, `android_root_shim.c`, `robust_shim.c`, `mprotect_shim.c` | mostly none | interposed libc calls |

A thread of an application calls `semop`; the overlay hands the call to the
thread's client, which sends one request over its Unix socket and blocks for the
response.  The daemon runs one worker thread per connection.  A worker takes the
broker mutex, registers the process if the request uses `SEM_UNDO`, performs the
request on the store and broadcasts what it changed.  A request that cannot be
performed is queued and its worker sleeps on the condition variable, for at most
250 ms at a time; after each wakeup it looks for a closed peer, retries if it is
the first of its set in the queue, and looks at its deadline.  The monitor thread
shares the mutex and the condition variable; it looks for registered processes
that have exited and applies their adjustments.

What is hard here, and hard to test: wakeups that the 250 ms poll hides when they
are forgotten; a monitor that may sleep for ever; requests performed long after
the checks made for them; processes that exit, fork or lose their leader thread
at the wrong moment; identifiers reused after the generation wraps; an undo table
that fills up; a removal while requests wait; deadlines that pass together with
the grant; a signal, a fork or the death of the broker in the middle of a call; two
session scripts at work at the same time; environments that every program of a
chain rebuilds; a mapping replaced in several system calls.  `PROJECT.json` lists
these hazards with the line where each bites.

## Modules

| module | models |
|--------|--------|
| `SemStoreOps` | `sem_store.c`, one operator per function: store and arguments to return value and new store |
| `SemStore` | the store alone, called with any arguments in any order; history variable `issued` |
| `MCSemStore` | instance of `SemStore`, for behaviours about the undo table or about identifiers |
| `Errno` | the results of the broker, which several modules share |
| `SemStoreLemmas`, `SemStoreProofs` | lemmas about each function of the store; the theorems about the store |
| `Dispatch` | `broker_dispatch.c` over `SemStoreOps`: request and store to result, payload and new store |
| `Broker` | `broker_server.c` over `Dispatch`, with clients, processes and clock as environment |
| `SemService` | what the broker promises: calls performed at one instant on the sequential store |
| `BrokerService` | `Broker` shown to implement `SemService` |
| `BrokerOrder` | `BrokerService` with a history variable, `elders`: who was asleep for the set when a request went to sleep |
| `MCBroker`, `MCBrokerOrder` | instances of `BrokerService` and `BrokerOrder` |
| `Daemon` | `tgcompatd.c`, with the socket file of `tgc_transport_listen` and the end of the monitor in `tgc_broker_destroy` |
| `Timeout` | the arithmetic of timeouts, from `semtimedop` to the rounds of waiting |
| `Client` | the glibc overlay, `client.c` and the sockets of `transport.c`, over `SemService` |
| `MCClient` | instances of `Client` |
| `Session` | `scripts/tgcompat-session.sh` |
| `ExecShim`, `MprotectShim`, `AndroidRootShim`, `RobustShim` | the preloaded library of that name |
| `MCPreload` | instances of the four |

### The store

A store is a record `[sets, undo]`.  The arrays of a set are functions on
`0..nsems-1`.  The undo table is a set of entries with the capacity `MaxUndo`:
the code never reads an entry's position.  Identifiers are computed as in
`make_id` and `decode_id`.  The outcome of `calloc` is an argument.  Time stamps
are left out.  `tryop` keeps the order of the checks of the code: values,
deltas, accumulated adjustments, room in the table, and only then the commit.

### The broker

| variable | code |
|----------|------|
| `store`, `queue`, `watchers` | members of `struct tgc_broker` |
| `monitor` | where the monitor thread is: in its scan (holding the mutex), waiting with or without a timeout, woken |
| `pc`, `request`, `waiter`, `deadline`, `response` | locals of a worker in `serve_connection` and `dispatch_request` |
| `held` | who holds the client end of a connection: its thread, a forked child |
| `proc` | a client process: running, its leader thread exited, exited |

A worker's critical section, from locking to unlocking or sleeping, is one step:
all shared state is behind the mutex, and the outside world (peer, process, clock)
is looked at once.  `DispatchRequest` is `dispatch_request` up to its return or
first sleep, `Wakeup` the rest of the loop from one sleep to the next.  The
monitor keeps the mutex over a scan of 1024 slots, looking at one process after
another, and processes exit meanwhile: `MonitorScan` is one step per slot.
`WakeWorkers` and `WakeMonitor` are the broadcast.  `Wakeup` is also enabled for
a worker nobody has woken (the 250 ms poll), so safety is checked with polls at
any time, and `NoLostWakeup` is stated so that it does not depend on them.

`process_has_exited` reads a pidfd or, when `PidfdWorks` is false, `/proc`, where
a process whose leader thread has called `pthread_exit` is in state `Z` like one
that has exited.  `watch_process` may find an exited process still in the process
table or gone.  Requests are well formed; `SEMTIMEDOP` is a `SEMOP` with `timed`.

### The service and the refinement

`SemService` has no threads, queue, watchers or condition variable.  A call is
pending, then done; between the two it is performed once, by one operation of the
sequential store, when it need not wait (`Perform`), or it is given up without
effect: its time is over, its client has gone, its process cannot be watched.
`Restore` applies the adjustments of an exited process.  Waiter counts are not part
of the abstract store, since they say who is queued; `GETNCNT` and `GETZCNT` may
answer anything up to the number of calls in progress, and `WaitCountsExact` of
`Broker` says what they really answer.

`BrokerService` maps a worker that waits for the mutex or sleeps in the queue to a
pending call, one that has its response to a done call, and the store to itself
without waiter counts.  `ImplementsService` is checked in `broker_queue` and
`broker_undo`.

### The daemon

| variable | code |
|----------|------|
| `main` | where the main thread is, the slot its loops have reached, the accepted descriptor it has in hand |
| `workers`, `thread`, `served` | `struct client_worker`, where its thread is, the connection it was created for |
| `fdtab` | what a descriptor number refers to, a connection or a process the broker watches; the kernel gives out the lowest free one |
| `conn` | a connection: in the listen queue, accepted or refused; closed by the client; shut down |
| `broker`, `monitor` | the broker object and its monitor thread, as far as the stop concerns them |
| `sockfile` | the socket path: absent, somebody else's, ours |

The main thread takes one step per system call that other threads can interfere
with (poll, accept, shutdown and join of each slot), a worker thread one each for
the return of `serve_connection`, the close and the done flag.  Of a worker that
serves, `Daemon` knows only that it returns when its connection has ended, and may
return earlier; `HopelessLeave` of the broker is what justifies the first.  While
it serves it may make the broker watch a process (`watch_process`), which costs a
descriptor; the monitor closes it after the exit of the process.  Every call that
may fail may fail: listening, creating the broker, the thread attributes
and a thread, polling, accepting.  Without a free descriptor `accept4` does fail, and
the daemon stops.

### The client

| variable | code |
|----------|------|
| `client` | `struct tgc_client` of a thread |
| `task` | where a thread is in a call of the overlay: not in one, waiting for a response, about to send the second request of `GETALL` or `SETALL` |
| `sock` | a connection: the processes that hold the client end, the peer `SO_PEERCRED` names, whether the server end is open, the packets under way |
| `store`, `call`, `exited` | the state of `SemService` |
| `up`, `faults` | the broker runs; how many more things may go wrong |
| `todo`, `log`, `decided` | the calls a thread still makes; how its exchanges ended; how often the broker decided on each |

`Call` and `Again` are a call up to the receive, `Receive`, `Eof` and `Interrupt`
the three ways the receive ends.  `fork` copies the client of the forking thread
and all descriptors; `ThreadExit` is the destructor of the overlay's key.  The
broker is `SemService` behind the sockets, and may be killed (`Crash`, with its
store), restarted, or close a connection.  Using `SemService` in place of `Broker`
rests on `ImplementsService`.
`Refuse` and `Restore` of the service are left out of `Client`, since no call of its
instances uses `SEM_UNDO`.

A packet is sent and received as a whole.  The code receives a header and a payload
in as many pieces as the stream delivers; a response that breaks off in the middle,
because the broker was killed within `send`, is `EPROTO` and not `ECONNRESET`
(`transport.c:229-230`).  `InStep` does not speak of that case; the connection is
closed in both.

`Timeout` keeps the operations of the code on 64-bit seconds and nanoseconds, with
the number of nanoseconds in a second, `INT64_MAX` and `INT_MAX` as constants.

### The session script

A step is one test or command of the script.  The script of each of several
processes may be killed between any two.  A daemon is reduced to its process and
what it does to the socket path.  `run` replaces the script by the application,
which is then the parent of the daemon and need not collect it: a zombie, for which
`kill -0` succeeds but `/proc/<pid>/exe` does not exist.

### The preloaded libraries

`ExecShim` follows one process through a chain of exec calls (of a `posix_spawn`,
the child).  An environment gives the values of each name in their order, so that a
name may occur twice, as in the code; paths and values are members of small sets, and
what the code finds out about a file (can be read, can be executed, its interpreter,
its real path) is a table.  `launch` is
what `execve` and `spawn_wrapped` have in common.  The kernel, the loader and the
C library's own search of `PATH` are external.

`MprotectShim` has one step per system call and copy of
`make_anonymous_executable_copy`, each of which may fail, and other threads that
make calls and write to memory in between.  System calls work on whole pages,
`copy_bytes` on the bytes that `length` counts.

In `AndroidRootShim` a path is a prefix and the length of the rest, a value its
length and whether it starts and ends with a slash: what the tests of the code look
at.  Sizes are subtracted modulo `SIZE_MAX + 1`.  `RobustShim` has the list of each thread and a program that links mutexes into
it.  The libraries share no state, so in `MCPreload` a behaviour exercises one.

## Runs

| run | checks |
|-----|--------|
| `store` | `TypeOK`, `UndoLive`, `UndoBounded`, `UndoConserved`, `KeyUnique`, `NoEarlyIdReuse`: two processes, two semaphores, a table of two entries; or two slots, three generations, four creations per slot |
| `broker_queue` | `TypeOK`, `NoLostWakeup`, `WaitCountsExact`, `FifoGrants`, `ImplementsService`: three workers, requests for one of two semaphores or for both that wait for an increment, for zero, with a timeout, removal, the next set of the slot |
| `broker_undo` | `NoLostWakeup`, `MonitorAttends`, `UndoWatched`, `ImplementsService`: two processes, three workers, one watcher slot |
| `broker_live` | `HopelessLeave` (fair): removals and closed peers, one socket that a child keeps for a while |
| `broker_restore` | `TimedReturns`, `ExitRestores` (fair), two watcher slots |
| `daemon` | `TypeOK`, `OneOwner`, `BrokerOutlivesThreads`, `SocketRemoved`, `StopCompletes`, `ConnectAnswered` (fair): three connections that need never close, two worker slots, two descriptors |
| `client` | `TypeOK`, `OwnAnswer`, `RightActor`, `DecidedOnce`, `InStep`, `OwnSocket`, `TimeoutExact`, `LossNoticed` (fair): a thread and the process it forks, two threads, all three; one thread whose request IDs wrap; timeouts |
| `preload` | `NoDeadInterpreter`, `SelfNamed`, `PreloadPolicy`, `ArgumentsKept` (exec); `ByteIdentical` (mprotect); `OneFile`, `PathFits` (Android root); `ListMatchesHolder` (robust) |

Four runs state what a document says and find a behaviour of the code that
differs:

* `broker_fork`, `UndoWatched`.  `docs/ARCHITECTURE.md:51-54` says that all
  pending adjustments are applied once a process has exited.  A `SEM_UNDO`
  request is queued; another thread of the process forks and the child keeps the
  socket; the process exits and the monitor drops its watcher; the request is
  then performed, since its peer is not closed, and its adjustment is never
  applied.  Without such a child (`broker_undo`) the property holds.
* `broker_procfs`, `UndoOnlyAfterExit`.  `README.md:69-70` calls the restoration
  Linux-compatible also with the `/proc` fallback.  The fallback takes a zombie
  leader thread for the exit of the process, and the monitor takes its adjustments
  from the table while its other threads run.
* `session`, `OneBroker`.  `docs/ARCHITECTURE.md:32` says that one broker runs per
  user.  A broker dies; two starts run at the same time.  The first has removed the
  pid file (line 68) when the second finds neither file nor socket and starts its
  daemon; the first then removes that daemon's socket (line 69) and starts another.
  One script after the other can do the same: one is killed between starting its
  daemon and writing the pid file; the next starts another daemon before the first
  listens, writes its process ID, and that daemon ends because the first has taken
  the path; a third start finds the file of a dead process and removes the socket
  of the living one.
* `preload_mapping`, `MappingIdentical`.  `README.md:236-238` says that the mapping
  that replaces a refused range is byte-identical.  `mmap` replaces whole pages,
  `copy_bytes` copies `length` bytes: when `length` is no multiple of the page size,
  the rest of the last page is zero afterwards.  `ByteIdentical`, about the bytes that
  `length` counts, holds.

What the models show besides, where no document says otherwise:

* A request may sleep although it could be performed: only the first of a set is
  retried, so it waits behind a request for another semaphore of the set.
  `docs/ARCHITECTURE.md:92-93` says so, and `FifoGrants` and `NoLostWakeup` are
  stated accordingly.
* The semaphore a request is counted for is recorded when it is queued and not
  brought up to date when a retry blocks elsewhere.
* After `EINTR` a `semop` may have been performed, or be performed later, before the
  broker notices the closed connection; `DecidedOnce` says that these and
  `ECONNRESET` are the only outcomes that leave the caller in doubt.
* The child of a process with several threads keeps the sockets of the other
  threads until it executes a program (they are close-on-exec).
* A search of `PATH` takes the first program that must be wrapped, even if a host
  program of that name comes earlier.
* `TGCOMPAT_EXEC_DISABLE` stops wrapping; redirections and the final environment
  stay.  Programs that run unwrapped keep the `TGCOMPAT_PROC_SELF_EXE` they were
  passed, so `SelfNamed` is about wrapped ones.
* A concurrent store into a range that is being replaced is lost, so
  `ByteIdentical` is about calls nobody interferes with.
* A failed allocation in the search of `PATH` counts as a search that found nothing;
  `NoDeadInterpreter` excludes this case.

And two places where the model follows the code and a document says more; no run is
about them:

* An open with `O_RDONLY | O_TRUNC` is redirected like a read, although it truncates:
  `read_only_open` (`android_root_shim.c:226-228`) looks at the access mode and at
  `O_CREAT`.  `README.md:203-204` says "Mutation requests are never redirected".
  `OneFile` says it of the requests for which it is true, those to write or to create.
* When a search of `PATH` finds nothing to wrap, the C library searches itself, and
  neither redirections nor the final environment apply (`search` of `ExecShim`).
  `README.md:179-183` says of `TGCOMPAT_EXEC_SHELL` that it redirects exact `/bin/sh`
  and `/usr/bin/sh` requests and "applies uniformly to direct, variadic, PATH, and
  `posix_spawn` entry points".  A path given to `execvp` is redirected; the name `sh`
  that the search resolves to `/bin/sh` is not, unless that file must be wrapped.

### Bounds

* One or two slots, sets of one or two semaphores, values up to 1 or 2: enough for
  a value at its limit and a request blocked in either direction.  Sets have two
  semaphores in `store` and in `broker_queue`, where two requests of one set wait for
  different ones and a third for both; one in the other broker runs.
* Two or three generations and up to four creations per slot (`MaxCreates`): a
  slot wraps and hands out an identifier again.
* Two undo entries for two processes and two semaphores: the table fills up.
* Three connections: the first of a queue, one behind it, and one that changes the
  state.  `broker_restore` uses two, since its property is
  about one request and one other actor, and liveness is costly.
* One watcher slot in `broker_undo` (registration fails when it is taken), two in
  `broker_restore` (a scan takes several steps).
* Two worker slots for three connections: the client limit is reached, and a slot
  and a descriptor number are used again.  Two descriptors: they run out, by clients or
  by watched processes.  A connection is opened at most once.
* `Mortal` and `Threaded` restrict which processes may exit or lose their leader.
* `broker_queue` and `broker_undo` use symmetry among connections of one process;
  the liveness runs use none.
* `client`: at most three connections at a time and three exchanges of a thread, one
  or two faults (none in the scenario with all three threads), request IDs that
  wrap after 2, a second of 10 ns, `INT64_MAX` = 127, `INT_MAX` = 12: timeouts and
  clock readings on both sides of every limit.
* `session` (two scripts, three daemons) is large enough for its counterexample.
* `preload`: five starts of a chain, each with the variables of one policy; two
  pages of two bytes, two threads and overlapping ranges, one of which ends within a
  page; a path buffer of 6 bytes with values up to 6 and rests up to 7, in sizes that
  wrap at 15; two threads and two mutexes.

Deadlock is checked except where every process, or the daemon, may have exited for
good.

### Fairness

`Fairness` has strong fairness for each worker thread, weak fairness for the
monitor, and weak fairness for the passing of an armed deadline.  A worker waits
with a timeout of at most 250 ms, so it asks for the mutex again without being
woken; every holder of the mutex releases it after a bounded section, and a
thread that asks again and again is assumed to get it in the end, as the kernel's
futex queue provides, although the monitor takes it in between: hence strong
fairness.  Nothing is assumed of clients: they need not send, close or exit.

`FairSpec` of the daemon has weak fairness for each worker thread and the monitor
and strong fairness for the main thread, which competes with the monitor for the
mutex when it destroys the broker, and for `accept4`, which cannot be interrupted
for ever, since the signals are blocked.

`FairSpec` of the client has weak fairness for the steps of each thread that is in a
call.  Nothing is asked of the broker, which may answer never.

## Proofs

The theorems hold for every value of the constants that satisfies the named
assumptions of the module, for any number of calls, processes and threads:

| assumption | says |
|------------|------|
| `StoreAssumption` | at least one slot and at most 65535, at least one generation and at most 32767, positive limits, positive process IDs |
| `InputAssumption` | arguments have their C types |

TLC evaluates all of them in the runs.

| theorem | states |
|---------|--------|
| `SemStoreProofs!TypeCorrect` | `[]TypeOK` |
| `SemStoreProofs!UndoAlwaysLive` | `[]UndoLive` |
| `SemStoreProofs!UndoFits` | `[]UndoBounded` |
| `SemStoreProofs!KeysUnique` | `[]KeyUnique` |
| `SemStoreProofs!IdsNotReusedEarly` | `[]NoEarlyIdReuse` |

`LeastFirst` (the least element of a set of numbers, which a search through slots
finds) is a hypothesis of the lemmas that need it, and is discharged once before the
theorems.

### The store

*Type correctness* is inductive as it stands.  There is one lemma per store
function (`GetType`, `RemoveType`, .. `TryopType`, in `SemStoreLemmas`), resting on
lemmas about what a write to one slot preserves (`WriteSet`), about identifiers
(`IdRoundTrip`, `NextGenerationRange`) and about the checks `tryop` has passed when
it commits (`TryopChecks`).

*UndoLive* is inductive relative to `TypeOK`.  All functions but get and remove
preserve the shape of the store (`SameShape`: which slots are active, with which
generation, size and key), so the entries they keep stay live; get writes a slot
that was free (`GetWrites`); remove drops the entries of exactly the identifier
whose slot it empties, which uses that identifiers are injective (`IdInjective`).

*UndoBounded* needs the finiteness of the table beside its size (`UndoRoomIn`): a
commit replaces the entries of a process for a set by no more than the room check
has counted.

*KeyUnique* follows like `UndoLive`: a set is created for a key only when no set
has it.

*NoEarlyIdReuse* is not inductive.  `IdHistory` strengthens it: the generations
of the identifiers of a slot follow each other cyclically, and the generation the
slot has now is where this history has arrived (the last one issued if the slot is
active, its successor if not, zero if there was none).  Two identifiers fewer than
`MaxGeneration` creations apart then differ.

### What is only model-checked

* Liveness: `HopelessLeave`, `TimedReturns`, `ExitRestores`, `StopCompletes`,
  `ConnectAnswered`, `LossNoticed`.
* `UndoConserved`, since it speaks of what the recursive functions in
  `WorkingCopies` and `DeltaCopies` compute; that would need induction over
  operation arrays.  (The other proofs treat these functions as unknown and use only
  the checks `tryop` makes on their results.)
* The properties of the broker, the daemon, the client and the preloaded libraries.
* `OneBroker` of the session script, which is violated.

## Not modelled

* `protocol.c` and the layout of payloads: pure conversions between integers and
  bytes, without state.  Packets are records, requests are well formed, and the
  length checks of the dispatcher and the client have nothing to refuse.
* Failures of `pthread_mutex_lock`, `pthread_cond_timedwait` and `clock_gettime` in
  the broker, which do not happen on initialised objects.
* Reuse of process IDs, within the about 250 ms to the next scan of the monitor.
* Calls from signal handlers into the client of the interrupted thread; handlers
  installed with `SA_RESTART`, after which the kernel restarts `recv` and `Interrupt`
  does not happen.
* The argument checks of the overlay other than those of timeouts, and a missing
  `TGCOMPAT_SOCKET`: the call fails before anything happens.
* The aarch64 assembly of the robust-list shim, which has the same tests as the C
  variant.
* Probes, benchmarks, packaging: no part of the running system.

The broker keeps nothing on disk, so it has no recovery to model beyond the socket
and pid files of `Session`.
