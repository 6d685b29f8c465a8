# Specifications of the node bridge

TLA+ modules for `PasarGuardNodeBridge`, the asyncio client of a PasarGuard
node: what is modelled, what TLC checks on small instances, and what TLAPS
proves for every instance. Paths below are relative to `src/`; C is
`PasarGuardNodeBridge/controller.py`, G is `grpclib.py`, R is `rest.py`, U is
`utils.py`.

## 1. The system

A *node object* (`grpclib.Node` or `rest.Node`, both subclasses of `Controller`)
represents one remote node. All its code runs on one event loop, so the
concurrency is that of coroutines: a step runs from one point where a coroutine
really suspends to the next. Nothing is persisted; there is no crash recovery.

| Component | State | Operations | Interacts with |
|---|---|---|---|
| Pending-user queue (C:81-84, 155-175, 215-219, 346-365) | `_pending_users` (email -> latest `User`), `_work_available` | `update_user`, `update_users`, `flush_pending_users`, `_drain_pending_users`, `_requeue_failed_users` | filled by the application, drained by the worker, cleared by `disconnect` |
| Node state (C:75-153) | `_health`, `_node_version`, `_core_version`, `_shutdown_event`, `_user_sync_failure_count`, `_hard_reset_event` | `set_health`, `get_health`, `requires_hard_reset`, `_increment_...`, `_reset_...` | assigned by `connect`, `disconnect`, the worker, the health check and the application |
| Synchronisation worker (C:340-465) | `_sync_worker_task` and the locals of `_sync_worker` | `_ensure_sync_worker_running`, the loop | spawned by `update_user(s)`, cancelled and joined by `disconnect`, calls the batch transports |
| Session lifecycle (C:242-334; G:92-153; R:115-170) | `_node_lock`, `_sync_worker_lock` | `start`, `stop`, `connect`, `disconnect`, `_cleanup_sync_worker` | exclude `sync_users` and chunked syncs of the worker |
| Batch and chunked transports (G:207-284; R:222-330) | the stream or the requests of one call | `sync_users`, `sync_users_chunked`, `_sync_batch_users` | called by application and worker |
| Remote node (external) | running or not | Start, Stop, and whatever it does by itself | answers requests, late or never |
| Health monitoring (C:177-213, 277-316; G:286-330; R) | `_tasks`, `_task_lock` | `_check_node_health`, `_try_recover_health_after_sync` | assigns the health; `start` passes no task to `connect`, so no check runs today |
| Log streaming (G:350-466; R:380-503) | the receiver's queue | `stream_logs` | independent of the rest |
| Addresses (`utils.py`: `normalize_host`, `format_host_for_url`) | none | pure functions | the constructors build URLs with them |
| Error mapping (`utils.py`, `_handle_error`) | none | pure functions | |
| Read-only requests, JSON side channel | none | one or two requests each | |
| Generated protocol code (`common/`) | none | | |

What makes it hard, and what must hold:

* **Queue and worker.** Updates arrive while a batch is in flight, a batch fails
  in part, the idle timer fires, a flush or a disconnect intervenes. The latest
  version of a user must not be lost, and versions must go out in order; there
  must never be two workers; queued users must have a worker.
* **Sessions.** `start`, `stop` and `sync_users` overlap; each tests the health
  *before* it waits for `_node_lock`. `stop` holds `_node_lock` and joins the
  worker, which may itself wait for `_node_lock`. A closed session must leave
  nothing to be sent in the next one; INVALID must be final; versions, health,
  counter and hard-reset event must agree.
* **Remote node.** What the bridge believes and what the node does: a `stop`
  while a `start` is in flight is a no-op, an error of Stop is swallowed, empty
  versions disconnect locally only, a request given up may be executed later.
* **Health monitoring.** The check reads the health, awaits the node, assigns: a
  disconnect in between must not be undone, and there must be one check at most.
* **Transports.** Chunk sizes, the `last` flag, varint framing, errors that
  concern one user or all of them; `stream.end()` has no timeout. A user that is
  not reported as failed must have arrived, as the worker forgets it.
* **Addresses.** Delimiters that occur twice, IPv6 with and without brackets and
  port, hosts that are neither a name nor an IP address: the port of the URL must
  be the one that was given.
* **Logs.** Lines cut by chunks, a full queue, the end of the stream, and leaving
  the context while the receiver waits.

The hazards are listed line by line in `PROJECT.json`.

## 2. Modules

```
PendingUsers   NodeState                 UserMailbox (abstract)
       \          /                            ^
        SyncWorker                             | implements
            |                                  |
        NodeBridge ----------------------------+
          |      \
  MCNodeBridge   NodeBridgeProofs -- SessionProofs --+
          |                                          |
     RemoteNode -------------------------------------+-- RemoteProofs
          |
   MCRemoteNode

NodeState -- HealthMonitor -- MCHealthMonitor, HealthMonitorProofs
BatchSync  -- MCBatchSync, BatchSyncProofs      one batch of SyncWorker in detail
LogStream  -- MCLogStream, LogStreamProofs      independent of the rest
HostFormat -- MCHostFormat, HostFormatProofs    independent of the rest
Induction  -- lemmas for BatchSyncProofs, LogStreamProofs and HostFormatProofs
```

* **PendingUsers**: the dictionary and its event. One operator per method body.
  A `User` is abstracted to a *version*: version n of an email is the n-th user
  the application submitted for that email. No property depends on what is in a
  user except which submission it is. The dictionary is a total function with
  the value `Absent`.
* **NodeState**: health, versions, shutdown event, failure counter, hard-reset
  event. The two version strings are always assigned together, so one Boolean
  says whether they are non-empty. The counter saturates at `MaxFailures`: the
  code only compares it with the threshold.
* **SyncWorker**: the worker task and the calls that feed it. `wpc[t]` is the
  place where a task is suspended, `batch[t]` its local variable `users`.
  Spawning is `EnsureWorker`; `LoopHead`, `CheckHealth`, `Dispatch`,
  `DrainNothing` and `Settle` are the parts of one round of the loop, and they
  compose into steps (`WorkerFirstStep`, `WorkerWake`, `SleepOver`,
  `BatchReturns`, `ChunkReturns`), each as long as the code runs without a
  suspension. `syncWaiters` are the updates and disconnects that wait for
  `_sync_worker_lock`: who comes while there are any waits behind them
  (`SyncLockFree`). `IdleTimeout` and `WorkerExpire` are the two halves of a timeout,
  `WorkerCancelled` the last step of a cancelled task.
* **NodeBridge**: adds the calls `start`, `stop`, `sync_users` (`opc[o]` is where
  call `o` is suspended), `connect` and `disconnect` inside them, `set_health`
  and `flush_pending_users`. `Disconnect` is the part up to the first suspension:
  with the shutdown event already set it waits for `_sync_worker_lock` behind
  updates (places `startLock`, `stopLock`; `StartCleansUp`, `StopCleansUp`), or it
  cancels the worker and joins it under the lock (`startJoin`, `stopJoin`;
  `StartJoined`, `StopJoined`), or it closes the session at once. The properties
  are here.
* **UserMailbox**: what queue and worker promise together, without tasks, locks,
  health or time: a mailbox that keeps the latest version per email and one
  batch at a time. `NodeBridge` implements it with `queued <- pendingUsers`
  and `sending <-` the batch of the known worker.
* **RemoteNode**: `NodeBridge` together with the node it represents: whether the
  node runs, and what becomes of each Start and Stop request: executed while the
  call waits, or given up and executed later, or never. The node may refuse to
  start and may stop by itself. Each action is one of `NodeBridge` with its effect
  on the node's side, or a step of the node; `StopIgnored` is the `stop` that
  returns at once. The history variable `fault` records what the bridge is not
  told of or does not follow up, until the node executes the next Start or Stop of
  a call that still waits for it; the properties say what holds without it.
* **BatchSync**: one call of `_sync_batch_users` or `sync_users_chunked` over one of
  the transports, message by message (its comment lists the places of `pc`), and
  the node that reads the stream, applies users, fails or hangs. It looks into
  what `BatchReturns` and `ChunkReturns` of SyncWorker take as one step with any
  outcome. `Chunk`, `WorkerChunkSize` and `Varint` are the pure parts.
* **HostFormat**: `normalize_host` and `format_host_for_url` on texts that are
  sequences of tokens, for every address put together from scheme, credentials,
  host, brackets, port, path, query and fragment. Which credentials, hosts and
  tails there are is a parameter (`Users`, `Hosts`, `Tails`). `ip_address` of the Python
  library is `IsV6` and `Compressed`; shortening the longest run of zero groups is
  left out of the latter, and IPv6 addresses that end with a dotted quad are left
  out. A host is any labels and colons, and "://" is three tokens, found wherever
  they meet. Where the code guesses wrong the properties say so: `SchemeMistaken`
  (a "://" that ends no scheme, U:62), `PortTaken` (a port that may be the last
  group of an IPv6 address without brackets, U:89) and `ColonKept` (a single colon
  with no number behind it, U:107-112).
* **LogStream**: `stream_logs` of both transports: the context manager, the task
  of `_receive_logs`, the bounded queue, and the application that reads it.
  `transport` is chosen in the initial state. REST's bytes are assembled into
  lines as the code does (`Split`, `Strip`), and a property compares
  the outcome with the lines of the whole stream by the positions of its newlines
  (`AreLinesOf`). `put()` waits for room (place `putting`): the branches for
  `QueueFull` are dead code. `ManagerCollected` is the end of the temporary
  context manager of R:463, an object of the HTTP library.
* **HealthMonitor**: `_check_node_health` as the background task `connect` is made
  to create, and `connect` and `disconnect` as far as they deal with `_tasks`.
  `start` passes no task today, so the module describes the protocol for when it
  does. `cpc[k]` is where check k is suspended, `session` where the current call
  is: it joins the cancelled checks (`connectJoin`, `disconnectJoin`) or, in
  `closing`, the worker. `start` and `stop` call `connect` and `disconnect` under
  `_node_lock`, so one call is enough and `_task_lock` is never contended. The
  timeout of 5 s on the join cannot expire, as a cancelled check ends in its next
  step; for the same reason the last handler of the check (R:366) is never reached.
  A call abandoned while it joins (`CallAbandoned`) ends without doing anything else,
  as C:305 catches only the timeout. `retries` is counted up to `MaxRetries`: the
  code counts on, but only asks whether it has come so far.
* **MCNodeBridge**, **MCRemoteNode**, **MCBatchSync**, **MCHealthMonitor**,
  **MCLogStream**, **MCHostFormat**: the instances for TLC. The modules whose
  names end in **Proofs** hold the theorems.

Both transports have the same lifecycle code; where they differ in order, the
model follows what they have in common (the lock is taken before the request
and released after `connect`).

### Steps of the event loop

Python 3.12 or later is assumed, as the project requires. There
`asyncio.Lock.acquire` does not suspend when the lock is free and nobody waits;
`Event.wait` does not suspend when the event is set; `wait_for` runs its awaitable
in the same task under a timeout. So:

* `_pending_users_lock`, `_health_lock`, `_version_lock` and
  `_failure_count_lock` protect bodies that await nothing outside these locks:
  they are never contended and their bodies are single steps.
* `_node_lock` and `_sync_worker_lock` are held over suspensions and are modelled
  as variables. Either is granted at once only if it is free and nobody waits
  (`SyncLockFree`, `Acquire`, `Dispatch`).
* A timer that fires cancels the wait: until the task has run again it still
  answers `done()` with False. This is place `expired`.
* `Task.cancel` only schedules the exception: place `cancelled`.

### Abstractions and environment

* The waiters of a lock form a set: the model lets them overtake each other,
  which the code does not. This adds behaviours, so safety carries over. Liveness
  needs that a waiter is not overtaken forever, which first-come-first-served
  order guarantees (strong fairness, below).
* Once `_sync_worker_lock` is free, those who wait for it take it in the next turns of
  the event loop. That one of them is abandoned in just these turns is not modelled.
  A disconnect waits for this lock only in such turns: whoever joins the worker holds
  `_node_lock` too, so it never waits behind another disconnect that joins.
* Delays (retry, back-off, idle) are not measured: a sleep may end and a timer may
  fire at any time.
* A batch ends with any set of failed users, a chunked sync with all or none.
* `SetHealth` stands for the application and for the health check: HEALTHY and
  BROKEN are only reported on a node that is not NOT_CONNECTED. That the health
  check itself keeps to this, in its race with `disconnect`, is what
  `NoCheckOutlivesSession` and `VersionsMatchHealth` check in `HealthMonitor`.
* The application may abandon a call, that is cancel its task or let a timeout
  around it expire. While the call waits for a lock this is `CallAbandoned` or
  `UpdateAbandoned`; during its request it has the effect of a request that fails.
  While `disconnect` joins the worker, `except CancelledError` (C:327) takes
  the cancellation for the worker's, so that the call goes on.
* The node's answers are reliable in one sense: an answer belongs to the request
  of the call that receives it (HTTP and gRPC see to that).

## 3. What TLC checks

| Run | Instance | States | Checks |
|---|---|---|---|
| `two_users` | 2 emails, 2 tasks, 1 caller, 2 operations, 2 versions each, chunks from 2 users, threshold 2; users updated in every health | 328 055 | `TypeOK`, `EventMatchesQueue`, `SingleWorker`, `NoLostUpdate`, `QueueNewerThanBatch`, `SendsInOrder`, `ImplementsMailbox` |
| `sessions` | the bridge with its node: 1 email, 2 tasks, 2 callers, 2 operations, 3 versions, every batch chunked, threshold 2; users updated on a connected node | 1 168 768 | `RemoteTypeOK`, `SessionClosedClean`, `VersionsMatchHealth`, `ShutDownForgetsVersions`, `HardResetMatchesCount`, `LocksGuardRequests`, `OnlyIdleExitStrands`, `NodeInStep`, `StopHolds`, `InvalidIsPermanent` |
| `liveness` | 1 email, 1 task, 1 caller, 2 operations, 2 versions, every batch chunked | 29 375 | `CallsReturn`, `UpdatesReturn`, `BatchesEnd`, `QueueDrains` |
| `lost_wakeup` | 1 email, 1 operation | - | `UpdateHasWorker` fails |
| `update_before_start` | 1 email, 1 operation | - | `DisconnectedQueueEmpty` fails |
| `health_monitor` | 2 identities of checks, 3 retries | 8 860 | `TypeOK`, `VersionsMatchHealth`, `NoCheckOutlivesSession`, `OneCheck`, `LossNoticed`, `ReturnNoticed` |
| `log_stream` | both transports, 1 visible byte, a queue of 1, up to 5 bytes or messages | 13 110 | `TypeOK`, `LinesIntact`, `ErrorEndsLog`, `NoOrphanReceiver`, `ContextCloses` |
| `transports` | both transports, up to 5 users, every chunk size up to 6, the worker's sizes with 2 chunks and a cap of 3, frames of 127, 128 and 16384 bytes | 73 344 | `TypeOK`, `AcceptedApplied`, `AllOrNothing`, `FramesDelimited`, `FewChunks`, `ReturnsUnlessHung` |
| `hosts` | 4 914 addresses with IPv6 addresses of 4 groups, well formed or not | 9 828 | `HostCanonical`, `PortUnambiguous` |
| `sync_hangs` | 1 user | - | `SyncTimesOut` fails |
| `log_error_lost` | up to 2 bytes or messages | - | `ErrorReported` fails |
| `log_stream_closed` | up to 2 bytes or messages | - | `StreamOpenInContext` fails |

Why these bounds: every race is between the worker and one or two calls. Two
versions of an email are enough for "an older version comes back while a newer
one waits", a third lets one be acknowledged in between. Two emails are enough
for a batch that fails in part. Two tasks let a new worker be created while the
old one has not ended, if the code allowed it (`SingleWorker` says it does not;
identities of finished tasks are reused). Two operations overlap as start/stop, stop/stop,
stop/sync and so on, one holding a lock and one waiting. `ChunkThreshold`
(1000 in the code) and `HardResetThreshold` (5) are parameters of the model, set
so that both sides of each test occur.

`sessions` restricts updates to a connected node because of the finding below:
with updates on a disconnected node, `SessionClosedClean` is false for the reason
`update_before_start` shows. It is checked of the bridge together with its node:
every step of `RemoteNode` is one of `NodeBridge` or leaves the bridge alone, and the
node may answer anything at any time, so nothing of the bridge's behaviour is lost.
Two calls are enough for a `stop` that overlaps a `start` or the request of
another `stop`; two callers let one update wait for `_sync_worker_lock` while
another is abandoned. A request is given up once at a time (`late` is a set), as a second
late Start or Stop changes nothing a first does not. `liveness` has one task: tasks
are reused.

`health_monitor` has no bound besides the three retries, at which the code decides
and the model stops to count, and the two identities, which are reused: it covers
every sequence of calls. A second
identity lets a check be created before the last one has ended.

In `transports` five users are split evenly and unevenly by chunk sizes from 1 to
6, with one chunk, several, and the single empty one; the worker's sizes fall
below, on and above the cap; the frame lengths lie on both sides of the first
boundary of the varint and on the second. The numbers of the code (10 chunks of at
most 2000 users) are parameters.

In `hosts` the four groups stand for eight: what matters is that an address may be
full, short of a group, or one too long, so that a port completes it or not. The
hosts include one that ends with colons and a name with a colon and no number, the
tails a "://" followed by a colon and one that makes a "://" of a colon before it.
`Text`, `NormalizeHost` and `FormatHostForUrl` agree with `utils.py` on 7 560 addresses
put together from such parts.

In `log_stream` five bytes hold two lines with a blank and an unfinished third,
in chunks cut anywhere, and a queue of one is full after the first line. The
instance says nothing of queues without a bound (`max_queue_size=0`), where no
put waits.

The comments of the properties in the modules say what each means. Each
property of a passing run has a mutant, a plausible slip in the code it is
about, under which TLC finds it violated; these are the operators marked
"Mutant" in the modules.

### Fairness

`Fairness` assumes, and the code justifies:

* weak fairness of every step of the worker that the event loop, a sleep or a
  request completes, and of the end of every request. REST requests have
  timeouts. gRPC's Start and Stop have them too; in the batch transports
  `stream.end()` and the exit of the stream have none, so there the assumption
  is that the node answers or the connection breaks;
* strong fairness of being handed a lock one waits for (asyncio locks are first
  come, first served; every holder releases). For a disconnect that waits for
  `_sync_worker_lock` (`StartCleansUp`, `StopCleansUp`) weak fairness is enough: it waits
  only for updates, which never hold the lock over a suspension;
* nothing of the idle timer, of `set_health`, or of the application: nobody is
  obliged to call anything.

In `HealthMonitor` the same holds of every step of a check (requests run under
`wait_for`, pauses end) and of a call that joined a check that is done; whether
the node answers, and what the application reports, is free. `LossNoticed` and
`ReturnNoticed` assume that a check is running and that the node stays as it is.

In `BatchSync` the client's steps are fair, a timeout expires where there is one
(`MustFail`), and a node that has not hung reads on and reports. It is not assumed
that the node does not hang: a node that hangs is what `SyncTimesOut` fails on, and
`ReturnsUnlessHung` says that there are no other places to wait forever than
`stream.end()` and the exit of a gRPC stream (G:254, G:278).

`RemoteNode` and `HostFormat` state no liveness: neither the application nor the
node has to do anything.

In `LogStream` only what the event loop does by itself is fair (the last step of
a cancelled task and the steps of leaving the context); neither node nor
application is obliged to act, and nothing is assumed of a put that waits.

`QueueDrains` assumes a node that is HEALTHY from some point on and a worker not
stranded by its idle timer: without the second condition it is false, which is
the first finding. It does *not* assume that batches succeed: leaving the queue
means being sent again and again.

## 4. Findings

1. **Lost wake-up** (`lost_wakeup`, C:377). The idle timer fires; before the
   worker runs again, `update_user` queues a user and sets the event; the worker
   is not `done()`, so none is spawned; the worker then leaves its loop. The user
   stays queued, with the event set, on a healthy node until some later update.
   `OnlyIdleExitStrands` shows that this is the only way to be stranded.
2. **Updates before start** (`update_before_start`, C:155). `update_user` on a
   node that is not connected does not raise `NodeAPIError` (README.md:53); it
   queues the user and a worker that exits at once. `connect` creates no worker
   and does not clear the queue, so the user goes out with the first update of
   the new session.
3. **Lost errors of the log stream** (`log_error_lost`, R:443, G:407). The
   exceptions of a lost connection are taken for those of the receiver's own
   cleanup, and an error that finds the queue full is dropped. The reader waits
   forever, although the docstring promises a `NodeAPIError` in the queue.
4. **REST log stream closed too early** (`log_stream_closed`, R:463). Only the
   response is kept of `self._client.stream(...).__aenter__()`; the context manager
   that owns it is collected, and closes it.
5. **Syncs that hang** (`sync_hangs`, G:254, G:278). `stream.end()` and the exit of
   the stream's context, which reads the trailers, have no timeout, and the channel
   sends no pings (G:49 sets a keepalive timeout, but no keepalive time). A node that
   hangs there blocks the call forever, the worker's too, and a chunked sync
   holds `_node_lock` meanwhile. `examples/example.py`:22-23 says that
   `default_timeout` "applies to all public API methods (start, stop, info, get_*,
   sync_*)" and `internal_timeout` "to internal gRPC/HTTP operations".
   `ReturnsUnlessHung` shows that these are the only two such waits.

Noticed beside these, without a run: the comment "Drop oldest log if queue is
full" (G:398, R:434) describes branches that are never taken, as `put()` waits;
the check of the receiver's exception after the context (G:438) never raises, as
the receiver handles every exception. A `stop` returns at once, without an effect,
while a first `start` or the request of another `stop` is under way (G:140): the
comment of `StopHolds` says what is left of its promise. A gRPC channel is opened
to the address as it was given, while the URLs contain the normalised one. In an
address without a scheme, "://" in the path is taken for its end, also where a
colon before the path makes one (U:62). A name followed by a colon and something
that is no number keeps both: `name:abc` becomes `https://name:abc:port/`, where a
reader takes `abc` for the port (U:107-112, 136). An IPv6 address without brackets
takes a port for its last group if it is short of one (U:89). An error raised by
`connect` inside `start` passes `_handle_error` again and loses its code (R:149-152).
The docstring at C:181 says that `_try_recover_health_after_sync` recovers a node
"from BROKEN or INVALID": `set_health` refuses to leave INVALID (C:115), so it would log a
recovery from INVALID that did not happen. Nothing calls it.

What the bridge does not follow up is in `RemoteNode`, named as the conditions of
`NodeInStep` and `StopHolds`: a Stop that fails, a Start whose answer is lost, a late
request, a refused restart, empty versions. No document of the repository
promises more, so these are no findings.

## 5. What TLAPS proves

The theorems hold for every value of the constants that satisfies the named
assumptions, which TLC evaluates in every run: `ThresholdAssumption` (thresholds and
bounds are naturals, the threshold positive and within the counter's bound),
`WorkerAssumption` (identities are distinct, health values are health values), and
the assumptions of the modules apart. So they speak of any set of emails, tasks,
callers and operations, any number of users, any chunk size, any queue size and
streams of any length.

*NodeBridgeProofs.* `TypeCorrect` proves `TypeOK`, one step per action. The safety
properties are not inductive by themselves: that a requeued user does not replace
a newer one depends on there being one worker, which depends on who holds
`_sync_worker_lock`, which depends on where the calls are. `Invariant` proves the
inductive

    IInv == TypeOK /\ ControlInv /\ DataInv

where `ControlInv` is the discipline of tasks and locks (one unfinished task, the
known one; users only in a task that is sending or cancelled; the holder of each
lock is the one whose place says so; while a disconnect joins, no task is
anything but done or cancelled) and `DataInv` orders the versions of an email
(acknowledged < under way < queued <= submitted, and nothing lost). To keep the
proofs of the two halves short, lemmas first reduce every step of a worker to
`LoopEffect` or `SettleEffect`: which task moves where, with which users. From
`Invariant` follow `OneWorker`, `UpdatesKept`, `QueueNewer`, `RequestsExclusive`
and, for the steps, `OrderedSends`.

`MailboxImplemented`: under `IInv`, an update is a `Submit`, a
round of the worker a `Take` or a stutter, the outcome of a sync a `Settle` (with
the next batch in the same step, if there is one), a cancellation an `Abandon`, a
flush or the end of a session a `Flush`, and everything else a stutter. The key
lemma is `UnderWayKept`: a worker that is replaced or forgotten holds nothing.

*SessionProofs.* `InvalidForGood`, `VersionsFollowHealth`, `ShutDownForgets`,
`HardResetExact` and `EventExact` are inductive with `TypeOK`; each rests on lemmas that
say which actions touch the variables (`HealthKept`, `LockingKept`, `FailuresKept`,
`QueueOperations`).
`CleanSessions` needs `IInv`, to know that a disconnect without a live worker
finds all batches empty, and the assumption that users are updated on a connected
node only, without which it is false (second finding).

`NoOtherStranding` proves `OnlyIdleExitStrands`: with users updated on
a connected node only (or on an INVALID one), queued users of a connected node
have a live worker, or a call about to make one, unless the idle timer stranded
them. `WakeInv` adds to `IInv` and `EventExact` that a disconnect that is over has
left no connected node, that one that has set the shutdown event but has to wait is
among the waiters of `_sync_worker_lock`, and that a worker is cancelled only by a
call that holds it. The key lemma `LoopGoesOn` goes through one round of the
worker: it ends only with an empty queue, on a disconnected node, or at shutdown.

*RemoteProofs.* `BridgeKept`: every step of `RemoteNode` is one of `NodeBridge` or
leaves the bridge alone, so that all theorems above hold of a bridge with its
node. `InStep` and `StopEffective` follow from `RemoteInv`, which says, for each
place of the one call that holds `_node_lock`, what the node is and what the bridge
takes it for; that there is one such call is `ControlInv`.

*BatchSyncProofs.* `BatchInvariant` has three parts: the messages on the stream
(`Partition`: each chunk begins where the last ended, the mark is on the one that
ends at the last user; `Passed`: without chunks, every user passed is failed, on
its way or applied), what the client has done in each place, and what the node has
applied of what it has read. `NoUserForgotten` and `ChunksWhole` follow for
every number of users and every chunk size, where TLC had five users. `AimKept` proves
`FewChunks` from the pace of the chunks (`ChunksPaced`): every chunk but the last is
full. `FramesFound` proves `FramesDelimited` for every length of a message: an
induction over the bytes shows that decoding undoes encoding and that only
the last byte is below 128 (`Framing`).

*HealthMonitorProofs.* `MonitorInvariant` is the discipline of `_tasks`: every check
that is not done is in the list, the list has one element at most, and it is
emptied only when its elements have been cancelled and joined. `MonitorTypes`,
`CheckEndsWithSession`, `SingleCheck` and `ReportsFollowVersions` follow. `ChecksReport`
shows what NodeBridge takes for granted: a step of a check leaves the node's state
alone or is a `SetHealth` of HEALTHY or BROKEN on a node that is not disconnected.

*Induction.* What the provers have no rule for, as lemmas about sets and functions
instead of operators: the least and greatest elements of sets of naturals, induction
over a set of naturals (`StepInduction`, `SetInduction`), and that a recursion by a
measure has a solution and a type (`Recursion`, `RecursionType`). *BatchSyncProofs*
and *LogStreamProofs* apply them to `Decoded`, `Encoded` and `Split`.

*LogStreamProofs.* Two parts. The first is about bytes: `SplitLines` shows that the
receiver's loop yields exactly the lines that the positions of the newlines give, for
all bytes, and `SplitInParts` that a stream cut anywhere, with the rest of one part
put before the next, yields the same lines as the whole. The second is about the
state: `ReceiverDiscipline` (who may cancel the receiver, and that nothing revives
it) gives `ReceiverEnds`; `LogTypes` bounds the queue; `LogComplete` says that log
and receiver together hold all the lines that arrived until a cancelled receiver
gives some up, and that nothing is put behind an error. `ErrorLast` and `LinesKept`
follow.

*HostFormatProofs.* `HostKept` and `PortKept` prove `HostCanonical` and
`PortUnambiguous` for every choice of credentials, hosts and tails that satisfies
`PartsAssumption`, of any length, and any number of groups, where TLC computes on
4 914 addresses. The assumption says what the parts are, and leaves out only IPv6
addresses that end with a dotted quad; which URLs are another address's is said by the
three exceptions in the properties. `UrlsBuilt` says that the only URL is the one of
the given address; the rest is about texts. Stripping, cutting at the first or the
last delimiter and bracketing each have a lemma that says what they return for a
text put together around a delimiter. With them, `SchemeCut` shows that only the
scheme is cut off, and `AuthorityIs` that `Authority` leaves host and port, unless
something else is taken for a scheme. The host that `NormalizeHost` makes of these
(`HostFound`) is `Clear`, unless it is one with a single colon and no number: without
brackets, and with no colon or at least two, where it gets brackets. That is what a
reader of the URL needs to find host and port (`UrlRead`).

What TLC checks only: liveness and what needs `ENABLED`, which are out of TLAPS'
reach.

## 6. Not modelled

The plan of this project has been carried out as far as the code has behaviour
that a model can show. Left out, and why:

* **Error mapping** (`_handle_error`, `grpc_to_http_status`): two tables without
  state. The models keep which step raises; no caller in the repository
  branches on the code.
* **Read-only requests** (`info`, `get_stats` and the others): one request each, and
  no state of the bridge is read or written.
* **JSON side channel** (C:467-535): a connectivity check and a request on a client
  of its own, neither of which touches the state of the bridge.
* **Constructors and factories**: they set the initial state, which is `Init`, and
  build URLs, which is `HostFormat`.
* **`_try_recover_health_after_sync`** (C:177-213) would assign HEALTHY after awaiting
  the node, whatever the health has become meanwhile. Nothing calls it, so it is
  part of no behaviour; health monitoring counts as partly modelled for this reason.
* **The order of a direct sync and a failed batch** (C:417): a flush during an
  in-flight batch removes nothing of it, and its users may be requeued and sent
  after the direct sync that the flush prepared. The model has the behaviour,
  but neither code nor documentation promises anything else.
* Generated protocol code, TLS, proxies, serialisation, undecodable bytes, and the
  length of delays.

`HealthMonitor` is not composed with `NodeBridge`, as `start` creates no check today;
if it did, `SetHealth` of `NodeBridge` would be replaced by the steps of the check.
