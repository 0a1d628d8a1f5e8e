# TLA+ specifications of stitch

stitch is a durable message queue: an HTTP API over in-memory queues whose every
state change is first appended to a write-ahead log. These modules model the
queue, its maintenance goroutine, its recovery and the log, check them with TLC on
small instances, and prove three of the queue's invariants with TLAPS for every
value of the constants.

`PROJECT.json` maps every definition to the source lines it models, and lists the
runs, a mutant for each property of each passing run, the findings, the hazards
and the theorems.

## The system

| Part | Source | State | Operations | Modules |
|---|---|---|---|---|
| queue operations | `internal/queue/queue.go`, `order.go`, `message.go` | messages, ready and delayed heaps, in-flight map, lease heap, DLQ, dedup claims, counters | Enqueue, Dequeue, Ack, Nack, Stats | `Order`, `Queue` |
| maintenance goroutine | `internal/queue/queue.go` | `armed`, the wake channel, what it popped | `maintain`, `Maintain`, `nextDeadline`, `wakeIfSooner`; `stop` is not modelled yet | `Queue` |
| queue recovery | `internal/queue/manager.go`, `record.go` | replay position, `replayState.leased` | `apply`, `finalize` | `QueueRecovery` |
| manager | `internal/queue/manager.go` | map of queues | CreateQueue, Queue, Queues, Close | not yet |
| log writer | `internal/wal/wal.go`, `segment.go` | segments, size, request channel, batch, sticky error | Append, Close, `run`, `commit`, `rotate` | `Wal`, `DurableLog` |
| log recovery | `internal/wal/recovery.go` | segment files | `replay`, `truncateSegment` | `Wal` |
| framing | `internal/wal/record.go` | none | encode, decode | one cell per frame in `Wal` |
| API | `internal/api` | none of its own | handlers | callers and answer history in `Queue` |
| server, load generator, dashboard | `cmd`, `web` | | | not modelled |

How they interact. A handler calls a queue. The operation takes `q.mu`, reserves
what it needs (takes a message out of its heap, installs a dedup claim), drops
`q.mu`, appends a record and blocks until the log's single writer has written and
fsynced the batch it is in. It then takes `q.mu` again and commits, or undoes the
reservation if the append failed. The maintenance goroutine does the same for
expired leases and runs beside the operations. On start the manager folds the log
into memory one record at a time.

What is hard here: everything that happens between the two critical sections of
an operation; clock readings taken before the lock; lease entries that outlive
their lease; two appends in one `Maintain`; a failed fsync whose records are in
the file nevertheless; a process that dies at any of these points; rotation and
torn frames. `PROJECT.json` lists 29 such hazards at their lines.

## Modules

**DurableLog** is what the log promises to a queue: `disk` is the record stream
recovery would read, its first `synced` records are covered by an fsync, `dead` is
the sticky error, and `phase[p]` and `rec[p]` are where caller `p` is in Append and
with what. `LogKill` keeps the page cache; `LogPowerLoss` keeps some prefix that
has everything synced. `LogSync` covers the stream up to its end, or, when a killed
process left an uncovered tail in an earlier segment, leaves `synced` where it was:
an fsync is of one file.

**Wal** is the log's implementation: read and write lock, channel, drain, rotation,
frames written in two halves, fsync, reply, Close, failing calls, and `replay` over
segments that may end in a torn frame. A caller is in `Call` until it has the read
lock (`Enter`) or finds the log closed (`Refuse`). `Close` waits for the write lock,
and from then on lets no new reader in; `CloseReqs` has the lock and closes the
channel; `CloseReturn` follows the writer's exit. `ImplementsLog` instantiates
DurableLog under a refinement mapping: `diskBar` is the decodable content of the
segments, `syncedBar` counts the records before the first one that is not durable
in its own file, and `phaseBar` places a caller by the batch it is in.

**Order** is the comparator and what `n` pops of a heap return.

**Queue** has one action per critical section. `EnqueueReserve`, `DequeueReserve`,
`AckReserve` and `NackReserve` are the sections before an append;
`EnqueueCommit`, `DequeueCommit`, `AckCommit`, `NackCommit` and `NackToDLQ` those
after a successful one; `EnqueueUndo`, `DequeueUndo` and `SettleUndo` those after
a failed one. `EnqueueDuplicate` and `DuplicateReturn` are a call that meets a
dedup claim. `nextDeadline`, `TakeWake`, `Maintain`, `ExpireCommit`/`ExpireUndo`,
`SendDLQ` and `DLQCommit`/`DLQUndo` are the steps of the maintenance goroutine.
`Readings` are the values a clock reading taken before `q.mu` may still have.
`granted`, `confirmed` and `acked` are history: what clients were told.

**QueueRecovery** adds the process: `Crash`, one `Apply...` action per record type,
and `Finalize`. `MaxCrashes` bounds the deaths of a serving process; a process in
replay may die any number of times. A record about an unknown message sets
`mode = "failed"`, as Open then fails.

**QueueProps** states the properties; **MCQueue** and **MCWal** add symmetry for
TLC. **QueueTypeSteps** and **QueueTypeProofs**, **QueueOwnerSteps** and **QueueProofs**,
and **QueueWakeProofs** hold the proofs; the `Steps` modules have the inductive
invariant and the steps of clients, the other of each pair the remaining steps and
the theorem.

### Abstractions

- A heap is a set; its array layout is not modelled. Bodies, logging, and
  `leaseExpires` (written, never read) are left out.
- The messages of one Dequeue share a token. Tokens are only compared with tokens
  of the same message.
- `MaxItems` stands for `maxRecordSize`: the number of items that fit in a record.
- Calls that fail before they reserve anything change nothing and are no actions.
- A queue has the log to itself and its QUEUE_CREATE record is taken as replayed.
- `AppendTime` restricts how long an enqueue may wait for its append. It is
  effective only in the Dedup run, where the property depends on it.

### Assumptions about the environment

A successful fsync makes a file's content durable. A power failure keeps a prefix
of each segment that has the durable part, and possibly one torn frame after it.
The CRC rejects a torn frame. The clock never goes back, across restarts either.
`randomID` never repeats an id.

## Runs

Passing runs. State counts are distinct states.

| Run | States | Shows |
|---|---|---|
| PowerLoss | 1.4M | Two clients, two messages, maintenance, failing writes, power failures: `SingleOwner`, `ReplayAccepts`, `NoConfirmedLoss`, `AckIsFinal`, `MemoryIsFoldOfLog`, `SeqNeverReused`, `TypeOK` |
| Lifecycle | 199k | Under `FairSpec`, one message through up to four leases, delays, nacks, expiries, kills and a failing log, without a DLQ: `ReplayAccepts`, `NewestLeaseSettles`, `NoEarlyExpiry`, `AttemptsBounded`, `MemoryIsFoldOfLog`, `RequestsAnswered`, `LeasesEnd`, `DelaysEnd` |
| Ordering | 972k | LIFO, priorities, delays, nacks, expiries, batches of two, clock readings one tick stale: `DeliversInOrder`, `NoMissedDeadline` |
| Oversize | 1.5M | One item fits in a record, two leases expire together, the log may fail: `LeaseCanExpire`, `SingleOwner` |
| Dedup | 410k | Three enqueues with one key, failing appends, power failures: `DedupWindow`, `ConfirmedIsSynced` |
| WalPower | 45k | Group commit, rotation, torn frames, failing calls, two power failures: `ImplementsLog`, `DamageOnlyInLastSegment`, `SizeIsFileSize`, `TypeOK` |
| WalProgress | 192k | Under `FairSpec`, fsync=always, a channel of one, failing calls, a kill, Close at any time: `AppendsReturn`, `CloseReturns`, `ImplementsLog` |

Three of these say more than their names. `DeliversInOrder` is stated by the real
clock and not by the reading a dequeue works with: what it delivers is due now, and
what it leaves was not due at the oldest reading it may have, or comes later in the
order. `AttemptsBounded` says that a message back in a heap has attempts left, one
more for each crash that returned it without a DLQ check. `LeaseCanExpire` says that
a message in flight has an entry in the lease heap; on a failed log `restoreLeased`
may put one back without an entry, and then its lease had already run out.

Runs that show a disagreement between the code and what the repository says of it.
`PROJECT.json` quotes the lines.

| Run | Property | What happens |
|---|---|---|
| ExhaustedAfterCrash | `ExhaustedLeavesRotation` | A message on its last attempt when the process dies is delivered once more |
| OversizeStops | `StopsOnlyWhenDead` | A LEASE_EXPIRE batch over the record limit ends the maintenance goroutine of a healthy log |
| DuplicateBeforeFsync | `ConfirmedIsSynced` | After a kill a duplicate is answered 201 for a record no fsync has covered |
| DedupReplayOrder | `DedupWindow` | An enqueue stalled before its send until its claim lapsed is logged after its successor; after a restart a third message is accepted inside the window |
| TornEarlierSegment | `DamageOnlyInLastSegment` | A killed process's unsynced tail is left behind by the next batch's rotation; a power failure then tears a segment that is not the last |

Three properties are in both tables. `ConfirmedIsSynced` holds across power
failures and not across a kill. `DedupWindow` holds while no enqueue waits
longer than its claim lasts; the channel is FIFO, so the reordering that breaks it
needs a caller stalled between its reservation and its send, and a slow fsync is
not enough. `DamageOnlyInLastSegment` holds with power
failures alone and not when a kill precedes one. For that reason the log is shown
to implement DurableLog for power failures and for kills separately, and not for
a kill followed by a power failure.

One more difference has no run. `Maintain` adds a message it dead-letters to the
expired counter, and `apply` of the DLQ_MOVE record does not, so that counter drops
across a restart, although `docs/DESIGN.md` says that the recovered state is the
state that existed. `MemoryIsFoldOfLog` therefore compares every counter but this
one and the duplicates, which are not logged.

### Bounds

PowerLoss and Dedup have two clients and the maintenance goroutine, enough for any
two operations and `Maintain` to overlap. Lifecycle, Ordering and Oversize have one
client: what they ask about is a client against `Maintain`, the clock and the log,
and in Lifecycle, where one message is held by one operation at a time, a second
client would find nothing to do. Two messages suffice for order, batches and
mistaken identity; Dedup has three, as its hazard is a third message. `Horizon` ends
the clock, `MaxTokens` bounds leases granted, `MaxDups` duplicates and `MaxCrashes`
deaths of a serving process; deaths during replay are not bounded. Lifecycle allows
four leases of a message with two attempts and one crash, so that it is exhausted
before and after the crash and that an entry of an old lease meets a newer one.
Ordering grants one lease: what a nack or an expiry puts back counts for
`NoMissedDeadline`, and its order on redelivery is that of any message in a heap.
The log runs have
segments of one or two frames, so rotation happens with every second batch at the
latest. WalPower has two crashes, so that recovery works on a recovered log. The mutants
show that the bounds reach the cases: each breaks its property within them.

Deadlock is not checked: the clock, ids, tokens and payloads run out by design.
What must not get stuck is stated as liveness in Lifecycle and WalProgress. Those
two runs use no symmetry. Lifecycle has no dedup key, so that a duplicate stops
waiting for its original is not among what it shows.

### Fairness

Weak fairness of the log's writer goroutine, of each client's completion, of the maintenance goroutine, of the clock and of recovery.
The Go scheduler runs every goroutine that can run, the writer serves its channel
in order, a disk call returns, and time passes. Requests, faults, crashes and Close
are not fair: nobody has to send, settle or crash. In Wal the fair actions are
those of callers already inside Append, of a Close that has been called, and of the
writer.

## Proofs

Assumed: `QueueAssumption`, `RecoveryAssumption` and `FaultsAssumption`, which only
give the constants their types, say that ids are finitely many, that a batch a
consumer asks for fits in a record, and that the maintenance goroutine is one of
the callers. TLC evaluates them in every MCQueue run. The model's bounds
(`Horizon`, `MaxTokens`, `MaxDups`, `MaxCrashes`) are arbitrary natural numbers, and
there may be any number of clients and any finite number of message ids.

- `TypeCorrect` (QueueTypeProofs): `Spec => []TypeOK`. TypeOK is not inductive: a
  commit applies whatever record its caller has in the log. `TypeInv` adds that a
  client inside Append has the record of its own operation (`ClientOK`), the same
  for the maintenance goroutine and what it popped (`MaintainerOK`), and that a
  claim in force names a message (`DedupOK`).
- `SingleOwnerCorrect` (QueueProofs): `Spec => []SingleOwner`. `OwnerInv` is
  SingleOwner one message at a time (`OwnedOnce`), with three additions. An enqueue
  publishes an id long after choosing it, so until then the id is in no place
  (`FreshOK`, which reaches into the log as recovery reads it back). `Maintain` does
  not both requeue and dead-letter a message (`SplitOK`). Recovery starts with
  nothing in flight (`QuietOK`). There is one lemma per action.
- `NoMissedDeadlineCorrect` (QueueWakeProofs): `Spec => []NoMissedDeadline`.
  `WakeInv` adds that no delayed message has deadline 0, which `armed` uses for
  "none", and that the delayed heap is empty until recovery is over. OwnerInv is
  needed too: a commit changes the visibility time only of messages that are not in
  the delayed heap. A step that adds a deadline calls `wakeIfSooner` for it
  (`WakeSooner`); every other step adds none (`WakeFrame`) or leaves the goroutine
  awake (`WakeBusy`).

Only model-checked: liveness, which TLAPS does not handle under fairness; the
refinement of DurableLog by Wal; and the other safety properties.

## Not modelled

- Manager: creation, lookup and Close over several queues that share a log, and
  `stop` of the maintenance goroutine.
- API: parameter limits, int64 arithmetic on delays, the table from errors to
  status codes. JSON, metrics and the dashboard are I/O.
- Frame bytes and CRC; array layout of the heaps; JSON record codec.
- I/O errors during recovery: Open fails and leaves the files as they were.
- A clock that is set back.
- `cmd/queued` and `cmd/loadgen`.

## Plan

1. Manager over one shared log with several queues: CREATE before any record of a
   queue, Close against running operations, shutdown order of `cmd/queued`.
2. The heap algorithms of `order.go` against `popped`, and the API's clamps and
   error table, as operators checked against reference definitions.
3. An abstract at-least-once queue, and QueueRecovery shown to implement it.
4. The load generator's bookkeeping against that abstract queue.
5. Proofs: `LeaseCanExpire`, `ReplayAccepts`, `NoConfirmedLoss`, `AckIsFinal`,
   `SeqNeverReused`, and the safety part of `ImplementsLog`.
