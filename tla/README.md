# Sisyphus in TLA+

Sisyphus is a Go toolkit for command-line programs that keep local state: DuckDB
files shared between processes, config documents with versions, sealed secrets,
encrypted backups, a Unix-socket broadcast, streams, schedules and a daemon.
Nothing coordinates the processes but the file system: `flock` files, renames,
sockets and a marker file. This directory models that coordination, checks it
with TLC and proves the part that everything else rests on with TLAPS.

1. [Inventory](#1-inventory) · 2. [Modules](#2-modules) · 3. [Runs](#3-runs) ·
4. [Bounds, fairness, abstractions](#4-bounds-fairness-abstractions) ·
5. [Proofs](#5-proofs) · 6. [Disagreements](#6-where-code-and-comments-disagree) ·
7. [Not modelled](#7-not-modelled) · 8. [Plan](#8-plan)

To check a module: `tlc -config MCHandleShared.cfg MCDuckHandle.tla`. To check the
proofs: `tlapm DuckHandleProofs.tla`.

## 1. Inventory

| Part | State | Operations | Hard | Correct when |
|---|---|---|---|---|
| `internal/duckdb` Handle, sidecar locks | `Handle.{db,mu,timer,gen,armed,pending,closed}`, process registry `locks`, `<db>.lock`, `<db>.wait` | `Do`, `Ensure`, `Close`, `onIdle`, `AcquireLock`, `Release` | goroutines, timer goroutines and processes interleave; timeouts, cancellation, failed opens, crashes | one process has the file open; the lock is released exactly when nobody needs it; waiters are served; Close is final |
| `internal/duckdb` umask guard | process umask, count of opens | `secureUmask` | overlapping opens | files are owner-only, the first mask comes back |
| `kv` | one table: namespace, key, value, expiry | `Put`, `Get`, `Delete`, `List`, `Namespaces`, `Stats`, `Clear`, `Sweep` | reads that delete; expiry tested in three places | an expired row is never seen, a fresh one never deleted |
| `journal` | runs with children, records | `StartRun`, `FinishRun`, `Add`, `Delete`, `Prune`, `Retain` | eviction against open runs and late children, a failing statement or checkpoint | no record without its run, counts are sums, an eviction takes the runs it should, whole, and reports them |
| `configdb` | `store_current`, `store_history`, `<db>.gen` | `Import`, `Forget`, `Generation`, `Current`, `History` | crash between commit and marker, two writers' markers | history is complete, pollers miss nothing |
| `ConfigStore` (`manager.go`) | files and snapshots | `Plan`, `Apply`, `Effective` | decisions on stale plans | files and snapshots converge |
| `backup` | destination, staging and rollback directories, locks | `Archive`, `Restore` | a rename fails, the process dies, another process opens the database | nothing is lost; a rolled back restore left nothing behind; a snapshot is all that was committed |
| `secret` | items of the keyring and of password managers | `Open`, `Get`, `Set`, `GetOrCreate` | two processes create the key, a `Set` fails half way | a key that is used has been stored |
| `sealed`, `internal/crypt` | the cached key, its mutex, rows in `kv` | `Open`, `Get`, `Put`, `Delete`, `Close` | first use by several goroutines and processes | one key per Store, and what it seals can be opened |
| root `Backup` and `Restore` (`backup.go`) | none | the two | the key, the archive and the stores fail apart | the archive's key is where its `SecretRef` says |
| `stream` | seen keys, marker, subscriptions | `Source.Run`, `Poll`, `Deduper.Unseen`, `Subject` | errors of the store that are dropped, restart between two writes, Close against Subscribe | each event announced at most once, no send on a closed channel |
| `ipc` | socket file, `<path>.lock`, broadcast slots | `Listen`, `Close`, `Broadcast` | stale socket files, Close overtaken by the next Listen | one listener, reachable at the path |
| `schedule` | next due times, failures | `Run`, `RunAt` | slow and failing jobs, backoff | no job before its time nor much behind it, every job is asked again |
| `daemon` | error, four channels, a context | `Start`, `Stop`, `signalFatal`, `Run` | an error races a request to stop; the work hangs | the service ends, and with the error if there was one |
| `lifecycle`, `mode`, `config`, `fsutil`, `auth`, `redact` | home directory, flags, tokens | `Install`, `Nuke`, `Gate`, `WriteAtomic`, device poll | partial failure, numeric edges | see `PROJECT.json` |

**How they interact.** `kv`, `journal`, `configdb` and `duckfile` each own one
`duckdb.Handle` and run every query inside `Handle.Do`. `backup` takes the same
sidecar lock through `AcquireLock`, past the registry, so a backup and
a store exclude each other across processes *and* inside one process. `sealed`
stores live in `kv` and seal with a key from `secret`; the root package's `Backup`
and `Restore` add a key of their own to `backup`. The work of a daemon service is
`schedule.Run`. `ConfigStore` is Plan and Apply above `configdb`. `ipc.Broadcast` copies
a `stream.Subject` to socket connections. `stream.Deduper` persists in `kv`.
Calls are synchronous; callbacks are the operation passed to `Do`, `time.AfterFunc`
and the handlers of schedule and daemon.

`PROJECT.json` lists every component with its status, and every hazard at its line
with the properties that would catch it.

## 2. Modules

| Module | Models | Shape |
|---|---|---|
| `DuckFile` | what a database file promises its users | abstract specification, no locks or timers |
| `DuckHandle` | `internal/duckdb/handle.go`, `flock_unix.go` | detailed; implements `DuckFile` (`ImplementsDuckFile` has the mapping) |
| `MCDuckHandle` | instances | |
| `DuckHandleProofs` | theorems of `DuckHandle`, the refinement among them | TLAPS |
| `Restore`, `MCRestore` | `backup.Restore`: fence, stage, swap, roll back | |
| `RestoreProofs` | theorems of `Restore` | TLAPS |
| `SocketListen`, `MCSocketListen` | `ipc.Listen` and the guarded `Close` | |
| `SocketProofs` | theorems of `SocketListen`, and of `Broadcast` with its `Subject` | TLAPS |
| `ConfigDB`, `MCConfigDB` | `configdb`: transactions, history, generation marker, pollers | |
| `ConfigDBProofs` | theorems of `ConfigDB` | TLAPS |
| `ConfigStore`, `MCConfigStore` | `manager.go`: Plan, Apply, Forget over `BackendBoth` | |
| `Subject` | `stream/subject.go`: the goroutine, its calls and channels | component, no `Next` of its own |
| `Broadcast`, `MCBroadcast` | `ipc/socket.go`: Broadcast above a Subject, and its clients | EXTENDS `Subject` and gives its calls a caller |
| `Kv` | `kv/kv.go`: the table, its statements, its other users | component, no `Next` of its own |
| `Source`, `MCSource` | `stream`: Source.Run, Poll and the persistent Deduper | EXTENDS `Kv`: its store |
| `SourceProofs` | theorems of `Source` and `Kv` | TLAPS |
| `Journal` | `journal/journal.go`: every operation as its statements | |
| `JournalProofs` | theorems of `Journal` | TLAPS |
| `Schedule` | `schedule/schedule.go`: the loop of `Run` | component, no `Next` of its own |
| `Service` | `daemon/service/service.go`: the life of a service process | EXTENDS `Schedule`: its work |
| `ServiceProofs` | theorems of `Service` and its schedule | TLAPS |
| `Escrow` | `secret`: the backends, and GetOrCreate in two steps | component, no `Next` of its own |
| `Sealed` | `sealed/sealed.go`: Stores of several processes over one file | EXTENDS `Escrow`: its keys |
| `Vault`, `MCVault` | `backup.go`, `backup.Archive`: the commands beside those Stores | EXTENDS `Sealed`: what it backs up |
| `VaultProofs` | theorems of `Vault` | TLAPS |

### DuckHandle

`pc[a]` says where a goroutine is in `Do`; the header of the module lists the
values. One action is the code between two points where another goroutine or
process can get in: taking or dropping `Handle.mu`, one `flock` attempt, the
registry critical sections, opening, the operation.

| Code | Actions |
|---|---|
| `Do` up to the mutex | `Call`, `Enter` |
| `wanted()`: try `<db>.wait`, put it back | `Probe`, `Unprobe` |
| `shutLocked`: close the database, then `release` | `Shut`, `Release`, helper `DropRef` |
| `yieldLocked`: stay out with the mutex dropped | `YieldReturn`, `YieldResume` |
| `acquire`: registry, `flockSidecar`, registry again | `Acquire`, `Queue`, `Take`, `LeaveQueue`, `TimeOut`, `Abandon`, `Register` |
| `openLocked` | `OpenDb`, `OpenFails` |
| `fn`, `arm`, unlock | `Finish`, helper `Arm` |
| `time.AfterFunc`, `onIdle` | `Expire`, `StaleWakeup`, `OnIdle` |
| `Close` | `Close` |
| `AcquireLock`, `Lock.Release` | `AcquireLock`, `ReleaseLock` |
| process death | `Crash` |

Two stages of `flock` matter. A waiter first owns `<db>.wait` (the only one to
do so) and then polls `<db>.lock`; the process in possession probes `<db>.wait` on
every `Do`, and hands off when somebody is there. The registry lets Handles of one
process share a single `<db>.lock` by counting references.

### Restore

`Begin` to `Stage` are the decisions before the swap: which destinations are
databases, their locks, staging. `SkipLock` passes a file that is no database, `SkipUnread` a database
that `isDatabase` fails to look at, which goes into the ghost `unread`; `LockFails` is a lock held elsewhere or lock
files out of reach. `SetAside` and `Place` are the two loops of
`swap.run`, one rename each, `NextSide` the skip of a missing `.wal` or `.tmp`.
`RenameFails` enters `swap.abort`: `Unplace` removes what was placed, `PutBack`
renames back what was set aside and collects what cannot be. `Open` and `Close` are
another process that uses the databases through a Handle. `dest` and `aside` map
names to *old*, *new* or *live* (created meanwhile by the other process) contents.

### SocketListen

`Lock`, `Look`, `Probe`, `Remove`, `Bind`, `Chmod`, `Guard` are the steps of
`Listen` under `<path>.lock`; `Check` and `Unlink` are the two system calls of a
guarded `Close`, which does not take that lock. Inodes are reused, as file systems
do. `robbed` remembers listeners whose file such a Close has removed (see
[Disagreements](#6-where-code-and-comments-disagree)); `SingleListener` and `Reachable` are about
everybody else, `ServiceReturns` is about them too. `calm` turns the faults off for good, at a moment of TLC's
choice; `ServiceReturns` is about what comes after it.

### ConfigDB and ConfigStore

`Begin`, `Archive`, `Replace`, `Commit` are the transaction inside `Handle.Do`,
whose exclusion is the variable `busy` here (proved of `DuckHandle`:
`OperationHolds`). `CommitUnreported` is the commit whose `Do` returns an error all the same, since it looks at the
permissions of the log afterwards: `Import` and `Forget` leave without `bump`. The ghost `lapsed` is set where a
commit loses its marker, there and by a crash or a failing `bump`. `Stamp` and `Mark` are `bump`, under `revMu`. `PollMarker` and
`PollRead` are a reader that watches `Generation`. `imported` is a ghost: all
contents imported since the last Forget. `ConfigStore` uses an atomic import, which
is what `ConfigDB` shows, and models callers that carry an `Item` from reading the
file through `Plan` to `Apply` while files, snapshots and other callers move on.

### Subject and Broadcast

A call of `Subscribe`, `Unsubscribe` or `Next` is two steps: the caller arrives
(`Subscribe`, `Unsubscribe`, `Publish`) and its value is taken, or `done` is closed
(`Subscribed`, `Unsubscribed`, `Published`); in between it waits. `run` is `TakeStop`,
`Offer`, `CloseChannel` and `LoopEnds`, one channel at a time, because receivers
get in between. `Broadcast` conjoins the calls with its own steps: `Accept` takes a
slot and subscribes, `Leave` and `WriteFails` unsubscribe, `HangUp` and `FreeSlot` are
the deferred `conn.Close` and the slot, in that order. `since` is a ghost: the last
value a client has seen, or the last one published before its subscription.

### Kv and Source

`Kv` gives each operation as the change it makes to the table, in one step: Handle.Do
excludes all other users, which `DuckHandle` proves (`OperationHolds`). `Source` is the
pipeline above it. `Step` and `PollDone` are the goroutine of `Poll` or `PollAdaptive`;
`Receive` is the unbuffered channel between the two. In the goroutine of `Source.Run`,
`Load` makes the Deduper, `Skip`, `Record` and `Evict` are its loops, one operation of the
store each, since the process may die or the context be cancelled after any of them;
`LoadFails`, `RecordFails` and the second halves of `Evict` and `Finish` are errors
that the Deduper drops. `Others` and `ClearNamespaces` are other users of the store.
`known` is a ghost, the items that must not be announced again; an eviction, a Clear
or a failure of the store puts an item into `excused` until it is stored again.

### Journal

Every operation is one `Handle.Do`, so one action: `Remove` is what its statements do
to the tables, in their order, `Fails` what is left when one of them, the commit or the process fails
(a deferred rollback: nothing). That the rollback works is DuckDB's part and assumed. `Returned` is what `Do` answers after
that, since the log's permissions may fail after a commit. `Add`, `FinishRun` and `Delete` get ids that were handed
out once, and whose run may be gone. `Prune` and `Retain` share `Evict`, as in the code, with
the outcomes in which the transaction has committed and the checkpoint, or `Do` after it, has failed.
`settled` is a ghost, the runs whose children nobody has touched since `FinishRun`; `reply`
is what the last `Add`, `Prune` or `Retain` was asked and has answered.

### Schedule and Service

`Top`, `NotDue`, `NextFails`, `NextLater`, `NextNow`, `RunDone`, `RunFails`, `Sleep`, `Wake` and
`WakeCancelled` are the ways through one cycle of `Run`. All times are relative to the present, so that
`Tick` moves everything that has been noted closer, and the model has no clock to bound; `cycle` is the `now` of the
code, which it reads once per cycle and which falls behind while a job runs. `since` is a
ghost, the age of a job's failure. `Service` has the four goroutines of a service process:
the work, which is `Schedule` until `WorkReturns`, then `WorkSetErr`, `WorkSignal`, `WorkDone`;
the platform's runner, `RunnerUnblocks` to `RunReturns`; the signal handler, `Asked`; and what
`signalFatal` leaves behind, `GraceEnds` or `GraceExpires`: the one request to the manager, which may be refused (`unheard`). One channel operation is one action.

### Escrow, Sealed and Vault

`visit` is what a client does with a backend: its `Get` is one action (`GetKey`), its `Set` another
(`SetKey`), with whatever other clients and other machines (`Elsewhere`) do in between. The keyring
replaces; the managers (`bw` and `op`) add an item of the same name and answer with an error once
there are two. A `Set` that fails may have done its work.
`Sealed` walks a goroutine through `Put` and `Get`: `LockKey` is `encryptionKey` up to the provider's call,
`KeyComes` the rest of it, `PutRow` the write. The file is seen as `DuckHandle` keeps it
(`Exclusion`): one process has it open, commits go to its log, which `LetGo` merges and a
crash leaves behind. `Vault` adds the commands: `Backup` and `Restore` ask for a key and
`KeyArrives`; then `Stat`, `Fence`, `Checkpoint`, `Read`, `Read`, `Seal` are the snapshot of `Archive` and
what is made of it; `Swap` is what module `Restore` takes apart.

## 3. Runs

| Run | Question | Result |
|---|---|---|
| `handle_shared` | two Handles of one process share the registry entry, a third process competes, all faults: exact references, one process has the file open, an operation is alone on its Handle | holds |
| `handle_fence` | two goroutines on one Handle, a Handle and a fencer elsewhere: fence, Close, late timers; implements `DuckFile` | holds |
| `handle_progress` | a Handle kept busy by two goroutines, a fencer elsewhere, failing opens: the fencer is served, every `Do` returns, an idle system lets go | holds |
| `restore_faults` | failing renames, in the rollback too, crashes, another process on the databases: nothing lost, a clean rollback is complete, an unclean one names every file, no stale log, an existing database that can be read is not replaced under a process that has it open | holds |
| `listen` | three processes listen, close, fail, time out and die: one listener at a time, reachable, and service comes back | holds |
| `broadcast` | two clients for one slot, stalled and departing ones, Close and cancellation: slots are exact and come back, values in order, no closed channel used, no call of the Subject waits for ever | holds |
| `source` | a Deduper with room for one of two items, expiring rows of somebody else, failing store and steps, Clear, cancellation, death and restart: nothing is announced twice without a reason, memory and store agree, readers of the table agree about expiry, every item is handled, the pipeline ends | holds |
| `config_db` | three goroutines on two Stores, failing transactions and markers, errors after a commit, crashes: the history is complete, and no poller misses a change whose marker, or a later one, is written | holds |
| `config_store` | stale imports overwrite each other while the file comes and goes: still converges | holds |
| `journal` | families and single runs with equal times, late children, overflowing sums, failing statements and checkpoints, errors after a commit: families go as a whole with all records, counts stay sums, an eviction takes exactly the runs it was asked to take and reports how many | holds |
| `daemon` | intervals below and above the backoff cap, jobs that fail, hang, are slow or far off, an error racing a request to stop, a runner that ignores `RunWait`, a manager that refuses: times are kept, every job's `Next` is called again and again, the service ends, with the right result | holds |
| `vault` | two goroutines and two processes race for the first key, `Set` and `CHECKPOINT` fail, everybody dies anywhere, backups and restores beside the Stores: no key is used before it is stored, a Store keeps its key, a snapshot is whole | holds |

Every property of a passing run has a *mutant* in `PROJECT.json`: a definition of
the module (in the module just before the original) with a plausible bug, under
which TLC finds the property violated.
The type invariant of each module and a few invariants that the proofs need have no run of their
own: `RegistryOwnsLock`, `PendingAccounting`, `OperationOwnsDatabase`, `MarkersInOrder` and the
types of all modules but `ConfigStore` are proved. They hold under the same `.cfg` files, too, with `INVARIANT TypeOK` in place of
the properties.

## 4. Bounds, fairness, abstractions

**Bounds.** Two processes are what the `flock` protocol distinguishes (in possession
or waiting); a third party is a Handle in the same process, or a fencer. Two
goroutines on one Handle are the least for the yield gap, two Handles in one process
for the shared entry. `MaxFired` bounds timer goroutines waiting for the mutex at
a time (2 where lateness matters: one late, one current). `DuckHandle` has no other
bound: its goroutines call `Do` for ever. `Restore` has a database with its two
sidecar files and a plain file (or an archived `.wal` as an entry of its own), so
that every loop runs more than once. `SocketListen` has three processes and three
inodes: one dead, one starting, one closing. `ConfigDB` has `MaxCalls = 3` calls:
the import whose marker is late, the one that overtakes it, one that follows.
`ConfigStore` has `MaxEdits = 3` changes made by the user. `Broadcast` has one slot for
two connections, so that one is refused or waits for the slot to come back; each
connects once, and two values with one place in the channel and one in the socket
are enough for a full channel, a full socket and a dropped value. TLC does not look
for deadlock in `config_db`, `broadcast`, `source`, `journal` and `vault`: there are no more calls to make, the
server has shut down, nobody runs the pipeline, or ids or keys are used up. `Source` has two items, so that `Cap = 1` makes it evict in the
middle of a batch and reload more than fits; the pipeline may be run again for ever, and
the clock has an instant before the expiry and the instant of it. `Journal` hands out `MaxRuns = 3` ids: a parent with two
children, a family beside a single run, or three runs for `Retain` to choose from, at two times, so that
there are ties; `MaxInteger = 3` lets two children overflow the sum; with `RecordChunk = 2`, three records take
two INSERTs of different length. `Service` has two jobs, one to be slow and one
to suffer from it; intervals of 1 and 4 around a cap of 3; `MaxFails = 3`, the first count at which the backoff no longer
doubles; `Next` may say now or in three ticks; the jobs of one cycle take at most `MaxCycle = 1` tick, which is a
whole interval. `Vault` has two processes, one with two goroutines, since the race for a key differs inside and across
processes; one command, since commands meet at the lock and in the escrow only and there the Stores are their rivals;
`MaxKeys = 2` keys: two who both found none. The goroutines of the first process are symmetric. The
proofs of these modules are for any number of all of them.

**Fairness.** `DuckHandle.FairSpec`: a goroutine that can step does (weak fairness).
Strong fairness where the code polls or queues: `Handle.mu`, because Go's
`sync.Mutex` goes into its starvation mode; `<db>.wait`, which is tried every few
milliseconds and held shortly. `<db>.lock` needs only weak fairness: the owner of
`<db>.wait` is alone in line. The operation passed to `Do` returns and fencers
release. Progress runs have neither timeouts nor crashes: a caller that gives up
has its answer. `ListenFairSpec`: `Listen` and Close run to their end, and
`<path>.lock` is polled while its holders need a fraction of the interval.
`Service`: what `Run` does between two waits is done, a job returns unless it hangs for good
(`Hanging`, which has no fairness), time passes, the goroutines of the service run and the timers of `Stop` and `signalFatal`
expire; nobody need ask for a stop, the manager need not heed `signalFatal`, and the work need not fail.
`Source.FairSpec`: the goroutines run, timers fire, the consumer reads, not all steps fail
(strong fairness), and a cancelled context is noticed in the end although Go's select
may prefer a ready channel (strong fairness: the choice is random). `ConfigStore.FairSpec`: callers plan every document again and again, and infinitely
often import what is reported of it; that is a usage, the one the README of the
repository shows, and not something the code does by itself.

**Abstractions.** Durations: a timer may expire at any time after it is armed,
a lock wait may time out at any poll; `maxHold` is the flag `old`, which any moment
may set. `gen` and `armed` are only compared, hence the boolean `current`. Errors
of the sidecar files leave on the path of
cancellation (`Abandon`). An operation returns: a panic in it is not modelled. `Do` does not recover, and its deferred unlock runs but
`arm` (`handle.go:196`) does not, so that a program that goes on after the panic has the database open without a countdown until the next
`Do` or `Close`; `IdleLetsGo` and `CountdownHolds` are about operations that return. An operation whose `Do` fails after the commit
(`handle.go:193`) has an action or an outcome of its own where its caller tells the difference (`ConfigDB`, `Journal`); for the
Deduper, which drops errors, and for the rows of `Sealed` it is the operation that succeeds. `Take` is one `flock` that succeeds and
the close of `<db>.wait` right after it; `onIdle` runs under the mutex in one action
apart from `release`. A crash frees the process's locks and resets its Handles (a
new process takes its place). Contents of files, documents and messages are
members of small sets. A value that Broadcast cannot encode and a frame that Dial
cannot decode are skipped; frames are whole, the peer is always of the same user,
and Accept fails only once the listener is closed. An item is its key and never that of the
marker; a batch is a set, and the legacy marker is the marker. Wall-clock time does not go back. `Hash` is one to one, and no two markers have the same
nanosecond *and* change.
A journal record is its number, a run has no attributes but times and counts, and the rewrite of the tables after an
eviction keeps every row. A timer of `Schedule` is on time; an interval that is not positive, which `Run` replaces by a
second, and jobs without functions are left out. A sealed row is the key that sealed it, or none: `Get` can open it if
that is the Store's key. Whether a manager is available may change at any call, so `BackendAuto` may choose
differently each time. A backup has one database; the reads of its file are two. The fifteen seconds of a lock
timeout are any moment at which the lock is not free.

## 5. Proofs

`DuckHandleProofs`, for any numbers of processes, Handles, goroutines and fencers
and any choice of faults, from: the kinds of actors are disjoint
(`ActorsAssumption`), `ProcOf` and `HandleOf` are functions of the right type,
`Handles` is finite (reference counts are cardinalities), and the bounds are
numbers. The inductive invariant is `IndInv`, the conjunction of

- `TypeOK`;
- `MutexInv`: `Handle.mu` belongs to the one goroutine that is inside. Without it
  two goroutines of a Handle could disagree about `db`;
- `DatabaseInv`: at which points the database is open, at which it is not, and that
  a closed Handle has no goroutine past the mutex;
- `CountdownInv`: `pending` counts running and expired timers, and an open,
  unattended database has a wakeup that will close it;
- `QueueInv`: `<db>.wait` belongs to the goroutine in `take` or `unprobe`;
- `RegistryInv`: `refs[p]` is the number of Handles of `p` that refer to the entry,
  an entry exists exactly while `p` owns `<db>.lock`, and goroutines between the
  lock and the registry own it under their own name. *Single writer* follows: two
  processes with an open database would both own the lock.

Each part has its own preservation lemma with one step per action. The theorems
are `TypeCorrect`, `SingleWriterHolds`, `FenceHolds`, `RegistryHolds`,
`CountdownHolds`, `OperationHolds`, `CloseHolds`, and the action properties
`NoLateWakeupHolds` and `NoBargingHolds`. `ExclusionHolds` puts together what users of a Handle rely on, and what
`ConfigDB`, `Kv`, `Journal` and `Sealed` take as given when they make one step of a `Do`.
`Implements` is the simulation: initial states map to initial states, and under `IndInv` each action is an action of
`DuckFile` or leaves its variables alone. `OpenDb`, and `Unprobe` and `YieldResume` on an open database, are `Begin`; `Shut`, and a wakeup that is not
stale, `Leave`; everything at the lock files, the registry and the timers is a stutter, but for a fencer's `Take`. The
invariant is needed where the abstract action has a guard the code does not test: that no other process has the file
open, no fence stands, no operation runs on the Handle and the Handle is not closed.

`ConfigDBProofs`, for any numbers of Stores, goroutines, documents and calls, from
the type of `StoreOf` and `None` being none of the other values. `IndInv` adds to
the types and `HistoryIsComplete`: what the open transaction holds after each
statement (`TxInv`, since the commit publishes it without looking at the database
again) and that a marker about to be written is younger than those of its Store so
far (`StampInv`). Theorems: `TypeCorrect`, `HistoryHolds`, `MarkersHold` and
`NothingMissed`, all of them whatever fails and whoever dies. A commit whose marker is
lost - the process dies, `bump` fails, or `Do` returns an error after the commit - sets the ghost `lapsed` until the next marker is written;
`NoMissedChange` is silent in between (see section 6).

`VaultProofs`, for any numbers of processes, goroutines, commands and keys and any choice of faults, from:
commands are no goroutines of a Store (`ClientsAssumption`), and the types of `ProcOf`, `EntryNames` and `MaxKeys`. The three properties
come from one inductive invariant:

- `TypeOK`, which includes what a command has at each of its stages;
- `KeyMuInv`: who is at the provider holds `keyMu`, and there is no cached key then. `OneKeyHolds` follows;
- `VisitInv`, `MemoryInv`, `CommandInv`, `FileInv`: wherever a key may be - in the hands of a client, in a cache, with a command, in an
  archive, in a row of the file or its log - it has been stored before (`Kept`). A key is followed through all these
  places, since a restore brings rows of an archive back into the file. `Kept` is stable: what leaves an entry goes into `lost`
  (`KeptGrows`). `EscrowHolds` follows;
- `LockInv`: the lock is the command's from `Fence` to `Seal`, and after the checkpoint the log is empty and all parts read are
  the file. `SnapshotHolds` follows.

`JournalProofs`, for any number of runs, times, records and counts, from the assumptions on the columns and bounds: ids are unique and
below the sequence (`IdInv`), from which no record is orphaned (`NoOrphansHold`), counts of settled runs are the sums of their
children (`SumsHold`, which uses only that a sum depends on the set of children alone), and a family goes as a
whole (`NothingLeftBehindHolds`). `RecordsFollowRunsHolds` counts: the INSERTs of one `Add`, of whatever lengths, cut the numbers
of its records into ranges that do not overlap. `EvictionIsExactHolds` says which rows an eviction leaves,
with an error or without: `EvictionLeaves` follows the ids through its statements (a row goes exactly if its id is in the family of what
is doomed, `FamilyRows`), what is left of the top-level runs are for `Prune` those that are not older, and for `Retain` the first ones in
the order of `Recent`, ties included (`RanksDense`, `FirstCount`: the number of runs ranked before one is its position), and the reply
is the number of those that went. `TypeCorrect` says of the
sums that they are numbers and that a stored one fits its column (`TypeInv`: only a top-level run is ever without a count).

`ServiceProofs`, for any jobs, intervals and runner: `ReportHolds`, from where the work is when `err` and `failed` differ
(`ErrInv`) and from what a runner knows that has waited (`ResultInv`). `TimesHold` is about the schedule, for any number of jobs,
interval, cap and limit of failures, and its invariant `SchedInv` has two parts beside the types:

- `Delays`: the time a failed job is noted for, plus the age of its failure, is the delay of `scheduleBackoff`. Time takes from
  the one what it gives to the other, in the timer and in a slow job alike. That the delay is never less than promised
  (`BackoffSuffices`) is arithmetic over the doubling loop;
- `Noted`: each job that a cycle is past is due already, and then `pollSoon` is set, or `soonest` is no later than it. Then a wait
  longer than the interval passes no job by.

The doubling loop and the sum over the children are computed value by value, and the induction theorems of the library are not
to be had from these provers. `Climb` does what is needed of them: a set with 0 and, below N, the successor of each
of its members has N, because its part up to a first gap would be one to one with a part of itself. With it the functions exist, have the
values their equations say and are of the right type (`DoubledIs`, `TwoToIs`, `SumType`).

`SocketProofs` has both halves of `ipc`; it extends `SocketListen` and `Broadcast`. For `SocketListen`, with any numbers of
processes and inodes, the invariant adds to the types and to `Reachable`:

- `Sockets`: a socket accepts from `net.Listen` to its close, and no two that accept have one inode;
- `ProbeStands`: the file that is about to be removed belongs to nobody who accepts. The probe came before; that its answer
  still counts is what the path lock is for;
- `Fresh`: while a listener is set up, the path shows its file or, after a late `Close`, none, and every other listener
  is robbed. Without it the return of `Listen` could make a second one reachable.

`SingleListenerHolds` needs no more: two listeners that are not robbed would both be bound to the inode at the path.

For `Broadcast`, with any numbers of connections and publishers and any sizes of buffer and socket:

- `SubInv` is `Subscriptions` with the types it needs, and inductive as it stands (`SubscriptionsHold`);
- `OrderInv`: `Ordered` compares what is in the socket, in hand and in the channel of a connection place by place; `Due` says that
  the value being sent is newer than all that is on the way to those it has not been sent to, without which `Offer` could repeat one; `Lives` that a
  connection is subscribed once, so that nothing is on the way when it is. `InOrder` is about the concatenation of the places, and follows by
  a lemma about concatenations (`Joined`). Neither the sizes nor `MaxPublished` matter to it (`InOrderHolds`);
- `SlotInv`: types and lengths, and `slots` is the number of connections with a goroutine and of those that have hung up and not
  returned (`SlotsHold`, from `BufferAssumption` and `BroadcastAssumption`: `TypeOK` of `Broadcast` holds).

`RestoreProofs`, for any list of names, any sidecars, databases and missing files, and any choice of faults, from: a name is
not twice in the archive, the first file of a name is the name itself, and no file is the log or spill of two names; it may be a
name of its own (`NamesAssumption`, `SideAssumption`). The invariant follows the two loops forwards and back:

- `PosInv`: where the loops are, and `placed` is a prefix of the names;
- `LockInv`: every database that was there and could be read is locked once the first loop is past it, and no locked one is open elsewhere;
- `SwapInv`: a previous file is in place until it is set aside, and in the rollback directory until it is put back; only entries without one
  in place are placed over. `NothingLostHolds` follows, and, at the moment of a crash, `EndInv`;
- `VisitInv`: what the first loop is past has been set aside, log and spill too. `NoStaleLogHolds` follows;
- `UnplaceInv` and `PutBackInv`: what is left to undo is what the loop has not come to, or is `stuck`. The rollback goes
  backwards through `moved`, and a file that is not unplaced cannot be put back over; so these two say of every file that it is as before,
  still to come, or stuck and safe in the rollback directory. `RolledBackHolds` and `StuckFilesNamedHolds` are their last states.

`HeldHolds` is about a database that was there when `Restore` started and that it could read, at whatever moment another process opens it; it
needs nothing but `LockInv`, `VisitInv` and that nobody opens a log or a spill as a database (`SideAssumption`).

`SourceProofs`, for any items, capacity, window and lifetimes, from: the expiries lie after the start of the clock, and nobody else writes in the
namespace of the Deduper (`NamespaceAssumption`: it is set aside "for persistent dedupe", `source.go:21`); they may clear it. The invariant:

- `RowsInv`: one row at most for each primary key, and those of the Deduper never expire. `ReadersAgreeHolds` follows: the test in Go, the
  sweep and the query of `Stats` are one and the same;
- `StageInv`: where the Deduper exists, and where it can have something for the consumer;
- `KnownInv`: what the consumer has got or is about to get is in the rows and in memory, unless it is excused. `NotAgainHolds` follows;
- `MirrorInv`: `MirrorIsExact` in terms of the rows themselves. It has to hold in the middle of a batch and of a reload, where memory is
  shorter than the store was and eviction deletes what does not fit.

**Only model-checked**: all liveness (`EveryDoReturns`, `IdleLetsGo`,
`QueuedIsServed`, `ServiceReturns`, `EventuallyReconciled`, `SlotsComeBack`,
`EveryCallReturns`, `EveryItemIsHandled`, `PipelineEnds`, `EveryJobIsAsked`, `ServiceEnds`), which is out of the
prover's reach with its fairness; `ConfigStore`, whose property is liveness.

## 6. Where code and comments disagree

Seen while modelling. The properties are stated so that they hold of the code in these cases, and say where they
are silent; none of them has a run of its own.

- `handle.go:96`: MaxHold exists "so steady work cannot starve other processes"; with two Handles of one process in
  turn, the shared reference count (`handle.go:434`) never reaches zero, and a waiter elsewhere is never served. `handle_progress`
  has one Handle per process.
- `backup.go:227`: databases still held by another process "are refused"; a destination that is no
  database yet is not locked (`backup.go:426`), and is replaced under a process that creates and opens it meanwhile. So is one that does exist when
  `isDatabase` returns an error for it, since the loop skips on `err != nil` as on "no database" (`backup.go:426`). `HeldIsNotReplaced` is
  about databases that exist when `Restore` starts and are not `unread`.
- `socket_unix.go:28`: Close removes the socket file "only if it is still the one this listener bound"; check and
  remove are two calls, without the path lock (`socket_unix.go:156`), and the second one removes the file of a
  listener that has come in between.
- `handle.go:333`: two goroutines of one process that open the path at the same
  moment through different Handles race for the `flock` files; the loser waits for, and
  can report `ErrLocked` against, its own process, where `handle.go:47` says "another
  process holds it".
- `backup.go:335`: a process that dies between two renames leaves some files
  replaced and some not, and nothing repairs it later; what `restore_faults` shows is
  that nothing is lost. The package comment says "atomically".
- `configdb.go:168`: a process that dies between a commit and its marker leaves the old
  marker until the next write; `revision.go:22` says the marker "changes with every
  committed write".
- `handle.go:193`: `Do` looks at the permissions of the log after the operation and returns that error although the operation has
  committed. `Import` and `Forget` then return before `bump` (`configdb.go:165`, `configdb.go:191`), with neither a new marker, which
  `revision.go:22` promises of "every committed write", nor the `ErrGenerationMarker` that `revision.go:17` keeps for a change that is
  committed and not marked. `CommitUnreported` in `ConfigDB`.
- `service.go:139`: the error of `s.Stop()` is dropped, and nobody asks again. Where the platform's runner ignores `RunWait`, a service whose
  work has failed then runs on, without its work, until somebody else stops it; `service.go:179` says "the service asks its own manager to
  stop it". `ServiceEnds` excepts this case (`unheard`).
- `manager.go:190`: `ActionImport` of a document that exists only in the database
  replaces its snapshot by an empty one, which `Plan` then reports for ever; and it
  brings back a document forgotten since `Plan`.
- `socket.go:83`: a write that times out inside a frame is followed by a close, and
  the scanner of `Dial` passes the unterminated rest to `decode`, where
  `socket.go:119` says "one per newline-terminated frame".
- `socket.go:43`: any error of `Accept` ends `Broadcast` while the listener stays open, so
  that clients connect to nobody, where `socket.go:28` says it serves "until ctx is
  cancelled".
- `stream.go:102`: a Deduper evicts "oldest evicted first", but one that has been restored
  takes its order from a Go map (`persist.go:93`), so the first evictions after a restart
  may hit the newest keys, whose items the next poll announces again. In `Source`, `Load`
  chooses any order.
- `stream.go:122`: the first call marks everything and returns nothing, "so a fresh deduper
  treats the initial poll as pre-existing baseline instead of announcing it all"; a
  process that dies inside it leaves rows, the next one has no first pass, and
  announces the rest. `known` has only the items the first pass came to.

- `secret.go:109`: of two processes that both create the key, the comment expects "the later Set winning"; a manager
  creates a second item, and `bw` and `op` refuse to choose between two, so that `Get` is an error from then on. With the keyring, what the loser has sealed under its cached key stays sealed for good
  (`lost` in `Escrow`, which `EscrowedBeforeUse` excepts).
- `schedule.go:38`: "a later one is waited for"; if slow jobs let the earliest time pass within a cycle, it counts for nothing and the
  timer runs for the whole interval. `NeverOversleeps` allows as much and no more.
- `schedule.go:122`: the backoff counts from the start of the cycle, not from the failure; a job that runs longer than its backoff before it
  fails is retried in the next cycle.
- `journal.go:361`: `Recent` orders by time alone, `Retain` by time and id; with equal times a list of the newest runs may show others
  than the ones that stay.
- `journal.go:152`: a child that is added after its parent has been evicted belongs to no family, and neither `Prune` nor `Retain`
  takes it, as both pick runs without a parent.
- `journal.go:141`: a sum of counts that an INTEGER cannot hold is an error of `FinishRun`, and leaves the run open.

## 7. Not modelled

`PROJECT.json` gives the reason for each component. In short: DuckDB, the config
parsers, encryption and the archive format are third-party or pure data; the
hooks and service managers run external commands; Windows
variants of the locks follow the Unix ones; `tray`, `desktop` and `tabular` keep no
state that could go wrong.

Parts of modelled components that are left out: of `Archive`, plain files, several paths and a log without its
database; of `schedule`, `RunAt`; of the daemon, the manager's commands and `attach.go`; of `sealed`, expiry (which is that of `kv`) and other key
providers; of `stream`, `FanIn`, `Cursor` and watermarks; of `ipc`, frames that are cut short and an `Accept` that
fails early. The umask guard, `fsutil`, `config`, `auth`, `mode`, `lifecycle` and `redact` are not modelled yet.

## 8. Plan

Next, in this order, each with mutants. Runs are few and each asks one question of
a composition, so modules that meet in the system are checked together:

1. `Archive` with several paths, plain files and a log without its database, in `Vault`.
2. The umask guard and `fsutil.WriteAtomic`: overlapping opens and writers.
3. `FanIn` and `Watermark` with `Source`.
4. `DeviceFlow`, `Gate`, `Lifecycle`: short, their inputs enumerated.

Theorems: the types of `ConfigStore`, and those of what is added. Modules to be proved about have no
RECURSIVE operators and one action per operation.
