------------------------------ MODULE DuckHandle ------------------------------
(***************************************************************************)
(* internal/duckdb/handle.go: several processes share ONE DuckDB file.     *)
(* Each process has Handles on it; callers (goroutines) run Do and Close   *)
(* on a Handle, the idle timer of a Handle fires in a goroutine of its     *)
(* own, and fencers hold the sidecar lock through AcquireLock without      *)
(* opening the database.                                                   *)
(*                                                                         *)
(* The cross-process protocol is two flock files, <db>.lock (owned while   *)
(* the database is open) and <db>.wait (owned by the one waiter that is    *)
(* next in line).  A caller of Do walks through the values of pc:          *)
(*                                                                         *)
(*   idle    not in the package          queue     waiting for <db>.wait   *)
(*   mutex   waiting for Handle.mu       take      waiting for <db>.lock   *)
(*   probe   about to call wanted()      register  owns <db>.lock, not yet *)
(*   unprobe wanted() got <db>.wait                in the process registry *)
(*   shut    about to close the db       open      registered, opening     *)
(*   release db closed, ref still held   fn        running the operation   *)
(*   yield   mutex dropped, staying out  held      (fencers) AcquireLock   *)
(*   acquire about to call acquire()               has returned            *)
(***************************************************************************)
EXTENDS Integers, FiniteSets

CONSTANTS
  Procs,      \* operating system processes
  Handles,    \* Handle values, all on the same path
  Callers,    \* goroutines that call Do and Close
  Fencers,    \* goroutines that call AcquireLock (backup and restore)
  NoOne,      \* the owner of a free lock or mutex
  ProcOf,     \* [Handles \cup Fencers -> Procs]
  HandleOf,   \* [Callers -> Handles]: the Handle a goroutine works on
  Faults,     \* which of AllFaults may happen
  MaxFired    \* bound: timer goroutines of one Handle waiting at a time

AllFaults == {"timeout", "cancel", "openfail", "crash"}

ASSUME ActorsAssumption ==
  /\ Procs \cap Handles = {}   /\ Procs \cap Callers = {}
  /\ Procs \cap Fencers = {}   /\ Handles \cap Callers = {}
  /\ Handles \cap Fencers = {} /\ Callers \cap Fencers = {}
  /\ NoOne \notin Procs \cup Handles \cup Callers \cup Fencers
ASSUME ProcOfAssumption   == ProcOf \in [Handles \cup Fencers -> Procs]
ASSUME HandleOfAssumption == HandleOf \in [Callers -> Handles]
ASSUME HandlesAssumption  == IsFiniteSet(Handles)
ASSUME BoundsAssumption   == Faults \subseteq AllFaults /\ MaxFired \in Nat \ {0}

VARIABLES
  pc,       \* where each actor is; a Handle stands for its timer goroutine
  mu,       \* Handle.mu: the actor holding it
  db,       \* Handle.db # nil
  old,      \* the database has been open for longer than Handle.maxHold
  ticking,  \* the idle timer is running
  fired,    \* expired timers whose goroutine still has to enter onIdle
  pending,  \* Handle.pending
  current,  \* Handle.gen = Handle.armed
  closed,   \* Handle.closed
  refs,     \* lockEntry.refs in each process's registry; 0: no entry
  lock,     \* owner of <db>.lock: a descriptor not yet registered is named
            \* by its goroutine, the registered one by its process
  wait      \* owner of <db>.wait

handleVars == <<mu, db, old, ticking, fired, pending, current, closed>>
fileVars   == <<refs, lock, wait>>
vars       == <<pc, handleVars, fileVars>>

Actors == Callers \cup Fencers \cup Handles

\* The Handle an actor works on, and the process it runs in.
Hdl(a) == IF a \in Callers THEN HandleOf[a] ELSE a
Proc(a) == IF a \in Callers THEN ProcOf[HandleOf[a]] ELSE ProcOf[a]

CallerStates == {"idle", "mutex", "probe", "unprobe", "shut", "release", "yield",
                 "acquire", "queue", "take", "register", "open", "fn"}
FencerStates == {"idle", "queue", "take", "held"}
TimerStates  == {"idle", "release"}

TypeOK ==
  /\ pc \in [Actors -> CallerStates \cup FencerStates]
  /\ \A f \in Fencers : pc[f] \in FencerStates
  /\ \A h \in Handles : pc[h] \in TimerStates
  /\ \A c \in Callers : pc[c] \in CallerStates
  /\ mu \in [Handles -> Callers \cup Handles \cup {NoOne}]
  /\ db \in [Handles -> BOOLEAN]
  /\ old \in [Handles -> BOOLEAN]
  /\ ticking \in [Handles -> BOOLEAN]
  /\ fired \in [Handles -> Nat]
  /\ pending \in [Handles -> Int]
  /\ current \in [Handles -> BOOLEAN]
  /\ closed \in [Handles -> BOOLEAN]
  /\ refs \in [Procs -> Nat]
  /\ lock \in Callers \cup Fencers \cup Procs \cup {NoOne}
  /\ wait \in Callers \cup Fencers \cup {NoOne}

\* NewHandle for every Handle: the file is not touched before the first Do.
Init ==
  /\ pc = [a \in Actors |-> "idle"]
  /\ mu = [h \in Handles |-> NoOne]
  /\ db = [h \in Handles |-> FALSE]
  /\ old = [h \in Handles |-> FALSE]
  /\ ticking = [h \in Handles |-> FALSE]
  /\ fired = [h \in Handles |-> 0]
  /\ pending = [h \in Handles |-> 0]
  /\ current = [h \in Handles |-> TRUE]
  /\ closed = [h \in Handles |-> FALSE]
  /\ refs = [p \in Procs |-> 0]
  /\ lock = NoOne
  /\ wait = NoOne

-----------------------------------------------------------------------------
(* Helpers of the package: goto, the mutex, the idle countdown, the        *)
(* reference-counted registry.                                             *)

Goto(a, s) == pc' = [pc EXCEPT ![a] = s]

SetMu(h, a) == mu' = [mu EXCEPT ![h] = a]

\* disarm: a new generation; a timer stopped in time owes no wakeup.
Disarm(h) ==
  /\ current' = [current EXCEPT ![h] = FALSE]
  /\ pending' = [pending EXCEPT ![h] = IF ticking[h] THEN @ - 1 ELSE @]
  /\ ticking' = [ticking EXCEPT ![h] = FALSE]

\* arm: AfterFunc or Reset; only a timer that was running owes its wakeup already.
Arm(h) ==
  /\ current' = [current EXCEPT ![h] = TRUE]
  /\ pending' = [pending EXCEPT ![h] = IF ticking[h] THEN @ ELSE @ + 1]
  /\ ticking' = [ticking EXCEPT ![h] = TRUE]

\* A release that unlocks the file whoever else in the process uses it.
DropRefAlone(p) ==
  /\ refs' = [refs EXCEPT ![p] = IF @ = 0 THEN 0 ELSE @ - 1]
  /\ lock' = NoOne

\* release: the last reference of a process unlocks the file.
DropRef(p) ==
  /\ refs' = [refs EXCEPT ![p] = IF @ = 0 THEN 0 ELSE @ - 1]
  /\ lock' = IF refs[p] = 1 THEN NoOne ELSE lock

-----------------------------------------------------------------------------
(* Do *)

Call(c) ==
  /\ pc[c] = "idle"
  /\ Goto(c, "mutex")
  /\ UNCHANGED <<handleVars, fileVars>>

\* Do under the mutex: ErrClosed, or disarm and look at the database.
Enter(c) ==
  LET h == HandleOf[c] IN
  /\ pc[c] = "mutex"
  /\ mu[h] = NoOne
  /\ IF closed[h]
     THEN /\ Goto(c, "idle")
          /\ UNCHANGED handleVars
     ELSE /\ Goto(c, IF db[h] THEN "probe" ELSE "acquire")
          /\ SetMu(h, c)
          /\ Disarm(h)
          /\ UNCHANGED <<db, old, fired, closed>>
  /\ UNCHANGED fileVars

\* A Do that does not hand off to the waiter it finds.
ProbeDeaf(c) ==
  /\ pc[c] = "probe"
  /\ IF wait # NoOne
     THEN Goto(c, "fn") /\ UNCHANGED wait
     ELSE Goto(c, "unprobe") /\ wait' = c
  /\ UNCHANGED <<handleVars, refs, lock>>

\* wanted: a <db>.wait that cannot be taken has a waiter behind it ...
Probe(c) ==
  /\ pc[c] = "probe"
  /\ IF wait # NoOne
     THEN Goto(c, "shut") /\ UNCHANGED wait
     ELSE Goto(c, "unprobe") /\ wait' = c
  /\ UNCHANGED <<handleVars, refs, lock>>

\* ... and one that was free is let go again; then MaxHold decides.
Unprobe(c) ==
  /\ pc[c] = "unprobe"
  /\ wait' = NoOne
  /\ Goto(c, IF old[HandleOf[c]] THEN "shut" ELSE "fn")
  /\ UNCHANGED <<handleVars, refs, lock>>

\* shutLocked, its first half: disarm and close the database ...
Shut(c) ==
  LET h == HandleOf[c] IN
  /\ pc[c] = "shut"
  /\ Disarm(h)
  /\ db' = [db EXCEPT ![h] = FALSE]
  /\ Goto(c, "release")
  /\ UNCHANGED <<mu, old, fired, closed, fileVars>>

\* ... and its second half: give the reference back.  The mutex is dropped, by
\* yieldLocked in Do, by the deferred unlock in Close and in onIdle.
Release(a) ==
  LET h == Hdl(a) IN
  /\ pc[a] = "release"
  /\ DropRef(ProcOf[h])
  /\ Goto(a, IF a \in Handles \/ closed[h] THEN "idle" ELSE "yield")
  /\ SetMu(h, NoOne)
  /\ UNCHANGED <<db, old, ticking, fired, pending, current, closed, wait>>

\* yieldLocked after the gap: the Handle may be closed, the context done ...
YieldReturn(c) ==
  /\ pc[c] = "yield"
  /\ mu[HandleOf[c]] = NoOne
  /\ closed[HandleOf[c]] \/ "cancel" \in Faults
  /\ Goto(c, "idle")
  /\ UNCHANGED <<handleVars, fileVars>>

\* A yield that trusts what it saw before the gap: the Handle is not closed ...
YieldResumeClosed(c) ==
  LET h == HandleOf[c] IN
  /\ pc[c] = "yield"
  /\ mu[h] = NoOne
  /\ SetMu(h, c)
  /\ Disarm(h)
  /\ Goto(c, IF db[h] THEN "fn" ELSE "acquire")
  /\ UNCHANGED <<db, old, fired, closed, fileVars>>

\* ... or Do goes on, with a database somebody else may have reopened.
YieldResume(c) ==
  LET h == HandleOf[c] IN
  /\ pc[c] = "yield"
  /\ mu[h] = NoOne
  /\ ~closed[h]
  /\ SetMu(h, c)
  /\ Disarm(h)
  /\ Goto(c, IF db[h] THEN "fn" ELSE "acquire")
  /\ UNCHANGED <<db, old, fired, closed, fileVars>>

-----------------------------------------------------------------------------
(* acquire and flockSidecar *)

\* An acquire that shares the entry without counting itself.
AcquireUncounted(c) ==
  LET p == Proc(c) IN
  /\ pc[c] = "acquire"
  /\ Goto(c, IF refs[p] > 0 THEN "open" ELSE "queue")
  /\ UNCHANGED <<handleVars, fileVars>>

\* acquire: a process that is in the registry shares its lock.
Acquire(c) ==
  LET p == Proc(c) IN
  /\ pc[c] = "acquire"
  /\ IF refs[p] > 0
     THEN Goto(c, "open") /\ refs' = [refs EXCEPT ![p] = @ + 1]
     ELSE Goto(c, "queue") /\ UNCHANGED refs
  /\ UNCHANGED <<handleVars, lock, wait>>

\* AcquireLock starts with flockSidecar, whatever the registry says.
AcquireLock(f) ==
  /\ pc[f] = "idle"
  /\ Goto(f, "queue")
  /\ UNCHANGED <<handleVars, fileVars>>

\* flockSidecar: waitLock on <db>.wait ...
Queue(a) ==
  /\ pc[a] = "queue"
  /\ wait = NoOne
  /\ wait' = a
  /\ Goto(a, "take")
  /\ UNCHANGED <<handleVars, refs, lock>>

\* A flockSidecar that takes a timed out waitLock for a held lock.
TakeUnchecked(a) ==
  /\ pc[a] = "take"
  /\ lock' = a
  /\ wait' = NoOne
  /\ Goto(a, IF a \in Fencers THEN "held" ELSE "register")
  /\ UNCHANGED <<handleVars, refs>>

\* ... then on <db>.lock; the deferred unlock of <db>.wait on the way out.
Take(a) ==
  /\ pc[a] = "take"
  /\ lock = NoOne
  /\ lock' = a
  /\ wait' = NoOne
  /\ Goto(a, IF a \in Fencers THEN "held" ELSE "register")
  /\ UNCHANGED <<handleVars, refs>>

\* The error returns of flockSidecar: <db>.wait is dropped if it was taken, and
\* Do returns with the mutex unlocked and the countdown still disarmed.
LeaveQueue(a) ==
  /\ wait' = IF wait = a THEN NoOne ELSE wait
  /\ Goto(a, "idle")
  /\ mu' = IF a \in Callers THEN [mu EXCEPT ![HandleOf[a]] = NoOne] ELSE mu
  /\ UNCHANGED <<db, old, ticking, fired, pending, current, closed, refs, lock>>

\* waitLock gives up on a file that stays locked: ErrLocked.
TimeOut(a) ==
  /\ "timeout" \in Faults
  /\ \/ pc[a] = "queue" /\ wait # NoOne
     \/ pc[a] = "take" /\ lock # NoOne
  /\ LeaveQueue(a)

\* The context is done, or a lock file cannot be opened or locked.
Abandon(a) ==
  /\ "cancel" \in Faults
  /\ pc[a] \in {"queue", "take"}
  /\ LeaveQueue(a)

\* acquire, with the file lock: enter it in the registry, or share the entry
\* that appeared meanwhile and drop the new lock.
Register(c) ==
  LET p == Proc(c) IN
  /\ pc[c] = "register"
  /\ Goto(c, "open")
  /\ refs' = [refs EXCEPT ![p] = @ + 1]
  /\ lock' = IF refs[p] > 0 THEN NoOne ELSE p
  /\ UNCHANGED <<handleVars, wait>>

\* openLocked: Open succeeds and MaxHold starts to count ...
OpenDb(c) ==
  LET h == HandleOf[c] IN
  /\ pc[c] = "open"
  /\ db' = [db EXCEPT ![h] = TRUE]
  /\ old' = [old EXCEPT ![h] = FALSE]
  /\ Goto(c, "fn")
  /\ UNCHANGED <<mu, ticking, fired, pending, current, closed, fileVars>>

\* A failed open that keeps the Handle's mutex.
OpenFailsLocked(c) ==
  /\ "openfail" \in Faults
  /\ pc[c] = "open"
  /\ DropRef(Proc(c))
  /\ Goto(c, "idle")
  /\ UNCHANGED <<mu, db, old, ticking, fired, pending, current, closed, wait>>

\* ... or fails, and the reference goes back before Do returns the error.
OpenFails(c) ==
  /\ "openfail" \in Faults
  /\ pc[c] = "open"
  /\ DropRef(Proc(c))
  /\ Goto(c, "idle")
  /\ SetMu(HandleOf[c], NoOne)
  /\ UNCHANGED <<db, old, ticking, fired, pending, current, closed, wait>>

\* A Do that forgets to arm the countdown.
FinishUnarmed(c) ==
  LET h == HandleOf[c] IN
  /\ pc[c] = "fn"
  /\ SetMu(h, NoOne)
  /\ Goto(c, "idle")
  /\ UNCHANGED <<db, old, ticking, fired, pending, current, closed, fileVars>>

\* The operation has returned: arm the countdown, unlock the mutex.
Finish(c) ==
  LET h == HandleOf[c] IN
  /\ pc[c] = "fn"
  /\ Arm(h)
  /\ SetMu(h, NoOne)
  /\ Goto(c, "idle")
  /\ UNCHANGED <<db, old, fired, closed, fileVars>>

-----------------------------------------------------------------------------
(* Close, the idle timer, MaxHold, Lock.Release and crashes *)

\* A Close that does not wait for the operation in flight.
CloseUnlocked(c) ==
  LET h == HandleOf[c] IN
  /\ pc[c] = "idle"
  /\ closed' = [closed EXCEPT ![h] = TRUE]
  /\ Disarm(h)
  /\ db' = [db EXCEPT ![h] = FALSE]
  /\ IF db[h] THEN Goto(c, "release") /\ SetMu(h, c)
              ELSE UNCHANGED <<pc, mu>>
  /\ UNCHANGED <<old, fired, fileVars>>

Close(c) ==
  LET h == HandleOf[c] IN
  /\ pc[c] = "idle"
  /\ mu[h] = NoOne
  /\ closed' = [closed EXCEPT ![h] = TRUE]
  /\ Disarm(h)
  /\ db' = [db EXCEPT ![h] = FALSE]
  /\ IF db[h] THEN Goto(c, "release") /\ SetMu(h, c)
              ELSE UNCHANGED <<pc, mu>>
  /\ UNCHANGED <<old, fired, fileVars>>

\* The runtime expires the timer and starts a goroutine for onIdle.
Expire(h) ==
  /\ ticking[h]
  /\ fired[h] < MaxFired
  /\ ticking' = [ticking EXCEPT ![h] = FALSE]
  /\ fired' = [fired EXCEPT ![h] = @ + 1]
  /\ UNCHANGED <<pc, mu, db, old, pending, current, closed, fileVars>>

\* A staleness test that relies on the generation alone.
StaleWakeupUncounted(h) == closed[h] \/ ~current[h]

\* The wakeup in progress is not the one the last arm asked for.
StaleWakeup(h) == pending[h] - 1 > 0 \/ closed[h] \/ ~current[h]

\* onIdle: account for the wakeup; a stale one does nothing else.
OnIdle(h) ==
  /\ fired[h] > 0
  /\ mu[h] = NoOne
  /\ fired' = [fired EXCEPT ![h] = @ - 1]
  /\ IF StaleWakeup(h)
     THEN /\ pending' = [pending EXCEPT ![h] = @ - 1]
          /\ UNCHANGED <<pc, mu, db, ticking, current>>
     ELSE /\ pending' = [pending EXCEPT ![h] = IF ticking[h] THEN @ - 2 ELSE @ - 1]
          /\ ticking' = [ticking EXCEPT ![h] = FALSE]
          /\ current' = [current EXCEPT ![h] = FALSE]
          /\ db' = [db EXCEPT ![h] = FALSE]
          /\ IF db[h] THEN Goto(h, "release") /\ SetMu(h, h)
                      ELSE UNCHANGED <<pc, mu>>
  /\ UNCHANGED <<old, closed, fileVars>>

\* The clock: MaxHold has passed since the database was opened.
MaxHoldPasses(h) ==
  /\ db[h] /\ ~old[h]
  /\ old' = [old EXCEPT ![h] = TRUE]
  /\ UNCHANGED <<pc, mu, db, ticking, fired, pending, current, closed, fileVars>>

\* Lock.Release
ReleaseLock(f) ==
  /\ pc[f] = "held"
  /\ lock' = NoOne
  /\ Goto(f, "idle")
  /\ UNCHANGED <<handleVars, refs, wait>>

\* A process dies: the kernel drops its locks; it starts again from scratch.
Crash(p) ==
  LET Mine(a) == Proc(a) = p
      Reset(f, v) == [h \in Handles |-> IF ProcOf[h] = p THEN v ELSE f[h]]
      Dropped(o) == o = p \/ (o \in Actors /\ Mine(o)) IN
  /\ "crash" \in Faults
  /\ pc' = [a \in Actors |-> IF Mine(a) THEN "idle" ELSE pc[a]]
  /\ mu' = Reset(mu, NoOne)
  /\ db' = Reset(db, FALSE)
  /\ old' = Reset(old, FALSE)
  /\ ticking' = Reset(ticking, FALSE)
  /\ fired' = Reset(fired, 0)
  /\ pending' = Reset(pending, 0)
  /\ current' = Reset(current, TRUE)
  /\ closed' = Reset(closed, FALSE)
  /\ refs' = [refs EXCEPT ![p] = 0]
  /\ lock' = IF Dropped(lock) THEN NoOne ELSE lock
  /\ wait' = IF Dropped(wait) THEN NoOne ELSE wait

-----------------------------------------------------------------------------

\* Everything a goroutine inside Do does by itself, outside the mutex queues.
Step(c) ==
  \/ Probe(c) \/ Unprobe(c) \/ Shut(c) \/ Release(c)
  \/ Acquire(c) \/ Take(c) \/ Register(c) \/ OpenDb(c) \/ OpenFails(c) \/ Finish(c)

CallerNext(c) ==
  \/ Call(c) \/ Enter(c) \/ Step(c) \/ YieldReturn(c) \/ YieldResume(c)
  \/ Queue(c) \/ TimeOut(c) \/ Abandon(c) \/ Close(c)

TimerNext(h) == Expire(h) \/ OnIdle(h) \/ Release(h) \/ MaxHoldPasses(h)

FencerNext(f) ==
  AcquireLock(f) \/ Queue(f) \/ Take(f) \/ TimeOut(f) \/ Abandon(f) \/ ReleaseLock(f)

Next ==
  \/ \E c \in Callers : CallerNext(c)
  \/ \E h \in Handles : TimerNext(h)
  \/ \E f \in Fencers : FencerNext(f)
  \/ \E p \in Procs : Crash(p)

Spec == Init /\ [][Next]_vars

\* sync.Mutex hands itself to a starving goroutine, so waiting for it is
\* strongly fair; so is polling <db>.wait, which its holders drop within a few
\* polls.  <db>.lock needs weak fairness only: whoever owns <db>.wait is alone
\* in waiting for it.  Operations return and fencers release.
Fairness ==
  /\ \A c \in Callers : /\ WF_vars(Step(c))
                        /\ SF_vars(Enter(c)) /\ SF_vars(Queue(c))
                        /\ SF_vars(YieldReturn(c) \/ YieldResume(c))
  /\ \A h \in Handles : WF_vars(Expire(h)) /\ SF_vars(OnIdle(h)) /\ WF_vars(Release(h))
  /\ \A f \in Fencers : SF_vars(Queue(f)) /\ WF_vars(Take(f)) /\ WF_vars(ReleaseLock(f))

FairSpec == Spec /\ Fairness

-----------------------------------------------------------------------------
(* Safety *)

\* At most one process has the file open: DuckDB allows a single read-write
\* process, and acquire/release must never let two handles of different
\* processes reach Open together.
SingleWriter ==
  \A g, h \in Handles : db[g] /\ db[h] => ProcOf[g] = ProcOf[h]

\* AcquireLock fences the database off: while a backup or a restore holds the
\* lock no Handle of any process has the database open.
FenceExcludesWriters ==
  \A f \in Fencers : pc[f] = "held" => lock = f /\ \A h \in Handles : ~db[h]

\* A Handle that owes the registry a release: it is open, or its goroutine is
\* between acquire and Open or between db.Close and release.
Refers(h) == db[h] \/ \E a \in Actors : Hdl(a) = h /\ pc[a] \in {"open", "release"}

Referring(p) == {h \in Handles : ProcOf[h] = p /\ Refers(h)}

\* lockEntry.refs counts exactly the Handles that still owe a release, across
\* failed opens, yields, idle closes and Close.
RefsExact == \A p \in Procs : refs[p] = Cardinality(Referring(p))

\* A process has a registry entry exactly while it owns <db>.lock: release
\* deletes the entry and unlocks the file together.
RegistryOwnsLock == \A p \in Procs : refs[p] > 0 <=> lock = p

\* Handle.pending counts the wakeups still owed: a running timer and every
\* expired one whose goroutine has not entered onIdle.
PendingAccounting ==
  \A h \in Handles : pending[h] = fired[h] + (IF ticking[h] THEN 1 ELSE 0)

\* A database left open by a finished Do has a countdown that will close it:
\* no early return leaves the file held with nobody to release it.
CountdownOwed ==
  \A h \in Handles : db[h] /\ mu[h] = NoOne => current[h] /\ pending[h] > 0

\* An operation runs on an open database, alone on its Handle, in the process
\* that owns the file lock -- also after the gap in yieldLocked.
OperationOwnsDatabase ==
  \A c \in Callers : pc[c] = "fn" => /\ db[HandleOf[c]]
                                     /\ mu[HandleOf[c]] = c
                                     /\ lock = Proc(c)

\* What makes one Do one step for everybody else, in this process and in others.
Exclusion == SingleWriter /\ OperationOwnsDatabase

\* Close is terminal: no Do that was queued or yielding when the Handle was
\* closed gets to reopen it, and none that comes later does.
ClosedForGood ==
  \A c \in Callers : closed[HandleOf[c]] =>
    ~db[HandleOf[c]] /\ pc[c] \in {"idle", "mutex", "yield", "release"}

\* A wakeup closes the database only if it is the last one owed and no newer
\* countdown is running: an old timer goroutine that reaches the mutex late
\* leaves a Handle that has been used since alone.
NoLateWakeup ==
  [][\A h \in Handles : mu[h] # h /\ mu'[h] = h => ~ticking[h] /\ fired[h] = 1]_vars

\* The one in possession of <db>.wait is the next owner of <db>.lock: nobody,
\* the process that just handed off included, takes it first.
NoBarging ==
  [][\A a \in Callers \cup Fencers :
       pc[a] = "take" /\ lock = NoOne /\ lock' # NoOne => lock' = a]_vars

-----------------------------------------------------------------------------
(* The abstract file.  A Handle that is closing its database has left it.   *)

OpenHandles == {h \in Handles : db[h]}

Running ==
  [h \in Handles |->
     IF \E c \in Callers : HandleOf[c] = h /\ pc[c] = "fn"
     THEN CHOOSE c \in Callers : HandleOf[c] = h /\ pc[c] = "fn"
     ELSE NoOne]

FencedBy == IF lock \in Fencers THEN lock ELSE NoOne

ClosedHandles == {h \in Handles : closed[h]}

File == INSTANCE DuckFile WITH
  open <- OpenHandles, running <- Running, fence <- FencedBy, retired <- ClosedHandles

\* The locks, the queue and the timers implement the abstract file: every step
\* of the package is a step of it or changes nothing it shows.
ImplementsDuckFile == File!Spec

-----------------------------------------------------------------------------
(* Liveness, under FairSpec without timeouts, cancellations and crashes *)

\* A waiter that announced itself in <db>.wait gets the lock, however busy the
\* process in possession is: Do hands off on demand.
QueuedIsServed ==
  \A a \in Callers \cup Fencers : pc[a] = "take" ~> pc[a] # "take"

\* Every Do returns: no handoff leaves goroutines waiting for one another.
EveryDoReturns == \A c \in Callers : pc[c] = "mutex" ~> pc[c] = "idle"

\* Once no more operations arrive, and those under way have returned, every database
\* is closed and the file lock is free.
IdleLetsGo ==
  <>[](\A a \in Callers \cup Fencers : pc[a] = "idle")
    => <>[](lock = NoOne /\ \A h \in Handles : ~db[h])
=============================================================================
