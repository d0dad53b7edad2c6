--------------------------- MODULE DuckHandleProofs ---------------------------
(***************************************************************************)
(* Proofs about DuckHandle, for any number of processes, Handles,          *)
(* goroutines and fencers, and whichever faults happen.                    *)
(***************************************************************************)
EXTENDS DuckHandle, FiniteSetTheorems, TLAPS

\* The states of a Do (or a Close) that holds Handle.mu.
Inside == {"probe", "unprobe", "shut", "release", "acquire", "queue", "take",
           "register", "open", "fn"}

\* Handle.mu belongs to the one goroutine that is inside.
MutexInv ==
  /\ \A c \in Callers : pc[c] \in Inside <=> mu[HandleOf[c]] = c
  /\ \A h \in Handles : pc[h] = "release" <=> mu[h] = h
  /\ \A h \in Handles : mu[h] \in Handles => mu[h] = h
  /\ \A h \in Handles : mu[h] \in Callers => HandleOf[mu[h]] = h

\* Where the database is open, where it is not, and what Close leaves behind.
DatabaseInv ==
  /\ \A c \in Callers : pc[c] \in {"probe", "unprobe", "shut", "fn"} => db[HandleOf[c]]
  /\ \A c \in Callers : pc[c] \in {"release", "acquire", "queue", "take", "register", "open"}
                          => ~db[HandleOf[c]]
  /\ \A h \in Handles : pc[h] = "release" \/ closed[h] => ~db[h]
  /\ \A c \in Callers : closed[HandleOf[c]] => pc[c] \in {"idle", "mutex", "yield", "release"}

\* The idle countdown.
CountdownInv == PendingAccounting /\ CountdownOwed

\* <db>.wait belongs to the goroutine next in line, or to a probe.
QueueInv ==
  \A a \in Callers \cup Fencers : pc[a] \in {"take", "unprobe"} <=> wait = a

\* <db>.lock belongs to a fencer, to a process with references, or to a
\* goroutine on its way from the one to the other.
RegistryInv ==
  /\ RefsExact
  /\ RegistryOwnsLock
  /\ \A c \in Callers : pc[c] = "register" <=> lock = c
  /\ \A f \in Fencers : pc[f] = "held" <=> lock = f

IndInv == /\ TypeOK
          /\ MutexInv
          /\ DatabaseInv
          /\ CountdownInv
          /\ QueueInv
          /\ RegistryInv

-----------------------------------------------------------------------------
(* Type correctness: one step per action. *)

\* Initially every part of the invariant holds.
LEMMA InitInv == Init => IndInv
<1> SUFFICES ASSUME Init PROVE IndInv
  OBVIOUS
<1>1. TypeOK
  BY DEF Init, TypeOK, Actors, CallerStates, FencerStates, TimerStates
<1>2. MutexInv /\ DatabaseInv /\ CountdownInv /\ QueueInv
  BY ActorsAssumption, HandleOfAssumption
  DEF Init, MutexInv, Inside, DatabaseInv, CountdownInv, PendingAccounting, CountdownOwed,
      QueueInv, Actors
<1>3. \A p \in Procs : Referring(p) = {}
  BY DEF Init, Referring, Refers, Actors
<1>4. RegistryInv
  BY <1>3, ActorsAssumption, FS_EmptySet
  DEF Init, RegistryInv, RefsExact, RegistryOwnsLock, Actors
<1> QED
  BY <1>1, <1>2, <1>4 DEF IndInv

\* No step leaves the types.
LEMMA NextTyped == TypeOK /\ [Next]_vars => TypeOK'
<1> SUFFICES ASSUME TypeOK, [Next]_vars PROVE TypeOK'
  OBVIOUS
<1> USE ActorsAssumption, ProcOfAssumption, HandleOfAssumption
    DEF TypeOK, Actors, CallerStates, FencerStates, TimerStates, handleVars, fileVars,
        Goto
<1>1. ASSUME NEW c \in Callers, Call(c) PROVE TypeOK'
  BY <1>1 DEF Call
<1>2. ASSUME NEW c \in Callers, Enter(c) PROVE TypeOK'
  <2>1. CASE closed[HandleOf[c]]
    BY <1>2, <2>1 DEF Enter
  <2>2. CASE ~closed[HandleOf[c]]
    <3>1. pc' \in [Actors -> CallerStates \cup FencerStates]
      BY <1>2, <2>2 DEF Enter
    <3>2. /\ \A f \in Fencers : pc'[f] \in FencerStates
          /\ \A h \in Handles : pc'[h] \in TimerStates
          /\ \A d \in Callers : pc'[d] \in CallerStates
      BY <1>2, <2>2 DEF Enter
    <3>3. mu' \in [Handles -> Callers \cup Handles \cup {NoOne}]
      BY <1>2, <2>2 DEF Enter, SetMu
    <3>4. Disarm(HandleOf[c])
      BY <1>2, <2>2 DEF Enter
    <3>5. /\ ticking' \in [Handles -> BOOLEAN]
          /\ current' \in [Handles -> BOOLEAN]
      BY <3>4 DEF Disarm
    <3>6. pending' \in [Handles -> Int]
      BY <1>2, <2>2 DEF Enter, Disarm
    <3>7. UNCHANGED <<db, old, fired, closed, fileVars>>
      BY <1>2, <2>2 DEF Enter
    <3> QED
      BY <3>1, <3>2, <3>3, <3>5, <3>6, <3>7
  <2> QED
    BY <2>1, <2>2
<1>3. ASSUME NEW c \in Callers, Probe(c) PROVE TypeOK'
  BY <1>3 DEF Probe
<1>4. ASSUME NEW c \in Callers, Unprobe(c) PROVE TypeOK'
  BY <1>4 DEF Unprobe
<1>5. ASSUME NEW c \in Callers, Shut(c) PROVE TypeOK'
  BY <1>5 DEF Shut, Disarm
<1>6. ASSUME NEW c \in Callers, Acquire(c) PROVE TypeOK'
  BY <1>6 DEF Acquire, Proc
<1>7. ASSUME NEW c \in Callers, Register(c) PROVE TypeOK'
  BY <1>7 DEF Register, Proc
<1>8. ASSUME NEW c \in Callers, OpenDb(c) PROVE TypeOK'
  BY <1>8 DEF OpenDb
<1>9. ASSUME NEW c \in Callers, OpenFails(c) PROVE TypeOK'
  BY <1>9 DEF OpenFails, DropRef, SetMu, Proc
<1>10. ASSUME NEW c \in Callers, Finish(c) PROVE TypeOK'
  BY <1>10 DEF Finish, Arm, SetMu
<1>11. ASSUME NEW c \in Callers, YieldReturn(c) PROVE TypeOK'
  BY <1>11 DEF YieldReturn
<1>12. ASSUME NEW c \in Callers, YieldResume(c) PROVE TypeOK'
  <2>1. mu' \in [Handles -> Callers \cup Handles \cup {NoOne}]
    BY <1>12 DEF YieldResume, SetMu
  <2>2. /\ pc' \in [Actors -> CallerStates \cup FencerStates]
        /\ \A f \in Fencers : pc'[f] \in FencerStates
        /\ \A h \in Handles : pc'[h] \in TimerStates
        /\ \A d \in Callers : pc'[d] \in CallerStates
    BY <1>12 DEF YieldResume
  <2>3. /\ ticking' \in [Handles -> BOOLEAN]
        /\ pending' \in [Handles -> Int]
        /\ current' \in [Handles -> BOOLEAN]
    BY <1>12 DEF YieldResume, Disarm
  <2>4. UNCHANGED <<db, old, fired, closed, fileVars>>
    BY <1>12 DEF YieldResume
  <2> QED
    BY <2>1, <2>2, <2>3, <2>4
<1>13. ASSUME NEW c \in Callers, Close(c) PROVE TypeOK'
  <2>1. \/ pc' = [pc EXCEPT ![c] = "release"] /\ mu' = [mu EXCEPT ![HandleOf[c]] = c]
        \/ UNCHANGED <<pc, mu>>
    BY <1>13 DEF Close, SetMu
  <2>2. /\ pc' \in [Actors -> CallerStates \cup FencerStates]
        /\ \A f \in Fencers : pc'[f] \in FencerStates
        /\ \A h \in Handles : pc'[h] \in TimerStates
        /\ \A d \in Callers : pc'[d] \in CallerStates
    BY <2>1
  <2>3. mu' \in [Handles -> Callers \cup Handles \cup {NoOne}]
    BY <2>1
  <2>4. /\ ticking' \in [Handles -> BOOLEAN]
        /\ pending' \in [Handles -> Int]
        /\ current' \in [Handles -> BOOLEAN]
    BY <1>13 DEF Close, Disarm
  <2>5. db' \in [Handles -> BOOLEAN] /\ closed' \in [Handles -> BOOLEAN]
    BY <1>13 DEF Close
  <2>6. UNCHANGED <<old, fired, fileVars>>
    BY <1>13 DEF Close
  <2> QED
    BY <2>2, <2>3, <2>4, <2>5, <2>6
<1>14. ASSUME NEW a \in Callers \cup Fencers, Queue(a) PROVE TypeOK'
  BY <1>14 DEF Queue
<1>15. ASSUME NEW a \in Callers \cup Fencers, Take(a) PROVE TypeOK'
  BY <1>15 DEF Take
<1>16. ASSUME NEW a \in Callers \cup Fencers, TimeOut(a) PROVE TypeOK'
  BY <1>16 DEF TimeOut, LeaveQueue
<1>17. ASSUME NEW a \in Callers \cup Fencers, Abandon(a) PROVE TypeOK'
  BY <1>17 DEF Abandon, LeaveQueue
<1>18. ASSUME NEW a \in Callers \cup Handles, Release(a) PROVE TypeOK'
  BY <1>18 DEF Release, DropRef, SetMu, Hdl
<1>19. ASSUME NEW h \in Handles, Expire(h) PROVE TypeOK'
  BY <1>19 DEF Expire
<1>20. ASSUME NEW h \in Handles, OnIdle(h) PROVE TypeOK'
  <2>1. CASE StaleWakeup(h)
    BY <1>20, <2>1 DEF OnIdle
  <2>2. CASE ~StaleWakeup(h)
    <3>1. /\ fired' \in [Handles -> Nat]
          /\ pending' \in [Handles -> Int]
      BY <1>20, <2>2 DEF OnIdle
    <3>2. /\ ticking' = [ticking EXCEPT ![h] = FALSE]
          /\ current' = [current EXCEPT ![h] = FALSE]
          /\ db' = [db EXCEPT ![h] = FALSE]
      BY <1>20, <2>2 DEF OnIdle
    <3>3. /\ ticking' \in [Handles -> BOOLEAN]
          /\ current' \in [Handles -> BOOLEAN]
      BY <3>2
    <3>4. db' \in [Handles -> BOOLEAN]
      BY <3>2
    <3>5. UNCHANGED <<old, closed, refs, lock, wait>>
      BY <1>20, <2>2 DEF OnIdle
    <3>6. \/ pc' = [pc EXCEPT ![h] = "release"] /\ mu' = [mu EXCEPT ![h] = h]
          \/ UNCHANGED <<pc, mu>>
      BY <1>20, <2>2 DEF OnIdle, SetMu
    <3>7. /\ pc' \in [Actors -> CallerStates \cup FencerStates]
          /\ \A f \in Fencers : pc'[f] \in FencerStates
          /\ \A g \in Handles : pc'[g] \in TimerStates
          /\ \A c \in Callers : pc'[c] \in CallerStates
      BY <3>6
    <3>8. mu' \in [Handles -> Callers \cup Handles \cup {NoOne}]
      BY <3>6
    <3> QED
      BY <3>1, <3>3, <3>4, <3>5, <3>7, <3>8
  <2> QED
    BY <2>1, <2>2
<1>21. ASSUME NEW h \in Handles, MaxHoldPasses(h) PROVE TypeOK'
  BY <1>21 DEF MaxHoldPasses
<1>22. ASSUME NEW f \in Fencers, AcquireLock(f) PROVE TypeOK'
  BY <1>22 DEF AcquireLock
<1>23. ASSUME NEW f \in Fencers, ReleaseLock(f) PROVE TypeOK'
  BY <1>23 DEF ReleaseLock
<1>24. ASSUME NEW p \in Procs, Crash(p) PROVE TypeOK'
  <2>1. /\ pc' \in [Actors -> CallerStates \cup FencerStates]
        /\ \A f \in Fencers : pc'[f] \in FencerStates
        /\ \A h \in Handles : pc'[h] \in TimerStates
        /\ \A c \in Callers : pc'[c] \in CallerStates
    BY <1>24 DEF Crash
  <2>2. /\ mu' \in [Handles -> Callers \cup Handles \cup {NoOne}]
        /\ db' \in [Handles -> BOOLEAN]
        /\ old' \in [Handles -> BOOLEAN]
        /\ ticking' \in [Handles -> BOOLEAN]
    BY <1>24 DEF Crash
  <2>3. /\ fired' \in [Handles -> Nat]
        /\ pending' \in [Handles -> Int]
    BY <1>24 DEF Crash
  <2>4. /\ current' \in [Handles -> BOOLEAN]
        /\ closed' \in [Handles -> BOOLEAN]
    BY <1>24 DEF Crash
  <2>5. /\ refs' \in [Procs -> Nat]
        /\ lock' \in Callers \cup Fencers \cup Procs \cup {NoOne}
        /\ wait' \in Callers \cup Fencers \cup {NoOne}
    BY <1>24 DEF Crash
  <2> QED
    BY <2>1, <2>2, <2>4, <2>5, <2>3
<1>25. CASE UNCHANGED vars
  BY <1>25 DEF vars
<1> QED
  BY <1>1, <1>2, <1>3, <1>4, <1>5, <1>6, <1>7, <1>8, <1>9, <1>10, <1>11, <1>12, <1>13, <1>14, <1>15, <1>16, <1>17, <1>18, <1>19, <1>20, <1>21, <1>22, <1>23, <1>24,
     <1>25 DEF Next, CallerNext, TimerNext, FencerNext, Step

-----------------------------------------------------------------------------
(* The mutex, the database, the countdown and the queue. *)

\* The mutex is taken and dropped together with the states inside Do.
LEMMA NextMutexInv == TypeOK /\ MutexInv /\ [Next]_vars => MutexInv'
<1> SUFFICES ASSUME TypeOK, MutexInv, [Next]_vars PROVE MutexInv'
  OBVIOUS
<1> USE ActorsAssumption, ProcOfAssumption, HandleOfAssumption
    DEF TypeOK, Actors, CallerStates, FencerStates, TimerStates, handleVars, fileVars,
        Goto, MutexInv, Inside
<1>1. ASSUME NEW c \in Callers, Call(c) PROVE MutexInv'
  BY <1>1 DEF Call
<1>2. ASSUME NEW c \in Callers, Enter(c) PROVE MutexInv'
  BY <1>2 DEF Enter, SetMu, Disarm
<1>3. ASSUME NEW c \in Callers, Probe(c) PROVE MutexInv'
  BY <1>3 DEF Probe
<1>4. ASSUME NEW c \in Callers, Unprobe(c) PROVE MutexInv'
  BY <1>4 DEF Unprobe
<1>5. ASSUME NEW c \in Callers, Shut(c) PROVE MutexInv'
  BY <1>5 DEF Shut, Disarm
<1>6. ASSUME NEW c \in Callers, Acquire(c) PROVE MutexInv'
  BY <1>6 DEF Acquire, Proc
<1>7. ASSUME NEW c \in Callers, Register(c) PROVE MutexInv'
  BY <1>7 DEF Register, Proc
<1>8. ASSUME NEW c \in Callers, OpenDb(c) PROVE MutexInv'
  BY <1>8 DEF OpenDb
<1>9. ASSUME NEW c \in Callers, OpenFails(c) PROVE MutexInv'
  BY <1>9 DEF OpenFails, DropRef, SetMu, Proc
<1>10. ASSUME NEW c \in Callers, Finish(c) PROVE MutexInv'
  BY <1>10 DEF Finish, Arm, SetMu
<1>11. ASSUME NEW c \in Callers, YieldReturn(c) PROVE MutexInv'
  BY <1>11 DEF YieldReturn
<1>12. ASSUME NEW c \in Callers, YieldResume(c) PROVE MutexInv'
  BY <1>12 DEF YieldResume, SetMu, Disarm
<1>13. ASSUME NEW c \in Callers, Close(c) PROVE MutexInv'
  <2>1. \/ /\ pc' = [pc EXCEPT ![c] = "release"]
           /\ mu[HandleOf[c]] = NoOne /\ mu' = [mu EXCEPT ![HandleOf[c]] = c]
        \/ UNCHANGED <<pc, mu>>
    BY <1>13 DEF Close, SetMu
  <2> QED
    BY <1>13, <2>1 DEF Close
<1>14. ASSUME NEW a \in Callers \cup Fencers, Queue(a) PROVE MutexInv'
  BY <1>14 DEF Queue
<1>15. ASSUME NEW a \in Callers \cup Fencers, Take(a) PROVE MutexInv'
  BY <1>15 DEF Take
<1>16. ASSUME NEW a \in Callers \cup Fencers, TimeOut(a) PROVE MutexInv'
  BY <1>16 DEF TimeOut, LeaveQueue
<1>17. ASSUME NEW a \in Callers \cup Fencers, Abandon(a) PROVE MutexInv'
  BY <1>17 DEF Abandon, LeaveQueue
<1>18. ASSUME NEW a \in Callers \cup Handles, Release(a) PROVE MutexInv'
  BY <1>18 DEF Release, DropRef, SetMu, Hdl
<1>19. ASSUME NEW h \in Handles, Expire(h) PROVE MutexInv'
  BY <1>19 DEF Expire
<1>20. ASSUME NEW h \in Handles, OnIdle(h) PROVE MutexInv'
  <2>1. \/ /\ pc' = [pc EXCEPT ![h] = "release"]
           /\ mu[h] = NoOne /\ mu' = [mu EXCEPT ![h] = h]
        \/ UNCHANGED <<pc, mu>>
    BY <1>20 DEF OnIdle, SetMu
  <2> QED
    BY <2>1
<1>21. ASSUME NEW h \in Handles, MaxHoldPasses(h) PROVE MutexInv'
  BY <1>21 DEF MaxHoldPasses
<1>22. ASSUME NEW f \in Fencers, AcquireLock(f) PROVE MutexInv'
  BY <1>22 DEF AcquireLock
<1>23. ASSUME NEW f \in Fencers, ReleaseLock(f) PROVE MutexInv'
  BY <1>23 DEF ReleaseLock
<1>24. ASSUME NEW p \in Procs, Crash(p) PROVE MutexInv'
  BY <1>24 DEF Crash, Proc
<1>25. CASE UNCHANGED vars
  BY <1>25 DEF vars
<1> QED
  BY <1>1, <1>2, <1>3, <1>4, <1>5, <1>6, <1>7, <1>8, <1>9, <1>10, <1>11, <1>12, <1>13, <1>14, <1>15, <1>16, <1>17, <1>18, <1>19, <1>20, <1>21, <1>22, <1>23, <1>24,
     <1>25 DEF Next, CallerNext, TimerNext, FencerNext, Step

\* The database is open exactly in the states that rely on it.
LEMMA NextDatabaseInv == TypeOK /\ MutexInv /\ DatabaseInv /\ [Next]_vars => DatabaseInv'
<1> SUFFICES ASSUME TypeOK, MutexInv, DatabaseInv, [Next]_vars PROVE DatabaseInv'
  OBVIOUS
<1> USE ActorsAssumption, ProcOfAssumption, HandleOfAssumption
    DEF TypeOK, Actors, CallerStates, FencerStates, TimerStates, handleVars, fileVars,
        Goto, MutexInv, Inside, DatabaseInv
<1>1. ASSUME NEW c \in Callers, Call(c) PROVE DatabaseInv'
  BY <1>1 DEF Call
<1>2. ASSUME NEW c \in Callers, Enter(c) PROVE DatabaseInv'
  BY <1>2 DEF Enter, SetMu, Disarm
<1>3. ASSUME NEW c \in Callers, Probe(c) PROVE DatabaseInv'
  BY <1>3 DEF Probe
<1>4. ASSUME NEW c \in Callers, Unprobe(c) PROVE DatabaseInv'
  BY <1>4 DEF Unprobe
<1>5. ASSUME NEW c \in Callers, Shut(c) PROVE DatabaseInv'
  BY <1>5 DEF Shut, Disarm
<1>6. ASSUME NEW c \in Callers, Acquire(c) PROVE DatabaseInv'
  BY <1>6 DEF Acquire, Proc
<1>7. ASSUME NEW c \in Callers, Register(c) PROVE DatabaseInv'
  BY <1>7 DEF Register, Proc
<1>8. ASSUME NEW c \in Callers, OpenDb(c) PROVE DatabaseInv'
  BY <1>8 DEF OpenDb
<1>9. ASSUME NEW c \in Callers, OpenFails(c) PROVE DatabaseInv'
  BY <1>9 DEF OpenFails, DropRef, SetMu, Proc
<1>10. ASSUME NEW c \in Callers, Finish(c) PROVE DatabaseInv'
  BY <1>10 DEF Finish, Arm, SetMu
<1>11. ASSUME NEW c \in Callers, YieldReturn(c) PROVE DatabaseInv'
  BY <1>11 DEF YieldReturn
<1>12. ASSUME NEW c \in Callers, YieldResume(c) PROVE DatabaseInv'
  BY <1>12 DEF YieldResume, SetMu, Disarm
<1>13. ASSUME NEW c \in Callers, Close(c) PROVE DatabaseInv'
  BY <1>13 DEF Close, Disarm, SetMu
<1>14. ASSUME NEW a \in Callers \cup Fencers, Queue(a) PROVE DatabaseInv'
  BY <1>14 DEF Queue
<1>15. ASSUME NEW a \in Callers \cup Fencers, Take(a) PROVE DatabaseInv'
  BY <1>15 DEF Take
<1>16. ASSUME NEW a \in Callers \cup Fencers, TimeOut(a) PROVE DatabaseInv'
  BY <1>16 DEF TimeOut, LeaveQueue
<1>17. ASSUME NEW a \in Callers \cup Fencers, Abandon(a) PROVE DatabaseInv'
  BY <1>17 DEF Abandon, LeaveQueue
<1>18. ASSUME NEW a \in Callers \cup Handles, Release(a) PROVE DatabaseInv'
  BY <1>18 DEF Release, DropRef, SetMu, Hdl
<1>19. ASSUME NEW h \in Handles, Expire(h) PROVE DatabaseInv'
  BY <1>19 DEF Expire
<1>20. ASSUME NEW h \in Handles, OnIdle(h) PROVE DatabaseInv'
  BY <1>20 DEF OnIdle, SetMu, StaleWakeup
<1>21. ASSUME NEW h \in Handles, MaxHoldPasses(h) PROVE DatabaseInv'
  BY <1>21 DEF MaxHoldPasses
<1>22. ASSUME NEW f \in Fencers, AcquireLock(f) PROVE DatabaseInv'
  BY <1>22 DEF AcquireLock
<1>23. ASSUME NEW f \in Fencers, ReleaseLock(f) PROVE DatabaseInv'
  BY <1>23 DEF ReleaseLock
<1>24. ASSUME NEW p \in Procs, Crash(p) PROVE DatabaseInv'
  BY <1>24 DEF Crash, Proc
<1>25. CASE UNCHANGED vars
  BY <1>25 DEF vars
<1> QED
  BY <1>1, <1>2, <1>3, <1>4, <1>5, <1>6, <1>7, <1>8, <1>9, <1>10, <1>11, <1>12, <1>13, <1>14, <1>15, <1>16, <1>17, <1>18, <1>19, <1>20, <1>21, <1>22, <1>23, <1>24,
     <1>25 DEF Next, CallerNext, TimerNext, FencerNext, Step

\* Wakeups are counted exactly and every exit of Do leaves the countdown right.
LEMMA NextCountdownInv == TypeOK /\ MutexInv /\ DatabaseInv /\ CountdownInv /\ [Next]_vars => CountdownInv'
<1> SUFFICES ASSUME TypeOK, MutexInv, DatabaseInv, CountdownInv, [Next]_vars PROVE CountdownInv'
  OBVIOUS
<1> USE ActorsAssumption, ProcOfAssumption, HandleOfAssumption
    DEF TypeOK, Actors, CallerStates, FencerStates, TimerStates, handleVars, fileVars,
        Goto, MutexInv, Inside, DatabaseInv, CountdownInv, PendingAccounting,
        CountdownOwed
<1>1. ASSUME NEW c \in Callers, Call(c) PROVE CountdownInv'
  BY <1>1 DEF Call
<1>2. ASSUME NEW c \in Callers, Enter(c) PROVE CountdownInv'
  BY <1>2 DEF Enter, SetMu, Disarm
<1>3. ASSUME NEW c \in Callers, Probe(c) PROVE CountdownInv'
  BY <1>3 DEF Probe
<1>4. ASSUME NEW c \in Callers, Unprobe(c) PROVE CountdownInv'
  BY <1>4 DEF Unprobe
<1>5. ASSUME NEW c \in Callers, Shut(c) PROVE CountdownInv'
  BY <1>5 DEF Shut, Disarm
<1>6. ASSUME NEW c \in Callers, Acquire(c) PROVE CountdownInv'
  BY <1>6 DEF Acquire, Proc
<1>7. ASSUME NEW c \in Callers, Register(c) PROVE CountdownInv'
  BY <1>7 DEF Register, Proc
<1>8. ASSUME NEW c \in Callers, OpenDb(c) PROVE CountdownInv'
  BY <1>8 DEF OpenDb
<1>9. ASSUME NEW c \in Callers, OpenFails(c) PROVE CountdownInv'
  BY <1>9 DEF OpenFails, DropRef, SetMu, Proc
<1>10. ASSUME NEW c \in Callers, Finish(c) PROVE CountdownInv'
  BY <1>10 DEF Finish, Arm, SetMu
<1>11. ASSUME NEW c \in Callers, YieldReturn(c) PROVE CountdownInv'
  BY <1>11 DEF YieldReturn
<1>12. ASSUME NEW c \in Callers, YieldResume(c) PROVE CountdownInv'
  BY <1>12 DEF YieldResume, SetMu, Disarm
<1>13. ASSUME NEW c \in Callers, Close(c) PROVE CountdownInv'
  BY <1>13 DEF Close, Disarm, SetMu
<1>14. ASSUME NEW a \in Callers \cup Fencers, Queue(a) PROVE CountdownInv'
  BY <1>14 DEF Queue
<1>15. ASSUME NEW a \in Callers \cup Fencers, Take(a) PROVE CountdownInv'
  BY <1>15 DEF Take
<1>16. ASSUME NEW a \in Callers \cup Fencers, TimeOut(a) PROVE CountdownInv'
  BY <1>16 DEF TimeOut, LeaveQueue
<1>17. ASSUME NEW a \in Callers \cup Fencers, Abandon(a) PROVE CountdownInv'
  BY <1>17 DEF Abandon, LeaveQueue
<1>18. ASSUME NEW a \in Callers \cup Handles, Release(a) PROVE CountdownInv'
  BY <1>18 DEF Release, DropRef, SetMu, Hdl
<1>19. ASSUME NEW h \in Handles, Expire(h) PROVE CountdownInv'
  BY <1>19 DEF Expire
<1>20. ASSUME NEW h \in Handles, OnIdle(h) PROVE CountdownInv'
  BY <1>20 DEF OnIdle, SetMu, StaleWakeup
<1>21. ASSUME NEW h \in Handles, MaxHoldPasses(h) PROVE CountdownInv'
  BY <1>21 DEF MaxHoldPasses
<1>22. ASSUME NEW f \in Fencers, AcquireLock(f) PROVE CountdownInv'
  BY <1>22 DEF AcquireLock
<1>23. ASSUME NEW f \in Fencers, ReleaseLock(f) PROVE CountdownInv'
  BY <1>23 DEF ReleaseLock
<1>24. ASSUME NEW p \in Procs, Crash(p) PROVE CountdownInv'
  BY <1>24 DEF Crash, Proc
<1>25. CASE UNCHANGED vars
  BY <1>25 DEF vars
<1> QED
  BY <1>1, <1>2, <1>3, <1>4, <1>5, <1>6, <1>7, <1>8, <1>9, <1>10, <1>11, <1>12, <1>13, <1>14, <1>15, <1>16, <1>17, <1>18, <1>19, <1>20, <1>21, <1>22, <1>23, <1>24,
     <1>25 DEF Next, CallerNext, TimerNext, FencerNext, Step

\* <db>.wait is taken and dropped by the one next in line, or by a probe.
LEMMA NextQueueInv == TypeOK /\ QueueInv /\ [Next]_vars => QueueInv'
<1> SUFFICES ASSUME TypeOK, QueueInv, [Next]_vars PROVE QueueInv'
  OBVIOUS
<1> USE ActorsAssumption, ProcOfAssumption, HandleOfAssumption
    DEF TypeOK, Actors, CallerStates, FencerStates, TimerStates, handleVars, fileVars,
        Goto, QueueInv
<1>1. ASSUME NEW c \in Callers, Call(c) PROVE QueueInv'
  BY <1>1 DEF Call
<1>2. ASSUME NEW c \in Callers, Enter(c) PROVE QueueInv'
  BY <1>2 DEF Enter, SetMu, Disarm
<1>3. ASSUME NEW c \in Callers, Probe(c) PROVE QueueInv'
  BY <1>3 DEF Probe
<1>4. ASSUME NEW c \in Callers, Unprobe(c) PROVE QueueInv'
  BY <1>4 DEF Unprobe
<1>5. ASSUME NEW c \in Callers, Shut(c) PROVE QueueInv'
  BY <1>5 DEF Shut, Disarm
<1>6. ASSUME NEW c \in Callers, Acquire(c) PROVE QueueInv'
  BY <1>6 DEF Acquire, Proc
<1>7. ASSUME NEW c \in Callers, Register(c) PROVE QueueInv'
  BY <1>7 DEF Register, Proc
<1>8. ASSUME NEW c \in Callers, OpenDb(c) PROVE QueueInv'
  BY <1>8 DEF OpenDb
<1>9. ASSUME NEW c \in Callers, OpenFails(c) PROVE QueueInv'
  BY <1>9 DEF OpenFails, DropRef, SetMu, Proc
<1>10. ASSUME NEW c \in Callers, Finish(c) PROVE QueueInv'
  BY <1>10 DEF Finish, Arm, SetMu
<1>11. ASSUME NEW c \in Callers, YieldReturn(c) PROVE QueueInv'
  BY <1>11 DEF YieldReturn
<1>12. ASSUME NEW c \in Callers, YieldResume(c) PROVE QueueInv'
  BY <1>12 DEF YieldResume, SetMu, Disarm
<1>13. ASSUME NEW c \in Callers, Close(c) PROVE QueueInv'
  BY <1>13 DEF Close, Disarm, SetMu
<1>14. ASSUME NEW a \in Callers \cup Fencers, Queue(a) PROVE QueueInv'
  BY <1>14 DEF Queue
<1>15. ASSUME NEW a \in Callers \cup Fencers, Take(a) PROVE QueueInv'
  BY <1>15 DEF Take
<1>16. ASSUME NEW a \in Callers \cup Fencers, TimeOut(a) PROVE QueueInv'
  BY <1>16 DEF TimeOut, LeaveQueue
<1>17. ASSUME NEW a \in Callers \cup Fencers, Abandon(a) PROVE QueueInv'
  BY <1>17 DEF Abandon, LeaveQueue
<1>18. ASSUME NEW a \in Callers \cup Handles, Release(a) PROVE QueueInv'
  BY <1>18 DEF Release, DropRef, SetMu, Hdl
<1>19. ASSUME NEW h \in Handles, Expire(h) PROVE QueueInv'
  BY <1>19 DEF Expire
<1>20. ASSUME NEW h \in Handles, OnIdle(h) PROVE QueueInv'
  BY <1>20 DEF OnIdle, SetMu, StaleWakeup
<1>21. ASSUME NEW h \in Handles, MaxHoldPasses(h) PROVE QueueInv'
  BY <1>21 DEF MaxHoldPasses
<1>22. ASSUME NEW f \in Fencers, AcquireLock(f) PROVE QueueInv'
  BY <1>22 DEF AcquireLock
<1>23. ASSUME NEW f \in Fencers, ReleaseLock(f) PROVE QueueInv'
  BY <1>23 DEF ReleaseLock
<1>24. ASSUME NEW p \in Procs, Crash(p) PROVE QueueInv'
  BY <1>24 DEF Crash, Proc
<1>25. CASE UNCHANGED vars
  BY <1>25 DEF vars
<1> QED
  BY <1>1, <1>2, <1>3, <1>4, <1>5, <1>6, <1>7, <1>8, <1>9, <1>10, <1>11, <1>12, <1>13, <1>14, <1>15, <1>16, <1>17, <1>18, <1>19, <1>20, <1>21, <1>22, <1>23, <1>24,
     <1>25 DEF Next, CallerNext, TimerNext, FencerNext, Step

-----------------------------------------------------------------------------
(* The registry: reference counts, and who owns <db>.lock. *)

\* A set of Handles with one more or one less.
LEMMA OneHandle ==
  ASSUME NEW S \in SUBSET Handles, NEW h \in Handles
  PROVE  /\ IsFiniteSet(S) /\ Cardinality(S) \in Nat
         /\ h \notin S => Cardinality(S \cup {h}) = Cardinality(S) + 1
         /\ h \in S => Cardinality(S \ {h}) = Cardinality(S) - 1 /\ Cardinality(S) > 0
<1>1. IsFiniteSet(S) /\ Cardinality(S) \in Nat
  BY HandlesAssumption, FS_Subset, FS_CardinalityType
<1>2. h \notin S => Cardinality(S \cup {h}) = Cardinality(S) + 1
  BY <1>1, FS_AddElement
<1>3. h \in S => Cardinality(S \ {h}) = Cardinality(S) - 1
  BY <1>1, FS_RemoveElement
<1>4. h \in S => Cardinality(S) > 0
  BY <1>1, FS_EmptySet
<1> QED
  BY <1>1, <1>2, <1>3, <1>4

\* The count stays exact when no Handle starts or stops referring ...
LEMMA RefsKept ==
  ASSUME RefsExact, refs' = refs, \A h \in Handles : Refers(h)' <=> Refers(h)
  PROVE  RefsExact'
<1>1. \A p \in Procs : Referring(p)' = Referring(p)
  BY DEF Referring
<1> QED
  BY <1>1 DEF RefsExact

\* ... when acquire counts the one that starts ...
LEMMA RefsAdded ==
  ASSUME TypeOK, RefsExact, NEW h \in Handles, ~Refers(h), Refers(h)',
         \A g \in Handles \ {h} : Refers(g)' <=> Refers(g),
         refs' = [refs EXCEPT ![ProcOf[h]] = @ + 1]
  PROVE  RefsExact'
<1> SUFFICES ASSUME NEW p \in Procs PROVE refs'[p] = Cardinality(Referring(p)')
  BY DEF RefsExact
<1>1. refs[p] = Cardinality(Referring(p))
  BY DEF RefsExact
<1>2. CASE ProcOf[h] = p
  <2>1. Referring(p)' = Referring(p) \cup {h} /\ h \notin Referring(p)
    BY <1>2 DEF Referring
  <2>2. Cardinality(Referring(p)') = Cardinality(Referring(p)) + 1
    BY <2>1, OneHandle DEF Referring
  <2> QED
    BY <1>1, <1>2, <2>2 DEF TypeOK
<1>3. CASE ProcOf[h] # p
  <2>1. Referring(p)' = Referring(p)
    BY <1>3 DEF Referring
  <2> QED
    BY <1>1, <1>3, <2>1 DEF TypeOK
<1> QED
  BY <1>2, <1>3

\* ... and when release discounts the one that stops.
LEMMA RefsDropped ==
  ASSUME TypeOK, RefsExact, NEW h \in Handles, Refers(h), ~Refers(h)',
         \A g \in Handles \ {h} : Refers(g)' <=> Refers(g),
         DropRef(ProcOf[h])
  PROVE  RefsExact' /\ refs[ProcOf[h]] > 0
<1>1. refs[ProcOf[h]] > 0
  <2>1. h \in Referring(ProcOf[h])
    BY DEF Referring
  <2>2. Cardinality(Referring(ProcOf[h])) > 0
    BY <2>1, OneHandle DEF Referring
  <2> QED
    BY <2>2, ProcOfAssumption DEF RefsExact
<1>2. ASSUME NEW p \in Procs PROVE refs'[p] = Cardinality(Referring(p)')
  <2>1. refs[p] = Cardinality(Referring(p))
    BY DEF RefsExact
  <2>2. CASE ProcOf[h] = p
    <3>1. Referring(p)' = Referring(p) \ {h} /\ h \in Referring(p)
      BY <2>2 DEF Referring
    <3>2. Cardinality(Referring(p)') = Cardinality(Referring(p)) - 1
      BY <3>1, OneHandle DEF Referring
    <3> QED
      BY <1>1, <2>1, <2>2, <3>2 DEF TypeOK, DropRef
  <2>3. CASE ProcOf[h] # p
    <3>1. Referring(p)' = Referring(p)
      BY <2>3 DEF Referring
    <3> QED
      BY <2>1, <2>3, <3>1 DEF TypeOK, DropRef
  <2> QED
    BY <2>2, <2>3
<1> QED
  BY <1>1, <1>2 DEF RefsExact
\* A Handle is referred to by the owner of its mutex, or by its open database.
ReferredTo(h) == db[h] \/ (mu[h] # NoOne /\ pc[mu[h]] \in {"open", "release"})

\* The mutex makes the goroutine that refers to a Handle unique.
LEMMA Referrer == TypeOK /\ MutexInv => \A h \in Handles : Refers(h) <=> ReferredTo(h)
  BY ActorsAssumption, HandleOfAssumption
  DEF TypeOK, MutexInv, Inside, Refers, ReferredTo, Hdl, Actors, FencerStates, TimerStates

\* acquire, release and the flock files keep count, entry and lock together.
LEMMA NextRegistryInv ==
  TypeOK /\ MutexInv /\ DatabaseInv /\ RegistryInv /\ TypeOK' /\ MutexInv' /\ [Next]_vars
    => RegistryInv'
<1> SUFFICES ASSUME TypeOK, MutexInv, DatabaseInv, RegistryInv, TypeOK', MutexInv', [Next]_vars
             PROVE  RegistryInv'
  OBVIOUS
<1>a. \A h \in Handles : Refers(h) <=> ReferredTo(h)
  BY Referrer
<1>b. \A h \in Handles : Refers(h)' <=> ReferredTo(h)'
  <2>1. (TypeOK /\ MutexInv => \A h \in Handles : Refers(h) <=> ReferredTo(h))'
    BY Referrer, PTL
  <2> QED
    BY <2>1
<1>c. RefsExact
  BY DEF RegistryInv
<1> USE ActorsAssumption, ProcOfAssumption, HandleOfAssumption
    DEF TypeOK, MutexInv, Inside, DatabaseInv, Actors, CallerStates, FencerStates,
        TimerStates, handleVars, fileVars, Goto
<1>1. ASSUME NEW c \in Callers, Call(c) PROVE RegistryInv'
  <2>1. refs' = refs /\ \A h \in Handles : Refers(h)' <=> Refers(h)
    BY <1>1, <1>a, <1>b DEF Call, ReferredTo
  <2>2. RefsExact'
    BY <1>c, <2>1, RefsKept
  <2> QED
    BY <1>1, <2>2 DEF Call, RegistryInv, RegistryOwnsLock
<1>2. ASSUME NEW c \in Callers, Enter(c) PROVE RegistryInv'
  <2>1. refs' = refs /\ \A h \in Handles : Refers(h)' <=> Refers(h)
    BY <1>2, <1>a, <1>b DEF Enter, SetMu, Disarm, ReferredTo
  <2>2. RefsExact'
    BY <1>c, <2>1, RefsKept
  <2> QED
    BY <1>2, <2>2 DEF Enter, SetMu, Disarm, RegistryInv, RegistryOwnsLock
<1>3. ASSUME NEW c \in Callers, Probe(c) PROVE RegistryInv'
  <2>1. refs' = refs /\ \A h \in Handles : Refers(h)' <=> Refers(h)
    BY <1>3, <1>a, <1>b DEF Probe, ReferredTo
  <2>2. RefsExact'
    BY <1>c, <2>1, RefsKept
  <2> QED
    BY <1>3, <2>2 DEF Probe, RegistryInv, RegistryOwnsLock
<1>4. ASSUME NEW c \in Callers, Unprobe(c) PROVE RegistryInv'
  <2>1. refs' = refs /\ \A h \in Handles : Refers(h)' <=> Refers(h)
    BY <1>4, <1>a, <1>b DEF Unprobe, ReferredTo
  <2>2. RefsExact'
    BY <1>c, <2>1, RefsKept
  <2> QED
    BY <1>4, <2>2 DEF Unprobe, RegistryInv, RegistryOwnsLock
<1>5. ASSUME NEW c \in Callers, Shut(c) PROVE RegistryInv'
  <2>1. refs' = refs /\ \A h \in Handles : Refers(h)' <=> Refers(h)
    BY <1>5, <1>a, <1>b DEF Shut, Disarm, ReferredTo
  <2>2. RefsExact'
    BY <1>c, <2>1, RefsKept
  <2> QED
    BY <1>5, <2>2 DEF Shut, Disarm, RegistryInv, RegistryOwnsLock
<1>6. ASSUME NEW c \in Callers, Acquire(c) PROVE RegistryInv'
  <2>1. CASE refs' = refs
    <3>1. \A h \in Handles : Refers(h)' <=> Refers(h)
      BY <1>6, <1>a, <1>b, <2>1 DEF Acquire, Proc, ReferredTo
    <3>2. RefsExact'
      BY <1>c, <2>1, <3>1, RefsKept
    <3> QED
      BY <1>6, <2>1, <3>2 DEF Acquire, Proc, RegistryInv, RegistryOwnsLock
  <2>2. CASE refs' # refs
    <3>1. /\ ~Refers(HandleOf[c]) /\ Refers(HandleOf[c])'
          /\ \A g \in Handles \ {HandleOf[c]} : Refers(g)' <=> Refers(g)
          /\ refs' = [refs EXCEPT ![ProcOf[HandleOf[c]]] = @ + 1]
      BY <1>6, <1>a, <1>b, <2>2 DEF Acquire, Proc, ReferredTo
    <3>2. RefsExact'
      BY <1>c, <3>1, RefsAdded
    <3> QED
      BY <1>6, <2>2, <3>2 DEF Acquire, Proc, RegistryInv, RegistryOwnsLock
  <2> QED
    BY <2>1, <2>2
<1>7. ASSUME NEW c \in Callers, Register(c) PROVE RegistryInv'
  <2>1. /\ ~Refers(HandleOf[c]) /\ Refers(HandleOf[c])'
        /\ \A g \in Handles \ {HandleOf[c]} : Refers(g)' <=> Refers(g)
        /\ refs' = [refs EXCEPT ![ProcOf[HandleOf[c]]] = @ + 1]
    BY <1>7, <1>a, <1>b DEF Register, Proc, ReferredTo
  <2>2. RefsExact'
    BY <1>c, <2>1, RefsAdded
  <2> QED
    BY <1>7, <2>2 DEF Register, Proc, RegistryInv, RegistryOwnsLock
<1>8. ASSUME NEW c \in Callers, OpenDb(c) PROVE RegistryInv'
  <2>1. refs' = refs /\ \A h \in Handles : Refers(h)' <=> Refers(h)
    BY <1>8, <1>a, <1>b DEF OpenDb, ReferredTo
  <2>2. RefsExact'
    BY <1>c, <2>1, RefsKept
  <2> QED
    BY <1>8, <2>2 DEF OpenDb, RegistryInv, RegistryOwnsLock
<1>9. ASSUME NEW c \in Callers, OpenFails(c) PROVE RegistryInv'
  <2>1. /\ HandleOf[c] \in Handles /\ Refers(HandleOf[c]) /\ ~Refers(HandleOf[c])'
        /\ \A g \in Handles \ {HandleOf[c]} : Refers(g)' <=> Refers(g)
        /\ DropRef(ProcOf[HandleOf[c]])
    BY <1>9, <1>a, <1>b DEF OpenFails, DropRef, SetMu, Proc, ReferredTo
  <2>2. RefsExact' /\ refs[ProcOf[HandleOf[c]]] > 0
    BY <1>c, <2>1, RefsDropped
  <2> QED
    BY <1>9, <2>2 DEF OpenFails, DropRef, SetMu, Proc, RegistryInv, RegistryOwnsLock
<1>10. ASSUME NEW c \in Callers, Finish(c) PROVE RegistryInv'
  <2>1. refs' = refs /\ \A h \in Handles : Refers(h)' <=> Refers(h)
    BY <1>10, <1>a, <1>b DEF Finish, Arm, SetMu, ReferredTo
  <2>2. RefsExact'
    BY <1>c, <2>1, RefsKept
  <2> QED
    BY <1>10, <2>2 DEF Finish, Arm, SetMu, RegistryInv, RegistryOwnsLock
<1>11. ASSUME NEW c \in Callers, YieldReturn(c) PROVE RegistryInv'
  <2>1. refs' = refs /\ \A h \in Handles : Refers(h)' <=> Refers(h)
    BY <1>11, <1>a, <1>b DEF YieldReturn, ReferredTo
  <2>2. RefsExact'
    BY <1>c, <2>1, RefsKept
  <2> QED
    BY <1>11, <2>2 DEF YieldReturn, RegistryInv, RegistryOwnsLock
<1>12. ASSUME NEW c \in Callers, YieldResume(c) PROVE RegistryInv'
  <2>1. refs' = refs /\ \A h \in Handles : Refers(h)' <=> Refers(h)
    BY <1>12, <1>a, <1>b DEF YieldResume, SetMu, Disarm, ReferredTo
  <2>2. RefsExact'
    BY <1>c, <2>1, RefsKept
  <2> QED
    BY <1>12, <2>2 DEF YieldResume, SetMu, Disarm, RegistryInv, RegistryOwnsLock
<1>13. ASSUME NEW c \in Callers, Close(c) PROVE RegistryInv'
  <2>1. refs' = refs /\ \A h \in Handles : Refers(h)' <=> Refers(h)
    BY <1>13, <1>a, <1>b DEF Close, Disarm, SetMu, ReferredTo
  <2>2. RefsExact'
    BY <1>c, <2>1, RefsKept
  <2> QED
    BY <1>13, <2>2 DEF Close, Disarm, SetMu, RegistryInv, RegistryOwnsLock
<1>14. ASSUME NEW a \in Callers \cup Fencers, Queue(a) PROVE RegistryInv'
  <2>1. refs' = refs /\ \A h \in Handles : Refers(h)' <=> Refers(h)
    BY <1>14, <1>a, <1>b DEF Queue, ReferredTo
  <2>2. RefsExact'
    BY <1>c, <2>1, RefsKept
  <2> QED
    BY <1>14, <2>2 DEF Queue, RegistryInv, RegistryOwnsLock
<1>15. ASSUME NEW a \in Callers \cup Fencers, Take(a) PROVE RegistryInv'
  <2>1. refs' = refs /\ \A h \in Handles : Refers(h)' <=> Refers(h)
    BY <1>15, <1>a, <1>b DEF Take, ReferredTo
  <2>2. RefsExact'
    BY <1>c, <2>1, RefsKept
  <2> QED
    BY <1>15, <2>2 DEF Take, RegistryInv, RegistryOwnsLock
<1>16. ASSUME NEW a \in Callers \cup Fencers, TimeOut(a) PROVE RegistryInv'
  <2>1. refs' = refs /\ \A h \in Handles : Refers(h)' <=> Refers(h)
    BY <1>16, <1>a, <1>b DEF TimeOut, LeaveQueue, ReferredTo
  <2>2. RefsExact'
    BY <1>c, <2>1, RefsKept
  <2> QED
    BY <1>16, <2>2 DEF TimeOut, LeaveQueue, RegistryInv, RegistryOwnsLock
<1>17. ASSUME NEW a \in Callers \cup Fencers, Abandon(a) PROVE RegistryInv'
  <2>1. refs' = refs /\ \A h \in Handles : Refers(h)' <=> Refers(h)
    BY <1>17, <1>a, <1>b DEF Abandon, LeaveQueue, ReferredTo
  <2>2. RefsExact'
    BY <1>c, <2>1, RefsKept
  <2> QED
    BY <1>17, <2>2 DEF Abandon, LeaveQueue, RegistryInv, RegistryOwnsLock
<1>18. ASSUME NEW a \in Callers \cup Handles, Release(a) PROVE RegistryInv'
  <2>1. /\ Hdl(a) \in Handles /\ Refers(Hdl(a)) /\ ~Refers(Hdl(a))'
        /\ \A g \in Handles \ {Hdl(a)} : Refers(g)' <=> Refers(g)
        /\ DropRef(ProcOf[Hdl(a)])
    BY <1>18, <1>a, <1>b DEF Release, DropRef, SetMu, Hdl, ReferredTo
  <2>2. RefsExact' /\ refs[ProcOf[Hdl(a)]] > 0
    BY <1>c, <2>1, RefsDropped
  <2> QED
    BY <1>18, <2>2 DEF Release, DropRef, SetMu, Hdl, RegistryInv, RegistryOwnsLock
<1>19. ASSUME NEW h \in Handles, Expire(h) PROVE RegistryInv'
  <2>1. refs' = refs /\ \A g \in Handles : Refers(g)' <=> Refers(g)
    BY <1>19, <1>a, <1>b DEF Expire, ReferredTo
  <2>2. RefsExact'
    BY <1>c, <2>1, RefsKept
  <2> QED
    BY <1>19, <2>2 DEF Expire, RegistryInv, RegistryOwnsLock
<1>20. ASSUME NEW h \in Handles, OnIdle(h) PROVE RegistryInv'
  <2>1. refs' = refs /\ \A g \in Handles : Refers(g)' <=> Refers(g)
    BY <1>20, <1>a, <1>b DEF OnIdle, SetMu, StaleWakeup, ReferredTo
  <2>2. RefsExact'
    BY <1>c, <2>1, RefsKept
  <2> QED
    BY <1>20, <2>2 DEF OnIdle, SetMu, StaleWakeup, RegistryInv, RegistryOwnsLock
<1>21. ASSUME NEW h \in Handles, MaxHoldPasses(h) PROVE RegistryInv'
  <2>1. refs' = refs /\ \A g \in Handles : Refers(g)' <=> Refers(g)
    BY <1>21, <1>a, <1>b DEF MaxHoldPasses, ReferredTo
  <2>2. RefsExact'
    BY <1>c, <2>1, RefsKept
  <2> QED
    BY <1>21, <2>2 DEF MaxHoldPasses, RegistryInv, RegistryOwnsLock
<1>22. ASSUME NEW f \in Fencers, AcquireLock(f) PROVE RegistryInv'
  <2>1. refs' = refs /\ \A h \in Handles : Refers(h)' <=> Refers(h)
    BY <1>22, <1>a, <1>b DEF AcquireLock, ReferredTo
  <2>2. RefsExact'
    BY <1>c, <2>1, RefsKept
  <2> QED
    BY <1>22, <2>2 DEF AcquireLock, RegistryInv, RegistryOwnsLock
<1>23. ASSUME NEW f \in Fencers, ReleaseLock(f) PROVE RegistryInv'
  <2>1. refs' = refs /\ \A h \in Handles : Refers(h)' <=> Refers(h)
    BY <1>23, <1>a, <1>b DEF ReleaseLock, ReferredTo
  <2>2. RefsExact'
    BY <1>c, <2>1, RefsKept
  <2> QED
    BY <1>23, <2>2 DEF ReleaseLock, RegistryInv, RegistryOwnsLock
<1>24. ASSUME NEW p \in Procs, Crash(p) PROVE RegistryInv'
  <2> DEFINE Mine == {h \in Handles : ProcOf[h] = p}
  <2>1. \A h \in Mine : ~Refers(h)'
    <3>1. \A h \in Mine : ~db'[h] /\ mu'[h] = NoOne
      BY <1>24 DEF Crash
    <3> QED
      BY <1>b, <3>1 DEF ReferredTo
  <2>2. ASSUME NEW h \in Handles \ Mine PROVE Refers(h)' <=> Refers(h)
    <3>1. db'[h] = db[h] /\ mu'[h] = mu[h]
      BY <1>24 DEF Crash
    <3>2. mu[h] # NoOne => pc'[mu[h]] = pc[mu[h]]
      BY <1>24 DEF Crash, Proc
    <3> QED
      BY <1>a, <1>b, <3>1, <3>2 DEF ReferredTo
  <2>3. Referring(p)' = {}
    BY <2>1 DEF Referring
  <2>4. \A q \in Procs \ {p} : Referring(q)' = Referring(q)
    BY <2>2 DEF Referring
  <2>5. refs' = [refs EXCEPT ![p] = 0]
    BY <1>24 DEF Crash
  <2>6. ASSUME NEW q \in Procs PROVE refs'[q] = Cardinality(Referring(q)')
    <3>1. CASE q = p
      <4>1. refs'[q] = 0 /\ Referring(q)' = {}
        BY <2>3, <2>5, <3>1
      <4> QED
        BY <4>1, FS_EmptySet
    <3>2. CASE q # p
      BY <1>c, <2>4, <2>5, <3>2 DEF RefsExact
    <3> QED
      BY <3>1, <3>2
  <2>7. RefsExact'
    BY <2>6 DEF RefsExact
  <2> QED
    BY <1>24, <2>7 DEF Crash, Proc, RegistryInv, RegistryOwnsLock
<1>25. CASE UNCHANGED vars
  <2>1. refs' = refs /\ \A h \in Handles : Refers(h)' <=> Refers(h)
    BY <1>25, <1>a, <1>b DEF vars, ReferredTo
  <2>2. RefsExact'
    BY <1>c, <2>1, RefsKept
  <2> QED
    BY <1>25, <2>2 DEF vars, RegistryInv, RegistryOwnsLock
<1> QED
  BY <1>1, <1>2, <1>3, <1>4, <1>5, <1>6, <1>7, <1>8, <1>9, <1>10, <1>11, <1>12, <1>13, <1>14, <1>15, <1>16, <1>17, <1>18, <1>19, <1>20, <1>21, <1>22, <1>23, <1>24,
     <1>25 DEF Next, CallerNext, TimerNext, FencerNext, Step

-----------------------------------------------------------------------------
(* The theorems. *)

\* Every variable keeps its type, whatever Do, Close, the timers, AcquireLock
\* and crashes do.
THEOREM TypeCorrect == Spec => []TypeOK
<1>1. Init => TypeOK
  BY InitInv DEF IndInv
<1> QED
  BY <1>1, NextTyped, PTL DEF Spec

\* The invariant everything else follows from.
THEOREM Invariance == Spec => []IndInv
<1>1. IndInv /\ [Next]_vars => IndInv'
  <2> SUFFICES ASSUME IndInv, [Next]_vars PROVE IndInv'
    OBVIOUS
  <2>1. TypeOK' /\ MutexInv'
    BY NextTyped, NextMutexInv DEF IndInv
  <2>2. DatabaseInv' /\ CountdownInv' /\ QueueInv'
    BY NextDatabaseInv, NextCountdownInv, NextQueueInv DEF IndInv
  <2>3. RegistryInv'
    BY <2>1, NextRegistryInv DEF IndInv
  <2> QED
    BY <2>1, <2>2, <2>3 DEF IndInv
<1> QED
  BY <1>1, InitInv, PTL DEF Spec

\* A process that has the file open owns <db>.lock.
OpenInv == \A h \in Handles : db[h] => lock = ProcOf[h]

LEMMA OpenOwnsLock == IndInv => OpenInv
<1> SUFFICES ASSUME IndInv, NEW h \in Handles, db[h] PROVE lock = ProcOf[h]
  BY DEF OpenInv
<1>1. h \in Referring(ProcOf[h])
  BY DEF Referring, Refers
<1>2. Cardinality(Referring(ProcOf[h])) > 0
  BY <1>1, OneHandle DEF Referring
<1>3. ProcOf[h] \in Procs
  BY ProcOfAssumption
<1> QED
  BY <1>2, <1>3 DEF IndInv, RegistryInv, RefsExact, RegistryOwnsLock

\* DuckDB's rule, that one process at a time has the file open, is kept by
\* acquire and release for any number of processes and Handles.
THEOREM SingleWriterHolds == Spec => []SingleWriter
<1>1. IndInv => SingleWriter
  BY OpenOwnsLock DEF OpenInv, SingleWriter
<1> QED
  BY <1>1, Invariance, PTL

\* While AcquireLock's caller holds the lock nobody has the database open, so
\* backup and restore may read and replace its files.
THEOREM FenceHolds == Spec => []FenceExcludesWriters
<1>1. IndInv => FenceExcludesWriters
  <2> SUFFICES ASSUME IndInv, NEW f \in Fencers, pc[f] = "held"
               PROVE  lock = f /\ \A h \in Handles : ~db[h]
    BY DEF FenceExcludesWriters
  <2>1. lock = f
    BY DEF IndInv, RegistryInv
  <2> QED
    BY <2>1, OpenOwnsLock, ActorsAssumption, ProcOfAssumption DEF OpenInv
<1> QED
  BY <1>1, Invariance, PTL

\* The registry's reference counts are exact, and an entry exists exactly while
\* the process owns the file lock.
THEOREM RegistryHolds == Spec => [](RefsExact /\ RegistryOwnsLock)
<1>1. IndInv => RefsExact /\ RegistryOwnsLock
  BY DEF IndInv, RegistryInv
<1> QED
  BY <1>1, Invariance, PTL

\* Handle.pending is exact, and a database left open is owed a wakeup.
THEOREM CountdownHolds == Spec => [](PendingAccounting /\ CountdownOwed)
<1>1. IndInv => PendingAccounting /\ CountdownOwed
  BY DEF IndInv, CountdownInv
<1> QED
  BY <1>1, Invariance, PTL

\* An operation runs alone, on an open database its process owns.
THEOREM OperationHolds == Spec => []OperationOwnsDatabase
<1>1. IndInv => OperationOwnsDatabase
  <2> SUFFICES ASSUME IndInv, NEW c \in Callers, pc[c] = "fn"
               PROVE  db[HandleOf[c]] /\ mu[HandleOf[c]] = c /\ lock = Proc(c)
    BY DEF OperationOwnsDatabase
  <2>1. db[HandleOf[c]] /\ mu[HandleOf[c]] = c
    BY DEF IndInv, DatabaseInv, MutexInv, Inside
  <2> QED
    BY <2>1, OpenOwnsLock, HandleOfAssumption DEF OpenInv, Proc
<1> QED
  BY <1>1, Invariance, PTL

\* So a Do is atomic for everybody else, which the stores above rely on.
THEOREM ExclusionHolds == Spec => []Exclusion
  BY SingleWriterHolds, OperationHolds, PTL DEF Exclusion

\* No goroutine that was queued, yielding or late reopens a closed Handle.
THEOREM CloseHolds == Spec => []ClosedForGood
<1>1. IndInv => ClosedForGood
  BY HandleOfAssumption DEF IndInv, DatabaseInv, ClosedForGood
<1> QED
  BY <1>1, Invariance, PTL
\* A timer goroutine closes the database only if its wakeup is the last one
\* owed and no newer countdown is running.
THEOREM NoLateWakeupHolds == Spec => NoLateWakeup
<1>1. IndInv /\ [Next]_vars =>
        [\A h \in Handles : mu[h] # h /\ mu'[h] = h => ~ticking[h] /\ fired[h] = 1]_vars
  <2> SUFFICES ASSUME IndInv, Next, NEW h \in Handles, mu[h] # h, mu'[h] = h
               PROVE  ~ticking[h] /\ fired[h] = 1
    OBVIOUS
  <2>1. OnIdle(h)
    <3>1. h \in Handles /\ h \notin Callers /\ h # NoOne
      BY ActorsAssumption
    <3>2. mu \in [Handles -> Callers \cup Handles \cup {NoOne}]
      BY DEF IndInv, TypeOK
    <3>3. ASSUME NEW c \in Callers, CallerNext(c) PROVE FALSE
      BY <3>1, <3>2, <3>3
      DEF CallerNext, Step, Call, Enter, Probe, Unprobe, Shut, Release, Acquire, Take,
          Register, OpenDb, OpenFails, Finish, YieldReturn, YieldResume, Queue, TimeOut,
          Abandon, LeaveQueue, Close, SetMu, handleVars
    <3>4. ASSUME NEW g \in Handles, TimerNext(g) PROVE OnIdle(h)
      <4>1. CASE OnIdle(g)
        BY <3>1, <3>2, <4>1 DEF OnIdle, SetMu
      <4>2. CASE Release(g)
        BY <3>1, <3>2, <4>2 DEF Release, SetMu, Hdl
      <4>3. CASE Expire(g) \/ MaxHoldPasses(g)
        BY <3>1, <3>2, <4>3 DEF Expire, MaxHoldPasses
      <4> QED
        BY <3>4, <4>1, <4>2, <4>3 DEF TimerNext
    <3>5. ASSUME NEW f \in Fencers, FencerNext(f) PROVE FALSE
      BY <3>1, <3>2, <3>5, ActorsAssumption
      DEF FencerNext, AcquireLock, Queue, Take, TimeOut, Abandon, LeaveQueue, ReleaseLock,
          handleVars
    <3>6. ASSUME NEW p \in Procs, Crash(p) PROVE FALSE
      BY <3>1, <3>2, <3>6 DEF Crash
    <3> QED
      BY <3>3, <3>4, <3>5, <3>6 DEF Next
  <2>2. ~StaleWakeup(h) /\ fired[h] > 0
    BY <2>1 DEF OnIdle
  <2>3. pending[h] = fired[h] + (IF ticking[h] THEN 1 ELSE 0)
    BY DEF IndInv, CountdownInv, PendingAccounting
  <2>4. fired[h] \in Nat /\ pending[h] \in Int
    BY DEF IndInv, TypeOK
  <2> QED
    BY <2>2, <2>3, <2>4 DEF StaleWakeup
<1> QED
  BY <1>1, Invariance, PTL DEF Spec, NoLateWakeup

\* Whoever owns <db>.wait is the next owner of <db>.lock.
THEOREM NoBargingHolds == Spec => NoBarging
<1>1. IndInv /\ [Next]_vars =>
        [\A a \in Callers \cup Fencers :
           pc[a] = "take" /\ lock = NoOne /\ lock' # NoOne => lock' = a]_vars
  <2> SUFFICES ASSUME IndInv, Next, NEW a \in Callers \cup Fencers, pc[a] = "take",
                      lock = NoOne, lock' # NoOne
               PROVE  lock' = a
    OBVIOUS
  <2>1. PICK b \in Callers \cup Fencers : Take(b)
    BY ActorsAssumption
    DEF Next, CallerNext, TimerNext, FencerNext, Step, IndInv, RegistryInv, handleVars,
        fileVars, Call, Enter, Probe, Unprobe, Shut, Release, DropRef, Acquire, Take,
        Register, OpenDb, OpenFails, Finish, YieldReturn, YieldResume, Queue, TimeOut,
        Abandon, LeaveQueue, Close, Expire, OnIdle, MaxHoldPasses, AcquireLock,
        ReleaseLock, Crash
  <2>2. wait = a /\ wait = b
    BY <2>1 DEF IndInv, QueueInv, Take
  <2> QED
    BY <2>1, <2>2 DEF Take
<1> QED
  BY <1>1, Invariance, PTL DEF Spec, NoBarging

-----------------------------------------------------------------------------
(* DuckHandle implements DuckFile. *)

\* The operation the abstract file shows on a Handle is the goroutine in its fn.
RunningInv ==
  /\ Running \in [Handles -> Callers \cup {NoOne}]
  /\ \A h \in Handles, c \in Callers :
        Running[h] = c <=> HandleOf[c] = h /\ pc[c] = "fn"

LEMMA RunningIs == IndInv => RunningInv
<1> SUFFICES ASSUME IndInv PROVE RunningInv
  OBVIOUS
<1>1. \A c, d \in Callers :
        pc[c] = "fn" /\ pc[d] = "fn" /\ HandleOf[c] = HandleOf[d] => c = d
  BY DEF IndInv, MutexInv, Inside
<1> QED
  BY <1>1, ActorsAssumption DEF Running, RunningInv

\* A step that opens and closes no database, ends no operation and takes no
\* fence changes nothing the abstract file shows.
LEMMA Unseen ==
  ASSUME IndInv, IndInv', UNCHANGED <<db, closed>>, FencedBy' = FencedBy,
         \A c \in Callers : pc'[c] = "fn" <=> pc[c] = "fn"
  PROVE  UNCHANGED <<OpenHandles, Running, FencedBy, ClosedHandles>>
<1>1. RunningInv /\ RunningInv'
  BY RunningIs, PTL
<1>2. \A h \in Handles : Running'[h] = Running[h]
  BY <1>1, ActorsAssumption DEF RunningInv
<1>3. Running' = Running
  BY <1>1, <1>2 DEF RunningInv
<1> QED BY <1>3 DEF OpenHandles, ClosedHandles

\* An operation begins: the goroutine enters its fn, on a database that is open
\* by then, and the mutex and the file lock make that a Begin.
LEMMA SeenBegin ==
  ASSUME IndInv, IndInv', NEW c \in Callers, pc[c] # "fn", UNCHANGED <<closed, lock>>,
         \A d \in Callers : pc'[d] = "fn" <=> pc[d] = "fn" \/ d = c,
         \A g \in Handles : db'[g] <=> db[g] \/ g = HandleOf[c]
  PROVE  File!Begin(c)
<1> DEFINE h == HandleOf[c]
<1> USE ActorsAssumption, ProcOfAssumption, HandleOfAssumption
<1>1. RunningInv /\ RunningInv'
  BY RunningIs, PTL
<1>2. OpenInv'
  BY OpenOwnsLock, PTL
<1>3. pc'[c] = "fn" /\ ~closed[h] /\ lock = ProcOf[h]
  BY <1>2 DEF OpenInv, IndInv, DatabaseInv
<1>4. Running[h] = NoOne
  <2>1. \A d \in Callers : pc[d] = "fn" /\ HandleOf[d] = h => d = c
    BY <1>3 DEF IndInv, MutexInv, Inside
  <2> QED BY <1>1, <2>1 DEF RunningInv
<1>5. Running' = [Running EXCEPT ![h] = c]
  BY <1>1, <1>3, <1>4 DEF RunningInv
<1>6. FencedBy = NoOne /\ FencedBy' = NoOne
  BY <1>3 DEF FencedBy
<1>7. \A g \in OpenHandles : ProcOf[g] = ProcOf[h]
  BY <1>2, <1>3 DEF OpenInv, OpenHandles
<1>8. OpenHandles' = OpenHandles \cup {h} /\ ClosedHandles' = ClosedHandles /\ h \notin ClosedHandles
  BY <1>3 DEF OpenHandles, ClosedHandles
<1> QED BY <1>4, <1>5, <1>6, <1>7, <1>8 DEF File!Begin

\* Whoever holds the mutex of a Handle outside its fn finds no operation running.
LEMMA NotRunning ==
  ASSUME IndInv, NEW h \in Handles,
         \A c \in Callers : mu[h] = c => pc[c] # "fn"
  PROVE  Running[h] = NoOne
<1>1. \A c \in Callers : pc[c] = "fn" => HandleOf[c] # h
  BY DEF IndInv, MutexInv, Inside
<1> QED BY <1>1, RunningIs, ActorsAssumption DEF RunningInv

\* A Handle that closes its database between two operations, or for good.
LEMMA SeenLeave ==
  ASSUME IndInv, IndInv', NEW h \in Handles,
         \A c \in Callers : mu[h] = c => pc[c] # "fn",
         \A c \in Callers : pc'[c] = "fn" <=> pc[c] = "fn",
         db' = [db EXCEPT ![h] = FALSE], FencedBy' = FencedBy
  PROVE  /\ closed' = closed /\ db[h] => File!Leave(h)
         /\ closed' = [closed EXCEPT ![h] = TRUE] => File!Retire(h)
<1>1. RunningInv /\ RunningInv'
  BY RunningIs, PTL
<1>2. Running' = Running
  BY <1>1, ActorsAssumption DEF RunningInv
<1>3. Running[h] = NoOne
  BY NotRunning
<1>4. OpenHandles' = OpenHandles \ {h}
  BY DEF OpenHandles, IndInv, TypeOK
<1>5. closed' = closed => ClosedHandles' = ClosedHandles
  BY DEF ClosedHandles
<1>6. closed' = [closed EXCEPT ![h] = TRUE] => ClosedHandles' = ClosedHandles \cup {h}
  BY DEF ClosedHandles, IndInv, TypeOK
<1>7. db[h] => h \in OpenHandles
  BY DEF OpenHandles
<1> QED BY <1>2, <1>3, <1>4, <1>5, <1>6, <1>7 DEF File!Leave, File!Retire

\* A process that dies takes its Handles, its operations and its fence with it.
LEMMA SeenRestart ==
  ASSUME IndInv, IndInv', NEW p \in Procs, Crash(p)
  PROVE  File!Restart(p)
<1> DEFINE Mine == {h \in Handles : ProcOf[h] = p}
<1> USE ActorsAssumption, ProcOfAssumption, HandleOfAssumption
<1>1. RunningInv /\ RunningInv'
  BY RunningIs, PTL
<1>2. \A c \in Callers : pc'[c] = "fn" <=> pc[c] = "fn" /\ HandleOf[c] \notin Mine
  BY DEF Crash, Proc, Actors
<1>3. \A h \in Handles : Running'[h] = IF h \in Mine THEN NoOne ELSE Running[h]
  BY <1>1, <1>2 DEF RunningInv
<1>6. Running' = [h \in Handles |-> IF h \in Mine THEN NoOne ELSE Running[h]]
  BY <1>1, <1>3 DEF RunningInv
<1>4. OpenHandles' = OpenHandles \ Mine /\ ClosedHandles' = ClosedHandles \ Mine
  BY DEF OpenHandles, ClosedHandles, Crash
<1>5. FencedBy' \in {FencedBy, NoOne} /\ (FencedBy' # FencedBy => ProcOf[FencedBy] = p)
  BY DEF FencedBy, Crash, Actors, Proc
<1> QED BY <1>4, <1>5, <1>6 DEF File!Restart

\* The steps of a Do or a Close.
LEMMA CallerImplements ==
  ASSUME IndInv, IndInv', NEW c \in Callers, CallerNext(c)
  PROVE  File!Next \/ UNCHANGED File!fileState
<1> DEFINE h == HandleOf[c]
<1> USE ActorsAssumption, ProcOfAssumption, HandleOfAssumption
        DEF Goto, handleVars, fileVars, Proc, Hdl, SetMu
<1>a. TypeOK /\ RegistryOwnsLock
  BY DEF IndInv, RegistryInv
<1>1. CASE Call(c) \/ Enter(c) \/ Probe(c) \/ YieldReturn(c) \/ Acquire(c) \/ Queue(c)
             \/ TimeOut(c) \/ Abandon(c)
  <2>1. UNCHANGED <<db, closed, lock>> /\ \A d \in Callers : pc'[d] = "fn" <=> pc[d] = "fn"
    BY <1>1, <1>a DEF Call, Enter, Probe, YieldReturn, Acquire, Queue, TimeOut, Abandon,
       LeaveQueue, TypeOK, Actors
  <2> QED BY <2>1, Unseen DEF FencedBy, File!fileState
<1>2. CASE Release(c) \/ Take(c) \/ Register(c) \/ OpenFails(c)
  <2>1. UNCHANGED <<db, closed>> /\ \A d \in Callers : pc'[d] = "fn" <=> pc[d] = "fn"
    BY <1>2, <1>a DEF Release, Take, Register, OpenFails, TypeOK, Actors
  <2>2. CASE Take(c) \/ Register(c)
    <3>1. lock \notin Fencers /\ lock' \notin Fencers
      BY <2>2 DEF Take, Register, IndInv, RegistryInv
    <3> QED BY <2>1, <3>1, Unseen DEF FencedBy, File!fileState
  <2>3. CASE Release(c) \/ OpenFails(c)
    <3>1. lock' = lock \/ (lock = ProcOf[h] /\ lock' = NoOne)
      BY <1>a, <2>3 DEF Release, OpenFails, DropRef, RegistryOwnsLock
    <3> QED BY <2>1, <3>1, Unseen DEF FencedBy, File!fileState
  <2> QED BY <1>2, <2>2, <2>3
<1>3. CASE Unprobe(c)
  <2>1. CASE old[h]
    <3>1. UNCHANGED <<db, closed, lock>> /\ \A d \in Callers : pc'[d] = "fn" <=> pc[d] = "fn"
      BY <1>3, <2>1, <1>a DEF Unprobe, TypeOK, Actors
    <3> QED BY <3>1, Unseen DEF FencedBy, File!fileState
  <2>2. CASE ~old[h]
    <3>1. /\ pc[c] # "fn" /\ UNCHANGED <<db, closed, lock>> /\ db[h]
          /\ \A d \in Callers : pc'[d] = "fn" <=> pc[d] = "fn" \/ d = c
      BY <1>3, <2>2, <1>a DEF Unprobe, TypeOK, Actors, IndInv, DatabaseInv
    <3> QED BY <3>1, SeenBegin DEF File!Next
  <2> QED BY <2>1, <2>2
<1>4. CASE YieldResume(c)
  <2>1. CASE db[h]
    <3>1. /\ pc[c] # "fn" /\ UNCHANGED <<db, closed, lock>>
          /\ \A d \in Callers : pc'[d] = "fn" <=> pc[d] = "fn" \/ d = c
      BY <1>4, <2>1, <1>a DEF YieldResume, TypeOK, Actors
    <3> QED BY <2>1, <3>1, SeenBegin DEF File!Next
  <2>2. CASE ~db[h]
    <3>1. UNCHANGED <<db, closed, lock>> /\ \A d \in Callers : pc'[d] = "fn" <=> pc[d] = "fn"
      BY <1>4, <2>2, <1>a DEF YieldResume, TypeOK, Actors
    <3> QED BY <3>1, Unseen DEF FencedBy, File!fileState
  <2> QED BY <2>1, <2>2
<1>5. CASE OpenDb(c)
  <2>1. /\ pc[c] # "fn" /\ UNCHANGED <<closed, lock>>
        /\ \A d \in Callers : pc'[d] = "fn" <=> pc[d] = "fn" \/ d = c
        /\ \A g \in Handles : db'[g] <=> db[g] \/ g = h
    BY <1>5, <1>a DEF OpenDb, TypeOK, Actors
  <2> QED BY <2>1, SeenBegin DEF File!Next
<1>6. CASE Finish(c)
  <2>1. /\ pc[c] = "fn" /\ UNCHANGED <<db, closed, lock>>
        /\ \A d \in Callers : pc'[d] = "fn" <=> pc[d] = "fn" /\ d # c
    BY <1>6, <1>a DEF Finish, TypeOK, Actors
  <2>2. RunningInv /\ RunningInv'
    BY RunningIs, PTL
  <2>3. \A g \in Handles : Running'[g] = IF g = h THEN NoOne ELSE Running[g]
    BY <2>1, <2>2 DEF RunningInv
  <2>4. Running[h] = c /\ Running' = [Running EXCEPT ![h] = NoOne]
    BY <2>1, <2>2, <2>3 DEF RunningInv
  <2> QED BY <2>1, <2>4 DEF OpenHandles, ClosedHandles, FencedBy, File!End, File!Next
<1>7. CASE Shut(c)
  <2>1. /\ UNCHANGED <<closed, lock>> /\ db' = [db EXCEPT ![h] = FALSE]
        /\ \A d \in Callers : pc'[d] = "fn" <=> pc[d] = "fn"
    BY <1>7, <1>a DEF Shut, TypeOK, Actors
  <2>2. db[h] /\ \A d \in Callers : mu[h] = d => pc[d] # "fn"
    BY <1>7 DEF Shut, IndInv, DatabaseInv, MutexInv, Inside
  <2> QED BY <2>1, <2>2, SeenLeave DEF FencedBy, File!Next
<1>8. CASE Close(c)
  <2>1. /\ UNCHANGED lock /\ db' = [db EXCEPT ![h] = FALSE]
        /\ closed' = [closed EXCEPT ![h] = TRUE] /\ mu[h] = NoOne
    BY <1>8 DEF Close
  <2>2. \A d \in Callers : pc'[d] = "fn" <=> pc[d] = "fn"
    BY <1>8, <1>a DEF Close, TypeOK, Actors
  <2> QED BY <2>1, <2>2, SeenLeave DEF FencedBy, File!Next
<1> QED BY <1>1, <1>2, <1>3, <1>4, <1>5, <1>6, <1>7, <1>8 DEF CallerNext, Step

\* The steps of the idle timer.
LEMMA TimerImplements ==
  ASSUME IndInv, IndInv', NEW h \in Handles, TimerNext(h)
  PROVE  File!Next \/ UNCHANGED File!fileState
<1> USE ActorsAssumption, ProcOfAssumption, HandleOfAssumption
        DEF Goto, handleVars, fileVars, Hdl, SetMu
<1>a. TypeOK /\ RegistryOwnsLock
  BY DEF IndInv, RegistryInv
<1>1. CASE Expire(h) \/ MaxHoldPasses(h) \/ (OnIdle(h) /\ StaleWakeup(h))
  <2>1. UNCHANGED <<db, closed, lock, pc>>
    BY <1>1 DEF Expire, MaxHoldPasses, OnIdle
  <2> QED BY <2>1, Unseen DEF FencedBy, File!fileState
<1>2. CASE Release(h)
  <2>1. UNCHANGED <<db, closed>> /\ \A c \in Callers : pc'[c] = "fn" <=> pc[c] = "fn"
    BY <1>2, <1>a DEF Release, TypeOK, Actors
  <2>2. FencedBy' = FencedBy
    BY <1>2, <1>a DEF Release, DropRef, RegistryOwnsLock, TypeOK, FencedBy
  <2> QED BY <2>1, <2>2, Unseen DEF File!fileState
<1>3. CASE OnIdle(h) /\ ~StaleWakeup(h)
  <2>1. /\ UNCHANGED <<closed, lock>> /\ db' = [db EXCEPT ![h] = FALSE]
        /\ mu[h] = NoOne
        /\ \A c \in Callers : pc'[c] = "fn" <=> pc[c] = "fn"
    BY <1>3, <1>a DEF OnIdle, TypeOK, Actors
  <2>2. CASE db[h]
    BY <2>1, <2>2, SeenLeave DEF FencedBy, File!Next
  <2>3. CASE ~db[h]
    <3>1. db' = db
      BY <1>a, <2>1, <2>3 DEF TypeOK
    <3> QED BY <2>1, <3>1, Unseen DEF FencedBy, File!fileState
  <2> QED BY <2>2, <2>3
<1> QED BY <1>1, <1>2, <1>3 DEF TimerNext

\* The steps of AcquireLock and Lock.Release.
LEMMA FencerImplements ==
  ASSUME IndInv, IndInv', NEW f \in Fencers, FencerNext(f)
  PROVE  File!Next \/ UNCHANGED File!fileState
<1> USE ActorsAssumption DEF Goto, handleVars, fileVars
<1>a. UNCHANGED <<db, closed>> /\ \A c \in Callers : pc'[c] = "fn" <=> pc[c] = "fn"
  BY DEF FencerNext, AcquireLock, Queue, Take, TimeOut, Abandon, LeaveQueue, ReleaseLock,
     IndInv, TypeOK, Actors
<1>b. Running' = Running
  <2>1. RunningInv /\ RunningInv'
    BY RunningIs, PTL
  <2> QED BY <1>a, <2>1 DEF RunningInv
<1>1. CASE AcquireLock(f) \/ Queue(f) \/ TimeOut(f) \/ Abandon(f)
  <2>1. lock' = lock
    BY <1>1 DEF AcquireLock, Queue, TimeOut, Abandon, LeaveQueue
  <2> QED BY <1>a, <2>1, Unseen DEF FencedBy, File!fileState
<1>2. CASE Take(f)
  <2>1. lock = NoOne /\ lock' = f
    BY <1>2 DEF Take
  <2>2. OpenHandles = {}
    BY <2>1, OpenOwnsLock, ProcOfAssumption DEF OpenInv, OpenHandles
  <2> QED BY <1>a, <1>b, <2>1, <2>2 DEF OpenHandles, ClosedHandles, FencedBy, File!Fence, File!Next
<1>3. CASE ReleaseLock(f)
  <2>1. lock = f /\ lock' = NoOne
    BY <1>3 DEF ReleaseLock, IndInv, RegistryInv
  <2> QED BY <1>a, <1>b, <2>1 DEF OpenHandles, ClosedHandles, FencedBy, File!Unfence, File!Next
<1> QED BY <1>1, <1>2, <1>3 DEF FencerNext

\* The package keeps the promise of DuckFile: operations one at a time on each
\* Handle, one process at a time, nobody under a fence, nothing after Close;
\* locks, queue, registry, timers and crashes are seen as one of its steps or
\* not at all.
THEOREM Implements == Spec => ImplementsDuckFile
<1>1. Init => File!Init
  <2> SUFFICES ASSUME Init PROVE File!Init
    OBVIOUS
  <2>1. \A c \in Callers : pc[c] # "fn"
    BY DEF Init, Actors
  <2>2. Running = [h \in Handles |-> NoOne]
    BY <2>1 DEF Running
  <2> QED BY <2>2, ActorsAssumption DEF Init, File!Init, OpenHandles, FencedBy, ClosedHandles
<1>2. IndInv /\ IndInv' /\ [Next]_vars => [File!Next]_(File!fileState)
  <2> SUFFICES ASSUME IndInv, IndInv', [Next]_vars
               PROVE  File!Next \/ UNCHANGED File!fileState
    OBVIOUS
  <2>1. CASE UNCHANGED vars
    <3>1. UNCHANGED <<db, closed, lock, pc>>
      BY <2>1 DEF vars, handleVars, fileVars
    <3> QED BY <3>1, Unseen DEF FencedBy, File!fileState
  <2>2. ASSUME NEW p \in Procs, Crash(p) PROVE File!Next
    BY <2>2, SeenRestart DEF File!Next
  <2> QED BY <2>1, <2>2, CallerImplements, TimerImplements, FencerImplements DEF Next
<1> QED BY <1>1, <1>2, Invariance, PTL DEF Spec, ImplementsDuckFile, File!Spec

=============================================================================
