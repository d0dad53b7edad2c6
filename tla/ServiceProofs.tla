--------------------------- MODULE ServiceProofs ---------------------------
(***************************************************************************)
(* Theorems of Service, for any jobs, intervals and runner.                *)
(***************************************************************************)
EXTENDS Service, FiniteSetTheorems, TLAPS

\* setErr comes between the failure and everything that somebody waits for.
ErrInv ==
  /\ work = "run" => ~failed /\ ~err
  /\ work = "setErr" => failed /\ ~err
  /\ work \in {"signal", "done", "over"} => err = failed

\* Whoever has waited for the work without giving up has seen its end, and its
\* error is the result.
ResultInv ==
  /\ done => work = "over"
  /\ runner \in {"return", "read", "returned"} /\ ~gaveUp => work = "over"
  /\ runner \in {"read", "returned"} /\ ~gaveUp => result = failed

IndInv == ErrorTypeOK /\ ErrInv /\ ResultInv

\* What it is about; the steps of schedule.Run leave it alone.
Rest == <<work, runner, err, failed, result, done, gaveUp>>

LEMMA Initially == Init => IndInv
BY DEF Init, IndInv, ErrorTypeOK, ErrInv, ResultInv

LEMMA Inductive == IndInv /\ [Next]_vars => IndInv'
<1> SUFFICES ASSUME IndInv, [Next]_vars PROVE IndInv'
  OBVIOUS
<1> USE DEF IndInv, ErrorTypeOK, ErrInv, ResultInv
<1>1. CASE UNCHANGED Rest
  BY <1>1 DEF Rest
<1>2. CASE WorkReturns
  BY <1>2 DEF WorkReturns
<1>3. CASE WorkSetErr
  BY <1>3 DEF WorkSetErr
<1>4. CASE WorkSignal
  BY <1>4 DEF WorkSignal
<1>5. CASE WorkDone
  BY <1>5 DEF WorkDone
<1>6. CASE RunnerUnblocks \/ StopCancels
  BY <1>6 DEF RunnerUnblocks, StopCancels
<1>7. CASE StopJoins
  BY <1>7 DEF StopJoins
<1>8. CASE StopGivesUp
  BY <1>8 DEF StopGivesUp
<1>9. CASE StopReturns
  BY <1>9 DEF StopReturns
<1>10. CASE RunReturns
  BY <1>10 DEF RunReturns
<1>11. Scheduling \/ Working \/ Hanging \/ Passing \/ UNCHANGED vars => UNCHANGED Rest
  BY DEF Scheduling, Working, Hanging, Passing, lifeVars, vars, Rest
<1>12. GraceEnds \/ GraceExpires \/ Asked \/ Ended => UNCHANGED Rest
  BY DEF GraceEnds, GraceExpires, Asked, Ended, vars, lifeVars, Rest
<1> QED
  BY <1>1, <1>2, <1>3, <1>4, <1>5, <1>6, <1>7, <1>8, <1>9, <1>10, <1>11, <1>12
  DEF Next, Work, Runner

\* Run returns the work's error whenever Stop has waited for the work: setErr runs
\* before the fatal channel is closed and before the value that Stop waits for is
\* sent, whichever of an error and a request comes first.
THEOREM ReportHolds == Spec => []RunReportsFailure
<1>1. IndInv => RunReportsFailure
  BY DEF IndInv, ResultInv, RunReportsFailure
<1> QED BY <1>1, Initially, Inductive, PTL DEF Spec

-----------------------------------------------------------------------------
(* The schedule: functions that are computed value by value *)

\* Steps up to N, without induction: a set with 0 and the successor of each of its
\* members below N would else be one to one with a part of itself.
LEMMA Climb ==
  ASSUME NEW N \in Nat, NEW T, 0 \in T, \A k \in 0..(N - 1) : k \in T => k + 1 \in T
  PROVE  \A k \in 0..N : k \in T
<1> SUFFICES ASSUME NEW M \in 0..N, M \notin T PROVE FALSE
  OBVIOUS
<1> DEFINE S == {k \in 0..M : k \in T}
           f == [k \in S |-> k + 1]
<1>1. IsFiniteSet(S) /\ 0 \in S
  <2>1. S \in SUBSET (0..M) /\ 0 \in S
    OBVIOUS
  <2>2. IsFiniteSet(0..M)
    BY FS_Interval
  <2> HIDE DEF S
  <2> QED BY <2>1, <2>2, FS_Subset
<1>2. f \in Injection(S, S \ {0})
  <2>1. \A k \in S : k \in Nat /\ k + 1 \in S \ {0}
    OBVIOUS
  <2> HIDE DEF S
  <2> QED BY <2>1 DEF Injection, IsInjective
<1> HIDE DEF S, f
<1>3. IsFiniteSet(S \ {0}) /\ Cardinality(S \ {0}) = Cardinality(S) - 1 /\ Cardinality(S) \in Nat
  BY <1>1, FS_RemoveElement, FS_CardinalityType
<1>4. Cardinality(S) <= Cardinality(S \ {0})
  BY <1>2, <1>3, FS_Injection
<1> QED BY <1>3, <1>4

\* Some g starts with a at b and takes step from each number to the next, up to N.
CanIterate(b, N, S, a, step) ==
  \E g \in [b..N -> S] : g[b] = a /\ \A k \in (b + 1)..N : g[k] = step[g[k - 1]]

\* A function whose values follow one from the other exists.
LEMMA Iterates ==
  ASSUME NEW b \in Nat, NEW N \in Nat, b <= N, NEW S, NEW a \in S, NEW step \in [S -> S]
  PROVE  CanIterate(b, N, S, a, step)
<1> DEFINE Good(g, m) == g[b] = a /\ \A k \in (b + 1)..(b + m) : g[k] = step[g[k - 1]]
           T == {m \in Nat : \E g \in [b..N -> S] : Good(g, m)}
<1>1. 0 \in T
  <2> DEFINE g == [k \in b..N |-> a]
  <2>1. g \in [b..N -> S] /\ Good(g, 0)
    OBVIOUS
  <2> QED BY <2>1
<1>2. ASSUME NEW m \in 0..(N - b - 1), m \in T PROVE m + 1 \in T
  <2>1. PICK g \in [b..N -> S] : Good(g, m)
    BY <1>2
  <2> DEFINE h == [g EXCEPT ![b + m + 1] = step[g[b + m]]]
  <2>2. b + m \in b..N /\ g[b + m] \in S /\ step[g[b + m]] \in S
    OBVIOUS
  <2>3. h \in [b..N -> S] /\ h[b + m + 1] = step[g[b + m]]
    BY <2>2
  <2>4. \A k \in b..(b + m) : h[k] = g[k]
    OBVIOUS
  <2> HIDE DEF h
  <2>5. h[b] = a /\ h[b + m + 1] = step[h[b + m]]
    BY <2>1, <2>3, <2>4
  <2>6. ASSUME NEW k \in (b + 1)..(b + m) PROVE h[k] = step[h[k - 1]]
    <3>1. k \in b..(b + m) /\ k - 1 \in b..(b + m)
      OBVIOUS
    <3> QED BY <2>1, <2>4, <3>1
  <2>7. \A k \in (b + 1)..(b + (m + 1)) : k \in (b + 1)..(b + m) \/ (k = b + m + 1 /\ k - 1 = b + m)
    OBVIOUS
  <2>8. Good(h, m + 1)
    BY <2>5, <2>6, <2>7
  <2> QED BY <2>3, <2>8
<1>3. N - b \in T
  <2> HIDE DEF T
  <2>1. N - b \in Nat /\ N - b \in 0..(N - b)
    OBVIOUS
  <2> QED BY <1>1, <1>2, <2>1, Climb
<1>4. PICK g \in [b..N -> S] : Good(g, N - b)
  BY <1>3
<1> QED BY <1>4 DEF CanIterate

\* The loop of scheduleBackoff, delay by delay.
LEMMA DoubledIs ==
  ASSUME NEW i \in Nat
  PROVE  /\ Doubled(i) \in [1..MaxFails -> Nat]
         /\ Doubled(i)[1] = i
         /\ \A k \in 2..MaxFails :
              Doubled(i)[k] = IF Doubled(i)[k - 1] < MaxBackoff
                              THEN 2 * Doubled(i)[k - 1] ELSE Doubled(i)[k - 1]
<1> USE ScheduleAssumption
<1> DEFINE step == [x \in Nat |-> IF x < MaxBackoff THEN 2 * x ELSE x]
<1>1. PICK g \in [1..MaxFails -> Nat] : g[1] = i /\ \A k \in (1 + 1)..MaxFails : g[k] = step[g[k - 1]]
  <2>1. step \in [Nat -> Nat] /\ 1 \in Nat /\ MaxFails \in Nat /\ 1 <= MaxFails
    OBVIOUS
  <2> HIDE DEF step
  <2>2. CanIterate(1, MaxFails, Nat, i, step)
    BY <2>1, Iterates
  <2> QED BY <2>2 DEF CanIterate
<1>2. g = [k \in 1..MaxFails |-> IF k = 1 THEN i
                                 ELSE IF g[k - 1] < MaxBackoff THEN 2 * g[k - 1] ELSE g[k - 1]]
  <2>1. ASSUME NEW k \in 1..MaxFails
        PROVE  g[k] = IF k = 1 THEN i ELSE IF g[k - 1] < MaxBackoff THEN 2 * g[k - 1] ELSE g[k - 1]
    <3>1. CASE k # 1
      <4>1. k \in (1 + 1)..MaxFails /\ k - 1 \in 1..MaxFails
        BY <3>1
      <4>2. g[k - 1] \in Nat /\ g[k] = step[g[k - 1]]
        BY <1>1, <4>1
      <4> QED BY <3>1, <4>2
    <3> QED BY <1>1, <3>1
  <2>2. g = [k \in 1..MaxFails |-> g[k]]
    OBVIOUS
  <2> QED BY <2>1, <2>2
<1>3. Doubled(i) = [k \in 1..MaxFails |-> IF k = 1 THEN i
                                          ELSE IF Doubled(i)[k - 1] < MaxBackoff
                                               THEN 2 * Doubled(i)[k - 1] ELSE Doubled(i)[k - 1]]
  BY <1>2, Zenon DEF Doubled
<1> DEFINE D == Doubled(i)
           T == {m \in Nat : D[m + 1] \in Nat}
<1>4. D[1] = i /\ \A k \in 2..MaxFails :
                  D[k] = IF D[k - 1] < MaxBackoff THEN 2 * D[k - 1] ELSE D[k - 1]
  BY <1>3
<1>5. \A m \in 0..(MaxFails - 1) : m \in T
  <2>1. 0 \in T /\ \A m \in 0..(MaxFails - 1 - 1) : m \in T => m + 1 \in T
    <3> HIDE DEF D
    <3>1. 0 \in T
      BY <1>4
    <3>2. ASSUME NEW m \in 0..(MaxFails - 1 - 1), m \in T PROVE m + 1 \in T
      <4>1. m + 2 \in 2..MaxFails /\ D[m + 1] \in Nat
        BY <3>2
      <4>2. D[m + 2] = IF D[m + 1] < MaxBackoff THEN 2 * D[m + 1] ELSE D[m + 1]
        BY <1>4, <4>1
      <4> QED BY <4>1, <4>2
    <3> QED BY <3>1, <3>2
  <2>2. MaxFails - 1 \in Nat
    OBVIOUS
  <2> HIDE DEF T
  <2> QED BY <2>1, <2>2, Climb
<1>6. \A k \in 1..MaxFails : D[k] \in Nat
  <2>1. \A k \in 1..MaxFails : k - 1 \in 0..(MaxFails - 1) /\ (k - 1) + 1 = k
    OBVIOUS
  <2> HIDE DEF D
  <2> QED BY <1>5, <2>1
<1>7. D \in [1..MaxFails -> Nat]
  <2>1. D = [k \in 1..MaxFails |-> D[k]]
    BY <1>3
  <2> HIDE DEF D
  <2> QED BY <1>6, <2>1
<1> QED BY <1>4, <1>7

\* Powers of two.
LEMMA TwoToIs ==
  /\ TwoTo[0] = 1
  /\ \A n \in 1..MaxFails : TwoTo[n] = 2 * TwoTo[n - 1]
<1> USE ScheduleAssumption
<1> DEFINE step == [x \in Nat |-> 2 * x]
<1>1. PICK g \in [0..MaxFails -> Nat] : g[0] = 1 /\ \A n \in (0 + 1)..MaxFails : g[n] = step[g[n - 1]]
  <2>1. step \in [Nat -> Nat] /\ 0 \in Nat /\ 1 \in Nat /\ MaxFails \in Nat /\ 0 <= MaxFails
    OBVIOUS
  <2> HIDE DEF step
  <2>2. CanIterate(0, MaxFails, Nat, 1, step)
    BY <2>1, Iterates
  <2> QED BY <2>2 DEF CanIterate
<1>2. g = [n \in 0..MaxFails |-> IF n = 0 THEN 1 ELSE 2 * g[n - 1]]
  <2>1. ASSUME NEW n \in 0..MaxFails PROVE g[n] = IF n = 0 THEN 1 ELSE 2 * g[n - 1]
    <3>1. CASE n # 0
      <4>1. n \in (0 + 1)..MaxFails /\ n - 1 \in 0..MaxFails
        BY <3>1
      <4>2. g[n - 1] \in Nat /\ g[n] = step[g[n - 1]]
        BY <1>1, <4>1
      <4> QED BY <3>1, <4>2
    <3> QED BY <1>1, <3>1
  <2>2. g = [n \in 0..MaxFails |-> g[n]]
    OBVIOUS
  <2> QED BY <2>1, <2>2
<1>3. TwoTo = [n \in 0..MaxFails |-> IF n = 0 THEN 1 ELSE 2 * TwoTo[n - 1]]
  BY <1>2, Zenon DEF TwoTo
<1> QED BY <1>3

\* The cap never shortens a delay below the promised one.
LEMMA BackoffSuffices ==
  ASSUME interval \in Intervals, NEW n \in 1..MaxFails
  PROVE  Backoff(n) \in Nat /\ Promised(n) \in Int /\ Backoff(n) >= Promised(n)
<1> USE ScheduleAssumption
<1> DEFINE d == Doubled(interval)
           Good(m) == /\ TwoTo[m] \in Nat /\ d[m + 1] \in Nat /\ d[m + 1] >= interval
                      /\ d[m + 1] = interval * TwoTo[m] \/ d[m + 1] >= MaxBackoff
           T == {m \in Nat : Good(m)}
<1>1. interval \in Nat \ {0}
  OBVIOUS
<1>2. d[1] = interval /\ \A k \in 2..MaxFails :
                          d[k] = IF d[k - 1] < MaxBackoff THEN 2 * d[k - 1] ELSE d[k - 1]
  BY <1>1, DoubledIs
<1> HIDE DEF d
<1>3. 0 \in T
  BY <1>1, <1>2, TwoToIs
<1>4. ASSUME NEW m \in 0..(MaxFails - 1 - 1), m \in T PROVE m + 1 \in T
  <2>1. m + 2 \in 2..MaxFails /\ m + 1 \in 1..MaxFails /\ m \in Nat /\ Good(m)
    BY <1>4
  <2>2. /\ d[m + 2] = IF d[m + 1] < MaxBackoff THEN 2 * d[m + 1] ELSE d[m + 1]
        /\ TwoTo[m + 1] = 2 * TwoTo[m]
    BY <1>2, <2>1, TwoToIs
  <2>3. interval * (2 * TwoTo[m]) = 2 * (interval * TwoTo[m])
    BY <1>1, <2>1
  <2>4. d[m + 1] < MaxBackoff => d[m + 2] = interval * TwoTo[m + 1]
    BY <2>1, <2>2, <2>3
  <2>5. d[m + 2] \in Nat /\ d[m + 2] >= d[m + 1] /\ TwoTo[m + 1] \in Nat
    BY <2>1, <2>2
  <2>6. Good(m + 1)
    BY <1>1, <2>1, <2>2, <2>4, <2>5
  <2> QED BY <2>1, <2>6
<1>5. n - 1 \in T
  <2>1. MaxFails - 1 \in Nat /\ n - 1 \in 0..(MaxFails - 1)
    OBVIOUS
  <2> HIDE DEF T
  <2> QED BY <1>3, <1>4, <2>1, Climb
<1>6. /\ TwoTo[n - 1] \in Nat /\ d[n] \in Nat /\ d[n] >= interval
      /\ d[n] = interval * TwoTo[n - 1] \/ d[n] >= MaxBackoff
  <2>1. (n - 1) + 1 = n
    OBVIOUS
  <2> QED BY <1>5, <2>1
<1> DEFINE p == interval * TwoTo[n - 1]
<1>7. p \in Int
  BY <1>1, <1>6
<1> HIDE DEF p
<1>8. d[n] = p \/ d[n] >= MaxBackoff
  BY <1>6 DEF p
<1>9. Promised(n) = LET most == IF interval > MaxBackoff THEN interval ELSE MaxBackoff
                    IN IF p > most THEN most ELSE p
  BY DEF Promised, p
<1>10. Backoff(n) = IF d[n] > MaxBackoff /\ interval < MaxBackoff THEN MaxBackoff ELSE d[n]
  BY DEF Backoff, d
<1> QED BY <1>1, <1>6, <1>7, <1>8, <1>9, <1>10
-----------------------------------------------------------------------------
(* The schedule: the inductive invariant *)

\* A job that failed is noted for its delay after the start of that cycle.
Delays == \A j \in Jobs : fails[j] > 0 => at[j] # None /\ at[j] + since[j] = Backoff(fails[j])

\* What a cycle has noted of the jobs it is past: each waits for no earlier time
\* than soonest, or is due already.
Noted ==
  loop \in {"ask", "work"} =>
    \A j \in 1..(job - 1) :
      /\ at[j] # None
      /\ IF at[j] > cycle THEN soonest # None /\ soonest <= at[j] ELSE pollSoon

\* A job that runs is one of the jobs.
AtJob == loop = "work" => job \in Jobs

SchedInv == ScheduleTypeOK /\ AtJob /\ Delays /\ Noted

\* Where a job fails or succeeds: its time is noted and the cycle goes on.
LEMMA GoOnKeeps ==
  ASSUME SchedInv, loop \in {"ask", "work"}, job \in Jobs,
         NEW t \in Int, NEW n \in 0..MaxFails, NEW s \in Int, GoOn(t, n),
         since' = [since EXCEPT ![job] = s],
         n > 0 => t + s = Backoff(n)
  PROVE  SchedInv'
<1> USE ScheduleAssumption DEF SchedInv, GoOn, Jobs
<1>1. ScheduleTypeOK'
  <2>1. soonest' \in {soonest, t} /\ pollSoon' \in {pollSoon, TRUE}
    BY DEF Note, Earlier
  <2>2. job' \in 1..(JobCount + 1)
    OBVIOUS
  <2>3. since' \in [1..JobCount -> Int]
    BY DEF ScheduleTypeOK
  <2>4. at' \in [1..JobCount -> Int \cup {None}] /\ fails' \in [1..JobCount -> 0..MaxFails]
    BY DEF ScheduleTypeOK
  <2> QED BY <2>1, <2>2, <2>3, <2>4 DEF ScheduleTypeOK
<1>2. AtJob'
  BY DEF AtJob
<1>3. \A m : Backoff(m)' = Backoff(m)
  BY DEF Backoff, Doubled
<1>4. Delays'
  BY <1>3 DEF Delays, ScheduleTypeOK
<1>5. /\ t > cycle => soonest' # None /\ soonest' <= t
      /\ t <= cycle => pollSoon'
      /\ soonest # None => soonest' # None /\ soonest' <= soonest
      /\ pollSoon => pollSoon'
  <2>1. cycle \in Int /\ soonest \in Int \cup {None}
    BY DEF ScheduleTypeOK
  <2>2. CASE t > cycle
    BY <2>1, <2>2 DEF Note, Earlier
  <2>3. CASE t <= cycle
    BY <2>1, <2>3 DEF Note
  <2> QED BY <2>1, <2>2, <2>3
<1>6. ASSUME NEW j \in 1..(job' - 1)
      PROVE  /\ at'[j] # None
             /\ IF at'[j] > cycle' THEN soonest' # None /\ soonest' <= at'[j] ELSE pollSoon'
  <2>1. /\ at' = [at EXCEPT ![job] = t] /\ cycle' = cycle /\ job' = job + 1
        /\ cycle \in Int /\ soonest \in Int \cup {None} /\ soonest' \in Int \cup {None}
    BY <1>1 DEF ScheduleTypeOK
  <2>2. CASE j = job
    <3>1. at'[j] = t
      BY <2>1, <2>2 DEF ScheduleTypeOK
    <3> QED BY <1>5, <2>1, <3>1
  <2>3. CASE j # job
    <3>1. j \in 1..(job - 1) /\ at'[j] = at[j] /\ at[j] \in Int \cup {None}
      BY <2>1, <2>3 DEF ScheduleTypeOK
    <3>2. /\ at[j] # None
          /\ IF at[j] > cycle THEN soonest # None /\ soonest <= at[j] ELSE pollSoon
      BY <3>1 DEF Noted
    <3> QED BY <1>5, <2>1, <3>1, <3>2
  <2> QED BY <2>2, <2>3
<1> QED BY <1>1, <1>2, <1>4, <1>6 DEF Noted

\* Fail: at and since together are the delay.
LEMMA FailKeeps ==
  ASSUME SchedInv, loop \in {"ask", "work"}, job \in Jobs, Fail
  PROVE  SchedInv'
<1> USE ScheduleAssumption
<1> DEFINE n == IF fails[job] < MaxFails THEN fails[job] + 1 ELSE fails[job]
           r == cycle + Backoff(n)
           w == 0 - cycle
<1>1. CASE ctxDone
  <2>1. \A m : Backoff(m)' = Backoff(m)
    BY <1>1 DEF Fail, Return, Backoff, Doubled
  <2> QED BY <1>1, <2>1 DEF Fail, Return, SchedInv, ScheduleTypeOK, AtJob, Delays, Noted, Jobs
<1>2. CASE ~ctxDone
  <2>1. n \in 1..MaxFails
    BY DEF SchedInv, ScheduleTypeOK
  <2>2. Backoff(n) \in Nat
    BY <2>1, BackoffSuffices DEF SchedInv, ScheduleTypeOK
  <2>3. GoOn(r, n) /\ since' = [since EXCEPT ![job] = w]
    BY <1>2 DEF Fail
  <2> HIDE DEF n
  <2>4. r \in Int /\ w \in Int /\ r + w = Backoff(n) /\ n \in 0..MaxFails
    BY <2>1, <2>2 DEF SchedInv, ScheduleTypeOK
  <2> HIDE DEF r, w
  <2> QED BY <2>3, <2>4, GoOnKeeps
<1> QED BY <1>1, <1>2

\* Succeed: no failures are left.
LEMMA SucceedKeeps ==
  ASSUME SchedInv, loop \in {"ask", "work"}, job \in Jobs, NEW t \in Int, Succeed(t)
  PROVE  SchedInv'
<1> DEFINE n == 0
           s == 0
<1>1. /\ GoOn(t, n) /\ since' = [since EXCEPT ![job] = s]
      /\ n \in 0..MaxFails /\ s \in Int /\ ~(n > 0)
  BY ScheduleAssumption DEF Succeed
<1> HIDE DEF n, s
<1> QED BY <1>1, GoOnKeeps

\* Steps that leave the jobs as they are.
LEMMA QuietKeeps ==
  ASSUME SchedInv, UNCHANGED <<interval, at, fails, since>>,
         Top \/ NotDue \/ NextNow \/ RunHangs \/ Sleep \/ Wake \/ WakeCancelled
  PROVE  SchedInv'
<1> USE ScheduleAssumption DEF SchedInv, Jobs
<1>1. \A m : Backoff(m)' = Backoff(m)
  BY DEF Backoff, Doubled
<1>2. Delays'
  BY <1>1 DEF Delays
<1>3. CASE Top \/ RunHangs \/ Wake \/ WakeCancelled
  <2>1. ScheduleTypeOK' /\ AtJob'
    <3>1. CASE Top
      <4>1. 1 \in 1..(JobCount + 1) /\ 0 \in (0 - MaxCycle)..0
        OBVIOUS
      <4> QED BY <3>1, <4>1 DEF Top, Return, ScheduleTypeOK, AtJob
    <3>2. CASE RunHangs \/ Wake \/ WakeCancelled
      BY <3>2 DEF RunHangs, Wake, WakeCancelled, Return, ScheduleTypeOK, AtJob
    <3> QED BY <1>3, <3>1, <3>2
  <2>2. loop' \notin {"ask", "work"} \/ job' = 1
    BY <1>3 DEF Top, RunHangs, Wake, WakeCancelled, Return
  <2>3. Noted'
    BY <2>2 DEF Noted
  <2> QED BY <1>2, <2>1, <2>3
<1>4. CASE NextNow
  BY <1>2, <1>4 DEF NextNow, IsDue, ScheduleTypeOK, AtJob, Noted
<1>5. CASE NotDue
  <2>1. /\ at[job] \in Int /\ at[job] > cycle /\ job \in 1..JobCount
        /\ soonest' = Earlier(soonest, at[job])
        /\ job' = job + 1 /\ loop' = "ask" /\ UNCHANGED <<cycle, pollSoon, timer>>
    BY <1>5 DEF NotDue, Note, ScheduleTypeOK
  <2>2. ScheduleTypeOK' /\ AtJob'
    BY <2>1 DEF Earlier, ScheduleTypeOK, AtJob
  <2>3. ASSUME NEW j \in 1..job
        PROVE  /\ at[j] # None
               /\ IF at[j] > cycle THEN soonest' # None /\ soonest' <= at[j] ELSE pollSoon
    <3>1. cycle \in Int /\ soonest \in Int \cup {None} /\ at[j] \in Int \cup {None}
      BY <2>1 DEF ScheduleTypeOK
    <3>2. CASE j = job
      BY <2>1, <3>1, <3>2 DEF Earlier
    <3>3. CASE j # job
      <4>1. j \in 1..(job - 1)
        BY <3>3, <2>1
      <4> QED BY <1>5, <2>1, <3>1, <4>1 DEF Earlier, Noted, NotDue
    <3> QED BY <3>2, <3>3
  <2>4. Noted'
    BY <2>1, <2>3 DEF Noted
  <2> QED BY <1>2, <2>2, <2>4
<1>6. CASE Sleep
  <2>1. Wait \in Nat
    BY DEF Wait, ScheduleTypeOK
  <2> QED BY <1>2, <1>6, <2>1 DEF Sleep, ScheduleTypeOK, AtJob, Noted
<1> QED BY <1>3, <1>4, <1>5, <1>6

\* Time moves at and since in opposite directions.
LEMMA TickKeeps == ASSUME SchedInv, Tick PROVE SchedInv'
<1> USE ScheduleAssumption DEF SchedInv, Tick
<1>1. ScheduleTypeOK' /\ AtJob'
  BY DEF ScheduleTypeOK, AtJob, Jobs
<1>2. \A m : Backoff(m)' = Backoff(m)
  BY DEF Backoff, Doubled
<1>3. Delays'
  <2> SUFFICES ASSUME NEW j \in Jobs, fails[j] > 0
               PROVE  at'[j] # None /\ at'[j] + since'[j] = Backoff(fails[j])
    BY <1>2 DEF Delays
  <2>1. at[j] \in Int /\ since[j] \in Int /\ at[j] + since[j] = Backoff(fails[j])
    BY DEF Delays, ScheduleTypeOK
  <2>2. at'[j] = at[j] - 1 /\ since'[j] = since[j] + 1
    BY <2>1
  <2> QED BY <2>1, <2>2
<1>4. Noted'
  <2> SUFFICES ASSUME loop = "work", NEW j \in 1..(job - 1)
               PROVE  /\ at'[j] # None
                      /\ IF at'[j] > cycle' THEN soonest' # None /\ soonest' <= at'[j] ELSE pollSoon
    BY DEF Noted
  <2>1. j \in Jobs /\ at[j] \in Int /\ cycle \in Int /\ soonest \in Int \cup {None}
    BY DEF Noted, ScheduleTypeOK, Jobs
  <2>2. at'[j] = at[j] - 1 /\ cycle' = cycle - 1
    BY <2>1
  <2> QED BY <2>1, <2>2 DEF Noted
<1> QED BY <1>1, <1>3, <1>4

\* Whatever else the process does leaves the schedule alone.
LEMMA SchedKeeps == ASSUME SchedInv, [Next]_vars PROVE SchedInv'
<1> USE ScheduleAssumption
<1>1. CASE UNCHANGED scheduleVars
  <2>1. \A m : Backoff(m)' = Backoff(m)
    BY <1>1 DEF Backoff, Doubled, scheduleVars
  <2> QED BY <1>1, <2>1 DEF scheduleVars, SchedInv, ScheduleTypeOK, AtJob, Delays, Noted
<1>2. CASE NextFails \/ RunFails
  <2>1. loop \in {"ask", "work"} /\ job \in Jobs /\ Fail
    BY <1>2 DEF NextFails, RunFails, IsDue, SchedInv, AtJob
  <2> QED BY <2>1, FailKeeps
<1>3. CASE NextLater
  <2>1. loop \in {"ask", "work"} /\ job \in Jobs
    BY <1>3 DEF NextLater, IsDue
  <2>2. PICK t \in Int : Succeed(t)
    BY <1>3 DEF NextLater, SchedInv, ScheduleTypeOK
  <2> QED BY <2>1, <2>2, SucceedKeeps
<1>4. CASE RunDone
  <2>1. loop \in {"ask", "work"} /\ job \in Jobs /\ cycle \in Int /\ Succeed(cycle)
    BY <1>4 DEF RunDone, SchedInv, AtJob, ScheduleTypeOK
  <2> QED BY <2>1, SucceedKeeps
<1>5. CASE Top \/ NotDue \/ NextNow \/ RunHangs \/ Sleep \/ Wake \/ WakeCancelled
  <2>1. UNCHANGED <<interval, at, fails, since>>
    BY <1>5 DEF Top, NotDue, NextNow, RunHangs, Sleep, Wake, WakeCancelled, Return
  <2> QED BY <1>5, <2>1, QuietKeeps
<1>6. CASE Tick
  BY <1>6, TickKeeps
<1>7. WorkReturns \/ Work \/ GraceEnds \/ GraceExpires \/ Asked \/ Runner \/ Ended \/ UNCHANGED vars
        => UNCHANGED scheduleVars
  BY DEF WorkReturns, Work, WorkSetErr, WorkSignal, WorkDone, GraceEnds, GraceExpires, Asked, Runner,
     RunnerUnblocks, StopCancels, StopJoins, StopGivesUp, StopReturns, RunReturns, Ended, vars
<1> QED
  BY <1>1, <1>2, <1>3, <1>4, <1>5, <1>6, <1>7
  DEF Next, Scheduling, RunStep, Working, JobReturns, Hanging, Passing

\* The invariant of the schedule.
LEMMA SchedHolds == Spec => []SchedInv
<1>1. Init => SchedInv
  <2> SUFFICES ASSUME Init PROVE SchedInv
    OBVIOUS
  <2>1. ScheduleTypeOK
    <3>1. 1 \in 1..(JobCount + 1) /\ 0 \in (0 - MaxCycle)..0 /\ 0 \in 0..MaxFails
      BY ScheduleAssumption
    <3>2. /\ at \in [Jobs -> Int \cup {None}] /\ fails \in [Jobs -> 0..MaxFails]
          /\ since \in [Jobs -> Int]
      BY <3>1 DEF Init, ScheduleInit
    <3> QED BY <3>1, <3>2 DEF Init, ScheduleInit, ScheduleTypeOK
  <2>2. AtJob /\ Delays /\ Noted
    BY DEF Init, ScheduleInit, AtJob, Delays, Noted
  <2> QED BY <2>1, <2>2 DEF SchedInv
<1>2. SchedInv /\ [Next]_vars => SchedInv'
  BY SchedKeeps
<1> QED BY <1>1, <1>2, PTL DEF Spec

-----------------------------------------------------------------------------
(* The schedule: the theorem *)

\* Run is entered from IsDue only: by then at is behind, and since has made up for it.
LEMMA BackoffStep ==
  ASSUME SchedInv, [Next]_vars, loop = "ask", loop' = "work", fails[job] > 0
  PROVE  since[job] + cycle >= Promised(fails[job])
<1>1. IsDue
  BY DEF Next, Scheduling, RunStep, Working, JobReturns, Hanging, Passing, Top, NotDue, NextFails, Fail,
     NextLater, Succeed, GoOn, NextNow, Sleep, Wake, WakeCancelled, Return, RunDone, RunFails, RunHangs,
     Tick, WorkReturns, Work, WorkSetErr, WorkSignal, WorkDone, GraceEnds, GraceExpires, Asked, Runner,
     RunnerUnblocks, StopCancels, StopJoins, StopGivesUp, StopReturns, RunReturns, Ended, vars,
     scheduleVars
<1>2. /\ job \in Jobs /\ at[job] \in Int /\ at[job] <= cycle /\ cycle \in Int /\ since[job] \in Int
      /\ fails[job] \in 1..MaxFails /\ at[job] + since[job] = Backoff(fails[job])
  BY <1>1, ScheduleAssumption DEF IsDue, SchedInv, ScheduleTypeOK, Delays
<1> DEFINE n == fails[job]
<1>3. n \in 1..MaxFails /\ interval \in Intervals
  BY <1>2 DEF SchedInv, ScheduleTypeOK
<1> HIDE DEF n
<1>4. Backoff(n) \in Nat /\ Promised(n) \in Int /\ Backoff(n) >= Promised(n)
  BY <1>3, BackoffSuffices
<1> QED BY <1>2, <1>4 DEF n

\* Wait is soonest only where nothing noted comes before it.
LEMMA SleepStep ==
  ASSUME SchedInv, [Next]_vars, loop # "sleep", loop' = "sleep"
  PROVE  /\ timer' > 0
         /\ timer' <= interval \/ \A j \in Jobs : at[j] >= timer'
<1> USE ScheduleAssumption
<1>1. Sleep
  BY DEF Next, Scheduling, RunStep, Working, JobReturns, Hanging, Passing, Top, NotDue, NextFails, Fail,
     NextLater, Succeed, GoOn, NextNow, Sleep, Wake, WakeCancelled, Return, RunDone, RunFails, RunHangs,
     Tick, WorkReturns, Work, WorkSetErr, WorkSignal, WorkDone, GraceEnds, GraceExpires, Asked, Runner,
     RunnerUnblocks, StopCancels, StopJoins, StopGivesUp, StopReturns, RunReturns, Ended, vars,
     scheduleVars
<1>2. loop = "ask" /\ job = JobCount + 1 /\ timer' = Wait /\ interval \in Nat \ {0}
  BY <1>1 DEF Sleep, SchedInv, ScheduleTypeOK, Jobs
<1>3. /\ soonest \in Int \cup {None} /\ cycle \in Int /\ cycle <= 0
      /\ \A j \in Jobs : at[j] \in Int
      /\ \A j \in Jobs : IF at[j] > cycle THEN soonest # None /\ soonest <= at[j] ELSE pollSoon
  BY <1>2 DEF SchedInv, ScheduleTypeOK, Noted, Jobs
<1> QED BY <1>2, <1>3 DEF Wait

\* TimesAreKept: time takes from at what it gives to since, so that their sum is the
\* delay of the last failure, which is never less than promised; and the earliest
\* time of a cycle is over all jobs that were not due, with the flag for the others.
THEOREM TimesHold == Spec => TimesAreKept
<1>1. SchedInv /\ [Next]_vars =>
        [loop = "ask" /\ loop' = "work" /\ fails[job] > 0 =>
           since[job] + cycle >= Promised(fails[job])]_<<scheduleVars, ctxDone>>
  BY BackoffStep
<1>2. SchedInv /\ [Next]_vars =>
        [loop # "sleep" /\ loop' = "sleep" =>
           /\ timer' > 0
           /\ timer' <= interval \/ \A j \in Jobs : at[j] >= timer']_<<scheduleVars, ctxDone>>
  BY SleepStep
<1> QED BY <1>1, <1>2, SchedHolds, PTL DEF Spec, TimesAreKept, BackoffHolds, NeverOversleeps

-----------------------------------------------------------------------------
(* Types *)

\* What is left of TypeOK.
Flags ==
  /\ grace \in {"none", "timer", "over"}
  /\ {ctxDone, honours, asked, fatal, stopped, unheard} \subseteq BOOLEAN

\* TypeOK: the loop of Run leaves no job out and goes past none but the last, a cycle
\* falls no further behind than its jobs take, and the timer is never set backwards.
THEOREM TypeCorrect == Spec => []TypeOK
<1>1. Init => Flags
  BY DEF Init, Flags
<1>2. Flags /\ [Next]_vars => Flags'
  <2> SUFFICES ASSUME Flags, [Next]_vars PROVE Flags'
    OBVIOUS
  <2>1. CASE UNCHANGED <<ctxDone, grace, honours, asked, fatal, stopped, unheard>>
    BY <2>1 DEF Flags
  <2>2. CASE Scheduling \/ Working \/ Hanging \/ Passing \/ WorkReturns \/ Ended \/ UNCHANGED vars
    BY <2>1, <2>2
    DEF Scheduling, Working, Hanging, Passing, Tick, WorkReturns, Ended, vars, lifeVars
  <2>3. CASE Work \/ GraceEnds \/ GraceExpires \/ Asked
    BY <2>3 DEF Flags, Work, WorkSetErr, WorkSignal, WorkDone, GraceEnds, GraceExpires, Asked
  <2>4. CASE Runner
    BY <2>4 DEF Flags, Runner, RunnerUnblocks, StopCancels, StopJoins, StopGivesUp, StopReturns,
       RunReturns
  <2> QED BY <2>2, <2>3, <2>4 DEF Next
<1>3. IndInv /\ SchedInv /\ Flags => TypeOK
  BY DEF IndInv, SchedInv, Flags, TypeOK
<1> QED BY <1>1, <1>2, <1>3, Initially, Inductive, SchedHolds, PTL DEF Spec
====
