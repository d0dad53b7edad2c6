------------------------------ MODULE Schedule ------------------------------
(***************************************************************************)
(* schedule/schedule.go: Run, the loop of one goroutine over its jobs.     *)
(* Service gives it a context and a process to live in.                    *)
(*                                                                         *)
(* Times are relative to the present, as numbers of ticks: Tick lets one   *)
(* pass, so what lies ahead is positive and what lies behind negative.     *)
(* Within a cycle the code compares with the time it had at the start of   *)
(* the cycle, here the variable cycle, which falls behind while jobs run.  *)
(*                                                                         *)
(*   loop:  top     about to look at the context    sleep     in the timer *)
(*          ask     at job number `job' of a cycle  hung      in a Run     *)
(*          work    in that job's Run                that never returns    *)
(*                                                  returned               *)
(***************************************************************************)
EXTENDS Integers

CONSTANTS
  None,        \* the zero time
  JobCount,    \* jobs, in the order Run was given them
  Intervals,   \* intervals Run may be called with
  MaxBackoff,  \* maxScheduleBackoff
  MaxFails,    \* maxScheduleFails
  Ahead,       \* how far ahead of its question Next may put a job; 0: now
  MaxCycle     \* bound: ticks that the jobs of one cycle take

ASSUME ScheduleAssumption ==
  /\ JobCount \in Nat /\ MaxBackoff \in Nat /\ MaxFails \in Nat \ {0} /\ MaxCycle \in Nat
  /\ Intervals \subseteq Nat \ {0} /\ Ahead \subseteq Nat /\ None \notin Int

VARIABLES
  interval, loop, job,
  at, fails,      \* scheduleState of each job
  cycle,          \* now
  soonest,        \* the earliest time noted in this cycle, or None
  pollSoon,       \* something noted is due already
  timer,          \* what the timer has left
  ctxDone,        \* the context is cancelled
  since           \* ghost: ticks since the start of the cycle a job failed in

scheduleVars == <<interval, loop, job, at, fails, cycle, soonest, pollSoon, timer, since>>

Jobs == 1..JobCount

ScheduleTypeOK ==
  /\ interval \in Intervals
  /\ loop \in {"top", "ask", "work", "hung", "sleep", "returned"}
  /\ job \in 1..(JobCount + 1)
  /\ at \in [Jobs -> Int \cup {None}] /\ fails \in [Jobs -> 0..MaxFails]
  /\ cycle \in (0 - MaxCycle)..0
  /\ soonest \in Int \cup {None} /\ pollSoon \in BOOLEAN /\ timer \in Nat
  /\ since \in [Jobs -> Int]

ScheduleInit ==
  /\ interval \in Intervals
  /\ loop = "top" /\ job = 1
  /\ at = [j \in Jobs |-> None] /\ fails = [j \in Jobs |-> 0]
  /\ cycle = 0 /\ soonest = None /\ pollSoon = FALSE /\ timer = 0
  /\ since = [j \in Jobs |-> 0]

-----------------------------------------------------------------------------
(* Waits *)

\* scheduleBackoff: the loop that doubles ...
Doubled(i) ==
  LET d[k \in 1..MaxFails] == IF k = 1 THEN i
                              ELSE IF d[k - 1] < MaxBackoff THEN 2 * d[k - 1] ELSE d[k - 1]
  IN d

\* ... then the cap.
Backoff(n) == LET d == Doubled(interval)[n]
              IN IF d > MaxBackoff /\ interval < MaxBackoff THEN MaxBackoff ELSE d

Earlier(a, b) == IF a = None \/ b < a THEN b ELSE a

\* note: t is waited for, or the next cycle comes after an interval.
Note(t) ==
  IF t > cycle THEN soonest' = Earlier(soonest, t) /\ UNCHANGED pollSoon
               ELSE pollSoon' = TRUE /\ UNCHANGED soonest

\* A wait for the earliest job although another is due.
WaitForSoonest == IF soonest # None /\ soonest > 0 THEN soonest ELSE interval

\* How long the timer is set for: an earliest time that has passed while jobs
\* were running counts for nothing.
Wait == IF soonest # None /\ soonest > 0 /\ (~pollSoon \/ soonest < interval)
        THEN soonest ELSE interval

-----------------------------------------------------------------------------
(* Run *)

Return == loop' = "returned" /\ UNCHANGED <<interval, job, at, fails, cycle, soonest,
                                            pollSoon, timer, since>>

Top ==
  /\ loop = "top"
  /\ IF ctxDone THEN Return
     ELSE /\ loop' = "ask" /\ job' = 1
          /\ cycle' = 0 /\ soonest' = None /\ pollSoon' = FALSE
          /\ UNCHANGED <<interval, at, fails, timer, since>>

\* On to the next job, with what has been noted of this one.
GoOn(t, n) ==
  /\ at' = [at EXCEPT ![job] = t]
  /\ fails' = [fails EXCEPT ![job] = n]
  /\ Note(t)
  /\ job' = job + 1
  /\ loop' = "ask"
  /\ UNCHANGED <<interval, cycle, timer>>

Succeed(t) == GoOn(t, 0) /\ since' = [since EXCEPT ![job] = 0]

\* A failure that ends Run, whatever the context says.
FailReturning == Return

\* An error of Next or Run: the end if the context is done, else a retry.
Fail ==
  IF ctxDone THEN Return
  ELSE LET n == IF fails[job] < MaxFails THEN fails[job] + 1 ELSE fails[job] IN
       /\ GoOn(cycle + Backoff(n), n)
       /\ since' = [since EXCEPT ![job] = 0 - cycle]

IsDue == loop = "ask" /\ job \in Jobs /\ (at[job] # None => at[job] <= cycle)

NotDue ==
  /\ loop = "ask" /\ job \in Jobs
  /\ at[job] # None /\ at[job] > cycle
  /\ Note(at[job])
  /\ job' = job + 1
  /\ UNCHANGED <<interval, loop, at, fails, cycle, timer, since>>

\* Next: an error, no time, a time to come, or now.
NextFails == IsDue /\ Fail

NextLater ==
  /\ IsDue
  /\ \/ Succeed(cycle + interval)
     \/ \E d \in Ahead \ {0} : Succeed(cycle + d)

NextNow ==
  /\ IsDue
  /\ 0 \in Ahead
  /\ loop' = "work"
  /\ UNCHANGED <<interval, job, at, fails, cycle, soonest, pollSoon, timer, since>>

\* Run of the job: it may fail, or hang.
RunDone  == loop = "work" /\ Succeed(cycle)
RunFails == loop = "work" /\ Fail
RunHangs ==
  /\ loop = "work"
  /\ loop' = "hung"
  /\ UNCHANGED <<interval, job, at, fails, cycle, soonest, pollSoon, timer, since>>

Sleep ==
  /\ loop = "ask" /\ job \notin Jobs
  /\ loop' = "sleep"
  /\ timer' = Wait
  /\ UNCHANGED <<interval, job, at, fails, cycle, soonest, pollSoon, since>>

\* The select of the timer and the context.
Wake ==
  /\ loop = "sleep"
  /\ timer = 0
  /\ loop' = "top"
  /\ UNCHANGED <<interval, job, at, fails, cycle, soonest, pollSoon, timer, since>>

WakeCancelled == loop = "sleep" /\ ctxDone /\ Return

\* Time passes in a job or in the timer, which is on time.
Tick ==
  /\ \/ loop = "work" /\ cycle > 0 - MaxCycle
     \/ loop = "sleep" /\ timer > 0
  /\ at' = [j \in Jobs |-> IF at[j] = None THEN None ELSE at[j] - 1]
  /\ soonest' = IF soonest = None THEN None ELSE soonest - 1
  /\ cycle' = IF loop = "work" THEN cycle - 1 ELSE cycle
  /\ timer' = IF loop = "sleep" THEN timer - 1 ELSE timer
  /\ since' = [j \in Jobs |-> IF fails[j] > 0 THEN since[j] + 1 ELSE since[j]]
  /\ UNCHANGED <<interval, loop, job, fails, pollSoon, ctxDone>>

\* The steps of Run that take no time, and what its jobs do.
RunStep == \/ Top \/ NotDue \/ NextFails \/ NextLater \/ NextNow
           \/ Sleep \/ Wake \/ WakeCancelled
JobReturns == RunDone \/ RunFails

-----------------------------------------------------------------------------
(* Properties *)

\* 2^n
TwoTo[n \in 0..MaxFails] == IF n = 0 THEN 1 ELSE 2 * TwoTo[n - 1]

\* The promised delay after n failures in a row: doubling from interval up to
\* maxScheduleBackoff, and interval itself if that is more.
Promised(n) == LET most == IF interval > MaxBackoff THEN interval ELSE MaxBackoff
                   delay == interval * TwoTo[n - 1]
               IN IF delay > most THEN most ELSE delay

\* A job that failed is not run again before its delay has passed since the
\* cycle it failed in, in whichever cycle and behind whichever slow job its turn
\* comes.
BackoffHolds ==
  [][loop = "ask" /\ loop' = "work" /\ fails[job] > 0 =>
       since[job] + cycle >= Promised(fails[job])]_<<scheduleVars, ctxDone>>

\* The timer is never set to nothing, which would spin, and past the time of a
\* job by less than one interval only: slow jobs, failing jobs and jobs that are
\* far off do not put off the others by more.
NeverOversleeps ==
  [][loop # "sleep" /\ loop' = "sleep" =>
       /\ timer' > 0
       /\ timer' <= interval \/ \A j \in Jobs : at[j] >= timer']_<<scheduleVars, ctxDone>>

\* Jobs come neither before their time nor much behind it.
TimesAreKept == BackoffHolds /\ NeverOversleeps
=============================================================================
