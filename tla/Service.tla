------------------------------- MODULE Service -------------------------------
(***************************************************************************)
(* daemon/service/service.go around schedule.Run: the life of a service    *)
(* process, from Start to the end of Run.  Four goroutines: the work (which*)
(* is in schedule.Run, module Schedule), the platform's runner in Run, the *)
(* signal handler, and the one signalFatal leaves behind.                  *)
(*                                                                         *)
(* kardianos/service is external: its runner calls Start, blocks, in       *)
(* RunWait if it honours that option and else until the manager's request, *)
(* calls Stop once and returns what Stop returned.                         *)
(***************************************************************************)
EXTENDS Schedule

VARIABLES
  honours,   \* the platform's runner honours RunWait
  asked,     \* a stop is asked for: a signal, or the manager's request
  work,      \* "run", "setErr", "signal", "done", "over"
  failed,    \* ghost: the work function returned a fatal error
  runner,    \* "wait", "stop", "join", "return", "read", "returned"
  err,       \* program.err
  fatal,     \* closed
  stopped,   \* closed
  done,      \* a value is in the channel
  grace,     \* the goroutine of signalFatal: "none", "timer", "over"
  result,    \* the runner's result: TRUE for an error
  gaveUp,    \* ghost: Stop's wait for the work timed out
  unheard    \* ghost: the manager refused the request of signalFatal

lifeVars == <<honours, asked, work, failed, runner, err, fatal, stopped, done,
              grace, result, gaveUp, unheard>>
vars == <<scheduleVars, ctxDone, lifeVars>>

ErrorTypeOK ==
  /\ work \in {"run", "setErr", "signal", "done", "over"}
  /\ runner \in {"wait", "stop", "join", "return", "read", "returned"}
  /\ err \in BOOLEAN /\ failed \in BOOLEAN /\ result \in BOOLEAN
  /\ done \in BOOLEAN /\ gaveUp \in BOOLEAN

TypeOK ==
  /\ ScheduleTypeOK
  /\ ErrorTypeOK
  /\ grace \in {"none", "timer", "over"}
  /\ {ctxDone, honours, asked, fatal, stopped, unheard} \subseteq BOOLEAN

\* After Start.
Init ==
  /\ ScheduleInit
  /\ ctxDone = FALSE
  /\ honours \in BOOLEAN
  /\ work = "run" /\ runner = "wait" /\ grace = "none"
  /\ asked = FALSE /\ failed = FALSE /\ err = FALSE
  /\ fatal = FALSE /\ stopped = FALSE /\ done = FALSE
  /\ result = FALSE /\ gaveUp = FALSE /\ unheard = FALSE

-----------------------------------------------------------------------------
(* The goroutine of Start *)

\* Steps of schedule.Run and of its jobs while the work function is in it.
Scheduling == work = "run" /\ RunStep /\ UNCHANGED <<ctxDone, lifeVars>>
Working    == work = "run" /\ JobReturns /\ UNCHANGED <<ctxDone, lifeVars>>
Hanging    == work = "run" /\ RunHangs /\ UNCHANGED <<ctxDone, lifeVars>>
Passing    == work = "run" /\ Tick /\ UNCHANGED lifeVars

\* The function returns: nil or Canceled once Run has returned, or an error of
\* something else it does.
WorkReturns ==
  /\ work = "run"
  /\ \/ loop = "returned" /\ work' = "done" /\ UNCHANGED failed
     \/ loop # "hung" /\ work' = "setErr" /\ failed' = TRUE
  /\ UNCHANGED <<scheduleVars, ctxDone, honours, asked, runner, err, fatal, stopped, done,
                 grace, result, gaveUp, unheard>>

\* setErr after the value is sent.
WorkDoneFirst ==
  /\ \/ work = "setErr" /\ work' = "record" /\ done' = TRUE /\ UNCHANGED err
     \/ work = "record" /\ work' = "signal" /\ err' = TRUE /\ UNCHANGED done
  /\ UNCHANGED <<scheduleVars, ctxDone, honours, asked, failed, runner, fatal, stopped,
                 grace, result, gaveUp, unheard>>

\* setErr
WorkSetErr ==
  /\ work = "setErr"
  /\ err' = TRUE
  /\ work' = "signal"
  /\ UNCHANGED <<scheduleVars, ctxDone, honours, asked, failed, runner, fatal, stopped, done,
                 grace, result, gaveUp, unheard>>

\* signalFatal that relies on the runner.
WorkSignalOnly ==
  /\ work = "signal"
  /\ fatal' = TRUE
  /\ grace' = "over"
  /\ work' = "done"
  /\ UNCHANGED <<scheduleVars, ctxDone, honours, asked, failed, runner, err, stopped, done,
                 result, gaveUp, unheard>>

\* signalFatal: close(fatal), and the goroutine with the timer.
WorkSignal ==
  /\ work = "signal"
  /\ fatal' = TRUE
  /\ grace' = "timer"
  /\ work' = "done"
  /\ UNCHANGED <<scheduleVars, ctxDone, honours, asked, failed, runner, err, stopped, done,
                 result, gaveUp, unheard>>

\* p.done <- err: the channel has room for the one value.
WorkDone ==
  /\ work = "done"
  /\ done' = TRUE
  /\ work' = "over"
  /\ UNCHANGED <<scheduleVars, ctxDone, honours, asked, failed, runner, err, fatal, stopped,
                 grace, result, gaveUp, unheard>>

Work == WorkSetErr \/ WorkSignal \/ WorkDone

-----------------------------------------------------------------------------
(* The goroutine of signalFatal *)

GraceEnds ==
  /\ grace = "timer"
  /\ stopped
  /\ grace' = "over"
  /\ UNCHANGED <<scheduleVars, ctxDone, honours, asked, work, failed, runner, err, fatal,
                 stopped, done, result, gaveUp, unheard>>

\* After fatalStopGrace: the manager is asked to stop the service.  The error of
\* a request that fails is dropped, and there is no second one.
GraceExpires ==
  /\ grace = "timer"
  /\ \/ asked' = TRUE /\ UNCHANGED unheard
     \/ unheard' = TRUE /\ UNCHANGED asked
  /\ grace' = "over"
  /\ UNCHANGED <<scheduleVars, ctxDone, honours, work, failed, runner, err, fatal, stopped,
                 done, result, gaveUp>>

-----------------------------------------------------------------------------
(* The runner *)

\* A signal, or a request of the manager.
Asked ==
  /\ ~asked
  /\ asked' = TRUE
  /\ UNCHANGED <<scheduleVars, ctxDone, honours, work, failed, runner, err, fatal, stopped,
                 done, grace, result, gaveUp, unheard>>

\* runWait, or the wait of a runner that ignores it.
RunnerUnblocks ==
  /\ runner = "wait"
  /\ asked \/ (honours /\ fatal)
  /\ runner' = "stop"
  /\ UNCHANGED <<scheduleVars, ctxDone, honours, asked, work, failed, err, fatal, stopped,
                 done, grace, result, gaveUp, unheard>>

\* Stop: close(stopped) and cancel, then the select.
StopCancels ==
  /\ runner = "stop"
  /\ stopped' = TRUE
  /\ ctxDone' = TRUE
  /\ runner' = "join"
  /\ UNCHANGED <<scheduleVars, honours, asked, work, failed, err, fatal, done, grace,
                 result, gaveUp, unheard>>

StopJoins ==
  /\ runner = "join"
  /\ done
  /\ done' = FALSE
  /\ runner' = "return"
  /\ UNCHANGED <<scheduleVars, ctxDone, honours, asked, work, failed, err, fatal, stopped,
                 grace, result, gaveUp, unheard>>

\* After stopWait; a select with both ready may take this one, too.
StopGivesUp ==
  /\ runner = "join"
  /\ runner' = "return"
  /\ gaveUp' = TRUE
  /\ UNCHANGED <<scheduleVars, ctxDone, honours, asked, work, failed, err, fatal, stopped,
                 done, grace, result, unheard>>

\* return p.Err()
StopReturns ==
  /\ runner = "return"
  /\ result' = err
  /\ runner' = "read"
  /\ UNCHANGED <<scheduleVars, ctxDone, honours, asked, work, failed, err, fatal, stopped,
                 done, grace, gaveUp, unheard>>

\* Run: the runner's error, else the program's.
RunReturns ==
  /\ runner = "read"
  /\ result' = (result \/ err)
  /\ runner' = "returned"
  /\ UNCHANGED <<scheduleVars, ctxDone, honours, asked, work, failed, err, fatal, stopped,
                 done, grace, gaveUp, unheard>>

Runner == RunnerUnblocks \/ StopCancels \/ StopJoins \/ StopGivesUp \/ StopReturns \/ RunReturns

\* The process ends with Run.
Ended == runner = "returned" /\ UNCHANGED vars

Next ==
  \/ /\ runner # "returned"
     /\ \/ Scheduling \/ Working \/ Hanging \/ Passing \/ WorkReturns
        \/ Work \/ GraceEnds \/ GraceExpires \/ Asked \/ Runner
  \/ Ended

\* What takes no time is not put off for ever, a job returns unless it hangs, and
\* timers expire.  The work function need not fail and nobody need ask for a stop.
Fairness ==
  /\ WF_vars(Scheduling) /\ WF_vars(Working) /\ WF_vars(Passing)
  /\ WF_vars(Work) /\ WF_vars(work = "run" /\ loop = "returned" /\ WorkReturns)
  /\ WF_vars(GraceExpires) /\ WF_vars(Runner)

Spec == Init /\ [][Next]_vars /\ Fairness

-----------------------------------------------------------------------------
(* Properties *)

\* Run ends with the error of the work function exactly if that ended with one
\* before Stop stopped waiting, so that a supervisor restarts the service; and it
\* ends after the work did, unless Stop gave up: the error is recorded before the
\* channel that Stop waits on is served, whichever comes first, error or request.
RunReportsFailure ==
  runner = "returned" /\ ~gaveUp => work = "over" /\ result = failed

\* A service that is asked to stop, or whose work failed, does end, also where the
\* runner ignores RunWait, and also with a job that hangs; unless the runner ignores
\* RunWait, the manager refuses the one request of signalFatal and nobody else asks.
ServiceEnds ==
  (asked \/ failed) ~> (runner = "returned") \/ (unheard /\ ~honours /\ ~asked)

\* Every job's Next is called again and again, however the others fare, until Run is
\* told to end, a job hangs or the work fails: a failing job, a time far off or one
\* that has passed meanwhile never leaves a job out for good.
EveryJobIsAsked ==
  \A j \in Jobs : []<>((IsDue /\ job = j) \/ ctxDone \/ loop = "hung" \/ failed)
=============================================================================
