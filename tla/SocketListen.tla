----------------------------- MODULE SocketListen -----------------------------
(***************************************************************************)
(* ipc/socket_unix.go: processes that Listen on ONE Unix socket path.      *)
(* Listen takes <path>.lock, probes the socket file it finds, replaces a   *)
(* dead one, binds and remembers the file it bound; Close stops accepting  *)
(* and then, without the lock, unlinks the path if it still shows that     *)
(* file.  A process may die at any point and leave its socket file behind. *)
(***************************************************************************)
EXTENDS Integers, FiniteSets

CONSTANTS
  Procs,      \* processes that serve the path
  Inodes,     \* inode numbers; the file system reuses free ones
  None,       \* no process, no file
  Closers,    \* processes that call Close (the others only die)
  Faults      \* which of AllFaults may happen

AllFaults == {"crash", "locktimeout", "chmod", "io"}

ASSUME SocketAssumption ==
  /\ None \notin Procs \cup Inodes
  /\ Closers \subseteq Procs /\ Faults \subseteq AllFaults

VARIABLES
  pc,       \* where each process is; "up": Listen has returned a listener
  file,     \* the inode the path names
  bound,    \* [process -> inode its socket is bound to]
  accepts,  \* processes whose socket is accepting connections
  flock,    \* owner of <path>.lock
  robbed,   \* processes whose socket file the Close of another has removed
  calm      \* from here on nothing fails any more

ghosts == <<robbed, calm>>
listenVars == <<pc, file, bound, accepts, flock, ghosts>>

States == {"out", "lock", "look", "probe", "remove", "bind", "chmod", "guard", "up",
           "check", "unlink"}

Holding == {"look", "probe", "remove", "bind", "chmod", "guard"}

\* Types; and every return of Listen, the failing ones included, lets go of <path>.lock.
ListenTypeOK ==
  /\ pc \in [Procs -> States]
  /\ file \in Inodes \cup {None}
  /\ bound \in [Procs -> Inodes \cup {None}]
  /\ accepts \subseteq Procs
  /\ flock \in Procs \cup {None}
  /\ robbed \subseteq Procs /\ calm \in BOOLEAN
  /\ \A p \in Procs : flock = p <=> pc[p] \in Holding

\* The directory is empty, or shows a socket file some dead process left.
ListenInit ==
  /\ pc = [p \in Procs |-> "out"]
  /\ file \in Inodes \cup {None}
  /\ bound = [p \in Procs |-> None]
  /\ accepts = {}
  /\ flock = None
  /\ robbed = {} /\ calm = FALSE

Goto(p, s) == pc' = [pc EXCEPT ![p] = s]

\* A connection to the path reaches an accepting socket.
Live(f) == \E p \in accepts : bound[p] = f

-----------------------------------------------------------------------------
(* Listen *)

Call(p) ==
  /\ pc[p] = "out"
  /\ Goto(p, "lock")
  /\ robbed' = robbed \ {p}
  /\ UNCHANGED <<file, bound, accepts, flock, calm>>

\* A Listen that goes on when the path lock is busy.
LockUnchecked(p) ==
  /\ pc[p] = "lock"
  /\ flock' = p
  /\ Goto(p, "look")
  /\ UNCHANGED <<file, bound, accepts, ghosts>>

\* lockSocketPath
Lock(p) ==
  /\ pc[p] = "lock"
  /\ flock = None
  /\ flock' = p
  /\ Goto(p, "look")
  /\ UNCHANGED <<file, bound, accepts, ghosts>>

LockTimesOut(p) ==
  /\ "locktimeout" \in Faults
  /\ pc[p] = "lock"
  /\ flock # None
  /\ Goto(p, "out")
  /\ UNCHANGED <<file, bound, accepts, flock, ghosts>>

\* A Listen that leaves the file it finds to net.Listen.
LookNothing(p) ==
  /\ pc[p] = "look"
  /\ Goto(p, "bind")
  /\ UNCHANGED <<file, bound, accepts, flock, ghosts>>

Look(p) ==
  /\ pc[p] = "look"
  /\ Goto(p, IF file = None THEN "bind" ELSE "probe")
  /\ UNCHANGED <<file, bound, accepts, flock, ghosts>>

\* Lstat, the probe or the Remove reports something else, or it is no socket.
Fails(p) ==
  /\ "io" \in Faults
  /\ pc[p] \in {"look", "probe", "remove"}
  /\ Goto(p, "out")
  /\ flock' = None
  /\ UNCHANGED <<file, bound, accepts, ghosts>>

\* A probe that takes every socket file it finds for a stale one.
ProbeNothing(p) ==
  /\ pc[p] = "probe"
  /\ Goto(p, "remove")
  /\ UNCHANGED <<file, bound, accepts, flock, ghosts>>

\* probeSocket: ErrInUse, or a refused connection.
Probe(p) ==
  /\ pc[p] = "probe"
  /\ IF Live(file)
     THEN Goto(p, "out") /\ flock' = None
     ELSE Goto(p, "remove") /\ UNCHANGED flock
  /\ UNCHANGED <<file, bound, accepts, ghosts>>

\* clearDeadSocket, its last step
Remove(p) ==
  /\ pc[p] = "remove"
  /\ file' = None
  /\ Goto(p, "bind")
  /\ UNCHANGED <<bound, accepts, flock, ghosts>>

\* net.Listen: a new file, or EADDRINUSE.  An inode number is free when no
\* file and no open socket has it.
Bind(p) ==
  /\ pc[p] = "bind"
  /\ IF file # None
     THEN /\ Goto(p, "out")
          /\ flock' = None
          /\ UNCHANGED <<file, bound, accepts, ghosts>>
     ELSE \E n \in Inodes :
            /\ \A q \in accepts : bound[q] # n
            /\ file' = n
            /\ bound' = [bound EXCEPT ![p] = n]
            /\ accepts' = accepts \cup {p}
            /\ Goto(p, "chmod")
            /\ UNCHANGED <<flock, ghosts>>

Chmod(p) ==
  /\ pc[p] = "chmod"
  /\ Goto(p, "guard")
  /\ UNCHANGED <<file, bound, accepts, flock, ghosts>>

\* os.Chmod fails: the listener, not guarded yet, unlinks the path by name.
ChmodFails(p) ==
  /\ "chmod" \in Faults
  /\ pc[p] = "chmod"
  /\ accepts' = accepts \ {p}
  /\ bound' = [bound EXCEPT ![p] = None]
  /\ file' = None
  /\ flock' = None
  /\ Goto(p, "out")
  /\ UNCHANGED ghosts

\* guardUnlink remembers what the path shows; Listen returns, unlocked.  With
\* nothing there, it closes its socket and fails.
Guard(p) ==
  /\ pc[p] = "guard"
  /\ bound' = [bound EXCEPT ![p] = file]
  /\ flock' = None
  /\ IF file = None
     THEN Goto(p, "out") /\ accepts' = accepts \ {p}
     ELSE Goto(p, "up") /\ UNCHANGED accepts
  /\ UNCHANGED <<file, ghosts>>

-----------------------------------------------------------------------------
(* unlinkGuard.Close *)

CloseListening(p) ==
  /\ p \in Closers
  /\ pc[p] = "up"
  /\ accepts' = accepts \ {p}
  /\ Goto(p, "check")
  /\ UNCHANGED <<file, bound, flock, ghosts>>

\* unlinkIfStillOwned: Lstat and SameFile ...
Check(p) ==
  /\ pc[p] = "check"
  /\ IF file = bound[p]
     THEN Goto(p, "unlink") /\ UNCHANGED bound
     ELSE Goto(p, "out") /\ bound' = [bound EXCEPT ![p] = None]
  /\ UNCHANGED <<file, accepts, flock, ghosts>>

\* ... then Remove, of whatever the path names by now.
Unlink(p) ==
  /\ pc[p] = "unlink"
  /\ file' = None
  /\ robbed' = robbed \cup {q \in accepts : bound[q] = file}
  /\ bound' = [bound EXCEPT ![p] = None]
  /\ Goto(p, "out")
  /\ UNCHANGED <<accepts, flock, calm>>

\* The process dies: its socket refuses connections, the file stays.
Crash(p) ==
  /\ "crash" \in Faults
  /\ pc[p] # "out"
  /\ accepts' = accepts \ {p}
  /\ bound' = [bound EXCEPT ![p] = None]
  /\ flock' = IF flock = p THEN None ELSE flock
  /\ Goto(p, "out")
  /\ UNCHANGED <<file, ghosts>>

Listen(p) ==
  \/ Lock(p) \/ Look(p) \/ Probe(p) \/ Remove(p) \/ Bind(p) \/ Chmod(p) \/ Guard(p)

\* What may go wrong, until one day nothing does.
Faulty(p) == ~calm /\ (LockTimesOut(p) \/ Fails(p) \/ ChmodFails(p) \/ Crash(p))

Calm ==
  /\ ~calm
  /\ calm' = TRUE
  /\ UNCHANGED <<pc, file, bound, accepts, flock, robbed>>

ListenNext ==
  \/ \E p \in Procs :
       Call(p) \/ Listen(p) \/ CloseListening(p) \/ Check(p) \/ Unlink(p) \/ Faulty(p)
  \/ Calm

ListenSpec == ListenInit /\ [][ListenNext]_listenVars

\* Listen and Close run to their end; the lock is polled, and its holder needs
\* a fraction of the interval, hence strong fairness for it.
ListenFairSpec ==
  /\ ListenSpec
  /\ \A p \in Procs : /\ WF_listenVars(Listen(p)) /\ SF_listenVars(Lock(p))
                      /\ WF_listenVars(Check(p) \/ Unlink(p))

-----------------------------------------------------------------------------
(* Properties *)

\* One listener at a time: a live listener makes Listen fail, a stale file is
\* replaced by exactly one of those that find it.  Only a listener whose file an
\* overtaken Close has removed, which it does by name, is passed over.
SingleListener == Cardinality({p \in Procs \ robbed : pc[p] = "up"}) <= 1

\* A listener that Listen returned is the one a client reaches at the path.
Reachable == \A p \in Procs \ robbed : pc[p] = "up" => file = bound[p]

\* Nothing that has happened at the path, a dead file, a timeout, a robbed
\* listener, keeps it out of service: once nothing fails any more and processes
\* go on calling Listen, clients reach a listener again and again.
ServiceReturns ==
  /\ <>calm
  /\ []<>(\E p \in Procs : pc[p] = "lock")
  => []<>Live(file)
=============================================================================
