------------------------------- MODULE DuckFile -------------------------------
(***************************************************************************)
(* What internal/duckdb promises of one database file, without locks,      *)
(* queues and timers: operations run one at a time per Handle, all Handles *)
(* that have the file open belong to one process, a fence keeps every      *)
(* Handle out, and a retired Handle runs nothing any more.                 *)
(***************************************************************************)
CONSTANTS Procs, Handles, Callers, Fencers, NoOne, ProcOf, HandleOf

VARIABLES
  open,     \* the Handles that have the file open
  running,  \* [Handles -> Callers \cup {NoOne}]: the operation in progress
  fence,    \* the goroutine that has fenced the file off
  retired   \* Handles that have been closed

fileState == <<open, running, fence, retired>>

Init ==
  /\ open = {}
  /\ running = [h \in Handles |-> NoOne]
  /\ fence = NoOne
  /\ retired = {}

\* An operation starts, on a file that is or can be opened by its process.
Begin(c) ==
  LET h == HandleOf[c] IN
  /\ h \notin retired
  /\ running[h] = NoOne
  /\ fence = NoOne
  /\ \A g \in open : ProcOf[g] = ProcOf[h]
  /\ open' = open \cup {h}
  /\ running' = [running EXCEPT ![h] = c]
  /\ UNCHANGED <<fence, retired>>

End(c) ==
  LET h == HandleOf[c] IN
  /\ running[h] = c
  /\ running' = [running EXCEPT ![h] = NoOne]
  /\ UNCHANGED <<open, fence, retired>>

\* The file is handed off, by an idle Handle or between two operations.
Leave(h) ==
  /\ h \in open
  /\ running[h] = NoOne
  /\ open' = open \ {h}
  /\ UNCHANGED <<running, fence, retired>>

Retire(h) ==
  /\ running[h] = NoOne
  /\ open' = open \ {h}
  /\ retired' = retired \cup {h}
  /\ UNCHANGED <<running, fence>>

Fence(f) ==
  /\ fence = NoOne
  /\ open = {}
  /\ fence' = f
  /\ UNCHANGED <<open, running, retired>>

Unfence(f) ==
  /\ fence = f
  /\ fence' = NoOne
  /\ UNCHANGED <<open, running, retired>>

\* A process dies and comes back with new Handles.
Restart(p) ==
  LET Mine == {h \in Handles : ProcOf[h] = p} IN
  /\ open' = open \ Mine
  /\ running' = [h \in Handles |-> IF h \in Mine THEN NoOne ELSE running[h]]
  /\ fence' \in {fence, NoOne}
  /\ fence' # fence => ProcOf[fence] = p
  /\ retired' = retired \ Mine

Next ==
  \/ \E c \in Callers : Begin(c) \/ End(c)
  \/ \E h \in Handles : Leave(h) \/ Retire(h)
  \/ \E f \in Fencers : Fence(f) \/ Unfence(f)
  \/ \E p \in Procs : Restart(p)

Spec == Init /\ [][Next]_fileState
=============================================================================
