------------------------------- MODULE Restore -------------------------------
(***************************************************************************)
(* backup/backup.go, Restore: swap the files of an archive into a          *)
(* directory.  Every entry is staged, the destination databases are        *)
(* fenced, the previous files (the database, its .wal and its .tmp) are    *)
(* renamed into an aside directory, the staged files are renamed in, and a *)
(* failed rename rolls everything back.  A rename may fail at any point,   *)
(* the process may die at any point, and another process opens the         *)
(* databases through a Handle whenever it gets their lock.                 *)
(***************************************************************************)
EXTENDS Integers, Sequences, FiniteSets

CONSTANTS
  Files,        \* names in the destination directory
  Names,        \* the sorted basenames of the archive: a sequence over Files
  Side,         \* [name -> <<itself, its .wal, its .tmp>>]
  Databases,    \* names that another process uses as a DuckDB database
  Missing,      \* files that may be missing when the first Restore starts
  Faults        \* which of AllFaults may happen

AllFaults == {"probe", "lock", "stage", "rename", "crash"}
Entries == {Names[k] : k \in DOMAIN Names}

\* Basenames are the keys of a map, and n.wal = m.wal or m.tmp says n = m; but
\* n.wal may be an entry of its own.  Nobody opens a log or a spill as a database.
ASSUME NamesAssumption ==
  /\ Names \in Seq(Files) /\ Entries \subseteq DOMAIN Side
  /\ \A k, l \in DOMAIN Names : Names[k] = Names[l] => k = l
ASSUME SideAssumption ==
  /\ \A n \in DOMAIN Side : Side[n] \in Seq(Files) /\ Len(Side[n]) = 3 /\ Side[n][1] = n
  /\ \A n, m \in DOMAIN Side, k, l \in 2..3 : Side[n][k] = Side[m][l] => n = m /\ k = l
  /\ \A n \in DOMAIN Side, k \in 2..3 : Side[n][k] \notin Databases
ASSUME FaultAssumption == Faults \subseteq AllFaults /\ Databases \subseteq Files

VARIABLES
  pc,       \* where Restore is
  i, j,     \* loop indexes: into Names or moved, and into Side[n]
  dest,     \* [Files -> content]: the destination directory
  aside,    \* [Files -> content]: the rollback directory
  moved,    \* swap.moved
  placed,   \* swap.placed
  stuck,    \* names rolling back failed for
  locked,   \* databases whose lock Restore holds
  open,     \* databases the other process has open, with their lock
  before,   \* ghost: dest when Restore started
  unread    \* ghost: databases it could not look at, and so has not locked

swapVars == <<moved, placed, stuck>>
vars == <<pc, i, j, dest, aside, swapVars, locked, open, before, unread>>

Contents == {"none", "old", "new", "live"}
Ended    == {"start", "refused", "rolledback", "half", "done", "crashed"}
Running  == {"lock", "aside", "place", "unplace", "putback"}
Empty    == [f \in Files |-> "none"]

TypeOK ==
  /\ pc \in Ended \cup Running
  /\ i \in Nat /\ j \in Nat
  /\ dest \in [Files -> Contents]
  /\ aside \in [Files -> Contents]
  /\ moved \in Seq(Files) /\ placed \in Seq(Files)
  /\ stuck \subseteq Files
  /\ locked \subseteq Databases /\ open \subseteq Databases
  /\ before \in [Files -> Contents] /\ unread \subseteq Files

Init ==
  /\ pc = "start" /\ i = 1 /\ j = 1
  /\ \E gone \in SUBSET Missing : dest = [f \in Files |-> IF f \in gone THEN "none" ELSE "old"]
  /\ aside = Empty
  /\ moved = <<>> /\ placed = <<>> /\ stuck = {}
  /\ locked = {} /\ open = {}
  /\ before = dest /\ unread = {}

Present(f) == dest[f] # "none"

\* isDatabase: a .wal beside it, or the magic number in the file itself.
IsDatabase(n) ==
  n \in Databases /\ (Present(n) \/ (n \in DOMAIN Side /\ Present(Side[n][2])))

-----------------------------------------------------------------------------
(* Before the swap *)

\* Decrypt, extract, checkReplaceable.
Begin ==
  /\ pc = "start"
  /\ before' = dest
  /\ pc' = "lock" /\ i' = 1 /\ j' = 1
  /\ UNCHANGED <<dest, aside, swapVars, locked, open, unread>>

\* A return before anything was replaced: stage and locks are let go.
Refuse ==
  /\ pc' = "refused"
  /\ locked' = {}
  /\ UNCHANGED <<i, j, dest, aside, swapVars, open, before, unread>>

\* acquireDestLocks: a file that is no database, or is not there, is not locked.
SkipLock ==
  /\ pc = "lock" /\ i <= Len(Names)
  /\ ~IsDatabase(Names[i])
  /\ i' = i + 1
  /\ UNCHANGED <<pc, j, dest, aside, swapVars, locked, open, before, unread>>

\* Nor is a database that isDatabase fails to look at: it takes a log that it cannot
\* stat for none, and the loop takes its error about the file for a no.
SkipUnread ==
  LET n == Names[i] IN
  /\ "probe" \in Faults
  /\ pc = "lock" /\ i <= Len(Names)
  /\ IsDatabase(n)
  /\ i' = i + 1
  /\ unread' = unread \cup {n}
  /\ UNCHANGED <<pc, j, dest, aside, swapVars, locked, open, before>>

\* A lock whose timeout is taken for success.
LockDestUnchecked ==
  /\ pc = "lock" /\ i <= Len(Names)
  /\ IsDatabase(Names[i])
  /\ locked' = locked \cup {Names[i]}
  /\ i' = i + 1
  /\ UNCHANGED <<pc, j, dest, aside, swapVars, open, before, unread>>

LockDest ==
  /\ pc = "lock" /\ i <= Len(Names)
  /\ IsDatabase(Names[i])
  /\ Names[i] \notin open
  /\ locked' = locked \cup {Names[i]}
  /\ i' = i + 1
  /\ UNCHANGED <<pc, j, dest, aside, swapVars, open, before, unread>>

\* The other process does not let go within lockTimeout, or the lock files are
\* out of reach.
LockFails ==
  /\ pc = "lock" /\ i <= Len(Names)
  /\ IsDatabase(Names[i])
  /\ Names[i] \in open \/ "lock" \in Faults
  /\ Refuse

\* Everything is staged and synced, the aside directory is made ...
Stage ==
  /\ pc = "lock" /\ i > Len(Names)
  /\ pc' = (IF Names = <<>> THEN "place" ELSE "aside") /\ i' = 1 /\ j' = 1
  /\ UNCHANGED <<dest, aside, swapVars, locked, open, before, unread>>

\* ... or that fails, or the context is done.
StageFails ==
  /\ "stage" \in Faults
  /\ pc = "lock" /\ i > Len(Names)
  /\ Refuse

-----------------------------------------------------------------------------
(* swap.run *)

\* A loop that leaves the .wal and the .tmp beside the database.
NextSideNameOnly ==
  /\ j' = 1
  /\ IF i < Len(Names) THEN i' = i + 1 /\ UNCHANGED pc
                       ELSE i' = 1 /\ pc' = "place"

\* The loop over the names and over each name's three files.
NextSide ==
  IF j < 3 THEN j' = j + 1 /\ UNCHANGED <<i, pc>>
  ELSE IF i < Len(Names) THEN i' = i + 1 /\ j' = 1 /\ UNCHANGED pc
  ELSE i' = 1 /\ j' = 1 /\ pc' = "place"

SetAside ==
  LET f == Side[Names[i]][j] IN
  /\ pc = "aside"
  /\ IF Present(f)
     THEN /\ aside' = [aside EXCEPT ![f] = dest[f]]
          /\ dest' = [dest EXCEPT ![f] = "none"]
          /\ moved' = Append(moved, f)
     ELSE UNCHANGED <<aside, dest, moved>>
  /\ NextSide
  /\ UNCHANGED <<placed, stuck, locked, open, before, unread>>

Place ==
  LET n == Names[i] IN
  /\ pc = "place" /\ i <= Len(Names)
  /\ dest' = [dest EXCEPT ![n] = "new"]
  /\ placed' = Append(placed, n)
  /\ i' = i + 1
  /\ UNCHANGED <<pc, j, aside, moved, stuck, locked, open, before, unread>>

\* A rename of either loop fails: abort.
RenameFails ==
  /\ "rename" \in Faults
  /\ \/ pc = "aside" /\ Present(Side[Names[i]][j])
     \/ pc = "place" /\ i <= Len(Names)
  /\ pc' = "unplace" /\ i' = 1
  /\ UNCHANGED <<j, dest, aside, swapVars, locked, open, before, unread>>

\* The swap is complete: the previous files and the locks are let go.
Finish ==
  /\ pc = "place" /\ i > Len(Names)
  /\ pc' = "done"
  /\ aside' = Empty
  /\ locked' = {}
  /\ UNCHANGED <<i, j, dest, swapVars, open, before, unread>>

-----------------------------------------------------------------------------
(* swap.abort *)

WasMoved(f) == \E k \in DOMAIN moved : moved[k] = f

\* A rollback that only undoes the placed files.
UnplaceEndsEarly ==
  /\ pc = "unplace" /\ i > Len(placed)
  /\ pc' = "putback" /\ i' = 0
  /\ UNCHANGED <<j, dest, aside, swapVars, locked, open, before, unread>>

\* First loop: a placed file that replaced nothing is removed; if that fails it
\* is stuck.
Unplace ==
  LET n == placed[i] IN
  /\ pc = "unplace" /\ i <= Len(placed)
  /\ \/ /\ WasMoved(n)
        /\ UNCHANGED <<dest, stuck>>
     \/ /\ ~WasMoved(n)
        /\ dest' = [dest EXCEPT ![n] = "none"]
        /\ UNCHANGED stuck
     \/ /\ ~WasMoved(n) /\ "rename" \in Faults
        /\ stuck' = stuck \cup {n}
        /\ UNCHANGED dest
  /\ i' = i + 1
  /\ UNCHANGED <<pc, j, aside, moved, placed, locked, open, before, unread>>

UnplaceEnds ==
  /\ pc = "unplace" /\ i > Len(placed)
  /\ pc' = "putback" /\ i' = Len(moved)
  /\ UNCHANGED <<j, dest, aside, swapVars, locked, open, before, unread>>

\* A rollback that does not look at the error of its renames.
PutBackBlind ==
  LET f == moved[i] IN
  /\ pc = "putback" /\ i >= 1
  /\ \/ /\ dest' = [dest EXCEPT ![f] = aside[f]]
        /\ aside' = [aside EXCEPT ![f] = "none"]
        /\ UNCHANGED stuck
     \/ /\ "rename" \in Faults
        /\ UNCHANGED <<dest, aside, stuck>>
  /\ i' = i - 1
  /\ UNCHANGED <<pc, j, moved, placed, locked, open, before, unread>>

\* Second loop, backwards: rename a previous file back, or call it stuck.
PutBack ==
  LET f == moved[i] IN
  /\ pc = "putback" /\ i >= 1
  /\ \/ /\ aside[f] # "none"
        /\ dest' = [dest EXCEPT ![f] = aside[f]]
        /\ aside' = [aside EXCEPT ![f] = "none"]
        /\ UNCHANGED stuck
     \/ /\ "rename" \in Faults \/ aside[f] = "none"
        /\ stuck' = stuck \cup {f}
        /\ UNCHANGED <<dest, aside>>
  /\ i' = i - 1
  /\ UNCHANGED <<pc, j, moved, placed, locked, open, before, unread>>

\* An abort that always clears the rollback directory.
AbortEndsClearing ==
  /\ pc = "putback" /\ i = 0
  /\ pc' = IF stuck = {} THEN "rolledback" ELSE "half"
  /\ aside' = Empty
  /\ locked' = {}
  /\ UNCHANGED <<i, j, dest, swapVars, open, before, unread>>

\* With nothing stuck the aside directory goes; otherwise the error names it.
AbortEnds ==
  /\ pc = "putback" /\ i = 0
  /\ IF stuck = {}
     THEN pc' = "rolledback" /\ aside' = Empty
     ELSE pc' = "half" /\ UNCHANGED aside
  /\ locked' = {}
  /\ UNCHANGED <<i, j, dest, swapVars, open, before, unread>>

\* The process dies; the directories stay as they are, the locks go.
Crash ==
  /\ "crash" \in Faults
  /\ pc \in Running
  /\ pc' = "crashed"
  /\ locked' = {}
  /\ UNCHANGED <<i, j, dest, aside, swapVars, open, before, unread>>

-----------------------------------------------------------------------------
(* Another process, through a Handle: it opens, or creates, a database whose *)
(* lock is free, and closes it when it is idle.                              *)

Open(n) ==
  /\ n \notin locked \cup open
  /\ open' = open \cup {n}
  /\ dest' = [dest EXCEPT ![n] = IF @ = "none" THEN "live" ELSE @]
  /\ UNCHANGED <<pc, i, j, aside, swapVars, locked, before, unread>>

Close(n) ==
  /\ n \in open
  /\ open' = open \ {n}
  /\ UNCHANGED <<pc, i, j, dest, aside, swapVars, locked, before, unread>>

Next ==
  \/ Begin \/ SkipLock \/ SkipUnread \/ LockDest \/ LockFails \/ Stage \/ StageFails
  \/ SetAside \/ Place \/ RenameFails \/ Finish
  \/ Unplace \/ UnplaceEnds \/ PutBack \/ AbortEnds \/ Crash
  \/ \E n \in Databases : Open(n) \/ Close(n)

Spec == Init /\ [][Next]_vars

-----------------------------------------------------------------------------
(* Properties *)

\* Until a Restore has succeeded no previous file is lost, whatever renames
\* fail and wherever the process dies: it is in place or in a rollback
\* directory that nothing clears.
NothingLost ==
  pc # "done" =>
    \A f \in Files : before[f] # "none" => before[f] \in {dest[f], aside[f]}

\* f is as it was when Restore started, or another process has created it since.
AsBefore(f) == dest[f] = before[f] \/ (before[f] = "none" /\ dest[f] = "live")

\* "nothing was replaced": a refused or rolled back Restore leaves every file of
\* the archive, its log and its spill as they were.
RolledBackIsUntouched ==
  pc \in {"refused", "rolledback"} => \A n \in Entries : \A k \in 1..3 : AsBefore(Side[n][k])

\* "rolling the restore back failed for ...": the error names every file that is
\* not as it was, and the previous contents of those are in the directory it names.
ErrorNamesEveryStuckFile ==
  pc = "half" =>
    \A n \in Entries : \A k \in 1..3 :
      LET f == Side[n][k] IN
      IF f \in stuck THEN before[f] # "none" => aside[f] = before[f] ELSE AsBefore(f)

\* A restored database never finds the log of the one it replaced beside it; what
\* is there the archive has brought or another process has created since.
NoStaleLog ==
  pc = "done" /\ open = {} =>
    \A n \in Entries : dest[n] = "new" =>
      \A k \in 2..3 : Side[n][k] \in Entries \/ dest[Side[n][k]] \in {"none", "live"}

\* "Databases still held by another process are refused": no step of Restore
\* moves or replaces a database that was there when it started and is open
\* elsewhere, at whatever point that was opened, unless it could not be read.
HeldIsNotReplaced ==
  [][\A n \in Databases :
       n \in open /\ n \in open' /\ before[n] # "none" /\ n \notin unread
       => dest'[n] = dest[n]]_vars
=============================================================================
