------------------------------- MODULE Sealed -------------------------------
(***************************************************************************)
(* sealed/sealed.go: the encrypted store of a few processes, each with one *)
(* Store that its goroutines share, over one DuckDB file.  The row of one  *)
(* name stands for all: rows do not affect each other.                     *)
(*                                                                         *)
(* The file is as duckdb.Handle keeps it (DuckHandle!SingleWriter): one    *)
(* process at a time has it open; commits go to the log beside it, which   *)
(* is merged when the database is closed and left behind by a crash.  Of a *)
(* row it matters which key sealed it, so the row is that key, or NoRow;   *)
(* and the log is the row that the last operation in it leaves, or None.   *)
(***************************************************************************)
EXTENDS Escrow

CONSTANTS
  Procs,   \* processes with a Store
  Workers, \* their goroutines
  ProcOf   \* [Workers -> Procs]

VARIABLES
  cache,   \* Store.key of each process
  keyMu,   \* its keyMu: the goroutine that holds it
  closed,  \* its Store is closed
  at,      \* where each goroutine is: "idle", "lock", "ask", "use"
  doing,   \* its operation: "Put", "Get", or None
  disk,    \* the file and its log
  owner    \* the process that has the database open, under the file lock

sealedVars == <<cache, keyMu, closed, at, doing, disk, owner>>

NoRow == 0
Rows  == Keys \cup {NoRow}

Committed == IF disk.log # None THEN disk.log ELSE disk.main

SealedTypeOK ==
  /\ cache \in [Procs -> Keys \cup {None}]
  /\ keyMu \in [Procs -> Workers \cup {None}]
  /\ closed \in [Procs -> BOOLEAN]
  /\ at \in [Workers -> {"idle", "lock", "ask", "use"}]
  /\ doing \in [Workers -> {"Put", "Get", None}]
  /\ disk \in [exists : BOOLEAN, main : Rows, log : Rows \cup {None}]

SealedInit ==
  /\ cache = [p \in Procs |-> None]
  /\ keyMu = [p \in Procs |-> None]
  /\ closed = [p \in Procs |-> FALSE]
  /\ at = [w \in Workers |-> "idle"]
  /\ doing = [w \in Workers |-> None]
  /\ disk = [exists |-> FALSE, main |-> NoRow, log |-> None]
  /\ owner = None

-----------------------------------------------------------------------------
(* The database *)

\* Handle.Do of process p, with what the operation leaves in the log.
Do(p, log) ==
  /\ owner \in {None, p}
  /\ owner' = p
  /\ disk' = [disk EXCEPT !.exists = TRUE, !.log = log]

Merged == [disk EXCEPT !.main = Committed, !.log = None]

\* The Handle of p lets go of the database: idle, closed, or waited for.
LetGo(p) ==
  /\ owner = p
  /\ owner' = None
  /\ disk' = Merged
  /\ UNCHANGED <<escrowVars, cache, keyMu, closed, at, doing>>

-----------------------------------------------------------------------------
(* Operations *)

Goto(w, l) == at' = [at EXCEPT ![w] = l]

Begin(w, op) == Goto(w, "lock") /\ doing' = [doing EXCEPT ![w] = op]
End(w)       == Goto(w, "idle") /\ doing' = [doing EXCEPT ![w] = None]

Put(w) ==
  /\ at[w] = "idle" /\ ~closed[ProcOf[w]]
  /\ Begin(w, "Put")
  /\ UNCHANGED <<escrowVars, cache, keyMu, closed, disk, owner>>

\* Get: the row first; without one there is no need for a key.
Get(w) ==
  /\ at[w] = "idle" /\ ~closed[ProcOf[w]]
  /\ Do(ProcOf[w], disk.log)
  /\ IF Committed = NoRow THEN UNCHANGED <<at, doing>>
     ELSE Begin(w, "Get")
  /\ UNCHANGED <<escrowVars, cache, keyMu, closed>>

\* Delete needs no key.
Delete(w) ==
  /\ at[w] = "idle" /\ ~closed[ProcOf[w]]
  /\ Do(ProcOf[w], NoRow)
  /\ UNCHANGED <<escrowVars, cache, keyMu, closed, at, doing>>

\* With the key at hand Put goes on, and Get ends: the entry, or ErrUndecodable.
WithKey(w) == IF doing[w] = "Put" THEN Goto(w, "use") /\ UNCHANGED doing ELSE End(w)

\* encryptionKey without its mutex.
LockKeyUnguarded(w) ==
  LET p == ProcOf[w] IN
  /\ at[w] = "lock"
  /\ IF cache[p] # None THEN WithKey(w) /\ UNCHANGED visit
     ELSE /\ Goto(w, "ask") /\ UNCHANGED doing
          /\ Visit(w, <<"keyring", "sealed-key">>, TRUE)
  /\ UNCHANGED <<items, minted, lost, cache, keyMu, closed, disk, owner>>

\* encryptionKey: the cached key, or the keyring's, under keyMu.
LockKey(w) ==
  LET p == ProcOf[w] IN
  /\ at[w] = "lock"
  /\ keyMu[p] = None
  /\ IF cache[p] # None THEN WithKey(w) /\ UNCHANGED <<keyMu, visit>>
     ELSE /\ Goto(w, "ask") /\ UNCHANGED doing
          /\ keyMu' = [keyMu EXCEPT ![p] = w]
          /\ Visit(w, <<"keyring", "sealed-key">>, TRUE)
  /\ UNCHANGED <<items, minted, lost, cache, closed, disk, owner>>

KeyComes(w) ==
  LET p == ProcOf[w] IN
  /\ at[w] = "ask"
  /\ \/ /\ visit[w].at = "have"
        /\ cache' = [cache EXCEPT ![p] = visit[w].key]
        /\ WithKey(w)
     \/ visit[w].at = "failed" /\ End(w) /\ UNCHANGED cache
  /\ keyMu' = [keyMu EXCEPT ![p] = None]
  /\ Leave(w)
  /\ UNCHANGED <<items, minted, lost, closed, disk, owner>>

\* The end of Put: k.Put, or the error of a database that was closed meanwhile or
\* that another process keeps too long.
PutRow(w) ==
  LET p == ProcOf[w] IN
  /\ at[w] = "use"
  /\ End(w)
  /\ IF closed[p] \/ owner \notin {None, p} THEN UNCHANGED <<disk, owner>>
     ELSE Do(p, cache[p])
  /\ UNCHANGED <<escrowVars, cache, keyMu, closed>>

\* Close, and an Open once the goroutines of the closed Store are through.
Close(p) ==
  /\ ~closed[p]
  /\ closed' = [closed EXCEPT ![p] = TRUE]
  /\ UNCHANGED <<escrowVars, cache, keyMu, at, doing, disk, owner>>

Fresh(p) ==
  /\ cache' = [cache EXCEPT ![p] = None]
  /\ closed' = [closed EXCEPT ![p] = FALSE]

Reopen(p) ==
  /\ closed[p]
  /\ \A w \in Workers : ProcOf[w] = p => at[w] = "idle"
  /\ Fresh(p)
  /\ UNCHANGED <<escrowVars, keyMu, at, doing, disk, owner>>

\* The process dies, and a new one opens the Store.  What it was doing in the
\* keyring is over; the log stays.
Crash(p) ==
  /\ Fresh(p)
  /\ keyMu' = [keyMu EXCEPT ![p] = None]
  /\ at' = [w \in Workers |-> IF ProcOf[w] = p THEN "idle" ELSE at[w]]
  /\ doing' = [w \in Workers |-> IF ProcOf[w] = p THEN None ELSE doing[w]]
  /\ visit' = [c \in Clients |-> IF c \in Workers /\ ProcOf[c] = p THEN Away ELSE visit[c]]
  /\ owner' = IF owner = p THEN None ELSE owner
  /\ UNCHANGED <<items, minted, lost, disk>>

StoreStep ==
  \/ \E w \in Workers : Put(w) \/ Get(w) \/ Delete(w) \/ LockKey(w) \/ KeyComes(w) \/ PutRow(w)
  \/ \E p \in Procs : LetGo(p) \/ Close(p) \/ Reopen(p) \/ Crash(p)
=============================================================================
