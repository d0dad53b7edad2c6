------------------------------- MODULE Journal -------------------------------
(***************************************************************************)
(* journal/journal.go: runs, nested one level by parent_id, and records    *)
(* of runs, in one DuckDB file.  Every operation is one Handle.Do, which   *)
(* excludes all others (DuckHandle!OperationOwnsDatabase), so it is one    *)
(* action: what its statements do to the tables, in their order, or what   *)
(* is left of that when one of them, or the process, fails.                *)
(*                                                                         *)
(* Whoever works on a run holds its id only: the run may be gone by the    *)
(* time a child is added to it or it is finished.                          *)
(***************************************************************************)
EXTENDS Integers, FiniteSetsExt

CONSTANTS
  None,        \* NULL
  Counts,      \* item counts of completed runs
  MaxInteger,  \* the largest value of an INTEGER column
  Faults,      \* which of "statement", "checkpoint", "log" may fail
  MaxRuns,     \* bound: ids handed out
  MaxTime,     \* bound: ticks of the clock
  RecordChunk, \* recordChunk: rows of one INSERT
  MaxRecords   \* bound: records that come with one run

ASSUME ColumnsAssumption ==
  Counts \subseteq 0..MaxInteger /\ MaxInteger \in Nat /\ None \notin Nat
ASSUME BoundsAssumption ==
  MaxRuns \in Nat /\ MaxTime \in Nat \ {0} /\ MaxRecords \in Nat /\ RecordChunk \in Nat \ {0}

VARIABLES
  db,       \* the tables: sets of rows
  nextId,   \* journal_run_seq
  now,      \* the wall clock
  settled,  \* ghost: runs finished by FinishRun after the last change of a child
  reply     \* ghost: the last operation and what it returned

vars == <<db, nextId, now, settled, reply>>

Ids == 1..MaxRuns
Times == 1..MaxTime
Runs == [id : Ids, parent : Ids \cup {None}, started : Times,
         finished : BOOLEAN, count : 0..MaxInteger \cup {None}]
Records == [run : Ids, n : 1..MaxRecords]
Tables == [runs : SUBSET Runs, records : SUBSET Records]

TypeOK ==
  /\ db \in Tables
  /\ nextId \in 1..(MaxRuns + 1)
  /\ now \in Times
  /\ settled \subseteq Ids

NoReply == [op |-> "none", arg |-> 0, removed |-> 0, err |-> FALSE]

Init ==
  /\ db = [runs |-> {}, records |-> {}]
  /\ nextId = 1
  /\ now = 1
  /\ settled = {}
  /\ reply = NoReply

-----------------------------------------------------------------------------
(* Queries *)

RunIds(t) == {r.id : r \in t.runs}

\* Children, and the rows of Records.
Children(t, p) == {r \in t.runs : r.parent = p}
RecordsOf(t, i) == {c \in t.records : c.run = i}

\* WHERE parent_id IS NULL
TopLevel(t) == {r \in t.runs : r.parent = None}

\* ORDER BY started_at DESC, id DESC
Later(r, s) == r.started > s.started \/ (r.started = s.started /\ r.id > s.id)

\* olderThan that takes every run for a top-level one.
OlderThanAny(t, before) == {r \in t.runs : r.started < before}

\* olderThan with <= for <.
OlderThanUpTo(t, before) == {r \in TopLevel(t) : r.started <= before}

\* olderThan
OlderThan(t, before) == {r \in TopLevel(t) : r.started < before}

\* beyondNewest
BeyondNewest(t, n) ==
  {r \in TopLevel(t) : Cardinality({s \in TopLevel(t) : Later(s, r)}) >= n}

Doomed(t, op, arg) == IF op = "Prune" THEN OlderThan(t, arg) ELSE BeyondNewest(t, arg)

\* What Recent may answer: ORDER BY started_at alone leaves ties open.
RecentAnswers(t, n) ==
  {s \in SUBSET TopLevel(t) :
     /\ Cardinality(s) = IF Cardinality(TopLevel(t)) < n THEN Cardinality(TopLevel(t)) ELSE n
     /\ \A r \in s, u \in TopLevel(t) \ s : r.started >= u.started}

-----------------------------------------------------------------------------
(* Statements *)

\* insertRecords: one INSERT per chunk, the last one as long as what is left.
Inserted(i, size) ==
  UNION {{[run |-> i, n |-> k] :
            k \in (start + 1)..(IF start + RecordChunk < size THEN start + RecordChunk
                                                              ELSE size)} :
           start \in {s \in 0..size : s % RecordChunk = 0 /\ s < size}}

DeleteRecords(t, ids)  == [t EXCEPT !.records = {c \in @ : c.run \notin ids}]
DeleteChildren(t, ids) == [t EXCEPT !.runs = {r \in @ : r.parent \notin ids}]
DeleteRuns(t, ids)     == [t EXCEPT !.runs = {r \in @ : r.id \notin ids}]

Family(t, ids) == ids \cup {r.id : r \in {s \in t.runs : s.parent \in ids}}

\* The statements with the records after the children they are looked up by.
RemoveChildrenFirst(t, ids) ==
  LET t1 == DeleteChildren(t, ids) IN DeleteRuns(DeleteRecords(t1, Family(t1, ids)), ids)

\* A Delete that is not told of children.
RemoveAlone(t, ids) == DeleteRuns(DeleteRecords(t, ids), ids)

\* The statements of Delete, and evictStatements, whose condition is about
\* top-level runs only and so has the same ids in all three.  The rewrite of the
\* tables that follows keeps every row.
Remove(t, ids) ==
  LET t1 == DeleteRecords(t, Family(t, ids)) IN DeleteRuns(DeleteChildren(t1, ids), ids)

\* coalesce((SELECT sum(count) FROM runs WHERE parent_id = ?), 0)
SumOfCounts(runs) == MapThenSumSet(LAMBDA r : r.count, runs)
SumOfChildren(t, i) == SumOfCounts(Children(t, i))

Finished(t, i) ==
  [t EXCEPT !.runs = {IF r.id = i THEN [r EXCEPT !.finished = TRUE, !.count = SumOfChildren(t, i)]
                                  ELSE r : r \in @}]

-----------------------------------------------------------------------------
(* Operations *)

\* An id some caller holds: one that was handed out.  (0, for none, does nothing.)
Held == 1..(nextId - 1)

\* What is returned, by the operations that return more than an error or an id.
Reply(op, arg, removed, err) ==
  reply' = IF op \in {"Add", "Prune", "Retain"}
           THEN [op |-> op, arg |-> arg, removed |-> removed, err |-> err]
           ELSE NoReply

\* What Do returns once the operation has done its work: after may still fail,
\* and at the latest Do's own look at the permissions of the log.
Returned(op, arg, removed, after) ==
  \/ Reply(op, arg, removed, FALSE)
  \/ after \cap Faults # {} /\ Reply(op, arg, removed, TRUE)

\* A statement fails, or the process dies: the deferred Rollback, or none at all.
\* (The id it took from the sequence is lost; gaps between ids matter to nobody.)
Fails(op, arg) ==
  /\ "statement" \in Faults
  /\ Reply(op, arg, 0, TRUE)
  /\ UNCHANGED <<db, nextId, now, settled>>

\* INSERT ... RETURNING id, for a run under parent with size records.
Insert(op, row, size) ==
  /\ nextId <= MaxRuns
  /\ \/ /\ db' = [runs |-> db.runs \cup {row},
                   records |-> db.records \cup Inserted(nextId, size)]
        /\ nextId' = nextId + 1
        /\ settled' = settled \ {row.parent}
        /\ Returned(op, size, 0, {"log"})
        /\ UNCHANGED now
     \/ Fails(op, size)

StartRun ==
  Insert("StartRun", [id |-> nextId, parent |-> None, started |-> now,
                      finished |-> FALSE, count |-> None], 0)

\* Add: the run is over; its times and its count are the caller's, and so is
\* the id of the parent, which may be gone.
Add(parent, started, count, size) ==
  /\ parent \in Held \cup {None}
  /\ started <= now
  /\ Insert("Add", [id |-> nextId, parent |-> parent, started |-> started,
                    finished |-> TRUE, count |-> count], size)

\* The parents whose sum has just become old.
ParentsOf(ids) == {r.parent : r \in {s \in db.runs : s.id \in ids}}

\* FinishRun: no row, no update and no error; a sum that the column cannot hold
\* is an error.
FinishRun(i) ==
  /\ i \in Held
  /\ \/ /\ i \in RunIds(db) => SumOfChildren(db, i) <= MaxInteger
        /\ db' = Finished(db, i)
        /\ settled' = (settled \cup ({i} \cap RunIds(db))) \ ParentsOf({i})
        /\ Reply("FinishRun", i, 0, FALSE)
        /\ UNCHANGED <<nextId, now>>
     \/ /\ i \in RunIds(db) /\ SumOfChildren(db, i) > MaxInteger
        /\ Reply("FinishRun", i, 0, TRUE)
        /\ UNCHANGED <<db, nextId, now, settled>>
     \/ Fails("FinishRun", i)

Delete(i) ==
  /\ i \in Held
  /\ \/ /\ db' = Remove(db, {i})
        /\ settled' = (settled \ ParentsOf({i})) \cap RunIds(db')
        /\ Reply("Delete", i, 0, FALSE)
        /\ UNCHANGED <<nextId, now>>
     \/ Fails("Delete", i)

\* evict: nothing to do; or the transaction commits and CHECKPOINT succeeds or
\* fails, after the fact; or the transaction fails.
Evict(op, arg) ==
  LET doomed == Doomed(db, op, arg) IN
  \/ /\ doomed = {}
     /\ Returned(op, arg, 0, {"log"})
     /\ UNCHANGED <<db, nextId, now, settled>>
  \/ /\ doomed # {}
     /\ db' = Remove(db, {r.id : r \in doomed})
     /\ settled' = settled \cap RunIds(db')
     /\ Returned(op, arg, Cardinality(doomed), {"checkpoint", "log"})
     /\ UNCHANGED <<nextId, now>>
  \/ Fails(op, arg)

\* A zero time (0 here), and a maximum that is not positive, evict nothing.
Prune(before) == before > 0 /\ Evict("Prune", before)
Retain(n) == n > 0 /\ Evict("Retain", n)

Tick == now < MaxTime /\ now' = now + 1 /\ UNCHANGED <<db, nextId, settled, reply>>

Next ==
  \/ StartRun
  \/ \E parent \in Ids \cup {None}, started \in Times, count \in Counts,
        size \in {0, MaxRecords} : Add(parent, started, count, size)
  \/ \E i \in Ids : FinishRun(i) \/ Delete(i)
  \/ \E before \in 0..(MaxTime + 1) : Prune(before)
  \/ \E n \in 0..MaxRuns : Retain(n)
  \/ Tick

Spec == Init /\ [][Next]_vars

-----------------------------------------------------------------------------
(* Properties *)

\* No record is left without its run.
NoOrphanRecords == \A c \in db.records : c.run \in RunIds(db)

\* A run and its records come and go together: no failure in the middle of Add,
\* Delete or evict, and no order of their statements, leaves a record without
\* its run or a run with a part of its records.
RecordsFollowRuns ==
  /\ NoOrphanRecords
  /\ reply.op = "Add" /\ ~reply.err => Cardinality(RecordsOf(db, nextId - 1)) = reply.arg

\* The count FinishRun gave a run is the sum of its children for as long as
\* nobody adds, finishes or deletes one of them: retention, which picks runs by
\* age or rank, takes a family as a whole or leaves it as a whole.
CountsAreSums ==
  \A r \in db.runs : r.id \in settled =>
    r.finished /\ r.count = SumOfChildren(db, r.id)

\* A top-level run does not go without its children and their records, whether
\* it is pruned, retired or deleted, finished or still open.
NothingLeftBehind ==
  [][\A r \in TopLevel(db) : r.id \notin RunIds(db') =>
       /\ Children(db', r.id) = {}
       /\ \A i \in Family(db, {r.id}) : RecordsOf(db', i) = {}]_vars

\* An eviction that has changed anything, or says that it succeeded.
Evicted == reply'.op \in {"Prune", "Retain"} /\ (~reply'.err \/ db' # db)

\* What Prune leaves is the top-level runs started at the given time or later,
\* finished or not; what Retain leaves is what Recent would have shown, however the
\* ties of its ORDER BY fall: the newest runs, all of them and nothing else.  With
\* an error, too, unless nothing was done.
KeepsWhatItShould ==
  /\ Evicted /\ reply'.op = "Prune" =>
       TopLevel(db') = {r \in TopLevel(db) : r.started >= reply'.arg}
  /\ Evicted /\ reply'.op = "Retain" =>
       TopLevel(db') \in RecentAnswers(db, reply'.arg)

\* With the top-level runs that are gone goes what belongs to them, and nothing
\* else: the rows that stay are the rows that were there.
TakesFamilies ==
  LET gone == {r.id : r \in TopLevel(db) \ TopLevel(db')} IN
  reply'.op \in {"Prune", "Retain"} =>
    /\ db'.runs = {r \in db.runs : r.id \notin Family(db, gone)}
    /\ db'.records = {c \in db.records : c.run \notin Family(db, gone)}

\* Prune and Retain report what is gone, with an error too: an error of the
\* transaction says nothing went, a later one how many did.
EvictReports ==
  reply'.op \in {"Prune", "Retain"} =>
    reply'.removed = Cardinality(TopLevel(db)) - Cardinality(TopLevel(db'))

\* An eviction takes exactly what it was asked to take, and what it says it took,
\* whichever of its steps fails.
EvictionIsExact == [][now' = now => KeepsWhatItShould /\ TakesFamilies /\ EvictReports]_vars
=============================================================================
