------------------------------ MODULE ConfigDB ------------------------------
(***************************************************************************)
(* configdb/: versioned snapshots of named config documents in one DuckDB  *)
(* file, and a marker file, the generation, by which pollers of any        *)
(* process learn that the database has changed.                            *)
(*                                                                         *)
(* A database operation runs inside Handle.Do, which DuckHandle shows to   *)
(* exclude every other one; here that is the variable busy.  What an       *)
(* operation writes stays in its transaction until it commits; the marker  *)
(* is written afterwards, outside Do.                                      *)
(***************************************************************************)
EXTENDS Integers, Sequences

CONSTANTS
  Actors,       \* goroutines that use a Store
  Stores,       \* the Stores, each of a process of its own
  StoreOf,      \* [Actors -> Stores]
  Docs,         \* document names
  Contents,     \* contents with their format; Hash is one to one on them
  None,         \* no snapshot, no marker, no owner; and the argument of Forget
  Faults,       \* which of AllFaults may happen
  MaxCalls      \* bound: calls of Import and Forget

AllFaults == {"crash", "txfail", "permfail", "markerfail"}
Snapshots == Contents \cup {None}

ASSUME StoreOfAssumption == StoreOf \in [Actors -> Stores]
ASSUME NoneAssumption == None \notin Contents \cup Actors
ASSUME MarksAssumption == None \notin [by : Stores, at : Nat]
ASSUME BoundsAssumption == Faults \subseteq AllFaults /\ MaxCalls \in Nat

VARIABLES
  pc,       \* where each actor is
  op,       \* the call it is in: a document, and what to make its snapshot
  cur,      \* [Docs -> the current snapshot]: store_current
  hist,     \* [Docs -> archived snapshots, oldest first]: store_history
  busy,     \* the actor inside Do
  tx,       \* its transaction: what cur and hist of its document will be
  gen,      \* the marker file: stamped by which store, when
  revMu,    \* [Stores -> the actor holding Store.revMu]
  stamp,    \* [Stores -> the time its bump has read]
  clock,    \* the wall clock, counting the times read
  lapsed,   \* ghost: a commit has lost its marker since the last one was written
  seen,     \* a poller: the marker it has seen,
  view,     \*   the snapshots it has read,
  polling,  \*   and whether it still has to read them
  calls,    \* calls so far
  imported  \* [Docs -> all contents imported since the last Forget]

dbVars   == <<cur, hist, imported>>
genVars  == <<gen, revMu, stamp, clock, lapsed>>
pollVars == <<seen, view, polling>>
vars == <<pc, op, busy, tx, dbVars, genVars, pollVars, calls>>

InTx   == {"archive", "replace", "commit"}
States == {"idle", "begin", "stamp", "mark"} \cup InTx
Marks  == [by : Stores, at : Nat] \cup {None}
NoOp   == [doc |-> None, to |-> None]
NoTx   == [cur |-> None, hist |-> <<>>]

\* Types; and whoever has left Do or bump, with an error too, holds neither.
TypeOK ==
  /\ pc \in [Actors -> States]
  /\ op \in [Actors -> [doc : Docs, to : Snapshots] \cup {NoOp}]
  /\ cur \in [Docs -> Snapshots] /\ hist \in [Docs -> Seq(Contents)]
  /\ tx \in [cur : Snapshots, hist : Seq(Contents)]
  /\ busy \in Actors \cup {None} /\ revMu \in [Stores -> Actors \cup {None}]
  /\ \A a \in Actors : /\ busy = a <=> pc[a] \in InTx
                       /\ revMu[StoreOf[a]] = a <=> pc[a] = "mark"
  /\ gen \in Marks /\ stamp \in [Stores -> Nat] /\ clock \in Nat
  /\ lapsed \in BOOLEAN
  /\ seen \in Marks /\ view \in [Docs -> Snapshots] /\ polling \in BOOLEAN
  /\ calls \in 0..MaxCalls
  /\ imported \in [Docs -> Seq(Contents)]

\* A database with some snapshots already; the poller knows them.
Init ==
  /\ pc = [a \in Actors |-> "idle"]
  /\ op = [a \in Actors |-> NoOp]
  /\ cur \in [Docs -> Snapshots]
  /\ hist = [d \in Docs |-> <<>>]
  /\ imported = [d \in Docs |-> IF cur[d] = None THEN <<>> ELSE <<cur[d]>>]
  /\ busy = None /\ tx = NoTx
  /\ gen = None /\ revMu = [s \in Stores |-> None]
  /\ stamp = [s \in Stores |-> 0] /\ clock = 0
  /\ lapsed = FALSE
  /\ seen = None /\ view = cur /\ polling = FALSE
  /\ calls = 0

Goto(a, s) == /\ pc' = [pc EXCEPT ![a] = s]
              /\ op' = IF s = "idle" THEN [op EXCEPT ![a] = NoOp] ELSE op

Forgets(a) == op[a].to = None

-----------------------------------------------------------------------------
(* Import and Forget *)

\* Import(d, c), or Forget(d) when c is None.
Call(a) ==
  /\ pc[a] = "idle"
  /\ calls < MaxCalls
  /\ calls' = calls + 1
  /\ \E d \in Docs, c \in Snapshots : op' = [op EXCEPT ![a] = [doc |-> d, to |-> c]]
  /\ pc' = [pc EXCEPT ![a] = "begin"]
  /\ UNCHANGED <<busy, tx, dbVars, genVars, pollVars>>

\* Do gets the database, Import reads the snapshot, BeginTx.
Begin(a) ==
  LET d == op[a].doc IN
  /\ pc[a] = "begin"
  /\ busy = None
  /\ busy' = a
  /\ tx' = [cur |-> cur[d], hist |-> hist[d]]
  /\ Goto(a, "archive")
  /\ UNCHANGED <<dbVars, genVars, pollVars, calls>>

\* An Import that archives the snapshot outside its transaction.
ArchiveOutside(a) ==
  LET d == op[a].doc IN
  /\ pc[a] = "archive"
  /\ IF ~Forgets(a) /\ tx.cur # None
     THEN /\ hist' = [hist EXCEPT ![d] = Append(@, tx.cur)]
          /\ tx' = [tx EXCEPT !.hist = Append(@, tx.cur)]
     ELSE UNCHANGED <<hist, tx>>
  /\ Goto(a, "replace")
  /\ UNCHANGED <<busy, cur, imported, genVars, pollVars, calls>>

\* The first statement: archive the snapshot, if any, or (Forget) delete it.
Archive(a) ==
  /\ pc[a] = "archive"
  /\ tx' = IF Forgets(a) THEN [tx EXCEPT !.cur = None]
           ELSE IF tx.cur # None THEN [tx EXCEPT !.hist = Append(@, tx.cur)]
           ELSE tx
  /\ Goto(a, "replace")
  /\ UNCHANGED <<busy, dbVars, genVars, pollVars, calls>>

\* The other statements: the new snapshot, or (Forget) no history.
Replace(a) ==
  /\ pc[a] = "replace"
  /\ tx' = IF Forgets(a) THEN [tx EXCEPT !.hist = <<>>]
                         ELSE [tx EXCEPT !.cur = op[a].to]
  /\ Goto(a, "commit")
  /\ UNCHANGED <<busy, dbVars, genVars, pollVars, calls>>

\* What a commit does to the database; Do is over.
Committed(a) ==
  LET d == op[a].doc IN
  /\ pc[a] = "commit"
  /\ cur' = [cur EXCEPT ![d] = tx.cur]
  /\ hist' = [hist EXCEPT ![d] = tx.hist]
  /\ imported' = [imported EXCEPT ![d] =
                    IF Forgets(a) THEN <<>> ELSE Append(@, op[a].to)]
  /\ busy' = None /\ tx' = NoTx
  /\ UNCHANGED <<gen, revMu, stamp, clock, pollVars, calls>>

\* A Forget that writes no marker.
CommitUnmarked(a) ==
  /\ Committed(a)
  /\ Goto(a, IF Forgets(a) THEN "idle" ELSE "stamp")
  /\ UNCHANGED lapsed

Commit(a) == Committed(a) /\ Goto(a, "stamp") /\ UNCHANGED lapsed

\* fn has committed, but the log's permissions cannot be set and Do returns that
\* error: the caller leaves before bump, with no word of ErrGenerationMarker.
CommitUnreported(a) ==
  /\ "permfail" \in Faults
  /\ Committed(a)
  /\ lapsed' = TRUE
  /\ Goto(a, "idle")

\* Reading, a statement or the commit fails: the deferred Rollback, no marker.
TxFails(a) ==
  /\ "txfail" \in Faults
  /\ pc[a] \in InTx
  /\ busy' = None /\ tx' = NoTx
  /\ Goto(a, "idle")
  /\ UNCHANGED <<dbVars, genVars, pollVars, calls>>

-----------------------------------------------------------------------------
(* bump *)

\* Under revMu: the time that makes the marker a new one ...
Stamp(a) ==
  /\ pc[a] = "stamp"
  /\ revMu[StoreOf[a]] = None
  /\ revMu' = [revMu EXCEPT ![StoreOf[a]] = a]
  /\ clock' = clock + 1
  /\ stamp' = [stamp EXCEPT ![StoreOf[a]] = clock + 1]
  /\ Goto(a, "mark")
  /\ UNCHANGED <<busy, tx, dbVars, gen, lapsed, pollVars, calls>>

\* ... and WriteItem, which replaces the file by a rename.
Mark(a) ==
  /\ pc[a] = "mark"
  /\ gen' = [by |-> StoreOf[a], at |-> stamp[StoreOf[a]]]
  /\ revMu' = [revMu EXCEPT ![StoreOf[a]] = None]
  /\ stamp' = [stamp EXCEPT ![StoreOf[a]] = 0]
  /\ lapsed' = FALSE
  /\ Goto(a, "idle")
  /\ UNCHANGED <<busy, tx, dbVars, clock, pollVars, calls>>

\* ErrGenerationMarker: the change has stuck, the marker is the old one.
MarkFails(a) ==
  /\ "markerfail" \in Faults
  /\ pc[a] = "mark"
  /\ revMu' = [revMu EXCEPT ![StoreOf[a]] = None]
  /\ stamp' = [stamp EXCEPT ![StoreOf[a]] = 0]
  /\ lapsed' = TRUE
  /\ Goto(a, "idle")
  /\ UNCHANGED <<busy, tx, dbVars, gen, clock, pollVars, calls>>

-----------------------------------------------------------------------------
(* A poller of Generation, and crashes *)

\* Generation returns a marker the poller does not know ...
PollMarker ==
  /\ ~polling
  /\ gen # seen
  /\ seen' = gen
  /\ polling' = TRUE
  /\ UNCHANGED <<pc, op, busy, tx, dbVars, genVars, view, calls>>

\* ... and it opens the database and reads the snapshots with Current.
PollRead ==
  /\ polling
  /\ busy = None
  /\ view' = cur
  /\ polling' = FALSE
  /\ UNCHANGED <<pc, op, busy, tx, dbVars, genVars, seen, calls>>

\* The process of a store dies; an open transaction is gone with it.
Crash(s) ==
  LET dead == {a \in Actors : StoreOf[a] = s} IN
  /\ "crash" \in Faults
  /\ \E a \in dead : pc[a] # "idle"
  /\ pc' = [a \in Actors |-> IF a \in dead THEN "idle" ELSE pc[a]]
  /\ op' = [a \in Actors |-> IF a \in dead THEN NoOp ELSE op[a]]
  /\ IF busy \in dead THEN busy' = None /\ tx' = NoTx ELSE UNCHANGED <<busy, tx>>
  /\ revMu' = [revMu EXCEPT ![s] = None]
  /\ stamp' = [stamp EXCEPT ![s] = 0]
  /\ lapsed' = (lapsed \/ \E a \in dead : pc[a] \in {"stamp", "mark"})
  /\ UNCHANGED <<dbVars, gen, clock, pollVars, calls>>

Next ==
  \/ \E a \in Actors : \/ Call(a) \/ Begin(a) \/ Archive(a) \/ Replace(a)
                       \/ Commit(a) \/ CommitUnreported(a) \/ TxFails(a)
                       \/ Stamp(a) \/ Mark(a) \/ MarkFails(a)
  \/ PollMarker \/ PollRead
  \/ \E s \in Stores : Crash(s)

Spec == Init /\ [][Next]_vars

-----------------------------------------------------------------------------
(* Properties *)

\* Import archives "in the same transaction": the history and the snapshot are
\* together exactly what was imported since the last Forget, in order, whatever
\* fails and whoever dies in between.
HistoryIsComplete ==
  \A d \in Docs :
    imported[d] = IF cur[d] = None THEN hist[d] ELSE Append(hist[d], cur[d])

\* "pollers can detect change without opening the database": when nobody is
\* between a commit and its marker, a poller for which Generation has not
\* changed knows the snapshots.  A commit loses its marker in three ways: a crash,
\* ErrGenerationMarker, and an error of Do that comes after it (lapsed).  Then the
\* next marker that is written, of any Store, makes up for it.
NoMissedChange ==
  /\ \A a \in Actors : pc[a] \notin {"stamp", "mark"}
  /\ ~lapsed /\ ~polling /\ seen = gen
  => view = cur

\* What revMu is for: one store never replaces its marker by an older one.
MarkersInOrder ==
  [][gen # None /\ gen' # gen /\ gen'.by = gen.by => gen.at < gen'.at]_vars
=============================================================================
