---------------------------- MODULE ConfigStore -----------------------------
(***************************************************************************)
(* manager.go: ConfigStores of several processes over the same home, with  *)
(* BackendBoth.  Named documents exist as files, which the user edits, and *)
(* as snapshots in the database; a caller reads the files, has Plan report *)
(* what has drifted, and resolves each report with Apply.  Import and      *)
(* Current are atomic here: ConfigDB shows what is behind them.            *)
(***************************************************************************)
EXTENDS Integers

CONSTANTS
  Actors,       \* goroutines that reconcile
  Docs,         \* document names
  Contents,     \* contents with their format; Hash is one to one on them
  Empty,        \* the content of an Item without a file
  FileContents, \* what the user makes of a file
  None,         \* no snapshot, no Item
  Decisions,    \* the Actions that callers pass to Apply
  MaxEdits      \* bound: edits of the files and calls of Forget

Actions   == {"ActionImport", "ActionUseFile", "ActionUseDB"}
Bodies    == Contents \cup {Empty}
Snapshots == Bodies \cup {None}

ASSUME StoreAssumption ==
  /\ Empty \notin Contents /\ None \notin Bodies
  /\ FileContents \subseteq Bodies
  /\ Decisions \subseteq Actions
  /\ MaxEdits \in Nat

VARIABLES
  item,  \* [Actors -> the Item or Reconciliation it carries, or None]
  file,  \* [Docs -> content of the file, Empty if there is none]
  cur,   \* [Docs -> the current snapshot in the database]
  edits  \* edits and Forgets so far

vars == <<item, file, cur, edits>>

Item(d, content) ==
  [doc |-> d, content |-> content, planned |-> FALSE, db |-> None]

\* Types; and every report of Plan has a file or a snapshot, or both.
TypeOK ==
  /\ item \in [Actors -> {None} \cup [doc : Docs, content : Bodies,
                                      planned : BOOLEAN, db : Snapshots]]
  /\ file \in [Docs -> FileContents] /\ cur \in [Docs -> Snapshots]
  /\ edits \in 0..MaxEdits
  /\ \A a \in Actors : item[a] # None /\ item[a].planned
                         => item[a].content # Empty \/ item[a].db # None

\* Files and snapshots in any state of drift.
Init ==
  /\ item = [a \in Actors |-> None]
  /\ file \in [Docs -> FileContents]
  /\ cur \in [Docs -> Contents \cup {None}]
  /\ edits = 0

\* The user edits, makes or removes a file.
Edit(d) ==
  /\ edits < MaxEdits
  /\ edits' = edits + 1
  /\ \E c \in FileContents : file' = [file EXCEPT ![d] = c]
  /\ UNCHANGED <<item, cur>>

\* Forget drops the snapshot, of a document that some caller is planning too.
Forget(d) ==
  /\ edits < MaxEdits
  /\ edits' = edits + 1
  /\ cur' = [cur EXCEPT ![d] = None]
  /\ UNCHANGED <<item, file>>

\* A caller makes an Item of a file.
Read(a, d) ==
  /\ item[a] = None
  /\ item' = [item EXCEPT ![a] = Item(d, file[d])]
  /\ UNCHANGED <<file, cur, edits>>

\* A Plan that reports only what exists on one side.
DriftedOneSided(d, content) == (content = Empty) # (cur[d] = None)

\* The file differs from the snapshot, or only one of them exists.
Drifted(d, content) ==
  IF content = Empty THEN cur[d] # None ELSE cur[d] # content

\* Plan reports an Item that has drifted and omits any other.
Plan(a) ==
  /\ item[a] # None /\ ~item[a].planned
  /\ item' = [item EXCEPT ![a] =
       IF Drifted(@.doc, @.content)
       THEN [item[a] EXCEPT !.planned = TRUE, !.db = cur[item[a].doc]]
       ELSE None]
  /\ UNCHANGED <<file, cur, edits>>

\* Apply returns to the caller, who is done with the Item.
Return(a) == item' = [item EXCEPT ![a] = None] /\ UNCHANGED <<file, edits>>

\* ActionImport stores the content that Plan was given, not today's file.
ApplyImport(a) ==
  /\ item[a] # None /\ item[a].planned
  /\ "ActionImport" \in Decisions
  /\ cur' = [cur EXCEPT ![item[a].doc] = item[a].content]
  /\ Return(a)

\* ActionUseFile and ActionUseDB return one of the two contents of the
\* Reconciliation; they leave both sides as they are.
ApplyUse(a) ==
  /\ item[a] # None /\ item[a].planned
  /\ Decisions # {"ActionImport"}
  /\ Return(a)
  /\ UNCHANGED cur

Next ==
  \/ \E d \in Docs : Edit(d) \/ Forget(d)
  \/ \E a \in Actors : Plan(a) \/ ApplyImport(a) \/ ApplyUse(a)
                       \/ \E d \in Docs : Read(a, d)

Spec == Init /\ [][Next]_vars

\* Callers read every file again and again, plan it, and import some of what
\* is reported, whatever else they decide in between.
FairSpec ==
  /\ Spec
  /\ \A a \in Actors : /\ \A d \in Docs : SF_vars(Read(a, d))
                       /\ WF_vars(Plan(a))
                       /\ WF_vars(ApplyImport(a) \/ ApplyUse(a))
                       /\ \A d \in Docs : SF_vars(ApplyImport(a) /\ item[a].doc = d)

-----------------------------------------------------------------------------
(* Properties *)

\* "Items in sync are omitted": however stale what one caller imports over
\* another, once the edits and Forgets stop every document that has a file comes
\* to have its content as the snapshot, for good, and Plan omits it.
EventuallyReconciled ==
  <>[](\A d \in Docs : file[d] # Empty => cur[d] = file[d] /\ ~Drifted(d, file[d]))
=============================================================================
