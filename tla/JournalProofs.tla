--------------------------- MODULE JournalProofs ---------------------------
(***************************************************************************)
(* Theorems of Journal, for any number of runs, records, ticks, chunks and *)
(* sizes.                                                                  *)
(***************************************************************************)
EXTENDS Journal, FiniteSetTheorems, TLAPS

\* r is a row, whatever is in its columns.
IsRow(r) == r \in [id : {r.id}, parent : {r.parent}, started : {r.started},
                   finished : {r.finished}, count : {r.count}]

\* Ids are handed out once, and parents are ids that have been handed out.
IdInv ==
  /\ nextId \in Nat \ {0}
  /\ \A r \in db.runs : r.id \in 1..(nextId - 1) /\ r.parent \in 1..(nextId - 1) \cup {None}
  /\ \A r \in db.runs : IsRow(r) /\ r.started \in Nat
  /\ IsFiniteSet(db.runs)
  /\ now \in Nat
  /\ \A r, s \in db.runs : r.id = s.id => r = s
  /\ settled \subseteq 1..(nextId - 1)

\* t is a pair of tables, whatever is in them.
IsTables(t) == t \in [runs : {t.runs}, records : {t.records}]

IndInv == IdInv /\ IsTables(db) /\ NoOrphanRecords /\ CountsAreSums

-----------------------------------------------------------------------------
(* The statements *)

\* What one DELETE leaves.
LEMMA Deleted ==
  ASSUME NEW t, IsTables(t), NEW ids
  PROVE  /\ IsTables(DeleteRecords(t, ids)) /\ DeleteRecords(t, ids).runs = t.runs
         /\ DeleteRecords(t, ids).records = {c \in t.records : c.run \notin ids}
         /\ IsTables(DeleteChildren(t, ids)) /\ DeleteChildren(t, ids).records = t.records
         /\ DeleteChildren(t, ids).runs = {r \in t.runs : r.parent \notin ids}
         /\ IsTables(DeleteRuns(t, ids)) /\ DeleteRuns(t, ids).records = t.records
         /\ DeleteRuns(t, ids).runs = {r \in t.runs : r.id \notin ids}
<1> DEFINE R == t.runs
           C == t.records
<1>1. t \in [runs : {R}, records : {C}]
  BY DEF IsTables
<1> HIDE DEF R, C
<1>2. ASSUME NEW S PROVE /\ [t EXCEPT !.runs = S] \in [runs : {S}, records : {C}]
                         /\ [t EXCEPT !.records = S] \in [runs : {R}, records : {S}]
  BY <1>1
<1>3. ASSUME NEW S PROVE /\ [t EXCEPT !.runs = S].runs = S /\ [t EXCEPT !.runs = S].records = t.records
                         /\ [t EXCEPT !.records = S].runs = t.runs /\ [t EXCEPT !.records = S].records = S
  BY <1>1
<1> USE DEF R, C
<1>4. ASSUME NEW S PROVE IsTables([t EXCEPT !.runs = S]) /\ IsTables([t EXCEPT !.records = S])
  BY <1>2, <1>3 DEF IsTables
<1> QED BY <1>3, <1>4 DEF DeleteRecords, DeleteChildren, DeleteRuns

\* What Remove leaves.
LEMMA Removed ==
  ASSUME NEW t, IsTables(t), NEW ids
  PROVE  /\ IsTables(Remove(t, ids))
         /\ Remove(t, ids).runs = {r \in t.runs : r.id \notin ids /\ r.parent \notin ids}
         /\ Remove(t, ids).records = {c \in t.records : c.run \notin Family(t, ids)}
<1> DEFINE t1 == DeleteRecords(t, Family(t, ids))
           t2 == DeleteChildren(t1, ids)
           t3 == DeleteRuns(t2, ids)
<1>1. IsTables(t1) /\ t1.runs = t.runs /\ t1.records = {c \in t.records : c.run \notin Family(t, ids)}
  BY Deleted
<1> HIDE DEF t1
<1>2. IsTables(t2) /\ t2.runs = {r \in t1.runs : r.parent \notin ids} /\ t2.records = t1.records
  BY <1>1, Deleted
<1> HIDE DEF t2
<1>3. IsTables(t3) /\ t3.runs = {r \in t2.runs : r.id \notin ids} /\ t3.records = t2.records
  BY <1>2, Deleted
<1> HIDE DEF t3
<1>4. Remove(t, ids) = t3
  BY DEF Remove, t1, t2, t3
<1> QED BY <1>1, <1>2, <1>3, <1>4

-----------------------------------------------------------------------------
(* The kinds of steps *)

Inserting(row, size) ==
  /\ IsRow(row) /\ row.id = nextId /\ row.parent \in 1..(nextId - 1) \cup {None}
  /\ row.started \in Nat
  /\ db' = [runs |-> db.runs \cup {row}, records |-> db.records \cup Inserted(nextId, size)]
  /\ nextId' = nextId + 1
  /\ settled' = settled \ {row.parent}

Finishing(i) ==
  /\ db' = Finished(db, i)
  /\ settled' = (settled \cup ({i} \cap RunIds(db))) \ ParentsOf({i})
  /\ UNCHANGED nextId

\* Delete and evict: no parent of what goes stays settled.
Removing(ids) ==
  /\ ids \subseteq 1..(nextId - 1)
  /\ db' = Remove(db, ids)
  /\ settled' \subseteq settled
  /\ \A r \in db.runs : r.id \in ids => r.parent \notin settled'
  /\ UNCHANGED nextId

Standing == UNCHANGED <<db, nextId, settled>>

LEMMA EvictKinds ==
  ASSUME IdInv, NEW op, NEW arg, Evict(op, arg)
  PROVE  (\E ids : Removing(ids)) \/ Standing
<1> DEFINE doomed == Doomed(db, op, arg)
           ids == {r.id : r \in doomed}
<1>1. doomed \subseteq db.runs /\ \A r \in doomed : r.parent = None
  BY DEF Doomed, OlderThan, BeyondNewest, TopLevel
<1> HIDE DEF doomed
<1>2. CASE db' = Remove(db, ids) /\ settled' = settled \cap RunIds(db') /\ UNCHANGED nextId
  <2>1. ids \subseteq 1..(nextId - 1)
    BY <1>1 DEF IdInv
  <2>2. \A r \in db.runs : r.id \in ids => r.parent = None
    BY <1>1 DEF IdInv
  <2>3. None \notin settled
    <3>1. 1..(nextId - 1) \subseteq Nat
      BY DEF IdInv
    <3> QED BY <3>1, ColumnsAssumption DEF IdInv
  <2> HIDE DEF ids
  <2> QED BY <1>2, <2>1, <2>2, <2>3 DEF Removing
<1>3. \/ db' = Remove(db, ids) /\ settled' = settled \cap RunIds(db') /\ UNCHANGED nextId
      \/ Standing
  BY DEF Evict, Fails, Standing, doomed
<1> QED BY <1>2, <1>3

LEMMA Kinds ==
  ASSUME IdInv, [Next]_vars
  PROVE  \/ \E row, size : Inserting(row, size)
         \/ \E i : Finishing(i)
         \/ \E ids : Removing(ids)
         \/ Standing
<1>1. CASE StartRun
  <2> DEFINE row == [id |-> nextId, parent |-> None, started |-> now,
                     finished |-> FALSE, count |-> None]
  <2>1. /\ Insert("StartRun", row, 0) /\ IsRow(row) /\ row.id = nextId /\ row.parent = None
        /\ row.started \in Nat
    BY <1>1 DEF StartRun, IsRow, IdInv
  <2> HIDE DEF row
  <2>2. Inserting(row, 0) \/ Standing
    BY <2>1 DEF Insert, Fails, Inserting, Standing
  <2> QED BY <2>2
<1>2. ASSUME NEW parent, NEW started \in Times, NEW count, NEW size, Add(parent, started, count, size)
      PROVE  (\E row, n : Inserting(row, n)) \/ Standing
  <2> DEFINE row == [id |-> nextId, parent |-> parent, started |-> started,
                     finished |-> TRUE, count |-> count]
  <2>1. /\ Insert("Add", row, size) /\ IsRow(row) /\ row.id = nextId /\ row.parent = parent
        /\ parent \in Held \cup {None} /\ row.started \in Nat
    BY <1>2, BoundsAssumption DEF Add, IsRow, Times
  <2> HIDE DEF row
  <2>2. Inserting(row, size) \/ Standing
    BY <2>1 DEF Insert, Fails, Inserting, Standing, Held
  <2> QED BY <2>2
<1>3. ASSUME NEW i, FinishRun(i)
      PROVE  Finishing(i) \/ Standing
  BY <1>3 DEF FinishRun, Fails, Finishing, Standing
<1>4. ASSUME NEW i, Delete(i)
      PROVE  Removing({i}) \/ Standing
  <2>1. CASE db' = Remove(db, {i}) /\ settled' = (settled \ ParentsOf({i})) \cap RunIds(db')
             /\ UNCHANGED nextId
    <3>1. \A r \in db.runs : r.id \in {i} => r.parent \in ParentsOf({i})
      BY DEF ParentsOf
    <3>2. {i} \subseteq 1..(nextId - 1)
      BY <1>4 DEF Delete, Held
    <3> QED BY <2>1, <3>1, <3>2 DEF Removing
  <2> QED BY <1>4, <2>1 DEF Delete, Fails, Standing
<1>5. ASSUME NEW before, Prune(before)
      PROVE  (\E ids : Removing(ids)) \/ Standing
  BY <1>5, EvictKinds DEF Prune
<1>6. ASSUME NEW n, Retain(n)
      PROVE  (\E ids : Removing(ids)) \/ Standing
  BY <1>6, EvictKinds DEF Retain
<1>7. CASE Tick \/ UNCHANGED vars
  BY <1>7 DEF Tick, vars, Standing
<1> QED BY <1>1, <1>2, <1>3, <1>4, <1>5, <1>6, <1>7 DEF Next

-----------------------------------------------------------------------------
(* The steps *)

\* What an insertion and an update make of the tables.
LEMMA Insertion ==
  ASSUME NEW row, NEW size, Inserting(row, size)
  PROVE  /\ IsTables(db)' /\ db'.runs = db.runs \cup {row}
         /\ db'.records = db.records \cup Inserted(nextId, size)
         /\ \A c \in Inserted(nextId, size) : c.run = nextId
<1>1. \A c \in Inserted(nextId, size) : c.run = nextId
  BY DEF Inserted
<1> DEFINE R == db.runs \cup {row}
           C == db.records \cup Inserted(nextId, size)
<1>2. db' = [runs |-> R, records |-> C]
  BY DEF Inserting
<1> HIDE DEF R, C
<1>3. db'.runs = R /\ db'.records = C /\ db' \in [runs : {R}, records : {C}]
  BY <1>2
<1> QED BY <1>1, <1>3 DEF IsTables, R, C

Finish(r, i) == IF r.id = i THEN [r EXCEPT !.finished = TRUE, !.count = SumOfChildren(db, i)] ELSE r

LEMMA Update ==
  ASSUME IsTables(db), NEW i, Finishing(i)
  PROVE  /\ IsTables(db)' /\ db'.records = db.records
         /\ db'.runs = {Finish(r, i) : r \in db.runs}
<1> DEFINE S == {IF r.id = i THEN [r EXCEPT !.finished = TRUE, !.count = SumOfChildren(db, i)]
                 ELSE r : r \in db.runs}
           R == db.runs
           C == db.records
<1>1. db' = [db EXCEPT !.runs = S]
  BY DEF Finishing, Finished
<1>2. S = {Finish(r, i) : r \in db.runs}
  BY DEF Finish
<1>3. db \in [runs : {R}, records : {C}]
  BY DEF IsTables
<1> HIDE DEF S, R, C
<1>4. db' \in [runs : {S}, records : {C}] /\ db'.runs = S /\ db'.records = C
  BY <1>1, <1>3
<1> USE DEF C
<1> QED BY <1>2, <1>4 DEF IsTables

\* An update keeps ids and parents.
LEMMA FinishedRow ==
  ASSUME IdInv, NEW i, NEW r \in db.runs
  PROVE  /\ IsRow(Finish(r, i))
         /\ Finish(r, i).id = r.id /\ Finish(r, i).parent = r.parent
         /\ Finish(r, i).started = r.started
         /\ r.id = i => Finish(r, i).finished /\ Finish(r, i).count = SumOfChildren(db, i)
         /\ r.id # i => Finish(r, i) = r
<1> DEFINE sum == SumOfChildren(db, i)
           f == [r EXCEPT !.finished = TRUE, !.count = sum]
<1>1. IsRow(r)
  BY DEF IdInv
<1> HIDE DEF sum
<1>2. /\ f.id = r.id /\ f.parent = r.parent /\ f.started = r.started
      /\ f.finished = TRUE /\ f.count = sum
  BY <1>1 DEF IsRow
<1>3. f \in [id : {r.id}, parent : {r.parent}, started : {r.started}, finished : {TRUE}, count : {sum}]
  BY <1>1 DEF IsRow
<1> USE DEF sum
<1>4. Finish(r, i) = IF r.id = i THEN f ELSE r
  BY DEF Finish
<1> HIDE DEF f
<1>5. IsRow(f)
  BY <1>2, <1>3 DEF IsRow
<1> QED BY <1>1, <1>2, <1>4, <1>5

LEMMA IdStep ==
  ASSUME IsTables(db), IdInv, [Next]_vars
  PROVE  IsTables(db)' /\ IdInv'
<1>5. now' \in Nat
  <2>1. ASSUME NEW op, NEW arg, Evict(op, arg) PROVE now' = now
    BY <2>1 DEF Evict, Fails
  <2>2. ASSUME NEW op, NEW row, NEW size, Insert(op, row, size) PROVE now' = now
    BY <2>2 DEF Insert, Fails
  <2>3. ASSUME NEW i, FinishRun(i) \/ Delete(i) PROVE now' = now
    BY <2>3 DEF FinishRun, Delete, Fails
  <2>4. now' = now \/ now' = now + 1
    BY <2>1, <2>2, <2>3 DEF Next, StartRun, Add, Prune, Retain, Tick, vars
  <2> QED BY <2>4 DEF IdInv
<1>1. ASSUME NEW row, NEW size, Inserting(row, size)
      PROVE  IsTables(db)' /\ IdInv'
  <2>1. nextId' = nextId + 1 /\ settled' \subseteq settled /\ nextId \in Nat \ {0}
    BY <1>1 DEF Inserting, IdInv
  <2>2. 1..(nextId - 1) \subseteq 1..(nextId' - 1) /\ nextId \in 1..(nextId' - 1)
        /\ nextId \notin 1..(nextId - 1)
    BY <2>1
  <2>3. IsTables(db)' /\ db'.runs = db.runs \cup {row}
    BY <1>1, Insertion
  <2>4. /\ IsRow(row) /\ row.id = nextId /\ row.parent \in 1..(nextId - 1) \cup {None}
        /\ row.started \in Nat
    BY <1>1 DEF Inserting
  <2>5. IsFiniteSet(db'.runs)
    BY <2>3, FS_AddElement DEF IdInv
  <2>6. \A r \in db'.runs : /\ r.id \in 1..(nextId' - 1) /\ r.parent \in 1..(nextId' - 1) \cup {None}
                            /\ IsRow(r) /\ r.started \in Nat
    BY <2>2, <2>3, <2>4 DEF IdInv
  <2>7. \A r, s \in db'.runs : r.id = s.id => r = s
    BY <2>2, <2>3, <2>4 DEF IdInv
  <2>8. nextId' \in Nat \ {0} /\ settled' \subseteq 1..(nextId' - 1)
    BY <2>1, <2>2 DEF IdInv
  <2> QED BY <1>5, <2>3, <2>5, <2>6, <2>7, <2>8 DEF IdInv
<1>2. ASSUME NEW i, Finishing(i)
      PROVE  IsTables(db)' /\ IdInv'
  <2>1. IsTables(db)' /\ db'.runs = {Finish(r, i) : r \in db.runs} /\ UNCHANGED nextId
    BY <1>2, Update DEF Finishing
  <2>2. settled' \subseteq settled \cup RunIds(db)
    BY <1>2 DEF Finishing
  <2>3. RunIds(db) \subseteq 1..(nextId - 1)
    BY DEF RunIds, IdInv
  <2>4. \A r \in db'.runs : IsRow(r) /\ r.started \in Nat /\ \E s \in db.runs : r.id = s.id /\ r.parent = s.parent
    BY <2>1, FinishedRow DEF IdInv
  <2>5. \A r, s \in db'.runs : r.id = s.id => r = s
    BY <2>1, FinishedRow DEF IdInv
  <2>6. IsFiniteSet(db'.runs)
    <3> DEFINE f == [r \in db.runs |-> Finish(r, i)]
    <3>1. f \in Surjection(db.runs, db'.runs)
      BY <2>1 DEF Surjection
    <3> QED BY <3>1, FS_Surjection DEF IdInv
  <2> QED BY <1>5, <2>1, <2>2, <2>3, <2>4, <2>5, <2>6 DEF IdInv
<1>3. ASSUME NEW ids, Removing(ids)
      PROVE  IsTables(db)' /\ IdInv'
  <2>1. IsTables(db)' /\ db'.runs \subseteq db.runs /\ settled' \subseteq settled /\ UNCHANGED nextId
    BY <1>3, Removed DEF Removing
  <2>2. IsFiniteSet(db'.runs)
    BY <2>1, FS_Subset DEF IdInv
  <2> QED BY <1>5, <2>1, <2>2 DEF IdInv
<1>4. CASE Standing
  BY <1>4, <1>5 DEF Standing, IdInv, IsTables
<1> QED BY Kinds, <1>1, <1>2, <1>3, <1>4

LEMMA OrphanStep ==
  ASSUME IsTables(db), IdInv, NoOrphanRecords, [Next]_vars
  PROVE  NoOrphanRecords'
<1>1. ASSUME NEW row, NEW size, Inserting(row, size)
      PROVE  NoOrphanRecords'
  <2>1. row.id = nextId
    BY <1>1 DEF Inserting
  <2> QED BY <1>1, <2>1, Insertion DEF NoOrphanRecords, RunIds
<1>2. ASSUME NEW i, Finishing(i)
      PROVE  NoOrphanRecords'
  <2>1. db'.records = db.records /\ RunIds(db') = RunIds(db)
    BY <1>2, Update, FinishedRow DEF RunIds
  <2> QED BY <2>1 DEF NoOrphanRecords
<1>3. ASSUME NEW ids, Removing(ids)
      PROVE  NoOrphanRecords'
  <2>1. /\ db'.runs = {r \in db.runs : r.id \notin ids /\ r.parent \notin ids}
        /\ db'.records = {c \in db.records : c.run \notin Family(db, ids)}
    BY <1>3, Removed DEF Removing
  <2>2. \A r \in db.runs : r.id \notin Family(db, ids) => r.id \notin ids /\ r.parent \notin ids
    BY DEF Family
  <2> QED BY <2>1, <2>2 DEF NoOrphanRecords, RunIds
<1>4. CASE Standing
  BY <1>4 DEF Standing, NoOrphanRecords
<1> QED BY Kinds, <1>1, <1>2, <1>3, <1>4

LEMMA SumStep ==
  ASSUME IsTables(db), IdInv, CountsAreSums, [Next]_vars
  PROVE  CountsAreSums'
<1> USE DEF CountsAreSums
<1>1. ASSUME NEW p, Children(db', p) = Children(db, p)
      PROVE  SumOfChildren(db', p) = SumOfChildren(db, p)
  BY <1>1 DEF SumOfChildren
<1>2. ASSUME NEW row, NEW size, Inserting(row, size)
      PROVE  CountsAreSums'
  <2>1. db'.runs = db.runs \cup {row} /\ settled' = settled \ {row.parent} /\ row.id = nextId
    BY <1>2, Insertion DEF Inserting
  <2>2. nextId \notin settled
    BY DEF IdInv
  <2>3. ASSUME NEW r \in db'.runs, r.id \in settled'
        PROVE  r \in db.runs /\ r.id \in settled /\ Children(db', r.id) = Children(db, r.id)
    BY <2>1, <2>2, <2>3 DEF Children
  <2> QED BY <1>1, <2>3
<1>3. ASSUME NEW i, Finishing(i)
      PROVE  CountsAreSums'
  <2>1. /\ db'.runs = {Finish(r, i) : r \in db.runs}
        /\ settled' = (settled \cup ({i} \cap RunIds(db))) \ ParentsOf({i})
    BY <1>3, Update DEF Finishing
  <2>2. ASSUME NEW p, p \notin ParentsOf({i})
        PROVE  Children(db', p) = Children(db, p)
    <3>1. \A s \in db.runs : s.parent = p => s.id # i
      BY <2>2 DEF ParentsOf
    <3> QED BY <2>1, <3>1, FinishedRow DEF Children
  <2>3. ASSUME NEW q \in db'.runs, q.id \in settled'
        PROVE  q.finished /\ q.count = SumOfChildren(db', q.id)
    <3>1. PICK r \in db.runs : q = Finish(r, i)
      BY <2>1
    <3>2. q.id = r.id
      BY <3>1, FinishedRow
    <3>3. r.id \notin ParentsOf({i})
      BY <2>1, <2>3, <3>2
    <3>4. Children(db', r.id) = Children(db, r.id)
      BY <2>2, <3>3
    <3>5. SumOfChildren(db', r.id) = SumOfChildren(db, r.id)
      BY <1>1, <3>4
    <3>6. CASE r.id = i
      BY <3>1, <3>2, <3>6, <3>5, FinishedRow
    <3>7. CASE r.id # i
      BY <2>1, <2>3, <3>1, <3>2, <3>7, <3>5, FinishedRow
    <3> QED BY <3>6, <3>7
  <2> QED BY <2>3
<1>4. ASSUME NEW ids, Removing(ids)
      PROVE  CountsAreSums'
  <2>1. /\ db'.runs = {r \in db.runs : r.id \notin ids /\ r.parent \notin ids}
        /\ settled' \subseteq settled
        /\ \A r \in db.runs : r.id \in ids => r.parent \notin settled'
    BY <1>4, Removed DEF Removing
  <2>2. ASSUME NEW r \in db'.runs, r.id \in settled'
        PROVE  r \in db.runs /\ r.id \in settled /\ Children(db', r.id) = Children(db, r.id)
    BY <2>1, <2>2 DEF Children
  <2> QED BY <1>1, <2>2
<1>5. CASE Standing
  BY <1>5 DEF Standing
<1> QED BY Kinds, <1>2, <1>3, <1>4, <1>5

-----------------------------------------------------------------------------
(* Theorems *)

LEMMA Initially == Init => IndInv
<1> SUFFICES ASSUME Init PROVE IndInv
  OBVIOUS
<1>1. db \in [runs : {{}}, records : {{}}] /\ db.runs = {} /\ db.records = {}
  BY DEF Init
<1>2. IsTables(db)
  BY <1>1 DEF IsTables
<1> QED BY <1>1, <1>2, FS_EmptySet DEF Init, IndInv, IdInv, NoOrphanRecords, CountsAreSums

LEMMA Inductive == IndInv /\ [Next]_vars => IndInv'
BY IdStep, OrphanStep, SumStep DEF IndInv

LEMMA Always == Spec => []IndInv
BY Initially, Inductive, PTL DEF Spec

\* Delete and evict remove the records they can look up by the children before the
\* children: no record is left without its run.
THEOREM NoOrphansHold == Spec => []NoOrphanRecords
<1>1. IndInv => NoOrphanRecords
  BY DEF IndInv
<1> QED BY <1>1, Always, PTL

\* The count of a run that FinishRun has closed is the sum of its children until
\* one of them comes, goes or is finished, in tables of any size.
THEOREM SumsHold == Spec => []CountsAreSums
<1>1. IndInv => CountsAreSums
  BY DEF IndInv
<1> QED BY <1>1, Always, PTL

\* Delete, Prune and Retain take a run with its children and all their records.
THEOREM NothingLeftBehindHolds == Spec => NothingLeftBehind
<1> DEFINE Gone == \A r \in TopLevel(db) : r.id \notin RunIds(db') =>
                     /\ Children(db', r.id) = {}
                     /\ \A i \in Family(db, {r.id}) : RecordsOf(db', i) = {}
<1>1. ASSUME IndInv, [Next]_vars
      PROVE  Gone
  <2> SUFFICES ASSUME NEW r \in TopLevel(db), r.id \notin RunIds(db')
               PROVE  /\ Children(db', r.id) = {}
                      /\ \A i \in Family(db, {r.id}) : RecordsOf(db', i) = {}
    OBVIOUS
  <2>1. IsTables(db) /\ IdInv /\ r \in db.runs /\ r.parent = None
    BY <1>1 DEF IndInv, TopLevel
  <2>2. ASSUME NEW row, NEW size, Inserting(row, size) PROVE r.id \in RunIds(db')
    BY <2>1, <2>2, Insertion DEF RunIds
  <2>3. ASSUME NEW i, Finishing(i) PROVE r.id \in RunIds(db')
    BY <2>1, <2>3, Update, FinishedRow DEF RunIds
  <2>4. CASE Standing
    BY <2>1, <2>4 DEF Standing, RunIds
  <2>5. ASSUME NEW ids, Removing(ids)
        PROVE  /\ Children(db', r.id) = {}
               /\ \A i \in Family(db, {r.id}) : RecordsOf(db', i) = {}
    <3>1. /\ db'.runs = {s \in db.runs : s.id \notin ids /\ s.parent \notin ids}
          /\ db'.records = {c \in db.records : c.run \notin Family(db, ids)}
          /\ ids \subseteq 1..(nextId - 1)
      BY <2>1, <2>5, Removed DEF Removing
    <3>2. None \notin ids
      <4>1. 1..(nextId - 1) \subseteq Nat
        BY <2>1 DEF IdInv
      <4> QED BY <3>1, <4>1, ColumnsAssumption
    <3>3. r.id \in ids
      BY <2>1, <3>1, <3>2 DEF RunIds
    <3>4. Family(db, {r.id}) \subseteq Family(db, ids)
      BY <3>3 DEF Family
    <3> QED BY <3>1, <3>3, <3>4 DEF Children, RecordsOf
  <2> QED BY <1>1, <2>1, <2>2, <2>3, <2>4, <2>5, Kinds
<1>2. IndInv /\ [Next]_vars => [Gone]_vars
  BY <1>1
<1> QED BY <1>2, Always, PTL DEF Spec, NothingLeftBehind

-----------------------------------------------------------------------------
(* A run and its records come together. *)

\* The chunks of insertRecords cover every record once, whatever recordChunk is
\* and whether or not it divides the number of records.
LEMMA ChunksCover ==
  ASSUME NEW i, NEW size \in Nat
  PROVE  Inserted(i, size) = {[run |-> i, n |-> k] : k \in 1..size}
<1> USE BoundsAssumption
<1> DEFINE Starts == {s \in 0..size : s % RecordChunk = 0 /\ s < size}
           Chunk(s) == (s + 1)..(IF s + RecordChunk < size THEN s + RecordChunk ELSE size)
<1>1. \A s \in Starts : Chunk(s) \subseteq 1..size
  OBVIOUS
<1>2. ASSUME NEW k \in 1..size
      PROVE  \E s \in Starts : k \in Chunk(s)
  <2> DEFINE q == (k - 1) \div RecordChunk
             s == q * RecordChunk
  <2>1. q \in Nat /\ s <= k - 1 /\ k - 1 < s + RecordChunk
    OBVIOUS
  <2>2. q \in Nat => s \in Nat /\ s % RecordChunk = 0
    <3> HIDE DEF q
    <3> QED OBVIOUS
  <2> HIDE DEF s
  <2>3. s \in Starts /\ k \in Chunk(s)
    BY <2>1, <2>2
  <2> QED BY <2>3
<1>3. Inserted(i, size) = UNION {{[run |-> i, n |-> k] : k \in Chunk(s)} : s \in Starts}
  BY DEF Inserted
<1> HIDE DEF Starts, Chunk
<1> QED BY <1>1, <1>2, <1>3

\* So Add stores exactly as many as it is given.
LEMMA InsertedCount ==
  ASSUME NEW i, NEW size \in Nat
  PROVE  Cardinality(Inserted(i, size)) = size
<1> DEFINE f == [k \in 1..size |-> [run |-> i, n |-> k]]
<1> DEFINE T == {[run |-> i, n |-> k] : k \in 1..size}
<1>1. \A k, m \in 1..size : f[k] = f[m] => k = m
  <2> SUFFICES ASSUME NEW k \in 1..size, NEW m \in 1..size, f[k] = f[m] PROVE k = m
    OBVIOUS
  <2>1. f[k].n = k /\ f[m].n = m
    OBVIOUS
  <2> QED BY <2>1
<1>2. f \in [1..size -> T] /\ \A t \in T : \E k \in 1..size : f[k] = t
  OBVIOUS
<1> HIDE DEF f
<1>3. f \in Bijection(1..size, T)
  BY <1>1, <1>2 DEF Bijection, Injection, IsInjective, Surjection
<1>4. Inserted(i, size) = T
  BY ChunksCover
<1>5. ExistsBijection(1..size, Inserted(i, size))
  BY <1>3, <1>4 DEF ExistsBijection
<1> QED BY <1>5, FS_Bijection, FS_Interval

\* The last Add has stored all its records.
AddComplete ==
  reply.op = "Add" /\ ~reply.err => Cardinality(RecordsOf(db, nextId - 1)) = reply.arg

LEMMA AddStep ==
  ASSUME IndInv, AddComplete, [Next]_vars
  PROVE  AddComplete'
<1>1. ASSUME NEW parent, NEW started \in Times, NEW count, NEW size \in {0, MaxRecords},
             Add(parent, started, count, size)
      PROVE  AddComplete'
  <2> DEFINE row == [id |-> nextId, parent |-> parent, started |-> started,
                     finished |-> TRUE, count |-> count]
  <2>1. Insert("Add", row, size) /\ size \in Nat /\ nextId \in Nat
    BY <1>1, BoundsAssumption DEF Add, IndInv, IdInv
  <2> HIDE DEF row
  <2>2. CASE Fails("Add", size)
    BY <2>2 DEF Fails, Reply, AddComplete
  <2>3. CASE /\ db' = [runs |-> db.runs \cup {row},
                       records |-> db.records \cup Inserted(nextId, size)]
             /\ nextId' = nextId + 1 /\ Returned("Add", size, 0, {"log"})
    <3>1. db'.records = db.records \cup Inserted(nextId, size)
      BY <2>3
    <3>2. \A c \in db.records : c.run # nextId
      BY DEF IndInv, IdInv, NoOrphanRecords, RunIds
    <3>3. \A c \in Inserted(nextId, size) : c.run = nextId
      BY DEF Inserted
    <3>4. nextId' - 1 = nextId
      BY <2>1, <2>3
    <3>5. RecordsOf(db', nextId) = Inserted(nextId, size)
      BY <3>1, <3>2, <3>3 DEF RecordsOf
    <3>6. reply'.arg = size
      BY <2>3 DEF Returned, Reply
    <3> QED BY <2>1, <3>4, <3>5, <3>6, InsertedCount DEF AddComplete
  <2> QED BY <2>1, <2>2, <2>3 DEF Insert
<1>2. ASSUME reply'.op # "Add"
      PROVE  AddComplete'
  BY <1>2 DEF AddComplete
<1>3. CASE StartRun
  BY <1>2, <1>3 DEF StartRun, Insert, Fails, Returned, Reply, NoReply
<1>4. ASSUME NEW i, FinishRun(i) \/ Delete(i) PROVE AddComplete'
  BY <1>2, <1>4 DEF FinishRun, Delete, Fails, Reply, NoReply
<1>5. ASSUME NEW op \in {"Prune", "Retain"}, NEW arg, Evict(op, arg) PROVE AddComplete'
  BY <1>2, <1>5 DEF Evict, Fails, Returned, Reply
<1>6. CASE Tick \/ UNCHANGED vars
  BY <1>6 DEF Tick, vars, AddComplete
<1> QED BY <1>1, <1>3, <1>4, <1>5, <1>6 DEF Next, Prune, Retain

\* Add is all or nothing, chunk by chunk as it inserts, and Delete and evict leave
\* no record behind: a run and its records come and go together.
THEOREM RecordsFollowRunsHolds == Spec => []RecordsFollowRuns
<1>1. Init => AddComplete
  BY DEF Init, NoReply, AddComplete
<1>2. IndInv /\ AddComplete /\ [Next]_vars => AddComplete'
  BY AddStep
<1>3. IndInv /\ AddComplete => RecordsFollowRuns
  BY DEF IndInv, AddComplete, RecordsFollowRuns
<1> QED BY <1>1, <1>2, <1>3, Always, PTL DEF Spec

-----------------------------------------------------------------------------
(* Evictions are exact. *)

\* How many of T come before r in ORDER BY started_at DESC, id DESC.
Rank(T, r) == Cardinality({s \in T : Later(s, r)})

\* T is a finite set of rows that the order of Recent tells apart.
Ordered(T) ==
  /\ IsFiniteSet(T)
  /\ \A r \in T : r.id \in Int /\ r.started \in Int
  /\ \A r, s \in T : r.id = s.id => r = s

LEMMA RankMonotone ==
  ASSUME NEW T, Ordered(T), NEW r \in T, NEW s \in T, Later(s, r)
  PROVE  Rank(T, s) < Rank(T, r)
<1> DEFINE Before(x) == {u \in T : Later(u, x)}
<1>1. Before(s) \subseteq Before(r) /\ s \in Before(r) /\ s \notin Before(s)
  BY DEF Ordered, Later
<1>2. IsFiniteSet(Before(s)) /\ IsFiniteSet(Before(r))
  BY FS_Subset DEF Ordered
<1> HIDE DEF Before
<1>3. Cardinality(Before(s)) <= Cardinality(Before(r)) /\ Cardinality(Before(s)) # Cardinality(Before(r))
  BY <1>1, <1>2, FS_Subset
<1>4. Cardinality(Before(s)) \in Nat /\ Cardinality(Before(r)) \in Nat
  BY <1>2, FS_CardinalityType
<1>5. Cardinality(Before(s)) < Cardinality(Before(r))
  BY <1>3, <1>4
<1> QED BY <1>5 DEF Rank, Before

\* The ranks of T are 0, 1, ... without a gap.
LEMMA RanksDense ==
  ASSUME NEW T, Ordered(T)
  PROVE  [r \in T |-> Rank(T, r)] \in Bijection(T, 0..(Cardinality(T) - 1))
<1> DEFINE f == [r \in T |-> Rank(T, r)]
           m == Cardinality(T)
<1>1. m \in Nat /\ IsFiniteSet(T)
  BY FS_CardinalityType DEF Ordered
<1>2. ASSUME NEW r \in T
      PROVE  Rank(T, r) \in 0..(m - 1)
  <2> DEFINE B == {s \in T : Later(s, r)}
  <2>1. B \in SUBSET T /\ r \notin B
    BY DEF Ordered, Later
  <2> HIDE DEF B
  <2>2. Cardinality(B) \in Nat /\ Cardinality(B) <= m /\ Cardinality(B) # m
    BY <1>1, <2>1, FS_Subset, FS_CardinalityType
  <2>3. Cardinality(B) \in 0..(m - 1)
    BY <1>1, <2>2
  <2> QED BY <2>3 DEF Rank, B
<1>3. ASSUME NEW r \in T, NEW s \in T, Rank(T, r) = Rank(T, s)
      PROVE  r = s
  <2>1. r # s => Later(r, s) \/ Later(s, r)
    BY DEF Ordered, Later
  <2>2. Rank(T, r) \in Int /\ Rank(T, s) \in Int
    BY <1>2
  <2> QED BY <1>3, <2>1, <2>2, RankMonotone
<1>4. f \in Injection(T, 0..(m - 1))
  BY <1>2, <1>3 DEF Injection, IsInjective
<1>5. IsFiniteSet(0..(m - 1)) /\ Cardinality(0..(m - 1)) = m
  BY <1>1, FS_Interval
<1> HIDE DEF f, m
<1>6. f \in Surjection(T, 0..(m - 1))
  BY <1>4, <1>5, FS_Injection DEF m
<1> QED BY <1>4, <1>6 DEF Bijection, f, m

\* So the first n are n rows, or all there are.
LEMMA FirstCount ==
  ASSUME NEW T, Ordered(T), NEW n \in Nat
  PROVE  Cardinality({r \in T : Rank(T, r) < n}) = IF Cardinality(T) < n THEN Cardinality(T) ELSE n
<1> DEFINE m == Cardinality(T)
           k == IF m < n THEN m ELSE n
           F == {r \in T : Rank(T, r) < n}
           f == [r \in T |-> Rank(T, r)]
           g == [r \in F |-> Rank(T, r)]
<1>1. m \in Nat /\ IsFiniteSet(T)
  BY FS_CardinalityType DEF Ordered
<1>2. /\ \A r \in T : Rank(T, r) \in 0..(m - 1)
      /\ \A r, s \in T : Rank(T, r) = Rank(T, s) => r = s
      /\ \A i \in 0..(m - 1) : \E r \in T : Rank(T, r) = i
  <2>1. f \in [T -> 0..(m - 1)] /\ IsInjective(f) /\ \A i \in 0..(m - 1) : \E r \in T : f[r] = i
    BY RanksDense DEF Bijection, Injection, Surjection
  <2>2. \A r \in T : f[r] = Rank(T, r)
    OBVIOUS
  <2>3. DOMAIN f = T
    OBVIOUS
  <2> HIDE DEF f
  <2> QED BY <2>1, <2>2, <2>3 DEF IsInjective
<1>3. /\ \A r \in F : g[r] \in 0..(k - 1)
      /\ \A i \in 0..(k - 1) : \E r \in F : g[r] = i
      /\ \A r, s \in F : g[r] = g[s] => r = s
  <2> HIDE DEF m
  <2> QED BY <1>1, <1>2
<1>4. g \in [F -> 0..(k - 1)]
  BY <1>3
<1>5. DOMAIN g = F
  OBVIOUS
<1>6. IsFiniteSet(F)
  BY <1>1, FS_Subset
<1>7. IsFiniteSet(0..(k - 1)) /\ Cardinality(0..(k - 1)) = k
  <2>1. k \in Nat
    BY <1>1
  <2> HIDE DEF k
  <2> QED BY <2>1, FS_Interval
<1> HIDE DEF g, F, k
<1>8. g \in Bijection(F, 0..(k - 1))
  BY <1>3, <1>4, <1>5 DEF Bijection, Injection, IsInjective, Surjection
<1>9. ExistsBijection(F, 0..(k - 1))
  BY <1>8 DEF ExistsBijection
<1>10. Cardinality(F) = k
  BY <1>6, <1>7, <1>9, FS_Bijection
<1> QED BY <1>10 DEF F, k

\* The rows of ids and of their children are those whose id is in Family.
LEMMA FamilyRows ==
  ASSUME IndInv, NEW ids, NEW r \in db.runs
  PROVE  r.id \in Family(db, ids) <=> r.id \in ids \/ r.parent \in ids
<1>1. \A s \in db.runs : s.id = r.id => s = r
  BY DEF IndInv, IdInv
<1>2. r.id \in Family(db, ids) <=> r.id \in ids \/ \E s \in db.runs : s.parent \in ids /\ s.id = r.id
  BY DEF Family
<1> QED BY <1>1, <1>2

\* What an eviction whose transaction does not fail leaves and reports.
LEMMA EvictionLeaves ==
  ASSUME IndInv, NEW op \in {"Prune", "Retain"}, NEW arg, Evict(op, arg), ~Fails(op, arg)
  PROVE  /\ TopLevel(db') = TopLevel(db) \ Doomed(db, op, arg)
         /\ db'.runs = {r \in db.runs : r.id \notin Family(db, {d.id : d \in Doomed(db, op, arg)})}
         /\ db'.records = {c \in db.records :
                              c.run \notin Family(db, {d.id : d \in Doomed(db, op, arg)})}
         /\ reply'.op = op /\ reply'.arg = arg
         /\ reply'.removed = Cardinality(Doomed(db, op, arg))
<1> DEFINE doomed == Doomed(db, op, arg)
           ids == {d.id : d \in doomed}
<1>1. doomed \subseteq TopLevel(db)
  BY DEF Doomed, OlderThan, BeyondNewest
<1> HIDE DEF doomed
<1>2. CASE doomed = {} /\ Returned(op, arg, 0, {"log"}) /\ UNCHANGED db
  <2>1. Cardinality(doomed) = 0
    BY <1>2, FS_EmptySet
  <2>2. reply'.op = op /\ reply'.arg = arg /\ reply'.removed = 0
    BY <1>2 DEF Returned, Reply
  <2>3. Family(db, ids) = {}
    BY <1>2 DEF Family
  <2>4. db'.runs = db.runs /\ db'.records = db.records /\ TopLevel(db') = TopLevel(db) \ doomed
    BY <1>2
  <2> QED BY <2>1, <2>2, <2>3, <2>4 DEF doomed
<1>3. CASE /\ db' = Remove(db, ids)
           /\ Returned(op, arg, Cardinality(doomed), {"checkpoint", "log"})
  <2>1. reply'.op = op /\ reply'.arg = arg /\ reply'.removed = Cardinality(doomed)
    BY <1>3 DEF Returned, Reply
  <2>2. /\ db'.runs = {r \in db.runs : r.id \notin ids /\ r.parent \notin ids}
        /\ db'.records = {c \in db.records : c.run \notin Family(db, ids)}
    BY <1>3, Removed DEF IndInv
  <2>3. None \notin ids
    <3>1. \A r \in doomed : r.id \in Nat
      BY <1>1 DEF TopLevel, IndInv, IdInv
    <3> QED BY <3>1, ColumnsAssumption
  <2>4. \A r \in TopLevel(db) : r.id \in ids <=> r \in doomed
    BY <1>1 DEF TopLevel, IndInv, IdInv
  <2> HIDE DEF ids
  <2>5. TopLevel(db') = TopLevel(db) \ doomed
    BY <2>2, <2>3, <2>4 DEF TopLevel
  <2>6. db'.runs = {r \in db.runs : r.id \notin Family(db, ids)}
    BY <2>2, FamilyRows
  <2> QED BY <2>1, <2>2, <2>5, <2>6 DEF doomed, ids
<1> QED BY <1>2, <1>3 DEF Evict, doomed

\* The rows of the tables that retention ranks.
LEMMA TopLevelOrdered == IndInv => Ordered(TopLevel(db))
<1> SUFFICES ASSUME IndInv PROVE Ordered(TopLevel(db))
  OBVIOUS
<1>1. IsFiniteSet(TopLevel(db))
  BY FS_Subset DEF TopLevel, IndInv, IdInv
<1> QED BY <1>1 DEF TopLevel, Ordered, IndInv, IdInv

\* Retain leaves the first n in the order of Recent.
LEMMA RetainExact ==
  ASSUME IndInv, NEW n \in Nat, TopLevel(db') = TopLevel(db) \ BeyondNewest(db, n)
  PROVE  TopLevel(db') \in RecentAnswers(db, n)
<1> DEFINE T == TopLevel(db)
           F == {r \in T : Rank(T, r) < n}
<1>1. Ordered(T)
  BY TopLevelOrdered
<1>2. ASSUME NEW r \in T
      PROVE  Rank(T, r) \in Nat
  <2>1. IsFiniteSet({s \in T : Later(s, r)})
    BY <1>1, FS_Subset DEF Ordered
  <2> QED BY <2>1, FS_CardinalityType DEF Rank
<1>3. TopLevel(db') = F
  BY <1>2 DEF BeyondNewest, Rank
<1> HIDE DEF T
<1>4. ASSUME NEW r \in F, NEW u \in T \ F
      PROVE  r.started >= u.started
  <2>1. Rank(T, r) < Rank(T, u)
    BY <1>2, <1>4
  <2>2. ~(Rank(T, u) < Rank(T, r))
    BY <1>2, <2>1
  <2>3. ~Later(u, r)
    BY <1>1, <2>2, RankMonotone
  <2> QED BY <1>1, <2>3 DEF Later, Ordered
<1>5. Cardinality(F) = IF Cardinality(T) < n THEN Cardinality(T) ELSE n
  BY <1>1, FirstCount
<1>6. F \in SUBSET T
  OBVIOUS
<1> HIDE DEF F
<1> QED BY <1>3, <1>4, <1>5, <1>6 DEF RecentAnswers, T

\* Prune takes the top-level runs started before the given time and Retain leaves
\* those that Recent shows, with all that belongs to what they take and nothing
\* else, and they report how many they took: whether the transaction fails, the
\* checkpoint after it or what Do does last, for tables of any size.
THEOREM EvictionIsExactHolds == Spec => EvictionIsExact
<1> DEFINE Exact == KeepsWhatItShould /\ TakesFamilies /\ EvictReports
<1>1. ASSUME IndInv, NEW op \in {"Prune", "Retain"}, NEW arg \in Nat, Evict(op, arg)
      PROVE  Exact
  <2> DEFINE T == TopLevel(db)
             D == Doomed(db, op, arg)
  <2>1. IsFiniteSet(T) /\ Cardinality(T) \in Nat
    BY <1>1, TopLevelOrdered, FS_CardinalityType DEF Ordered
  <2>2. CASE Fails(op, arg)
    <3>1. reply'.err = TRUE /\ reply'.removed = 0 /\ db' = db
      BY <1>1, <2>2 DEF Fails, Reply
    <3>2. Family(db, {r.id : r \in T \ T}) = {}
      BY DEF Family
    <3>3. TakesFamilies
      BY <3>1, <3>2 DEF TakesFamilies
    <3>4. KeepsWhatItShould
      BY <3>1 DEF KeepsWhatItShould, Evicted
    <3>5. EvictReports
      BY <2>1, <3>1 DEF EvictReports
    <3> QED BY <3>3, <3>4, <3>5
  <2>3. CASE ~Fails(op, arg)
    <3>1. /\ TopLevel(db') = T \ D /\ reply'.op = op /\ reply'.arg = arg
          /\ db'.runs = {r \in db.runs : r.id \notin Family(db, {d.id : d \in D})}
          /\ db'.records = {c \in db.records : c.run \notin Family(db, {d.id : d \in D})}
          /\ reply'.removed = Cardinality(D)
      BY <1>1, <2>3, EvictionLeaves
    <3>2. D \in SUBSET T
      BY DEF Doomed, OlderThan, BeyondNewest
    <3>3. EvictReports
      <4> HIDE DEF T, D
      <4>1. T \cap D = D
        BY <3>2
      <4>2. Cardinality(T \ D) = Cardinality(T) - Cardinality(D)
        BY <2>1, <4>1, FS_Difference
      <4>3. Cardinality(T) \in Nat /\ Cardinality(D) \in Nat
        BY <2>1, <3>2, FS_Subset, FS_CardinalityType
      <4> QED BY <3>1, <4>2, <4>3 DEF EvictReports, T
    <3>4. TakesFamilies
      <4> HIDE DEF D
      <4>1. TopLevel(db) \ TopLevel(db') = D
        BY <3>1, <3>2
      <4> QED BY <3>1, <4>1 DEF TakesFamilies
    <3>5. CASE op = "Retain"
      <4>1. TopLevel(db') \in RecentAnswers(db, arg)
        BY <1>1, <3>1, <3>5, RetainExact DEF Doomed
      <4>2. KeepsWhatItShould
        BY <3>1, <3>5, <4>1 DEF KeepsWhatItShould
      <4> QED BY <3>3, <3>4, <4>2
    <3>6. CASE op = "Prune"
      <4>1. D = {r \in T : r.started < arg}
        BY <3>6 DEF Doomed, OlderThan
      <4>2. \A r \in T : r.started \in Nat
        BY <1>1 DEF TopLevel, IndInv, IdInv
      <4>3. TopLevel(db') = {r \in T : r.started >= arg}
        BY <1>1, <3>1, <4>1, <4>2
      <4>4. KeepsWhatItShould
        BY <3>1, <3>6, <4>3 DEF KeepsWhatItShould
      <4> QED BY <3>3, <3>4, <4>4
    <3> QED BY <3>5, <3>6
  <2> QED BY <2>2, <2>3
<1>2. ASSUME reply'.op \notin {"Prune", "Retain"}
      PROVE  Exact
  BY <1>2 DEF KeepsWhatItShould, TakesFamilies, EvictReports
<1> HIDE DEF Exact
<1>3. ASSUME IndInv, Next, now' = now
      PROVE  Exact
  <2>1. ASSUME NEW op \in {"StartRun", "Add"}, NEW row, NEW size, Insert(op, row, size)
        PROVE  reply'.op \notin {"Prune", "Retain"}
    BY <2>1 DEF Insert, Fails, Returned, Reply, NoReply
  <2>2. ASSUME NEW i, FinishRun(i) \/ Delete(i)
        PROVE  reply'.op \notin {"Prune", "Retain"}
    BY <2>2 DEF FinishRun, Delete, Fails, Reply, NoReply
  <2>3. ~Tick
    BY <1>3 DEF Tick, IndInv, IdInv
  <2>4. ASSUME NEW before \in 0..(MaxTime + 1), Prune(before)
        PROVE  Exact
    <3>1. before \in Nat
      BY BoundsAssumption
    <3> QED BY <1>1, <1>3, <2>4, <3>1 DEF Prune
  <2>5. ASSUME NEW n \in 0..MaxRuns, Retain(n)
        PROVE  Exact
    BY <1>1, <1>3, <2>5, BoundsAssumption DEF Retain
  <2> QED BY <1>2, <1>3, <2>1, <2>2, <2>3, <2>4, <2>5 DEF Next, StartRun, Add
<1>4. IndInv /\ [Next]_vars => [now' = now => Exact]_vars
  BY <1>3
<1> QED BY <1>4, Always, PTL DEF Spec, EvictionIsExact, Exact


-----------------------------------------------------------------------------
(* Types *)

\* Steps up to N, without induction: a set with 0 and the successor of each of its
\* members below N would else be one to one with a part of itself.
LEMMA Climb ==
  ASSUME NEW N \in Nat, NEW T, 0 \in T, \A k \in 0..(N - 1) : k \in T => k + 1 \in T
  PROVE  \A k \in 0..N : k \in T
<1> SUFFICES ASSUME NEW M \in 0..N, M \notin T PROVE FALSE
  OBVIOUS
<1> DEFINE S == {k \in 0..M : k \in T}
           f == [k \in S |-> k + 1]
<1>1. IsFiniteSet(S) /\ 0 \in S
  <2>1. S \in SUBSET (0..M) /\ 0 \in S
    OBVIOUS
  <2>2. IsFiniteSet(0..M)
    BY FS_Interval
  <2> HIDE DEF S
  <2> QED BY <2>1, <2>2, FS_Subset
<1>2. f \in Injection(S, S \ {0})
  <2>1. \A k \in S : k \in Nat /\ k + 1 \in S \ {0}
    OBVIOUS
  <2> HIDE DEF S
  <2> QED BY <2>1 DEF Injection, IsInjective
<1> HIDE DEF S, f
<1>3. IsFiniteSet(S \ {0}) /\ Cardinality(S \ {0}) = Cardinality(S) - 1 /\ Cardinality(S) \in Nat
  BY <1>1, FS_RemoveElement, FS_CardinalityType
<1>4. Cardinality(S) <= Cardinality(S \ {0})
  BY <1>2, <1>3, FS_Injection
<1> QED BY <1>3, <1>4

\* MapThenSumSet takes one element after the other: h is the sum of s if it is of the rest.
One(s) == CHOOSE x \in s : TRUE
Eq(h, s) == IF s = {} THEN 0 ELSE One(s).count + h[s \ {One(s)}]
Sums(Q) == CHOOSE h : h = [s \in SUBSET Q |-> Eq(h, s)]

\* The fold of SumOfCounts, and the function it is a value of.
LEMMA SumIs == ASSUME NEW Q PROVE SumOfCounts(Q) = Sums(Q)[Q]
BY DEF SumOfCounts, MapThenSumSet, MapThenFoldSet, Sums, One, Eq

\* The sum of finitely many counts is a number.
LEMMA SumType ==
  ASSUME NEW Q, IsFiniteSet(Q), \A r \in Q : r.count \in Nat
  PROVE  SumOfCounts(Q) \in Nat
<1> DEFINE N == Cardinality(Q)
<1>1. N \in Nat
  BY FS_CardinalityType
<1>2. ASSUME NEW s \in SUBSET Q, s # {}
      PROVE  /\ One(s) \in Q /\ One(s).count \in Nat /\ s \ {One(s)} \in SUBSET Q
             /\ Cardinality(s \ {One(s)}) = Cardinality(s) - 1
  <2>1. One(s) \in s
    BY <1>2 DEF One
  <2>2. IsFiniteSet(s)
    BY FS_Subset
  <2> QED BY <2>1, <2>2, FS_RemoveElement
<1>3. ASSUME NEW s \in SUBSET Q
      PROVE  Cardinality(s) \in 0..N /\ (Cardinality(s) = 0 => s = {})
  <2>1. IsFiniteSet(s) /\ Cardinality(s) <= N
    BY FS_Subset
  <2> QED BY <1>1, <2>1, FS_CardinalityType, FS_EmptySet
<1> DEFINE Small(k) == {s \in SUBSET Q : Cardinality(s) <= k}
           T == {k \in Nat : \E g \in [SUBSET Q -> Nat] : \A s \in Small(k) : g[s] = Eq(g, s)}
<1>4. 0 \in T
  <2> DEFINE g == [s \in SUBSET Q |-> 0]
  <2>1. g \in [SUBSET Q -> Nat]
    OBVIOUS
  <2>2. \A s \in Small(0) : g[s] = Eq(g, s)
    BY <1>3 DEF Eq
  <2> QED BY <2>1, <2>2
<1>5. ASSUME NEW k \in 0..(N - 1), k \in T PROVE k + 1 \in T
  <2>1. PICK g \in [SUBSET Q -> Nat] : \A s \in Small(k) : g[s] = Eq(g, s)
    BY <1>5
  <2> DEFINE h == [s \in SUBSET Q |-> Eq(g, s)]
  <2>2. ASSUME NEW s \in SUBSET Q PROVE Eq(g, s) \in Nat
    <3>1. CASE s = {}
      BY <3>1 DEF Eq
    <3>2. CASE s # {}
      <4>1. One(s).count \in Nat /\ g[s \ {One(s)}] \in Nat
        BY <1>2, <3>2
      <4> QED BY <3>2, <4>1 DEF Eq
    <3> QED BY <3>1, <3>2
  <2>3. h \in [SUBSET Q -> Nat]
    BY <2>2
  <2>4. \A s \in Small(k) : h[s] = g[s]
    BY <2>1
  <2>5. \A s \in SUBSET Q : h[s] = Eq(g, s)
    OBVIOUS
  <2> HIDE DEF h
  <2>6. ASSUME NEW s \in Small(k + 1) PROVE h[s] = Eq(h, s)
    <3>1. CASE s = {}
      BY <2>5, <3>1 DEF Eq
    <3>2. CASE s # {}
      <4>1. s \ {One(s)} \in Small(k)
        <5>1. /\ Cardinality(s) \in Nat /\ Cardinality(s) <= k + 1
              /\ Cardinality(s \ {One(s)}) = Cardinality(s) - 1 /\ s \ {One(s)} \in SUBSET Q
          BY <1>2, <1>3, <3>2
        <5> QED BY <5>1
      <4> QED BY <2>4, <2>5, <3>2, <4>1 DEF Eq
    <3> QED BY <3>1, <3>2
  <2> QED BY <2>3, <2>6
<1>6. N \in T
  <2> HIDE DEF T, N
  <2> QED BY <1>1, <1>4, <1>5, Climb
<1>7. PICK g \in [SUBSET Q -> Nat] : g = [s \in SUBSET Q |-> Eq(g, s)]
  <2>1. PICK g \in [SUBSET Q -> Nat] : \A s \in Small(N) : g[s] = Eq(g, s)
    BY <1>6
  <2>2. \A s \in SUBSET Q : g[s] = Eq(g, s)
    BY <1>3, <2>1
  <2> QED BY <2>2
<1> DEFINE S == Sums(Q)
<1>8. S = [s \in SUBSET Q |-> Eq(S, s)]
  BY <1>7, Zenon DEF Sums
<1> DEFINE U == {k \in Nat : \A s \in Small(k) : S[s] \in Nat}
<1>9. \A s \in SUBSET Q : S[s] = Eq(S, s)
  <2> HIDE DEF S
  <2> QED BY <1>8
<1> HIDE DEF S
<1>10. 0 \in U
  BY <1>3, <1>9 DEF Eq
<1>11. ASSUME NEW k \in 0..(N - 1), k \in U PROVE k + 1 \in U
  <2>1. ASSUME NEW s \in Small(k + 1), s # {} PROVE S[s] \in Nat
    <3>1. s \ {One(s)} \in Small(k)
      <4>1. /\ Cardinality(s) \in Nat /\ Cardinality(s) <= k + 1
            /\ Cardinality(s \ {One(s)}) = Cardinality(s) - 1 /\ s \ {One(s)} \in SUBSET Q
        BY <1>2, <1>3, <2>1
      <4> QED BY <4>1
    <3>2. S[s \ {One(s)}] \in Nat /\ One(s).count \in Nat
      BY <1>2, <1>11, <2>1, <3>1
    <3>3. S[s] = One(s).count + S[s \ {One(s)}]
      BY <1>9, <2>1 DEF Eq
    <3> QED BY <3>2, <3>3
  <2>2. S[{}] \in Nat
    <3>1. {} \in SUBSET Q /\ Eq(S, {}) = 0
      BY DEF Eq
    <3> QED BY <1>9, <3>1
  <2>3. k + 1 \in Nat
    OBVIOUS
  <2> QED BY <2>1, <2>2, <2>3
<1>12. N \in U
  <2> HIDE DEF U, N
  <2> QED BY <1>1, <1>10, <1>11, Climb
<1>13. S[Q] \in Nat
  BY <1>1, <1>12
<1> QED BY <1>13, SumIs DEF S


\* Rows and ids of the right type; only a top-level run can be without a count,
\* which the sum over its children would be without, too.
TypeInv ==
  /\ db.runs \subseteq Runs /\ db.records \subseteq Records
  /\ \A r \in db.runs : r.parent # None => r.count # None
  /\ nextId \in 1..(MaxRuns + 1) /\ now \in Times

\* The sum that FinishRun stores is a number, and it stores none that does not fit.
LEMMA ChildrenSum ==
  ASSUME IdInv, TypeInv, NEW i \in Ids
  PROVE  SumOfChildren(db, i) \in Nat
<1>1. Children(db, i) \in SUBSET db.runs
  BY DEF Children
<1>2. IsFiniteSet(Children(db, i))
  BY <1>1, FS_Subset DEF IdInv
<1>3. ASSUME NEW r \in Children(db, i) PROVE r.count \in Nat
  <2>1. r \in Runs /\ r.count # None
    BY ColumnsAssumption DEF TypeInv, Children, Ids
  <2> QED BY <2>1, ColumnsAssumption DEF Runs
<1> QED BY <1>2, <1>3, SumType DEF SumOfChildren

\* A row and its records, whichever of the two statements fails.
LEMMA InsertTypes ==
  ASSUME IsTables(db), TypeInv, NEW op, NEW row, NEW size \in {0, MaxRecords}, Insert(op, row, size),
         row \in Runs, row.parent # None => row.count # None
  PROVE  TypeInv'
<1>1. CASE Fails(op, size)
  BY <1>1 DEF Fails, TypeInv
<1>2. CASE ~Fails(op, size)
  <2>1. /\ nextId <= MaxRuns /\ nextId' = nextId + 1 /\ now' = now
        /\ db' = [runs |-> db.runs \cup {row}, records |-> db.records \cup Inserted(nextId, size)]
    BY <1>2 DEF Insert
  <2>2. nextId \in Ids /\ nextId' \in 1..(MaxRuns + 1)
    BY <2>1, BoundsAssumption DEF TypeInv, Ids
  <2>3. Inserted(nextId, size) \subseteq Records
    <3> SUFFICES ASSUME NEW c \in Inserted(nextId, size) PROVE c \in Records
      OBVIOUS
    <3>1. PICK start \in 0..size : start < size /\
            c \in {[run |-> nextId, n |-> k] :
                     k \in (start + 1)..(IF start + RecordChunk < size THEN start + RecordChunk ELSE size)}
      BY DEF Inserted
    <3>2. PICK k \in (start + 1)..(IF start + RecordChunk < size THEN start + RecordChunk ELSE size) :
            c = [run |-> nextId, n |-> k]
      BY <3>1
    <3>3. k \in 1..MaxRecords
      BY <3>1, <3>2, BoundsAssumption
    <3> QED BY <2>2, <3>2, <3>3 DEF Records
  <2>4. db'.runs = db.runs \cup {row} /\ db'.records = db.records \cup Inserted(nextId, size)
    BY <2>1
  <2> QED BY <2>1, <2>2, <2>3, <2>4 DEF TypeInv
<1> QED BY <1>1, <1>2

\* All operations.
LEMMA TypeStep ==
  ASSUME IsTables(db), IdInv, TypeInv, [Next]_vars
  PROVE  TypeInv'
<1>1. CASE StartRun
  <2> DEFINE row == [id |-> nextId, parent |-> None, started |-> now,
                     finished |-> FALSE, count |-> None]
  <2>1. nextId \in Ids
    BY <1>1, BoundsAssumption DEF StartRun, Insert, TypeInv, Ids
  <2>2. row \in Runs /\ row.parent = None /\ Insert("StartRun", row, 0)
    BY <1>1, <2>1 DEF StartRun, Runs, TypeInv
  <2> HIDE DEF row
  <2> QED BY <2>2, InsertTypes
<1>2. ASSUME NEW parent, NEW started \in Times, NEW count \in Counts, NEW size \in {0, MaxRecords},
             Add(parent, started, count, size)
      PROVE  TypeInv'
  <2> DEFINE row == [id |-> nextId, parent |-> parent, started |-> started,
                     finished |-> TRUE, count |-> count]
  <2>1. nextId \in Ids
    BY <1>2, BoundsAssumption DEF Add, Insert, TypeInv, Ids
  <2>2. parent \in Ids \cup {None}
    <3>1. parent \in Held \cup {None}
      BY <1>2 DEF Add
    <3>2. 1..(nextId - 1) \subseteq Ids
      BY <2>1, BoundsAssumption DEF Ids
    <3> QED BY <3>1, <3>2 DEF Held
  <2>3. count \in 0..MaxInteger /\ count # None
    BY ColumnsAssumption
  <2>4. row \in Runs /\ row.count # None /\ Insert("Add", row, size)
    BY <1>2, <2>1, <2>2, <2>3 DEF Add, Runs
  <2> HIDE DEF row
  <2> QED BY <2>4, InsertTypes
<1>3. ASSUME NEW i \in Ids, FinishRun(i) PROVE TypeInv'
  <2>1. CASE UNCHANGED <<db, nextId, now>>
    BY <2>1 DEF TypeInv
  <2>2. CASE db' # db
    <3> DEFINE sum == SumOfChildren(db, i)
    <3>1. /\ i \in RunIds(db) => sum <= MaxInteger
          /\ Finishing(i) /\ now' = now
      BY <1>3, <2>2 DEF FinishRun, Fails, Finishing
    <3>2. db'.runs = {Finish(r, i) : r \in db.runs} /\ db'.records = db.records /\ nextId' = nextId
      BY <3>1, Update DEF Finishing
    <3>3. ASSUME NEW r \in db.runs
          PROVE  Finish(r, i) \in Runs /\ (Finish(r, i).parent # None => Finish(r, i).count # None)
      <4>1. r \in Runs /\ (r.parent # None => r.count # None)
        BY DEF TypeInv
      <4>2. CASE r.id = i
        <5>1. i \in RunIds(db)
          BY <4>2 DEF RunIds
        <5>2. sum \in 0..MaxInteger
          BY <3>1, <5>1, ChildrenSum, ColumnsAssumption
        <5> HIDE DEF sum
        <5>3. [r EXCEPT !.finished = TRUE, !.count = sum] \in Runs
              /\ [r EXCEPT !.finished = TRUE, !.count = sum].count = sum
          BY <4>1, <5>2 DEF Runs
        <5>4. sum # None
          BY <5>2, ColumnsAssumption
        <5> QED BY <4>2, <5>3, <5>4 DEF Finish, sum
      <4>3. CASE r.id # i
        BY <4>1, <4>3 DEF Finish
      <4> QED BY <4>2, <4>3
    <3> QED BY <3>1, <3>2, <3>3 DEF TypeInv
  <2> QED BY <1>3, <2>1, <2>2 DEF FinishRun, Fails
<1>4. ASSUME NEW ids, db' = Remove(db, ids), UNCHANGED <<nextId, now>> PROVE TypeInv'
  <2>1. db'.runs \subseteq db.runs /\ db'.records \subseteq db.records
    BY <1>4, Removed
  <2> QED BY <1>4, <2>1 DEF TypeInv
<1>5. CASE UNCHANGED <<db, nextId, now>>
  BY <1>5 DEF TypeInv
<1>6. ASSUME NEW op, NEW arg, Evict(op, arg) PROVE TypeInv'
  BY <1>4, <1>5, <1>6 DEF Evict, Fails
<1>7. ASSUME NEW i, Delete(i) PROVE TypeInv'
  BY <1>4, <1>5, <1>7 DEF Delete, Fails
<1>8. CASE Tick
  BY <1>8, BoundsAssumption DEF Tick, TypeInv, Times
<1>9. CASE UNCHANGED vars
  BY <1>5, <1>9 DEF vars
<1> QED BY <1>1, <1>2, <1>3, <1>6, <1>7, <1>8, <1>9 DEF Next, Prune, Retain

\* TypeOK: whatever is added, finished and evicted, a stored count fits its column;
\* the sum of many counts that fit need not, and FinishRun then changes nothing.
THEOREM TypeCorrect == Spec => []TypeOK
<1>1. Init => TypeInv
  <2> SUFFICES ASSUME Init PROVE TypeInv
    OBVIOUS
  <2>1. db.runs = {} /\ db.records = {}
    BY DEF Init
  <2> QED BY <2>1, BoundsAssumption DEF Init, TypeInv, Times
<1>2. IndInv /\ TypeInv /\ [Next]_vars => TypeInv'
  BY TypeStep DEF IndInv
<1>3. IndInv /\ TypeInv => TypeOK
  <2> SUFFICES ASSUME IndInv, TypeInv PROVE TypeOK
    OBVIOUS
  <2>1. db \in Tables
    BY DEF IndInv, IsTables, TypeInv, Tables
  <2>2. settled \subseteq Ids
    <3>1. 1..(nextId - 1) \subseteq Ids
      BY BoundsAssumption DEF TypeInv, Ids
    <3> QED BY <3>1 DEF IndInv, IdInv
  <2> QED BY <2>1, <2>2 DEF TypeInv, TypeOK
<1> QED BY <1>1, <1>2, <1>3, Always, PTL DEF Spec

=============================================================================
