---------------------------- MODULE ConfigDBProofs ----------------------------
(***************************************************************************)
(* Proofs about ConfigDB, for any number of Stores, goroutines, documents  *)
(* and calls, and whichever faults happen.                                *)
(***************************************************************************)
EXTENDS ConfigDB, TLAPS

\* What an actor that is not idle works on.
OpInv == \A a \in Actors : pc[a] # "idle" => op[a] \in [doc : Docs, to : Snapshots]

\* The history of d with its snapshot archived.
Archived(d) == IF cur[d] = None THEN hist[d] ELSE Append(hist[d], cur[d])

\* What the open transaction holds after each of its statements.
TxInv == \A a \in Actors :
  LET d == op[a].doc IN
  /\ pc[a] = "archive" => tx.cur = cur[d] /\ tx.hist = hist[d]
  /\ pc[a] = "replace" => IF Forgets(a) THEN tx.cur = None
                                        ELSE tx.hist = Archived(d)
  /\ pc[a] = "commit" => IF Forgets(a) THEN tx.cur = None /\ tx.hist = <<>>
                                       ELSE tx.cur = op[a].to /\ tx.hist = Archived(d)

\* A marker about to be written is younger than its Store's markers so far.
Younger(m) ==
  m # None => /\ m.at <= clock
              /\ \A a \in Actors : pc[a] = "mark" /\ m.by = StoreOf[a]
                                     => m.at < stamp[StoreOf[a]]
StampInv ==
  /\ Younger(gen) /\ Younger(seen)
  /\ \A a \in Actors : pc[a] = "mark" => stamp[StoreOf[a]] <= clock

IndInv == TypeOK /\ OpInv /\ TxInv /\ HistoryIsComplete /\ StampInv

-----------------------------------------------------------------------------
(* The invariant: one lemma per part, one step per action. *)

\* Initially every part of the invariant holds.
LEMMA InitInv == Init => IndInv
<1> SUFFICES ASSUME Init PROVE IndInv
  OBVIOUS
<1> USE NoneAssumption DEF Init
<1>1. TypeOK
  <2>1. /\ imported \in [Docs -> Seq(Contents)]
        /\ hist \in [Docs -> Seq(Contents)]
        /\ tx \in [cur : Snapshots, hist : Seq(Contents)]
    BY DEF Snapshots, NoTx
  <2>2. /\ pc \in [Actors -> States]
        /\ op \in [Actors -> [doc : Docs, to : Snapshots] \cup {NoOp}]
        /\ \A a \in Actors : /\ busy = a <=> pc[a] \in InTx
                             /\ revMu[StoreOf[a]] = a <=> pc[a] = "mark"
    BY StoreOfAssumption DEF States, InTx
  <2>3. /\ cur \in [Docs -> Snapshots] /\ view \in [Docs -> Snapshots]
        /\ busy \in Actors \cup {None} /\ revMu \in [Stores -> Actors \cup {None}]
        /\ gen \in Marks /\ stamp \in [Stores -> Nat] /\ clock \in Nat
        /\ seen \in Marks
    BY DEF Marks
  <2>4. polling \in BOOLEAN /\ lapsed \in BOOLEAN
    OBVIOUS
  <2>5. calls \in 0..MaxCalls
    BY BoundsAssumption
  <2> QED
    BY <2>1, <2>2, <2>3, <2>4, <2>5 DEF TypeOK
<1>2. OpInv /\ TxInv /\ StampInv
  BY DEF OpInv, TxInv, StampInv, Younger
<1>3. HistoryIsComplete
  BY DEF HistoryIsComplete
<1> QED
  BY <1>1, <1>2, <1>3 DEF IndInv

\* A transaction's statements keep the type of what it has written so far.
LEMMA TxFields ==
  ASSUME NEW t \in [cur : Snapshots, hist : Seq(Contents)], NEW s \in Snapshots
  PROVE  /\ [t EXCEPT !.cur = s] \in [cur : Snapshots, hist : Seq(Contents)]
         /\ [t EXCEPT !.hist = <<>>] \in [cur : Snapshots, hist : Seq(Contents)]
<1>1. <<>> \in Seq(Contents)
  OBVIOUS
<1> QED
  BY <1>1

\* So does having none.
LEMMA NoTxTyped == NoTx \in [cur : Snapshots, hist : Seq(Contents)]
<1>1. <<>> \in Seq(Contents) /\ None \in Snapshots
  BY DEF Snapshots
<1> QED
  BY <1>1 DEF NoTx

\* No step leaves the types, or keeps Do or revMu without being inside.
LEMMA NextTyped == TypeOK /\ OpInv /\ [Next]_vars => TypeOK' /\ OpInv'
<1> SUFFICES ASSUME TypeOK, OpInv, [Next]_vars PROVE TypeOK' /\ OpInv'
  OBVIOUS
<1> USE StoreOfAssumption, NoneAssumption
    DEF TypeOK, OpInv, States, InTx, Snapshots, Marks, NoOp, NoTx, Goto,
        dbVars, genVars, pollVars
<1>1. ASSUME NEW a \in Actors, Call(a) PROVE TypeOK' /\ OpInv'
  <2>1. /\ op' \in [Actors -> [doc : Docs, to : Snapshots] \cup {NoOp}]
        /\ OpInv'
    BY <1>1 DEF Call
  <2>2. calls' \in 0..MaxCalls
    BY <1>1, BoundsAssumption DEF Call
  <2> QED
    BY <1>1, <2>1, <2>2 DEF Call
<1>2. ASSUME NEW a \in Actors, Begin(a) PROVE TypeOK' /\ OpInv'
  BY <1>2 DEF Begin
<1>3. ASSUME NEW a \in Actors, Archive(a) PROVE TypeOK' /\ OpInv'
  <2>1. tx.cur # None => Append(tx.hist, tx.cur) \in Seq(Contents)
    OBVIOUS
  <2>2. tx' \in [cur : Snapshots, hist : Seq(Contents)]
    BY <1>3, <2>1 DEF Archive
  <2>3. pc' \in [Actors -> States] /\ OpInv'
    BY <1>3 DEF Archive
  <2>4. \A b \in Actors : /\ busy' = b <=> pc'[b] \in InTx
                          /\ revMu'[StoreOf[b]] = b <=> pc'[b] = "mark"
    BY <1>3 DEF Archive
  <2>5. UNCHANGED <<op, busy, dbVars, genVars, pollVars, calls>>
    BY <1>3 DEF Archive
  <2> QED
    BY <2>2, <2>3, <2>4, <2>5
<1>4. ASSUME NEW a \in Actors, Replace(a) PROVE TypeOK' /\ OpInv'
  <2>1. op[a].to \in Snapshots
    BY <1>4 DEF Replace
  <2>2. tx' = [tx EXCEPT !.hist = <<>>] \/ tx' = [tx EXCEPT !.cur = op[a].to]
    BY <1>4 DEF Replace
  <2>3. tx \in [cur : Snapshots, hist : Seq(Contents)]
    OBVIOUS
  <2>4. tx' \in [cur : Snapshots, hist : Seq(Contents)]
    BY <2>1, <2>2, <2>3, TxFields
  <2>5. pc' \in [Actors -> States] /\ OpInv'
    BY <1>4 DEF Replace
  <2>6. \A b \in Actors : /\ busy' = b <=> pc'[b] \in InTx
                          /\ revMu'[StoreOf[b]] = b <=> pc'[b] = "mark"
    BY <1>4 DEF Replace
  <2>7. UNCHANGED <<op, busy, dbVars, genVars, pollVars, calls>>
    BY <1>4 DEF Replace
  <2> QED
    BY <2>4, <2>5, <2>6, <2>7
<1>5. ASSUME NEW a \in Actors, Commit(a) \/ CommitUnreported(a) PROVE TypeOK' /\ OpInv'
  <2>0. /\ Committed(a) /\ pc[a] = "commit"
        /\ Goto(a, "stamp") \/ Goto(a, "idle")
        /\ lapsed' \in BOOLEAN
    BY <1>5 DEF Commit, CommitUnreported, Committed
  <2>1. op[a] \in [doc : Docs, to : Snapshots] /\ (~Forgets(a) => op[a].to \in Contents)
    BY <2>0 DEF Forgets
  <2>2. imported' \in [Docs -> Seq(Contents)]
    <3>1. Append(imported[op[a].doc], op[a].to) \in Seq(Contents) \/ Forgets(a)
      BY <2>1
    <3>2. <<>> \in Seq(Contents)
      OBVIOUS
    <3>3. imported' = [imported EXCEPT ![op[a].doc] =
                         IF Forgets(a) THEN <<>> ELSE Append(@, op[a].to)]
      BY <2>0 DEF Committed
    <3>4. imported \in [Docs -> Seq(Contents)]
      OBVIOUS
    <3> HIDE DEF TypeOK, OpInv
    <3> QED
      BY <3>1, <3>2, <3>3, <3>4
  <2>3. cur' \in [Docs -> Snapshots] /\ hist' \in [Docs -> Seq(Contents)]
    BY <2>0, <2>1 DEF Committed
  <2>4. /\ tx' \in [cur : Snapshots, hist : Seq(Contents)] /\ busy' = None
        /\ UNCHANGED <<gen, revMu, stamp, clock, seen, view, polling, calls>>
    BY <2>0, NoTxTyped DEF Committed
  <2>5. /\ pc' \in [Actors -> States] /\ OpInv'
        /\ op' \in [Actors -> [doc : Docs, to : Snapshots] \cup {NoOp}]
    <3>1. CASE Goto(a, "stamp")
      <4>1. op' = op /\ pc' = [pc EXCEPT ![a] = "stamp"]
        BY <3>1
      <4>2. pc' \in [Actors -> States]
        BY <4>1
      <4>3. \A b \in Actors : pc'[b] # "idle" => pc[b] # "idle"
        BY <2>0, <4>1
      <4> QED
        BY <4>1, <4>2, <4>3
    <3>2. CASE Goto(a, "idle")
      BY <3>2
    <3> QED
      BY <2>0, <3>1, <3>2
  <2>6. \A b \in Actors : /\ busy' = b <=> pc'[b] \in InTx
                          /\ revMu'[StoreOf[b]] = b <=> pc'[b] = "mark"
    BY <2>0, <2>4
  <2> QED
    BY <2>0, <2>2, <2>3, <2>4, <2>5, <2>6
<1>6. ASSUME NEW a \in Actors, TxFails(a) PROVE TypeOK' /\ OpInv'
  BY <1>6 DEF TxFails
<1>7. ASSUME NEW a \in Actors, Stamp(a) PROVE TypeOK' /\ OpInv'
  BY <1>7 DEF Stamp
<1>8. ASSUME NEW a \in Actors, Mark(a) PROVE TypeOK' /\ OpInv'
  <2>1. lapsed' \in BOOLEAN /\ UNCHANGED <<polling, calls>>
    BY <1>8 DEF Mark
  <2>2. gen' \in Marks
    BY <1>8 DEF Mark
  <2>3. stamp' \in [Stores -> Nat] /\ revMu' \in [Stores -> Actors \cup {None}]
    BY <1>8 DEF Mark
  <2>4. /\ pc' \in [Actors -> States] /\ OpInv'
        /\ op' \in [Actors -> [doc : Docs, to : Snapshots] \cup {NoOp}]
    BY <1>8 DEF Mark
  <2>5. \A b \in Actors : /\ busy' = b <=> pc'[b] \in InTx
                          /\ revMu'[StoreOf[b]] = b <=> pc'[b] = "mark"
    BY <1>8 DEF Mark
  <2> QED
    BY <1>8, <2>1, <2>2, <2>3, <2>4, <2>5 DEF Mark
<1>9. ASSUME NEW a \in Actors, MarkFails(a) PROVE TypeOK' /\ OpInv'
  <2>1. lapsed' \in BOOLEAN
    BY <1>9 DEF MarkFails
  <2> QED
    BY <1>9, <2>1 DEF MarkFails
<1>10. CASE PollMarker
  <2>1. UNCHANGED <<pc, op, busy, tx, dbVars, genVars, view, calls>>
    BY <1>10 DEF PollMarker
  <2>2. seen' \in Marks /\ polling' \in BOOLEAN
    BY <1>10 DEF PollMarker
  <2>3. OpInv'
    BY <2>1
  <2> QED
    BY <2>1, <2>2, <2>3
<1>13. CASE PollRead
  <2>1. UNCHANGED <<pc, op, busy, tx, dbVars, genVars, seen, calls>>
    BY <1>13 DEF PollRead
  <2>2. view' \in [Docs -> Snapshots] /\ polling' \in BOOLEAN
    BY <1>13 DEF PollRead
  <2>3. OpInv'
    BY <2>1
  <2> QED
    BY <2>1, <2>2, <2>3
<1>11. ASSUME NEW s \in Stores, Crash(s) PROVE TypeOK' /\ OpInv'
  <2>1. OpInv' /\ pc' \in [Actors -> States]
        /\ op' \in [Actors -> [doc : Docs, to : Snapshots] \cup {NoOp}]
    BY <1>11 DEF Crash
  <2>2. /\ tx' \in [cur : Snapshots, hist : Seq(Contents)]
        /\ busy' \in Actors \cup {None}
    <3>1. tx \in [cur : Snapshots, hist : Seq(Contents)]
      OBVIOUS
    <3>2. (tx' = NoTx /\ busy' = None) \/ UNCHANGED <<tx, busy>>
      BY <1>11 DEF Crash
    <3>3. tx' \in [cur : Snapshots, hist : Seq(Contents)]
      <4>1. CASE tx' = NoTx
        BY <4>1, NoTxTyped
      <4>2. CASE tx' = tx
        BY <4>2, <3>1
      <4> QED
        BY <4>1, <4>2, <3>2
    <3>4. busy' \in Actors \cup {None}
      BY <3>2
    <3> QED
      BY <3>3, <3>4
  <2>3. \A a \in Actors : busy' = a <=> pc'[a] \in InTx
    BY <1>11 DEF Crash
  <2>4. /\ revMu' \in [Stores -> Actors \cup {None}] /\ stamp' \in [Stores -> Nat]
        /\ \A a \in Actors : revMu'[StoreOf[a]] = a <=> pc'[a] = "mark"
    BY <1>11 DEF Crash
  <2> QED
    BY <1>11, <2>1, <2>2, <2>3, <2>4 DEF Crash
<1>12. CASE UNCHANGED vars
  BY <1>12 DEF vars
<1> QED
  BY <1>1, <1>2, <1>3, <1>4, <1>5, <1>6, <1>7, <1>8, <1>9, <1>10, <1>11, <1>12, <1>13 DEF Next

\* Only the transaction of the actor inside Do changes, and only its commit
\* changes the database, by what TxInv says of it.
LEMMA NextHistory ==
  TypeOK /\ OpInv /\ TxInv /\ HistoryIsComplete /\ [Next]_vars
    => TxInv' /\ HistoryIsComplete'
<1> SUFFICES ASSUME TypeOK, OpInv, TxInv, HistoryIsComplete, [Next]_vars
             PROVE  TxInv' /\ HistoryIsComplete'
  OBVIOUS
<1>a. \A a \in Actors, b \in Actors : pc[a] \in InTx /\ pc[b] \in InTx => a = b
  BY DEF TypeOK
<1>b. /\ pc \in [Actors -> States]
      /\ op \in [Actors -> [doc : Docs, to : Snapshots] \cup {NoOp}]
      /\ cur \in [Docs -> Snapshots] /\ hist \in [Docs -> Seq(Contents)]
      /\ tx \in [cur : Snapshots, hist : Seq(Contents)]
      /\ imported \in [Docs -> Seq(Contents)]
  BY DEF TypeOK
<1>c. busy = None => \A a \in Actors : pc[a] \notin InTx
  BY NoneAssumption DEF TypeOK
<1> USE DEF TxInv, HistoryIsComplete, Archived, Forgets
<1>1. ASSUME NEW a \in Actors, Call(a) PROVE TxInv' /\ HistoryIsComplete'
  BY <1>1, <1>b DEF Call, dbVars
<1>2. ASSUME NEW a \in Actors, Begin(a) PROVE TxInv' /\ HistoryIsComplete'
  <2>1. \A b \in Actors : pc'[b] \in InTx => b = a
    BY <1>2, <1>b, <1>c DEF Begin, Goto, InTx
  <2>2. /\ pc'[a] = "archive" /\ op' = op
        /\ tx'.cur = cur[op[a].doc] /\ tx'.hist = hist[op[a].doc]
    BY <1>2, <1>b DEF Begin, Goto
  <2> QED
    BY <1>2, <2>1, <2>2 DEF Begin, dbVars, InTx
<1>3. ASSUME NEW a \in Actors, Archive(a) PROVE TxInv' /\ HistoryIsComplete'
  BY <1>3, <1>a, <1>b DEF Archive, Goto, dbVars, InTx
<1>4. ASSUME NEW a \in Actors, Replace(a) PROVE TxInv' /\ HistoryIsComplete'
  <2>1. \A b \in Actors : pc'[b] \in InTx => b = a
    BY <1>4, <1>a, <1>b DEF Replace, Goto, InTx
  <2>2. /\ pc'[a] = "commit" /\ op' = op
        /\ IF Forgets(a) THEN tx'.cur = None /\ tx'.hist = <<>>
                         ELSE tx'.cur = op[a].to /\ tx'.hist = Archived(op[a].doc)
    BY <1>4, <1>b DEF Replace, Goto
  <2> QED
    BY <1>4, <2>1, <2>2 DEF Replace, dbVars, InTx
<1>5. ASSUME NEW a \in Actors, Commit(a) \/ CommitUnreported(a)
      PROVE  TxInv' /\ HistoryIsComplete'
  <2>0. /\ Committed(a) /\ pc[a] = "commit"
        /\ Goto(a, "stamp") \/ Goto(a, "idle")
    BY <1>5 DEF Commit, CommitUnreported, Committed
  <2>1. \A b \in Actors : pc'[b] \notin InTx
    BY <2>0, <1>a, <1>b DEF Committed, Goto, InTx
  <2>2. TxInv'
    BY <2>1 DEF InTx
  <2>3. op[a].doc \in Docs /\ op[a].to \in Snapshots
    BY <2>0 DEF OpInv
  <2>4. ASSUME NEW d \in Docs, d # op[a].doc
        PROVE  cur'[d] = cur[d] /\ hist'[d] = hist[d] /\ imported'[d] = imported[d]
    BY <2>0, <1>b, <2>4 DEF Committed
  <2>5. /\ cur'[op[a].doc] = tx.cur /\ hist'[op[a].doc] = tx.hist
        /\ imported'[op[a].doc] = IF Forgets(a) THEN <<>>
                                  ELSE Append(Archived(op[a].doc), op[a].to)
    BY <2>0, <1>b, <2>3 DEF Committed
  <2>6. HistoryIsComplete'
    BY <2>0, <2>3, <2>4, <2>5 DEF Committed
  <2> QED
    BY <2>2, <2>6
<1>6. ASSUME NEW a \in Actors, TxFails(a) PROVE TxInv' /\ HistoryIsComplete'
  BY <1>6, <1>a, <1>b DEF TxFails, Goto, dbVars, InTx
<1>7. ASSUME NEW a \in Actors, Stamp(a) \/ Mark(a) \/ MarkFails(a)
      PROVE  TxInv' /\ HistoryIsComplete'
  <2>1. UNCHANGED <<tx, cur, hist, imported>>
    BY <1>7 DEF Stamp, Mark, MarkFails, dbVars
  <2>2. \A b \in Actors : pc'[b] \in InTx => pc'[b] = pc[b] /\ op'[b] = op[b]
    BY <1>7, <1>b DEF Stamp, Mark, MarkFails, Goto, InTx
  <2> QED
    BY <2>1, <2>2 DEF InTx
<1>8. CASE PollMarker \/ PollRead
  <2>1. UNCHANGED <<pc, op, tx, cur, hist, imported>>
    BY <1>8 DEF PollMarker, PollRead, dbVars
  <2> QED
    BY <2>1
<1>9. ASSUME NEW s \in Stores, Crash(s) PROVE TxInv' /\ HistoryIsComplete'
  <2>1. UNCHANGED <<cur, hist, imported>>
    BY <1>9 DEF Crash, dbVars
  <2>2. \A b \in Actors : pc'[b] \in InTx =>
          StoreOf[b] # s /\ pc'[b] = pc[b] /\ op'[b] = op[b]
    BY <1>9, <1>b DEF Crash, InTx
  <2>3. \A b \in Actors : pc'[b] \in InTx => tx' = tx
    BY <1>9, <2>2 DEF Crash, TypeOK
  <2> QED
    BY <2>1, <2>2, <2>3 DEF InTx
<1>10. CASE UNCHANGED vars
  BY <1>10 DEF vars, dbVars
<1> QED
  BY <1>1, <1>2, <1>3, <1>4, <1>5, <1>6, <1>7, <1>8, <1>9, <1>10 DEF Next

\* revMu keeps two goroutines of a Store from stamping before either marks.
LEMMA NextStamps == TypeOK /\ StampInv /\ [Next]_vars => StampInv'
<1> SUFFICES ASSUME TypeOK, StampInv, [Next]_vars PROVE StampInv'
  OBVIOUS
<1>0. \A a \in Actors, b \in Actors :
        pc[a] = "mark" /\ pc[b] = "mark" /\ StoreOf[a] = StoreOf[b] => a = b
  BY StoreOfAssumption DEF TypeOK
<1> USE StoreOfAssumption, NoneAssumption
    DEF TypeOK, Goto, dbVars, genVars, pollVars, StampInv, Younger, Marks
<1>1. ASSUME NEW a \in Actors, Stamp(a) PROVE StampInv'
  BY <1>0, <1>1 DEF Stamp
<1>2. ASSUME NEW a \in Actors, Mark(a) PROVE StampInv'
  BY <1>0, <1>2 DEF Mark
<1>3. ASSUME NEW a \in Actors, MarkFails(a) PROVE StampInv'
  BY <1>0, <1>3 DEF MarkFails
<1>4. ASSUME NEW a \in Actors,
             Call(a) \/ Begin(a) \/ Archive(a) \/ Replace(a) \/ TxFails(a)
             \/ Commit(a) \/ CommitUnreported(a)
      PROVE  StampInv'
  <2>1. UNCHANGED <<gen, seen, stamp, clock>>
    BY <1>4 DEF Call, Begin, Archive, Replace, Commit, CommitUnreported,
           Committed, TxFails
  <2>2. \A b \in Actors : pc'[b] = "mark" => pc[b] = "mark"
    BY <1>4 DEF Call, Begin, Archive, Replace, Commit, CommitUnreported,
           Committed, TxFails
  <2> QED
    BY <2>1, <2>2
<1>5. CASE PollMarker \/ PollRead
  BY <1>5 DEF PollMarker, PollRead
<1>6. ASSUME NEW s \in Stores, Crash(s) PROVE StampInv'
  BY <1>6 DEF Crash
<1>7. CASE UNCHANGED vars
  BY <1>7 DEF vars
<1> QED
  BY <1>1, <1>2, <1>3, <1>4, <1>5, <1>6, <1>7 DEF Next

\* The inductive invariant.
THEOREM Invariance == Spec => []IndInv
<1>1. IndInv /\ [Next]_vars => IndInv'
  BY NextTyped, NextHistory, NextStamps DEF IndInv
<1> QED
  BY InitInv, <1>1, PTL DEF Spec

-----------------------------------------------------------------------------
(* What follows from it. *)

\* Types; and nobody who has left Do or bump still holds it.
THEOREM TypeCorrect == Spec => []TypeOK
<1>1. IndInv => TypeOK
  BY DEF IndInv
<1> QED
  BY <1>1, Invariance, PTL

\* History and snapshot are what was imported since the last Forget, whatever
\* fails and whoever dies.
THEOREM HistoryHolds == Spec => []HistoryIsComplete
<1>1. IndInv => HistoryIsComplete
  BY DEF IndInv
<1> QED
  BY <1>1, Invariance, PTL

\* A Store never replaces its marker by an older one.
THEOREM MarkersHold == Spec => MarkersInOrder
<1>1. IndInv /\ [Next]_vars =>
        [gen # None /\ gen' # gen /\ gen'.by = gen.by => gen.at < gen'.at]_vars
  <2> SUFFICES ASSUME IndInv, Next, gen # None, gen' # gen, gen'.by = gen.by
               PROVE  gen.at < gen'.at
    OBVIOUS
  <2>1. PICK a \in Actors : Mark(a)
    BY DEF Next, Call, Begin, Archive, Replace, Commit, CommitUnreported, Committed, TxFails, Stamp,
           MarkFails, PollMarker, PollRead, Crash, genVars
  <2> QED
    BY <2>1 DEF Mark, IndInv, StampInv, Younger
<1> QED
  BY <1>1, Invariance, PTL DEF Spec, MarkersInOrder

\* No poller misses a change, but for the time between a commit that lost its
\* marker (to a crash, to ErrGenerationMarker or to an error of Do after the
\* commit) and the next marker.
THEOREM NothingMissed == Spec => []NoMissedChange
<1>1. Init => NoMissedChange
  BY DEF Init, NoMissedChange
<1>2. IndInv /\ NoMissedChange /\ [Next]_vars => NoMissedChange'
  <2> SUFFICES ASSUME IndInv, NoMissedChange, [Next]_vars PROVE NoMissedChange'
    OBVIOUS
  <2> USE DEF NoMissedChange, dbVars, genVars, pollVars
  <2>1. ASSUME NEW a \in Actors, Mark(a) PROVE NoMissedChange'
    <3>1. seen # None => \/ seen.by # StoreOf[a]
                         \/ seen.at < stamp[StoreOf[a]]
      BY <2>1 DEF Mark, IndInv, StampInv, Younger
    <3>2. gen' = [by |-> StoreOf[a], at |-> stamp[StoreOf[a]]]
      BY <2>1 DEF Mark
    <3>3. stamp[StoreOf[a]] \in Nat /\ StoreOf[a] \in Stores
      BY StoreOfAssumption DEF IndInv, TypeOK
    <3>4. gen' # None
      BY <3>2, <3>3, MarksAssumption
    <3>5. seen # gen'
      BY <3>1, <3>2, <3>3, <3>4
    <3> QED
      BY <2>1, <3>5 DEF Mark
  <2>2. ASSUME NEW a \in Actors, Commit(a) \/ Stamp(a) PROVE NoMissedChange'
    <3>1. \E b \in Actors : pc'[b] \in {"stamp", "mark"}
      BY <2>2 DEF Commit, Committed, Stamp, Goto, IndInv, TypeOK
    <3> QED
      BY <3>1
  <2>3. ASSUME NEW a \in Actors,
               Call(a) \/ Begin(a) \/ Archive(a) \/ Replace(a) \/ TxFails(a)
        PROVE  NoMissedChange'
    <3>1. UNCHANGED <<lapsed, polling, seen, gen, view, cur>>
      BY <2>3 DEF Call, Begin, Archive, Replace, TxFails
    <3>2. \A b \in Actors : pc[b] \in {"stamp", "mark"} => pc'[b] \in {"stamp", "mark"}
      BY <2>3 DEF Call, Begin, Archive, Replace, TxFails, Goto, InTx, IndInv, TypeOK
    <3> QED
      BY <3>1, <3>2
  <2>4. ASSUME NEW a \in Actors, MarkFails(a) \/ CommitUnreported(a) PROVE NoMissedChange'
    BY <2>4 DEF MarkFails, CommitUnreported
  <2>5. ASSUME NEW s \in Stores, Crash(s) PROVE NoMissedChange'
    <3>1. UNCHANGED <<polling, seen, gen, view, cur>>
      BY <2>5 DEF Crash
    <3>2. \/ ~lapsed /\ \A b \in Actors : pc[b] \notin {"stamp", "mark"}
          \/ lapsed'
          \/ \E b \in Actors : pc'[b] \in {"stamp", "mark"}
      BY <2>5 DEF Crash, IndInv, TypeOK
    <3> QED
      BY <3>1, <3>2
  <2>6. CASE PollMarker \/ PollRead
    BY <2>6 DEF PollMarker, PollRead
  <2>7. CASE UNCHANGED vars
    BY <2>7 DEF vars
  <2> QED
    BY <2>1, <2>2, <2>3, <2>4, <2>5, <2>6, <2>7 DEF Next
<1> QED
  BY <1>1, <1>2, Invariance, PTL DEF Spec
=============================================================================
