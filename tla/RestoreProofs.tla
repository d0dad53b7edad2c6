---------------------------- MODULE RestoreProofs ----------------------------
(***************************************************************************)
(* Restore, proved for archives of any number of entries, wherever renames *)
(* fail, the process dies and another process opens its databases.         *)
(***************************************************************************)
EXTENDS Restore, TLAPS

-----------------------------------------------------------------------------
(* The inductive invariant *)

\* The file at a position of the loop over the names and their three files, and
\* whether the loop is past it.
FileAt(k, l) == Side[Names[k]][l]
Past(k, l) == k < i \/ (k = i /\ l < j)

Swapping == {"aside", "place", "unplace", "putback"}

\* Where the loops are, and which of the swap's fields are still empty.
PosInv ==
  /\ pc = "lock" => i \in 1..(Len(Names) + 1)
  /\ pc = "aside" => i \in 1..Len(Names) /\ j \in 1..3
  /\ pc = "place" => i \in 1..(Len(Names) + 1) /\ Len(placed) = i - 1
  /\ pc = "unplace" => i \in 1..(Len(placed) + 1)
  /\ pc = "putback" => i \in 0..Len(moved)
  /\ \A k \in DOMAIN placed : k \in DOMAIN Names /\ placed[k] = Names[k]
  /\ pc \in {"start", "lock", "refused"} => moved = <<>> /\ aside = Empty
  /\ pc \in {"start", "lock", "refused", "aside"} => placed = <<>>
  /\ pc \in {"start", "lock", "refused", "aside", "place"} => stuck = {}

\* Restore holds the lock of every database that was there when it started and
\* could be read, once its loop is past it, and nobody has a locked database open.
LockInv ==
  /\ locked \cap open = {}
  /\ pc \in Running => \A k \in DOMAIN Names :
       /\ pc = "lock" => k < i
       /\ Names[k] \in Databases /\ before[Names[k]] # "none" /\ Names[k] \notin unread
       => Names[k] \in locked

\* A previous file is in place until it is set aside, and only entries that had
\* none before, or have lost it to the rollback directory, are placed over.
SwapInv ==
  pc \in Swapping =>
    /\ \A f \in Files : before[f] # "none" /\ ~WasMoved(f) => dest[f] = before[f]
    /\ \A f \in Files : before[f] # "none" /\ WasMoved(f) /\ pc # "putback" => aside[f] = before[f]
    /\ \A f \in Files : before[f] = "none" =>
         /\ aside[f] \in {"none", "live"}
         /\ \/ dest[f] \in {"none", "live"}
            \/ dest[f] = "new" /\ \E k \in DOMAIN placed : placed[k] = f
    /\ \A k \in DOMAIN placed : before[placed[k]] # "none" => WasMoved(placed[k])
    /\ \A k, l \in DOMAIN moved : before[moved[k]] # "none" /\ moved[k] = moved[l] => k = l
    /\ \A k \in DOMAIN moved : \E m \in DOMAIN Names, l \in 1..3 :
         moved[k] = FileAt(m, l) /\ (pc = "aside" => Past(m, l))

\* What the first loop is past has been set aside.
VisitInv ==
  /\ pc \in {"aside", "place", "done"} => \A k \in DOMAIN Names : \A l \in 1..3 :
       (pc = "aside" => Past(k, l)) =>
         /\ pc # "done" /\ before[FileAt(k, l)] # "none" => WasMoved(FileAt(k, l))
         /\ FileAt(k, l) \notin Entries => dest[FileAt(k, l)] \in {"none", "live"}
  /\ pc = "aside" => \A n \in Entries \ Databases :
       before[n] # "none" /\ WasMoved(n) => dest[n] = "none"

\* What is left to undo of the placed files.
UnplaceInv ==
  pc = "unplace" =>
    /\ \A f \in stuck : before[f] = "none"
    /\ \A f \in Files : before[f] = "none" /\ dest[f] = "new" =>
         f \in stuck \/ WasMoved(f) \/ \E k \in DOMAIN placed : k >= i /\ placed[k] = f

\* What is left to put back.
PutBackInv ==
  pc = "putback" =>
    /\ \A k \in DOMAIN moved : LET f == moved[k] IN
         before[f] # "none" =>
           /\ k <= i \/ f \in stuck => aside[f] = before[f]
           /\ k > i /\ f \notin stuck => dest[f] = before[f]
    /\ \A f \in Files : before[f] = "none" /\ dest[f] = "new" =>
         f \in stuck \/ \E k \in 1..i : moved[k] = f
    /\ \A f \in stuck : before[f] # "none" => \E k \in DOMAIN moved : k > i /\ moved[k] = f

\* How it ends.
EndInv ==
  /\ pc \in {"start", "lock", "refused", "rolledback"} => \A f \in Files : AsBefore(f)
  /\ pc = "half" => \A f \in Files :
       IF f \in stuck THEN before[f] # "none" => aside[f] = before[f] ELSE AsBefore(f)
  /\ pc = "crashed" => NothingLost

IInv == TypeOK /\ PosInv /\ LockInv /\ SwapInv /\ VisitInv /\ UnplaceInv /\ PutBackInv /\ EndInv

-----------------------------------------------------------------------------
(* The names *)

\* Every position of the loops has a file, the first of a name is itself, and
\* two sidecars of different positions are different files.
LEMMA Positions ==
  /\ Len(Names) \in Nat /\ DOMAIN Names = 1..Len(Names)
  /\ \A k \in DOMAIN Names : Names[k] \in Files /\ Names[k] \in Entries /\ Names[k] \in DOMAIN Side
  /\ \A k \in DOMAIN Names, l \in 1..3 : FileAt(k, l) \in Files
  /\ \A k \in DOMAIN Names : FileAt(k, 1) = Names[k]
  /\ \A k, m \in DOMAIN Names, l, o \in 2..3 : FileAt(k, l) = FileAt(m, o) => k = m /\ l = o
  /\ \A k, m \in DOMAIN Names : Names[k] = Names[m] => k = m
  /\ \A k \in DOMAIN Names, l \in 2..3 : FileAt(k, l) \notin Databases
<1>1. Names \in Seq(Files) /\ Entries \subseteq DOMAIN Side
  BY NamesAssumption
<1>2. Len(Names) \in Nat /\ DOMAIN Names = 1..Len(Names)
  BY <1>1
<1>3. \A k \in DOMAIN Names : Names[k] \in Files /\ Names[k] \in Entries
  BY <1>1, <1>2 DEF Entries
<1>4. \A k \in DOMAIN Names : Names[k] \in DOMAIN Side
  BY <1>1, <1>3
<1>5. \A k \in DOMAIN Names, l \in 1..3 : FileAt(k, l) \in Files
  BY <1>4, SideAssumption DEF FileAt
<1>6. \A k \in DOMAIN Names : FileAt(k, 1) = Names[k]
  BY <1>4, SideAssumption DEF FileAt
<1>7. \A k, m \in DOMAIN Names : Names[k] = Names[m] => k = m
  BY NamesAssumption
<1>8. \A k, m \in DOMAIN Names, l, o \in 2..3 : FileAt(k, l) = FileAt(m, o) => k = m /\ l = o
  BY <1>4, <1>7, SideAssumption DEF FileAt
<1>9. \A k \in DOMAIN Names, l \in 2..3 : FileAt(k, l) \notin Databases
  BY <1>4, SideAssumption DEF FileAt
<1> QED BY <1>2, <1>3, <1>4, <1>5, <1>6, <1>7, <1>8, <1>9

\* Where the loop over the names and their files goes next.
LEMMA NextPosition ==
  ASSUME i \in 1..Len(Names), j \in 1..3, pc = "aside", NextSide
  PROVE  /\ i' \in Nat /\ j' \in Nat /\ pc' \in {"aside", "place"}
         /\ pc' = "aside" => i' \in 1..Len(Names) /\ j' \in 1..3
         /\ pc' = "place" => i' = 1
         /\ \A k \in DOMAIN Names, l \in 1..3 :
              (pc' = "aside" => (k < i' \/ (k = i' /\ l < j'))) <=> (Past(k, l) \/ (k = i /\ l = j))
BY Positions DEF NextSide, Past

-----------------------------------------------------------------------------
(* Types *)

LEMMA InitIInv == Init => IInv
<1> SUFFICES ASSUME Init PROVE IInv
  OBVIOUS
<1>1. PICK gone \in SUBSET Missing : dest = [f \in Files |-> IF f \in gone THEN "none" ELSE "old"]
  BY DEF Init
<1>2. TypeOK
  BY <1>1 DEF Init, TypeOK, Ended, Contents, Empty
<1>3. PosInv /\ LockInv /\ SwapInv /\ VisitInv /\ UnplaceInv /\ PutBackInv
  BY DEF Init, PosInv, LockInv, SwapInv, VisitInv, UnplaceInv, PutBackInv, Running, Swapping
<1>4. EndInv
  BY DEF Init, EndInv, AsBefore
<1> QED BY <1>2, <1>3, <1>4 DEF IInv

LEMMA TypeStep == IInv /\ [Next]_vars => TypeOK'
<1> SUFFICES ASSUME IInv, [Next]_vars PROVE TypeOK'
  OBVIOUS
<1> USE DEF IInv, TypeOK, swapVars
<1>1. CASE Begin \/ SkipLock \/ LockDest
  BY <1>1 DEF Begin, SkipLock, LockDest, IsDatabase, Running
<1>13. CASE SkipUnread
  <2>1. Names[i] \in Files
    BY <1>13, FaultAssumption DEF SkipUnread, IsDatabase
  <2>2. i' = i + 1 /\ unread' = unread \cup {Names[i]}
        /\ UNCHANGED <<pc, j, dest, aside, moved, placed, stuck, locked, open, before>>
    BY <1>13 DEF SkipUnread
  <2> QED BY <2>1, <2>2
<1>2. CASE Stage
  BY <1>2 DEF Stage, Running
<1>3. CASE LockFails \/ StageFails
  BY <1>3 DEF LockFails, StageFails, Refuse, Ended
<1>4. CASE SetAside
  <2>1. i \in 1..Len(Names) /\ j \in 1..3
    BY <1>4 DEF SetAside, PosInv
  <2>2. Side[Names[i]][j] \in Files
    BY <2>1, Positions DEF FileAt
  <2>3. i' \in Nat /\ j' \in Nat /\ pc' \in Ended \cup Running
    BY <1>4, <2>1, NextPosition DEF SetAside, Running
  <2>4. moved' = moved \/ moved' = Append(moved, Side[Names[i]][j])
    BY <1>4 DEF SetAside
  <2>5. moved' \in Seq(Files)
    <3>1. moved \in Seq(Files)
      OBVIOUS
    <3> HIDE DEF IInv, TypeOK
    <3> QED BY <2>2, <2>4, <3>1
  <2>6. dest' = dest \/ dest' = [dest EXCEPT ![Side[Names[i]][j]] = "none"]
    BY <1>4 DEF SetAside
  <2>7. dest' \in [Files -> Contents]
    BY <2>2, <2>6 DEF Contents
  <2>8. aside' \in [Files -> Contents]
    BY <1>4, <2>2 DEF SetAside
  <2> QED BY <1>4, <2>3, <2>5, <2>7, <2>8 DEF SetAside
<1>5. CASE Place
  <2>1. i \in DOMAIN Names /\ Names[i] \in Files
    BY <1>5, Positions DEF Place, PosInv
  <2> QED BY <1>5, <2>1 DEF Place, Contents
<1>6. CASE RenameFails \/ UnplaceEnds
  BY <1>6 DEF RenameFails, UnplaceEnds, Running
<1>7. CASE Finish \/ AbortEnds \/ Crash
  BY <1>7 DEF Finish, AbortEnds, Crash, Ended, Empty, Contents
<1>8. CASE Unplace
  <2>1. placed[i] \in Files
    BY <1>8 DEF Unplace, PosInv
  <2>2. /\ dest' = dest \/ dest' = [dest EXCEPT ![placed[i]] = "none"]
        /\ stuck' = stuck \/ stuck' = stuck \cup {placed[i]}
        /\ i' = i + 1 /\ UNCHANGED <<pc, j, aside, moved, placed, locked, open, before, unread>>
    BY <1>8 DEF Unplace
  <2>3. dest' \in [Files -> Contents]
    BY <2>1, <2>2 DEF Contents
  <2> QED BY <2>1, <2>2, <2>3
<1>9. CASE PutBack
  <2>1. moved[i] \in Files /\ i - 1 \in Nat
    BY <1>9 DEF PutBack, PosInv
  <2>2. dest' \in [Files -> Contents]
    BY <1>9, <2>1 DEF PutBack
  <2>3. aside' \in [Files -> Contents]
    BY <1>9, <2>1 DEF PutBack, Contents
  <2> QED BY <1>9, <2>1, <2>2, <2>3 DEF PutBack
<1>10. ASSUME NEW n \in Databases, Open(n) PROVE TypeOK'
  BY <1>10, FaultAssumption DEF Open, Contents
<1>11. ASSUME NEW n \in Databases, Close(n) PROVE TypeOK'
  BY <1>11 DEF Close
<1>12. CASE UNCHANGED vars
  BY <1>12 DEF vars
<1> QED BY <1>1, <1>2, <1>3, <1>4, <1>5, <1>6, <1>7, <1>8, <1>9, <1>10, <1>11, <1>12, <1>13
        DEF Next

-----------------------------------------------------------------------------
(* Before the swap *)

LEMMA BeginKeeps ==
  ASSUME IInv, TypeOK', Begin
  PROVE  IInv'
<1>1. /\ pc = "start" /\ pc' = "lock" /\ i' = 1
      /\ before' = dest /\ dest' = dest
      /\ UNCHANGED <<aside, moved, placed, stuck, locked, open, unread>>
  BY DEF Begin, swapVars
<1>2. PosInv'
  BY <1>1, Positions DEF IInv, PosInv
<1>3. LockInv'
  BY <1>1, Positions DEF IInv, LockInv
<1>4. SwapInv' /\ VisitInv' /\ UnplaceInv' /\ PutBackInv' /\ EndInv'
  BY <1>1 DEF SwapInv, VisitInv, UnplaceInv, PutBackInv, EndInv, AsBefore, Swapping
<1> QED BY <1>2, <1>3, <1>4 DEF IInv

\* Skipping an entry leaves no previous database unlocked: one that is there is
\* recognised, or cannot be read.
LEMMA LockLoopKeeps ==
  ASSUME IInv, TypeOK', SkipLock \/ SkipUnread \/ LockDest
  PROVE  IInv'
<1>1. /\ pc = "lock" /\ pc' = "lock" /\ i' = i + 1 /\ i \in 1..Len(Names)
      /\ UNCHANGED <<dest, aside, moved, placed, stuck, open, before>>
      /\ unread \subseteq unread'
  BY DEF IInv, PosInv, SkipLock, SkipUnread, LockDest, swapVars
<1>2. PosInv'
  BY <1>1, Positions DEF IInv, PosInv
<1>3. locked' \cap open' = {} /\ locked \subseteq locked'
  BY <1>1 DEF IInv, LockInv, SkipLock, SkipUnread, LockDest
<1>4. Names[i] \in Databases /\ before[Names[i]] # "none" /\ Names[i] \notin unread'
      => Names[i] \in locked'
  <2> SUFFICES ASSUME Names[i] \in Databases, before[Names[i]] # "none", Names[i] \notin unread'
               PROVE  Names[i] \in locked'
    OBVIOUS
  <2>1. Present(Names[i])
    BY <1>1, Positions DEF IInv, EndInv, AsBefore, Present
  <2> QED BY <2>1 DEF SkipLock, SkipUnread, LockDest, IsDatabase
<1>5. LockInv'
  BY <1>1, <1>3, <1>4, Positions DEF IInv, TypeOK, LockInv, Running
<1>6. SwapInv' /\ VisitInv' /\ UnplaceInv' /\ PutBackInv' /\ EndInv'
  BY <1>1 DEF IInv, SwapInv, VisitInv, UnplaceInv, PutBackInv, EndInv, AsBefore, Swapping
<1> QED BY <1>2, <1>5, <1>6 DEF IInv

LEMMA RefuseKeeps ==
  ASSUME IInv, TypeOK', LockFails \/ StageFails
  PROVE  IInv'
<1>1. /\ pc = "lock" /\ pc' = "refused" /\ locked' = {}
      /\ UNCHANGED <<dest, aside, moved, placed, stuck, open, before, unread>>
  BY DEF LockFails, StageFails, Refuse, swapVars
<1>2. PosInv'
  BY <1>1 DEF IInv, PosInv
<1>3. LockInv'
  BY <1>1 DEF LockInv, Running
<1>4. SwapInv' /\ VisitInv' /\ UnplaceInv' /\ PutBackInv' /\ EndInv'
  BY <1>1 DEF IInv, SwapInv, VisitInv, UnplaceInv, PutBackInv, EndInv, AsBefore, Swapping
<1> QED BY <1>2, <1>3, <1>4 DEF IInv

LEMMA StageKeeps ==
  ASSUME IInv, TypeOK', Stage
  PROVE  IInv'
<1>1. /\ pc = "lock" /\ i > Len(Names) /\ i' = 1 /\ j' = 1
      /\ pc' = IF Names = <<>> THEN "place" ELSE "aside"
      /\ UNCHANGED <<dest, aside, moved, placed, stuck, locked, open, before, unread>>
  BY DEF Stage, swapVars
<1>2. moved = <<>> /\ placed = <<>> /\ stuck = {} /\ aside = Empty
  BY <1>1 DEF IInv, PosInv
<1>3. PosInv'
  BY <1>1, <1>2, Positions DEF IInv, PosInv
<1>4. LockInv'
  BY <1>1, Positions DEF IInv, TypeOK, LockInv, Running
<1>5. \A f \in Files : AsBefore(f)
  BY <1>1 DEF IInv, EndInv
<1>6. SwapInv'
  BY <1>1, <1>2, <1>5 DEF SwapInv, AsBefore, WasMoved, Empty
<1>7. VisitInv'
  BY <1>1, <1>2, Positions DEF VisitInv, Past, WasMoved
<1>8. UnplaceInv' /\ PutBackInv' /\ EndInv'
  BY <1>1 DEF UnplaceInv, PutBackInv, EndInv
<1> QED BY <1>3, <1>4, <1>6, <1>7, <1>8 DEF IInv

-----------------------------------------------------------------------------
(* swap.run *)

\* No previous file is set aside twice: one that was moved is no longer there when
\* its name comes up again as another name's log.
LEMMA SetAsideOnce ==
  ASSUME IInv, pc = "aside", Present(FileAt(i, j)), before[FileAt(i, j)] # "none"
  PROVE  ~WasMoved(FileAt(i, j))
<1> DEFINE f == FileAt(i, j)
<1> SUFFICES ASSUME NEW k \in DOMAIN moved, moved[k] = f PROVE FALSE
  BY DEF WasMoved
<1>1. i \in DOMAIN Names /\ j \in 1..3
  BY Positions DEF IInv, PosInv
<1>2. PICK m \in DOMAIN Names, l \in 1..3 : f = FileAt(m, l) /\ Past(m, l)
  BY DEF IInv, SwapInv, Swapping
<1>3. CASE f \in Entries \ Databases
  BY <1>3 DEF IInv, VisitInv, WasMoved, Present
<1>4. CASE f \notin Entries \ Databases
  <2>1. \/ l # 1 /\ j # 1
        \/ l = 1 /\ j = 1
    BY <1>1, <1>2, <1>4, Positions
  <2>2. m = i /\ l = j
    BY <1>1, <1>2, <2>1, Positions
  <2> QED BY <1>1, <1>2, <2>2 DEF Past, IInv, TypeOK
<1> QED BY <1>3, <1>4

LEMMA SetAsideKeeps ==
  ASSUME IInv, TypeOK', SetAside
  PROVE  IInv'
<1> DEFINE f == FileAt(i, j)
<1>1. /\ pc = "aside" /\ i \in 1..Len(Names) /\ j \in 1..3 /\ NextSide
      /\ placed = <<>> /\ stuck = {}
      /\ UNCHANGED <<placed, stuck, locked, open, before, unread>>
  BY DEF IInv, PosInv, SetAside
<1>2. f \in Files
  BY <1>1, Positions
<1>3. /\ i' \in Nat /\ j' \in Nat /\ pc' \in {"aside", "place"}
      /\ pc' = "aside" => i' \in 1..Len(Names) /\ j' \in 1..3
      /\ pc' = "place" => i' = 1
      /\ \A k \in DOMAIN Names, l \in 1..3 :
           (pc' = "aside" => Past(k, l)') <=> (Past(k, l) \/ (k = i /\ l = j))
  BY <1>1, NextPosition DEF Past
<1>4. IF Present(f)
      THEN /\ aside' = [aside EXCEPT ![f] = dest[f]]
           /\ dest' = [dest EXCEPT ![f] = "none"]
           /\ moved' = Append(moved, f)
      ELSE UNCHANGED <<aside, dest, moved>>
  BY DEF SetAside, FileAt
<1>5. \A g : WasMoved(g)' <=> (WasMoved(g) \/ (Present(f) /\ g = f))
  <2>1. CASE Present(f)
    <3>1. moved' = Append(moved, f) /\ moved \in Seq(Files)
      BY <1>4, <2>1 DEF IInv, TypeOK
    <3> QED BY <1>2, <2>1, <3>1 DEF WasMoved
  <2>2. CASE ~Present(f)
    BY <1>4, <2>2 DEF WasMoved
  <2> QED BY <2>1, <2>2
<1>6. \A g \in Files : g # f => dest'[g] = dest[g] /\ aside'[g] = aside[g]
  BY <1>2, <1>4 DEF IInv, TypeOK
<1>7. dest'[f] = "none"
  BY <1>2, <1>4 DEF IInv, TypeOK, Present
<1>8. Present(f) => aside'[f] = dest[f]
  BY <1>2, <1>4 DEF IInv, TypeOK
<1>9. ~Present(f) => aside'[f] = aside[f] /\ dest[f] = "none"
  BY <1>4 DEF Present
<1>10. Present(f) /\ before[f] # "none" => ~WasMoved(f) /\ dest[f] = before[f]
  BY <1>1, <1>2, SetAsideOnce DEF IInv, SwapInv, Swapping
<1>11. PosInv'
  BY <1>1, <1>3, Positions DEF IInv, PosInv
<1>12. LockInv'
  BY <1>1, <1>3 DEF IInv, LockInv, Running
<1>13. SwapInv'
  <2>1. \A g \in Files : before[g] # "none" /\ ~WasMoved(g)' => dest'[g] = before[g]
    BY <1>1, <1>5, <1>6, <1>7, <1>9 DEF IInv, SwapInv, Swapping
  <2>2. \A g \in Files : before[g] # "none" /\ WasMoved(g)' => aside'[g] = before[g]
    BY <1>1, <1>5, <1>6, <1>8, <1>9, <1>10 DEF IInv, SwapInv, Swapping
  <2>3. \A g \in Files : before[g] = "none" =>
          aside'[g] \in {"none", "live"} /\ dest'[g] \in {"none", "live"}
    BY <1>1, <1>6, <1>7, <1>8, <1>9 DEF IInv, SwapInv, Swapping
  <2>4. \A k, l \in DOMAIN moved' :
          before[moved'[k]] # "none" /\ moved'[k] = moved'[l] => k = l
    <3>1. CASE Present(f)
      <4>1. moved' = Append(moved, f) /\ moved \in Seq(Files)
        BY <1>4, <3>1 DEF IInv, TypeOK
      <4>2. \A k \in DOMAIN moved : before[f] # "none" => moved[k] # f
        BY <1>10, <3>1 DEF WasMoved
      <4>3. \A k, l \in DOMAIN moved : before[moved[k]] # "none" /\ moved[k] = moved[l] => k = l
        BY <1>1 DEF IInv, SwapInv, Swapping
      <4> QED BY <1>2, <4>1, <4>2, <4>3
    <3>2. CASE ~Present(f)
      BY <1>1, <1>4, <3>2 DEF IInv, SwapInv, Swapping
    <3> QED BY <3>1, <3>2
  <2>5. \A k \in DOMAIN moved' : \E m \in DOMAIN Names, l \in 1..3 :
          moved'[k] = FileAt(m, l) /\ (pc' = "aside" => Past(m, l)')
    <3> SUFFICES ASSUME NEW k \in DOMAIN moved'
                 PROVE  \E m \in DOMAIN Names, l \in 1..3 :
                          moved'[k] = FileAt(m, l) /\ (pc' = "aside" => Past(m, l)')
      OBVIOUS
    <3>1. moved'[k] = f \/ WasMoved(moved'[k])
      <4>1. \E g : g = moved'[k] /\ WasMoved(g)'
        BY DEF WasMoved
      <4> QED BY <1>5, <4>1
    <3>2. CASE moved'[k] = f
      <4>1. \E m \in DOMAIN Names, l \in 1..3 : m = i /\ l = j /\ (pc' = "aside" => Past(m, l)')
        BY <1>1, <1>3, Positions
      <4> QED BY <3>2, <4>1
    <3>3. CASE WasMoved(moved'[k])
      <4>1. PICK m \in DOMAIN Names, l \in 1..3 : moved'[k] = FileAt(m, l) /\ Past(m, l)
        BY <1>1, <3>3 DEF IInv, SwapInv, Swapping, WasMoved
      <4> QED BY <1>3, <4>1
    <3> QED BY <3>1, <3>2, <3>3
  <2>6. (/\ \A g \in Files : before[g] # "none" /\ ~WasMoved(g) => dest[g] = before[g]
         /\ \A g \in Files : before[g] # "none" /\ WasMoved(g) /\ pc # "putback" => aside[g] = before[g])'
    BY <1>1, <2>1, <2>2
  <2>7. (\A g \in Files : before[g] = "none" =>
          /\ aside[g] \in {"none", "live"}
          /\ \/ dest[g] \in {"none", "live"}
             \/ dest[g] = "new" /\ \E k \in DOMAIN placed : placed[k] = g)'
    BY <1>1, <2>3
  <2>8. (\A k \in DOMAIN placed : before[placed[k]] # "none" => WasMoved(placed[k]))'
    BY <1>1
  <2>9. (\A k, l \in DOMAIN moved : before[moved[k]] # "none" /\ moved[k] = moved[l] => k = l)'
    BY <1>1, <2>4
  <2>10. (\A k \in DOMAIN moved : \E m \in DOMAIN Names, l \in 1..3 :
           moved[k] = FileAt(m, l) /\ (pc = "aside" => Past(m, l)))'
    BY <2>5 DEF FileAt
  <2> QED BY <2>6, <2>7, <2>8, <2>9, <2>10 DEF SwapInv
<1>14. VisitInv'
  <2>1. ASSUME NEW k \in DOMAIN Names, NEW l \in 1..3, pc' = "aside" => Past(k, l)'
        PROVE  /\ before[FileAt(k, l)] # "none" => WasMoved(FileAt(k, l))'
               /\ FileAt(k, l) \notin Entries => dest'[FileAt(k, l)] \in {"none", "live"}
    <3> DEFINE g == FileAt(k, l)
    <3>1. g \in Files
      BY Positions
    <3>2. CASE g = f
      BY <1>1, <1>2, <1>5, <1>7, <1>9, <3>2 DEF IInv, SwapInv, Swapping
    <3>3. CASE g # f
      <4>1. Past(k, l)
        BY <1>3, <2>1, <3>3
      <4> QED BY <1>1, <1>5, <1>6, <3>1, <3>3, <4>1 DEF IInv, VisitInv
    <3> QED BY <3>2, <3>3
  <2>2. \A n \in Entries \ Databases : before[n] # "none" /\ WasMoved(n)' => dest'[n] = "none"
    <3>1. Entries \subseteq Files
      BY Positions DEF Entries
    <3> QED BY <1>1, <1>5, <1>6, <1>7, <3>1 DEF IInv, VisitInv
  <2> QED BY <1>1, <1>3, <2>1, <2>2 DEF VisitInv, FileAt
<1>15. UnplaceInv' /\ PutBackInv' /\ EndInv'
  BY <1>3 DEF UnplaceInv, PutBackInv, EndInv
<1> QED BY <1>11, <1>12, <1>13, <1>14, <1>15 DEF IInv

\* What is placed over had nothing before, or has lost it to the rollback directory.
LEMMA PlaceKeeps ==
  ASSUME IInv, TypeOK', Place
  PROVE  IInv'
<1> DEFINE n == Names[i]
<1>1. /\ pc = "place" /\ pc' = "place" /\ i \in 1..Len(Names) /\ i' = i + 1
      /\ Len(placed) = i - 1 /\ placed' = Append(placed, n)
      /\ dest' = [dest EXCEPT ![n] = "new"]
      /\ UNCHANGED <<aside, moved, stuck, locked, open, before, unread>>
  BY DEF IInv, PosInv, Place
<1>2. n \in Files /\ n \in Entries /\ n = FileAt(i, 1)
  BY <1>1, Positions
<1>3. dest'[n] = "new" /\ \A g \in Files : g # n => dest'[g] = dest[g]
  BY <1>1, <1>2 DEF IInv, TypeOK
<1>4. before[n] # "none" => WasMoved(n)
  BY <1>1, <1>2, Positions DEF IInv, VisitInv
<1>5. /\ DOMAIN placed' = DOMAIN placed \cup {i} /\ placed'[i] = n
      /\ \A k \in DOMAIN placed : placed'[k] = placed[k]
  <2>1. placed \in Seq(Files)
    BY DEF IInv, TypeOK
  <2> QED BY <1>1, <1>2, <2>1
<1>6. \A g : WasMoved(g)' <=> WasMoved(g)
  BY <1>1 DEF WasMoved
<1>7. PosInv'
  <2>1. placed \in Seq(Files) /\ placed' \in Seq(Files)
    BY DEF IInv, TypeOK
  <2>2. Len(placed') = i' - 1
    BY <1>1, <1>2, <2>1
  <2>3. \A k \in DOMAIN placed' : k \in DOMAIN Names /\ placed'[k] = Names[k]
    BY <1>1, <1>5, Positions DEF IInv, PosInv
  <2> QED BY <1>1, <2>2, <2>3, Positions DEF IInv, PosInv
<1>8. LockInv'
  BY <1>1 DEF IInv, LockInv, Running
<1>9. SwapInv'
  <2>1. (/\ \A g \in Files : before[g] # "none" /\ ~WasMoved(g) => dest[g] = before[g]
         /\ \A g \in Files : before[g] # "none" /\ WasMoved(g) /\ pc # "putback" => aside[g] = before[g])'
    BY <1>1, <1>3, <1>4, <1>6 DEF IInv, SwapInv, Swapping
  <2>2. (\A g \in Files : before[g] = "none" =>
          /\ aside[g] \in {"none", "live"}
          /\ \/ dest[g] \in {"none", "live"}
             \/ dest[g] = "new" /\ \E k \in DOMAIN placed : placed[k] = g)'
    BY <1>1, <1>3, <1>5 DEF IInv, SwapInv, Swapping
  <2>3. (\A k \in DOMAIN placed : before[placed[k]] # "none" => WasMoved(placed[k]))'
    BY <1>1, <1>4, <1>5 DEF IInv, SwapInv, Swapping, WasMoved
  <2>4. (\A k, l \in DOMAIN moved : before[moved[k]] # "none" /\ moved[k] = moved[l] => k = l)'
    BY <1>1 DEF IInv, SwapInv, Swapping
  <2>5. (\A k \in DOMAIN moved : \E m \in DOMAIN Names, l \in 1..3 :
           moved[k] = FileAt(m, l) /\ (pc = "aside" => Past(m, l)))'
    BY <1>1 DEF IInv, SwapInv, Swapping, FileAt
  <2> QED BY <2>1, <2>2, <2>3, <2>4, <2>5 DEF SwapInv
<1>10. VisitInv'
  <2>1. \A k \in DOMAIN Names, l \in 1..3 :
          /\ before[FileAt(k, l)] # "none" => WasMoved(FileAt(k, l))'
          /\ FileAt(k, l) \notin Entries => dest'[FileAt(k, l)] \in {"none", "live"}
    BY <1>1, <1>2, <1>3, <1>6, Positions DEF IInv, VisitInv
  <2> QED BY <1>1, <2>1 DEF VisitInv, FileAt
<1>11. UnplaceInv' /\ PutBackInv' /\ EndInv'
  BY <1>1 DEF UnplaceInv, PutBackInv, EndInv
<1> QED BY <1>7, <1>8, <1>9, <1>10, <1>11 DEF IInv

LEMMA RenameFailsKeeps ==
  ASSUME IInv, TypeOK', RenameFails
  PROVE  IInv'
<1>1. /\ pc \in {"aside", "place"} /\ pc' = "unplace" /\ i' = 1
      /\ UNCHANGED <<dest, aside, moved, placed, stuck, locked, open, before, unread>>
  BY DEF RenameFails, swapVars
<1>2. stuck = {}
  BY <1>1 DEF IInv, PosInv
<1>3. Len(placed) \in Nat /\ DOMAIN placed = 1..Len(placed)
  BY DEF IInv, TypeOK
<1>4. PosInv'
  BY <1>1, <1>3 DEF IInv, PosInv
<1>5. LockInv'
  BY <1>1 DEF IInv, LockInv, Running
<1>6. SwapInv'
  BY <1>1 DEF IInv, SwapInv, Swapping, WasMoved, FileAt
<1>7. UnplaceInv'
  BY <1>1, <1>2, <1>3 DEF IInv, SwapInv, Swapping, UnplaceInv, WasMoved
<1>8. VisitInv' /\ PutBackInv' /\ EndInv'
  BY <1>1 DEF VisitInv, PutBackInv, EndInv
<1> QED BY <1>4, <1>5, <1>6, <1>7, <1>8 DEF IInv

LEMMA FinishKeeps ==
  ASSUME IInv, TypeOK', Finish
  PROVE  IInv'
<1>1. /\ pc = "place" /\ pc' = "done" /\ locked' = {}
      /\ UNCHANGED <<dest, moved, placed, stuck, open, before, unread>>
  BY DEF Finish, swapVars
<1>2. PosInv'
  BY <1>1 DEF IInv, PosInv
<1>3. LockInv'
  BY <1>1 DEF LockInv, Running
<1>4. VisitInv'
  BY <1>1 DEF IInv, VisitInv, FileAt
<1>5. SwapInv' /\ UnplaceInv' /\ PutBackInv' /\ EndInv'
  BY <1>1 DEF SwapInv, UnplaceInv, PutBackInv, EndInv, Swapping
<1> QED BY <1>2, <1>3, <1>4, <1>5 DEF IInv

-----------------------------------------------------------------------------
(* swap.abort *)

LEMMA UnplaceKeeps ==
  ASSUME IInv, TypeOK', Unplace
  PROVE  IInv'
<1> DEFINE n == placed[i]
<1>1. /\ pc = "unplace" /\ pc' = "unplace" /\ i \in 1..Len(placed) /\ i' = i + 1
      /\ UNCHANGED <<aside, moved, placed, locked, open, before, unread>>
      /\ \/ WasMoved(n) /\ UNCHANGED <<dest, stuck>>
         \/ ~WasMoved(n) /\ dest' = [dest EXCEPT ![n] = "none"] /\ UNCHANGED stuck
         \/ ~WasMoved(n) /\ stuck' = stuck \cup {n} /\ UNCHANGED dest
  BY DEF IInv, PosInv, Unplace
<1>2. i \in DOMAIN placed /\ n \in Files /\ DOMAIN placed = 1..Len(placed) /\ Len(placed) \in Nat
  BY <1>1 DEF IInv, TypeOK
<1>3. ~WasMoved(n) => before[n] = "none"
  BY <1>1, <1>2 DEF IInv, SwapInv, Swapping
<1>4. \A g \in Files : \/ dest'[g] = dest[g]
                       \/ g = n /\ before[n] = "none" /\ dest'[n] = "none"
  BY <1>1, <1>2, <1>3 DEF IInv, TypeOK
<1>5. stuck \subseteq stuck' /\ \A g \in stuck' : g \in stuck \/ before[g] = "none"
  BY <1>1, <1>3
<1>6. WasMoved(n) \/ dest'[n] = "none" \/ n \in stuck'
  BY <1>1, <1>2 DEF IInv, TypeOK
<1>7. \A g : WasMoved(g)' <=> WasMoved(g)
  BY <1>1 DEF WasMoved
<1>8. PosInv'
  BY <1>1, <1>2 DEF IInv, PosInv
<1>9. LockInv'
  BY <1>1 DEF IInv, LockInv, Running
<1>10. SwapInv'
  BY <1>1, <1>4, <1>7 DEF IInv, SwapInv, Swapping, FileAt
<1>11. UnplaceInv'
  <2>1. \A g \in stuck' : before[g] = "none"
    BY <1>1, <1>5 DEF IInv, UnplaceInv
  <2>2. ASSUME NEW g \in Files, before[g] = "none", dest'[g] = "new"
        PROVE  g \in stuck' \/ WasMoved(g) \/ \E k \in DOMAIN placed : k >= i + 1 /\ placed[k] = g
    <3>1. dest[g] = "new"
      BY <1>4, <2>2
    <3>2. CASE g = n
      BY <1>6, <2>2, <3>2
    <3>3. CASE g # n
      BY <1>1, <1>2, <1>5, <2>2, <3>1, <3>3 DEF IInv, UnplaceInv
    <3> QED BY <3>2, <3>3
  <2> QED BY <1>1, <1>7, <2>1, <2>2 DEF UnplaceInv
<1>12. VisitInv' /\ PutBackInv' /\ EndInv'
  BY <1>1 DEF VisitInv, PutBackInv, EndInv
<1> QED BY <1>8, <1>9, <1>10, <1>11, <1>12 DEF IInv

LEMMA UnplaceEndsKeeps ==
  ASSUME IInv, TypeOK', UnplaceEnds
  PROVE  IInv'
<1>1. /\ pc = "unplace" /\ pc' = "putback" /\ i > Len(placed) /\ i' = Len(moved)
      /\ UNCHANGED <<dest, aside, moved, placed, stuck, locked, open, before, unread>>
  BY DEF UnplaceEnds, swapVars
<1>2. /\ Len(placed) \in Nat /\ DOMAIN placed = 1..Len(placed) /\ i \in Nat
      /\ Len(moved) \in Nat /\ DOMAIN moved = 1..Len(moved) /\ moved \in Seq(Files)
  BY DEF IInv, TypeOK
<1>3. PosInv'
  BY <1>1, <1>2 DEF IInv, PosInv
<1>4. LockInv'
  BY <1>1 DEF IInv, LockInv, Running
<1>5. SwapInv'
  BY <1>1 DEF IInv, SwapInv, Swapping, WasMoved, FileAt
<1>6. PutBackInv'
  <2>1. \A k \in DOMAIN moved : before[moved[k]] # "none" => aside[moved[k]] = before[moved[k]]
    BY <1>1, <1>2 DEF IInv, SwapInv, Swapping, WasMoved
  <2>2. \A f \in Files : before[f] = "none" /\ dest[f] = "new" =>
          f \in stuck \/ \E k \in 1..Len(moved) : moved[k] = f
    BY <1>1, <1>2 DEF IInv, UnplaceInv, WasMoved
  <2>3. \A f \in stuck : before[f] = "none"
    BY <1>1 DEF IInv, UnplaceInv
  <2> QED BY <1>1, <1>2, <2>1, <2>2, <2>3 DEF PutBackInv
<1>7. VisitInv' /\ UnplaceInv' /\ EndInv'
  BY <1>1 DEF VisitInv, UnplaceInv, EndInv
<1> QED BY <1>3, <1>4, <1>5, <1>6, <1>7 DEF IInv

\* What is renamed back is the previous file, and nothing has been renamed back or
\* called stuck at an earlier turn that this one is about.
LEMMA PutBackKeeps ==
  ASSUME IInv, TypeOK', PutBack
  PROVE  IInv'
<1> DEFINE f == moved[i]
<1>1. /\ pc = "putback" /\ pc' = "putback" /\ i \in 1..Len(moved) /\ i' = i - 1
      /\ UNCHANGED <<moved, placed, locked, open, before, unread>>
      /\ \/ /\ aside[f] # "none"
            /\ dest' = [dest EXCEPT ![f] = aside[f]]
            /\ aside' = [aside EXCEPT ![f] = "none"]
            /\ UNCHANGED stuck
         \/ stuck' = stuck \cup {f} /\ UNCHANGED <<dest, aside>>
  BY DEF IInv, PosInv, PutBack
<1>2. i \in DOMAIN moved /\ f \in Files /\ DOMAIN moved = 1..Len(moved) /\ Len(moved) \in Nat
  BY <1>1 DEF IInv, TypeOK
<1>3. \A k, l \in DOMAIN moved : before[moved[k]] # "none" /\ moved[k] = moved[l] => k = l
  BY <1>1 DEF IInv, SwapInv, Swapping
<1>4. before[f] # "none" => f \notin stuck /\ aside[f] = before[f]
  BY <1>1, <1>2, <1>3 DEF IInv, PutBackInv
<1>5. before[f] = "none" => aside[f] \in {"none", "live"}
  BY <1>1, <1>2 DEF IInv, SwapInv, Swapping
<1>6. \A g \in Files : g # f => dest'[g] = dest[g] /\ aside'[g] = aside[g]
  BY <1>1, <1>2 DEF IInv, TypeOK
<1>7. \/ dest'[f] = aside[f] /\ aside[f] # "none" /\ aside'[f] = "none" /\ stuck' = stuck
      \/ dest'[f] = dest[f] /\ aside'[f] = aside[f] /\ stuck' = stuck \cup {f}
  BY <1>1, <1>2 DEF IInv, TypeOK
<1>8. WasMoved(f) /\ \A g : WasMoved(g)' <=> WasMoved(g)
  BY <1>1, <1>2 DEF WasMoved
<1>9. PosInv'
  BY <1>1, <1>2 DEF IInv, PosInv
<1>10. LockInv'
  BY <1>1 DEF IInv, LockInv, Running
<1>11. SwapInv'
  <2>1. (/\ \A g \in Files : before[g] # "none" /\ ~WasMoved(g) => dest[g] = before[g]
         /\ \A g \in Files : before[g] # "none" /\ WasMoved(g) /\ pc # "putback" => aside[g] = before[g])'
    BY <1>1, <1>6, <1>8 DEF IInv, SwapInv, Swapping
  <2>2. (\A g \in Files : before[g] = "none" =>
          /\ aside[g] \in {"none", "live"}
          /\ \/ dest[g] \in {"none", "live"}
             \/ dest[g] = "new" /\ \E k \in DOMAIN placed : placed[k] = g)'
    BY <1>1, <1>5, <1>6, <1>7 DEF IInv, SwapInv, Swapping
  <2>3. (\A k \in DOMAIN placed : before[placed[k]] # "none" => WasMoved(placed[k]))'
    BY <1>1 DEF IInv, SwapInv, Swapping, WasMoved
  <2>4. (\A k, l \in DOMAIN moved : before[moved[k]] # "none" /\ moved[k] = moved[l] => k = l)'
    BY <1>1, <1>3
  <2>5. (\A k \in DOMAIN moved : \E m \in DOMAIN Names, l \in 1..3 :
           moved[k] = FileAt(m, l) /\ (pc = "aside" => Past(m, l)))'
    BY <1>1 DEF IInv, SwapInv, Swapping, FileAt
  <2> QED BY <2>1, <2>2, <2>3, <2>4, <2>5 DEF SwapInv
<1>12. PutBackInv'
  <2>1. ASSUME NEW k \in DOMAIN moved, before[moved[k]] # "none"
        PROVE  /\ k <= i - 1 \/ moved[k] \in stuck' => aside'[moved[k]] = before[moved[k]]
               /\ k > i - 1 /\ moved[k] \notin stuck' => dest'[moved[k]] = before[moved[k]]
    <3>1. moved[k] \in Files
      BY DEF IInv, TypeOK
    <3>2. CASE k = i
      BY <1>2, <1>4, <1>7, <2>1, <3>2
    <3>3. CASE k # i
      <4>1. moved[k] # f
        BY <1>2, <1>3, <2>1, <3>3
      <4>2. moved[k] \in stuck' <=> moved[k] \in stuck
        BY <1>7, <4>1
      <4> QED BY <1>1, <1>2, <1>6, <2>1, <3>1, <3>3, <4>1, <4>2 DEF IInv, PutBackInv
    <3> QED BY <3>2, <3>3
  <2>2. ASSUME NEW g \in Files, before[g] = "none", dest'[g] = "new"
        PROVE  g \in stuck' \/ \E k \in 1..(i - 1) : moved[k] = g
    <3>1. CASE g = f
      BY <1>5, <1>7, <2>2, <3>1
    <3>2. CASE g # f
      <4>1. g \in stuck \/ \E k \in 1..i : moved[k] = g
        BY <1>1, <1>6, <2>2, <3>2 DEF IInv, PutBackInv
      <4> QED BY <1>1, <1>2, <1>7, <3>2, <4>1
    <3> QED BY <3>1, <3>2
  <2>3. ASSUME NEW g \in stuck', before[g] # "none"
        PROVE  \E k \in DOMAIN moved : k > i - 1 /\ moved[k] = g
    <3>1. CASE g = f
      BY <1>1, <1>2, <3>1
    <3>2. CASE g # f
      BY <1>1, <1>2, <1>7, <2>3, <3>2 DEF IInv, PutBackInv
    <3> QED BY <3>1, <3>2
  <2> QED BY <1>1, <2>1, <2>2, <2>3 DEF PutBackInv
<1>13. VisitInv' /\ UnplaceInv' /\ EndInv'
  BY <1>1 DEF VisitInv, UnplaceInv, EndInv
<1> QED BY <1>9, <1>10, <1>11, <1>12, <1>13 DEF IInv

LEMMA AbortEndsKeeps ==
  ASSUME IInv, TypeOK', AbortEnds
  PROVE  IInv'
<1>1. /\ pc = "putback" /\ i = 0 /\ locked' = {}
      /\ \/ stuck = {} /\ pc' = "rolledback"
         \/ pc' = "half" /\ aside' = aside
      /\ UNCHANGED <<dest, moved, placed, stuck, open, before, unread>>
  BY DEF AbortEnds, swapVars
<1>2. \A f \in Files : IF f \in stuck THEN before[f] # "none" => aside[f] = before[f] ELSE AsBefore(f)
  <2> SUFFICES ASSUME NEW f \in Files
               PROVE  IF f \in stuck THEN before[f] # "none" => aside[f] = before[f] ELSE AsBefore(f)
    OBVIOUS
  <2>1. CASE before[f] = "none"
    <3>1. dest[f] = "new" => f \in stuck
      BY <1>1, <2>1 DEF IInv, PutBackInv
    <3> QED BY <1>1, <2>1, <3>1 DEF IInv, SwapInv, Swapping, AsBefore
  <2>2. CASE before[f] # "none" /\ ~WasMoved(f)
    <3>1. f \notin stuck
      BY <1>1, <2>2 DEF IInv, PutBackInv, WasMoved
    <3> QED BY <1>1, <2>2, <3>1 DEF IInv, SwapInv, Swapping, AsBefore
  <2>3. CASE before[f] # "none" /\ WasMoved(f)
    <3>1. PICK k \in DOMAIN moved : moved[k] = f /\ k > i
      BY <1>1, <2>3 DEF WasMoved, IInv, TypeOK
    <3> QED BY <1>1, <2>3, <3>1 DEF IInv, PutBackInv, AsBefore
  <2> QED BY <2>1, <2>2, <2>3
<1>3. PosInv'
  BY <1>1 DEF IInv, PosInv
<1>4. LockInv'
  BY <1>1 DEF LockInv, Running
<1>5. EndInv'
  BY <1>1, <1>2 DEF EndInv, AsBefore
<1>6. SwapInv' /\ VisitInv' /\ UnplaceInv' /\ PutBackInv'
  BY <1>1 DEF SwapInv, VisitInv, UnplaceInv, PutBackInv, Swapping
<1> QED BY <1>3, <1>4, <1>5, <1>6 DEF IInv

-----------------------------------------------------------------------------
(* Wherever it stops *)

LEMMA NothingLostIs == IInv => NothingLost
<1> SUFFICES ASSUME IInv, pc # "done", NEW f \in Files, before[f] # "none"
             PROVE  before[f] \in {dest[f], aside[f]}
  BY DEF NothingLost
<1>1. CASE pc \in {"start", "lock", "refused", "rolledback", "half"}
  BY <1>1 DEF IInv, EndInv, AsBefore
<1>2. CASE pc = "crashed"
  BY <1>2 DEF IInv, EndInv, NothingLost
<1>3. CASE pc \in {"aside", "place", "unplace"}
  BY <1>3 DEF IInv, SwapInv, Swapping
<1>4. CASE pc = "putback"
  <2>1. CASE ~WasMoved(f)
    BY <1>4, <2>1 DEF IInv, SwapInv, Swapping
  <2>2. CASE WasMoved(f)
    <3>1. PICK k \in DOMAIN moved : moved[k] = f
      BY <2>2 DEF WasMoved
    <3>2. k <= i \/ k > i
      BY <3>1 DEF IInv, TypeOK
    <3> QED BY <1>4, <3>1, <3>2 DEF IInv, PutBackInv
  <2> QED BY <2>1, <2>2
<1>5. pc \in Ended \cup Running
  BY DEF IInv, TypeOK
<1> QED BY <1>1, <1>2, <1>3, <1>4, <1>5 DEF Ended, Running

LEMMA CrashKeeps ==
  ASSUME IInv, TypeOK', Crash
  PROVE  IInv'
<1>1. /\ pc \in Running /\ pc' = "crashed" /\ locked' = {}
      /\ UNCHANGED <<dest, aside, moved, placed, stuck, open, before, unread>>
  BY DEF Crash, swapVars
<1>2. PosInv'
  BY <1>1 DEF IInv, PosInv
<1>3. LockInv'
  BY <1>1 DEF LockInv, Running
<1>4. EndInv'
  BY <1>1, NothingLostIs DEF EndInv, NothingLost, Running
<1>5. SwapInv' /\ VisitInv' /\ UnplaceInv' /\ PutBackInv'
  BY <1>1 DEF SwapInv, VisitInv, UnplaceInv, PutBackInv, Swapping
<1> QED BY <1>2, <1>3, <1>4, <1>5 DEF IInv

\* Opening a database creates it only if it is not there, and one that Restore has
\* set aside cannot be opened before Restore lets it go.
LEMMA OpenKeeps ==
  ASSUME IInv, TypeOK', NEW n \in Databases, Open(n)
  PROVE  IInv'
<1>1. /\ n \notin locked /\ open' = open \cup {n}
      /\ dest' = [dest EXCEPT ![n] = IF @ = "none" THEN "live" ELSE @]
      /\ UNCHANGED <<pc, i, j, aside, moved, placed, stuck, locked, before, unread>>
  BY DEF Open, swapVars
<1>2. n \in Files
  BY FaultAssumption
<1>3. \A g \in Files : dest'[g] = dest[g] \/ (dest[g] = "none" /\ dest'[g] = "live" /\ g = n)
  BY <1>1, <1>2 DEF IInv, TypeOK
<1>4. \A g : WasMoved(g)' <=> WasMoved(g)
  BY <1>1 DEF WasMoved
<1>5. PosInv'
  BY <1>1 DEF IInv, PosInv
<1>6. LockInv'
  BY <1>1 DEF IInv, LockInv
<1>7. SwapInv'
  BY <1>1, <1>3, <1>4 DEF IInv, SwapInv, FileAt, Past
<1>8. VisitInv'
  <2>1. ASSUME pc \in {"aside", "place", "done"}, NEW k \in DOMAIN Names, NEW l \in 1..3,
               pc = "aside" => Past(k, l)
        PROVE  /\ pc # "done" /\ before[FileAt(k, l)] # "none" => WasMoved(FileAt(k, l))
               /\ FileAt(k, l) \notin Entries => dest'[FileAt(k, l)] \in {"none", "live"}
    BY <1>3, <2>1, Positions DEF IInv, VisitInv
  <2>2. ASSUME pc = "aside", NEW e \in Entries \ Databases, before[e] # "none", WasMoved(e)
        PROVE  dest'[e] = "none"
    <3>1. dest[e] = "none" /\ e \in Files /\ e # n
      BY <2>2, Positions DEF IInv, VisitInv, Entries
    <3> QED BY <1>3, <3>1
  <2> QED BY <1>1, <1>4, <2>1, <2>2 DEF VisitInv, FileAt, Past
<1>9. UnplaceInv'
  BY <1>1, <1>3, <1>4 DEF IInv, UnplaceInv
<1>10. PutBackInv'
  <2>1. \A k \in DOMAIN moved : moved[k] \in Files
    BY DEF IInv, TypeOK
  <2> QED BY <1>1, <1>3, <2>1 DEF IInv, PutBackInv
<1>11. EndInv'
  BY <1>1, <1>3 DEF IInv, EndInv, AsBefore, NothingLost
<1> QED BY <1>5, <1>6, <1>7, <1>8, <1>9, <1>10, <1>11 DEF IInv

LEMMA CloseKeeps ==
  ASSUME IInv, TypeOK', NEW n \in Databases, Close(n)
  PROVE  IInv'
<1>1. open' \subseteq open /\ UNCHANGED <<pc, i, j, dest, aside, moved, placed, stuck, locked, before, unread>>
  BY DEF Close, swapVars
<1>2. PosInv' /\ LockInv'
  BY <1>1 DEF IInv, PosInv, LockInv
<1>3. SwapInv' /\ VisitInv'
  BY <1>1 DEF IInv, SwapInv, VisitInv, WasMoved, FileAt, Past
<1>4. UnplaceInv' /\ PutBackInv' /\ EndInv'
  BY <1>1 DEF IInv, UnplaceInv, PutBackInv, EndInv, WasMoved, AsBefore, NothingLost
<1> QED BY <1>2, <1>3, <1>4 DEF IInv

LEMMA IInvHolds == Spec => []IInv
<1>1. Init => IInv
  BY InitIInv
<1>2. IInv /\ [Next]_vars => IInv'
  <2> SUFFICES ASSUME IInv, [Next]_vars PROVE IInv'
    OBVIOUS
  <2>1. TypeOK'
    BY TypeStep
  <2>2. CASE Begin
    BY <2>1, <2>2, BeginKeeps
  <2>3. CASE SkipLock \/ SkipUnread \/ LockDest
    BY <2>1, <2>3, LockLoopKeeps
  <2>4. CASE LockFails \/ StageFails
    BY <2>1, <2>4, RefuseKeeps
  <2>5. CASE Stage
    BY <2>1, <2>5, StageKeeps
  <2>6. CASE SetAside
    BY <2>1, <2>6, SetAsideKeeps
  <2>7. CASE Place
    BY <2>1, <2>7, PlaceKeeps
  <2>8. CASE RenameFails
    BY <2>1, <2>8, RenameFailsKeeps
  <2>9. CASE Finish
    BY <2>1, <2>9, FinishKeeps
  <2>10. CASE Unplace
    BY <2>1, <2>10, UnplaceKeeps
  <2>11. CASE UnplaceEnds
    BY <2>1, <2>11, UnplaceEndsKeeps
  <2>12. CASE PutBack
    BY <2>1, <2>12, PutBackKeeps
  <2>13. CASE AbortEnds
    BY <2>1, <2>13, AbortEndsKeeps
  <2>14. CASE Crash
    BY <2>1, <2>14, CrashKeeps
  <2>15. CASE \E n \in Databases : Open(n) \/ Close(n)
    BY <2>1, <2>15, OpenKeeps, CloseKeeps
  <2>16. CASE UNCHANGED vars
    <3>1. UNCHANGED <<pc, i, j, dest, aside, moved, placed, stuck, locked, open, before, unread>>
      BY <2>16 DEF vars, swapVars
    <3>2. PosInv' /\ LockInv'
      BY <3>1 DEF IInv, PosInv, LockInv
    <3>3. SwapInv' /\ VisitInv'
      BY <3>1 DEF IInv, SwapInv, VisitInv, WasMoved, FileAt, Past
    <3>4. UnplaceInv' /\ PutBackInv' /\ EndInv'
      BY <3>1 DEF IInv, UnplaceInv, PutBackInv, EndInv, WasMoved, AsBefore, NothingLost
    <3> QED BY <2>1, <3>2, <3>3, <3>4 DEF IInv
  <2> QED BY <2>2, <2>3, <2>4, <2>5, <2>6, <2>7, <2>8, <2>9, <2>10, <2>11, <2>12, <2>13, <2>14,
             <2>15, <2>16 DEF Next
<1> QED BY <1>1, <1>2, PTL DEF Spec

-----------------------------------------------------------------------------
(* The theorems *)

\* Every variable of Restore stays in its type.
THEOREM TypeCorrect == Spec => []TypeOK
<1>1. IInv => TypeOK
  BY DEF IInv
<1> QED BY <1>1, IInvHolds, PTL

\* Whatever the archive, the failing renames, the other process and the crash,
\* every previous file is in place or in the rollback directory until Restore has
\* succeeded.
THEOREM NothingLostHolds == Spec => []NothingLost
BY NothingLostIs, IInvHolds, PTL

\* A Restore that refuses, or rolls back, leaves every file of the archive's names
\* as it found it.
THEOREM RolledBackHolds == Spec => []RolledBackIsUntouched
<1>1. IInv => RolledBackIsUntouched
  <2> SUFFICES ASSUME IInv, pc \in {"refused", "rolledback"}, NEW n \in Entries, NEW k \in 1..3
               PROVE  AsBefore(Side[n][k])
    BY DEF RolledBackIsUntouched
  <2>1. Side[n][k] \in Files
    BY NamesAssumption, SideAssumption
  <2> QED BY <2>1 DEF IInv, EndInv
<1> QED BY <1>1, IInvHolds, PTL

\* The error of a rollback that fails names every file that is not as it was, and
\* the directory it names holds what those files were.
THEOREM StuckFilesNamedHolds == Spec => []ErrorNamesEveryStuckFile
<1>1. IInv => ErrorNamesEveryStuckFile
  <2> SUFFICES ASSUME IInv, pc = "half", NEW n \in Entries, NEW k \in 1..3
               PROVE  IF Side[n][k] \in stuck
                      THEN before[Side[n][k]] # "none" => aside[Side[n][k]] = before[Side[n][k]]
                      ELSE AsBefore(Side[n][k])
    BY DEF ErrorNamesEveryStuckFile
  <2>1. Side[n][k] \in Files
    BY NamesAssumption, SideAssumption
  <2> QED BY <2>1 DEF IInv, EndInv
<1> QED BY <1>1, IInvHolds, PTL

\* No log or spill of a replaced database is beside a restored one.
THEOREM NoStaleLogHolds == Spec => []NoStaleLog
<1>1. IInv => NoStaleLog
  <2> SUFFICES ASSUME IInv, pc = "done", NEW n \in Entries, NEW k \in 2..3
               PROVE  Side[n][k] \in Entries \/ dest[Side[n][k]] \in {"none", "live"}
    BY DEF NoStaleLog
  <2>1. PICK m \in DOMAIN Names : n = Names[m]
    BY DEF Entries
  <2>2. Side[n][k] = FileAt(m, k) /\ k \in 1..3
    BY <2>1 DEF FileAt
  <2> QED BY <2>1, <2>2 DEF IInv, VisitInv
<1> QED BY <1>1, IInvHolds, PTL

\* A database that was there when Restore started, and could be read, is not touched
\* while another process has it open: it is locked before anything is moved.
THEOREM HeldHolds == Spec => HeldIsNotReplaced
<1>1. IInv /\ [Next]_vars
      => \A n \in Databases :
           n \in open /\ n \in open' /\ before[n] # "none" /\ n \notin unread
           => dest'[n] = dest[n]
  <2> SUFFICES ASSUME IInv, [Next]_vars, NEW n \in Databases,
                      n \in open, before[n] # "none", n \notin unread, dest'[n] # dest[n]
               PROVE  FALSE
    OBVIOUS
  <2>1. n \in Files
    BY FaultAssumption
  <2>2. ASSUME pc \in Running \ {"lock"}, NEW k \in DOMAIN Names, NEW l \in 1..3, n = FileAt(k, l)
        PROVE  FALSE
    <3>1. n = Names[k]
      BY <2>2, Positions
    <3>2. n \in locked
      BY <2>2, <3>1 DEF IInv, LockInv, Running
    <3> QED BY <3>2 DEF IInv, LockInv
  <2>3. CASE SetAside
    <3>1. pc = "aside" /\ n = FileAt(i, j)
      BY <2>1, <2>3 DEF SetAside, FileAt, IInv, TypeOK
    <3>2. i \in DOMAIN Names /\ j \in 1..3
      BY <3>1, Positions DEF IInv, PosInv
    <3> QED BY <2>2, <3>1, <3>2 DEF Running
  <2>4. CASE Place
    <3>1. pc = "place" /\ i <= Len(Names) /\ n = Names[i]
      BY <2>1, <2>4 DEF Place, IInv, TypeOK
    <3>2. i \in DOMAIN Names /\ n = FileAt(i, 1)
      BY <3>1, Positions DEF IInv, PosInv
    <3> QED BY <2>2, <3>1, <3>2 DEF Running
  <2>5. CASE Unplace
    <3>1. pc = "unplace" /\ i <= Len(placed) /\ n = placed[i]
      BY <2>1, <2>5 DEF Unplace, IInv, TypeOK
    <3>2. i \in DOMAIN placed
      BY <3>1 DEF IInv, TypeOK, PosInv
    <3>3. i \in DOMAIN Names /\ n = FileAt(i, 1)
      BY <3>1, <3>2, Positions DEF IInv, PosInv
    <3> QED BY <2>2, <3>1, <3>3 DEF Running
  <2>6. CASE PutBack
    <3>1. pc = "putback" /\ i >= 1 /\ n = moved[i]
      BY <2>1, <2>6 DEF PutBack, IInv, TypeOK
    <3>2. i \in DOMAIN moved
      BY <3>1 DEF IInv, TypeOK, PosInv
    <3>3. PICK k \in DOMAIN Names, l \in 1..3 : n = FileAt(k, l)
      BY <3>1, <3>2 DEF IInv, SwapInv, Swapping
    <3> QED BY <2>2, <3>1, <3>3 DEF Running
  <2>7. ASSUME NEW m \in Databases, Open(m) PROVE FALSE
    BY <2>1, <2>7, FaultAssumption DEF Open, IInv, TypeOK
  <2>8. dest' # dest
    OBVIOUS
  <2>9. SetAside \/ Place \/ Unplace \/ PutBack \/ \E m \in Databases : Open(m)
    BY <2>8 DEF Next, vars, Begin, SkipLock, SkipUnread, LockDest, LockFails, Stage, StageFails,
                Refuse, RenameFails, Finish, UnplaceEnds, AbortEnds, Crash, Close
  <2> QED BY <2>3, <2>4, <2>5, <2>6, <2>7, <2>9
<1> QED BY <1>1, IInvHolds, PTL DEF Spec, HeldIsNotReplaced
=============================================================================
