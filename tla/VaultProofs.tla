---------------------------- MODULE VaultProofs ----------------------------
(***************************************************************************)
(* Theorems of Vault, for any number of processes, goroutines, commands    *)
(* and keys: its three properties, from one inductive invariant.           *)
(***************************************************************************)
EXTENDS Vault, SequenceTheorems, TLAPS

SealedKey == <<"keyring", "sealed-key">>

\* What was put into an entry is there, or has been replaced.
Kept(entry, key) == entry \in Entries /\ Escrowed(entry, key)
RowKept(row) == row \notin {None, NoRow} => Kept(SealedKey, row)
ArchiveKept(a) ==
  a # None => /\ Kept(a.entry, a.key)
              /\ 1 \in DOMAIN a.parts
              /\ \A i \in DOMAIN a.parts : RowKept(a.parts[i])

\* keyMu: who asks for the key holds it, and there is no key yet.
KeyMuInv ==
  \A w \in Workers : at[w] = "ask" => /\ keyMu[ProcOf[w]] = w
                                      /\ cache[ProcOf[w]] = None
                                      /\ visit[w].entry = SealedKey

\* A command waits for the key of the entry that it will write down.
VisitInv ==
  \A c \in Commands : cmd[c].stage \in {"keyForBackup", "keyForRestore"} =>
                        visit[c].entry = cmd[c].entry

\* Every key in anybody's hands is kept, and so is every key something is sealed with.
MemoryInv ==
  /\ \A c \in Clients : visit[c].at = "have" => Kept(visit[c].entry, visit[c].key)
  /\ \A p \in Procs : RowKept(cache[p])

FileInv == RowKept(disk.main) /\ RowKept(disk.log)

CommandKept(c) ==
  /\ cmd[c].stage \in {"stat", "lock", "checkpoint", "read", "seal"} => Kept(cmd[c].entry, cmd[c].key)
  /\ cmd[c].stage = "seal" => 1 \in DOMAIN cmd[c].parts
  /\ \A i \in DOMAIN cmd[c].parts : RowKept(cmd[c].parts[i])
  /\ cmd[c].stage \in {"keyForRestore", "swap"} => cmd[c].sealed # None
  /\ ArchiveKept(cmd[c].sealed)

CommandInv == (\A c \in Commands : CommandKept(c)) /\ ArchiveKept(archive)

\* The lock is the command's from Fence until it has read everything.
LockInv ==
  \A c \in Commands :
    /\ cmd[c].stage \in {"checkpoint", "read", "seal"} => owner = c
    /\ cmd[c].stage \notin {"read", "seal"} => cmd[c].parts = <<>>
    /\ cmd[c].stage \in {"read", "seal"} =>
         disk.log = None /\ \A i \in DOMAIN cmd[c].parts : cmd[c].parts[i] = disk.main

EscrowInv == KeyMuInv /\ VisitInv /\ MemoryInv /\ FileInv /\ CommandInv

IndInv == TypeOK /\ EscrowInv /\ LockInv

-----------------------------------------------------------------------------
(* The steps of Next *)

\* What Next does, with every alternative by its name.
LEMMA Steps ==
  ASSUME [Next]_vars
  PROVE  \/ \E w \in Workers : (Put(w) \/ Get(w) \/ Delete(w) \/ LockKey(w) \/ KeyComes(w) \/ PutRow(w))
                               /\ UNCHANGED <<cmd, archive>>
         \/ \E p \in Procs : (LetGo(p) \/ Close(p) \/ Reopen(p) \/ Crash(p))
                             /\ UNCHANGED <<cmd, archive>>
         \/ \E c \in Clients : (GetKey(c) \/ SetKey(c)) /\ UNCHANGED <<sealedVars, cmd, archive>>
         \/ Elsewhere /\ UNCHANGED <<sealedVars, cmd, archive>>
         \/ \E c \in Commands :
              \/ \E wanted \in Backends \cup {"auto"} : Backup(c, wanted) \/ Restore(c, wanted)
              \/ KeyArrives(c)
              \/ Stat(c) \/ Fence(c) \/ Checkpoint(c) \/ Read(c) \/ Seal(c)
              \/ Swap(c) \/ Interrupt(c)
         \/ UNCHANGED vars
BY DEF Next, StoreStep

\* Who lets go of what: the sets of variables that the actions name together.
USE DEF vars, escrowVars, sealedVars, StoresAlone, NotTheEscrow, NotTheFile

-----------------------------------------------------------------------------
(* Types *)

LEMMA VisitType ==
  ASSUME TypeOK, NEW c \in Clients, NEW entry \in Entries, NEW creates \in BOOLEAN,
         Visit(c, entry, creates)
  PROVE  VisitOK'
BY DEF TypeOK, EscrowTypeOK, VisitOK, Visit, Visits

LEMMA LeaveType ==
  ASSUME TypeOK, NEW c \in Clients, Leave(c)
  PROVE  VisitOK'
BY DEF TypeOK, EscrowTypeOK, VisitOK, Leave, Away, Visits

\* What Move does to the visits, field by field.
LEMMA Moved ==
  ASSUME TypeOK, NEW c \in Clients, NEW l, NEW key, Move(c, l, key)
  PROVE  /\ visit'[c].at = l /\ visit'[c].key = key
         /\ visit'[c].entry = visit[c].entry
         /\ \A d \in Clients \ {c} : visit'[d] = visit[d]
<1>1. visit[c] \in Visits /\ visit \in [Clients -> Visits]
  BY DEF TypeOK, EscrowTypeOK, VisitOK
<1>2. visit'[c] = [visit[c] EXCEPT !.at = l, !.key = key]
  BY <1>1 DEF Move
<1>3. visit'[c].at = l /\ visit'[c].key = key /\ visit'[c].entry = visit[c].entry
  BY <1>1, <1>2 DEF Visits
<1> QED BY <1>1, <1>3 DEF Move

LEMMA MoveType ==
  ASSUME TypeOK, NEW c \in Clients, visit[c].at # "away",
         NEW l \in {"get", "set", "have", "failed"}, NEW key \in Keys \cup {None},
         l = "set" => key \in Keys, Move(c, l, key)
  PROVE  VisitOK'
<1>1. visit[c] \in Visits /\ visit \in [Clients -> Visits]
  BY DEF TypeOK, EscrowTypeOK, VisitOK
<1>2. [visit[c] EXCEPT !.at = l, !.key = key] \in Visits
  BY <1>1 DEF Visits
<1>3. visit' \in [Clients -> Visits]
  BY <1>1, <1>2 DEF Move
<1>4. /\ visit'[c].at = l /\ visit'[c].key = key /\ visit'[c].entry = visit[c].entry
      /\ \A d \in Clients \ {c} : visit'[d] = visit[d]
  BY Moved
<1>5. /\ \A d \in Clients : visit'[d].at # "away" => visit'[d].entry \in Entries
      /\ \A d \in Clients : visit'[d].at = "set" => visit'[d].key \in Keys
  BY <1>4 DEF TypeOK, EscrowTypeOK, VisitOK
<1> QED BY <1>3, <1>5 DEF VisitOK

LEMMA EscrowTypes ==
  ASSUME TypeOK, NEW c \in Clients, GetKey(c) \/ SetKey(c)
  PROVE  EscrowTypeOK'
<1>1. CASE GetKey(c)
  <2>1. PICK answer \in Answers(visit[c].entry) :
          \/ /\ minted < MaxKeys /\ minted' = minted + 1
             /\ Move(c, "set", minted + 1)
          \/ (\E k \in Keys : Move(c, "have", k)) /\ UNCHANGED minted
          \/ Move(c, "failed", None) /\ UNCHANGED minted
    BY <1>1 DEF GetKey
  <2>2. visit[c].at # "away" /\ UNCHANGED <<items, lost>>
    BY <1>1 DEF GetKey
  <2>3. minted' \in 0..MaxKeys /\ (minted < MaxKeys => minted + 1 \in Keys)
    BY <2>1, KeysAssumption DEF TypeOK, EscrowTypeOK, Keys
  <2>4. VisitOK'
    <3>1. CASE minted < MaxKeys /\ Move(c, "set", minted + 1)
      BY <3>1, <2>2, <2>3, MoveType
    <3>2. CASE \E k \in Keys : Move(c, "have", k)
      BY <3>2, <2>2, MoveType
    <3>3. CASE Move(c, "failed", None)
      BY <3>3, <2>2, MoveType
    <3> QED BY <2>1, <3>1, <3>2, <3>3
  <2> QED BY <2>2, <2>3, <2>4 DEF TypeOK, EscrowTypeOK
<1>2. CASE SetKey(c)
  <2>1. /\ visit[c].at = "set" /\ visit[c].entry \in Entries
        /\ visit[c].key \in Keys
        /\ UNCHANGED minted
        /\ Move(c, "have", visit[c].key) \/ Move(c, "failed", None)
        /\ Store(visit[c].entry, visit[c].key) \/ UNCHANGED <<items, lost>>
    BY <1>2 DEF SetKey, TypeOK, EscrowTypeOK, VisitOK
  <2>2. VisitOK'
    BY <2>1, MoveType
  <2> QED
    BY <2>1, <2>2 DEF TypeOK, EscrowTypeOK, Store, KeyringSet, ManagerSet
<1> QED BY <1>1, <1>2

\* What the steps of a command make of its record.
CmdOK ==
  /\ cmd \in [Commands -> Progress]
  /\ \A c \in Commands :
       /\ cmd[c].stage = "seal" => cmd[c].parts # <<>>
       /\ cmd[c].stage \in {"keyForRestore", "swap"} => cmd[c].sealed # None

\* Where a step puts a command, and what it leaves of the others.
LEMMA ToStage ==
  ASSUME TypeOK, NEW c \in Commands, NEW stage \in Stages, To(c, stage)
  PROVE  /\ cmd' \in [Commands -> Progress]
         /\ cmd'[c].stage = stage /\ cmd'[c].entry = cmd[c].entry /\ cmd'[c].key = cmd[c].key
         /\ cmd'[c].parts = cmd[c].parts /\ cmd'[c].sealed = cmd[c].sealed
         /\ \A d \in Commands \ {c} : cmd'[d] = cmd[d]
<1>1. cmd \in [Commands -> Progress] /\ cmd[c] \in Progress
  BY DEF TypeOK
<1>2. cmd'[c] = [cmd[c] EXCEPT !.stage = stage]
  BY <1>1 DEF To
<1>3. [cmd[c] EXCEPT !.stage = stage] \in Progress
  BY <1>1 DEF Progress
<1>4. /\ cmd'[c].stage = stage /\ cmd'[c].entry = cmd[c].entry /\ cmd'[c].key = cmd[c].key
      /\ cmd'[c].parts = cmd[c].parts /\ cmd'[c].sealed = cmd[c].sealed
  BY <1>1, <1>2 DEF Progress
<1> QED BY <1>1, <1>3, <1>4 DEF To

LEMMA ExitStage ==
  ASSUME TypeOK, NEW c \in Commands, Exit(c)
  PROVE  CmdOK' /\ cmd'[c] = Idle /\ \A d \in Commands \ {c} : cmd'[d] = cmd[d]
<1>1. Idle \in Progress /\ Idle.stage = "idle"
  BY DEF Idle, Progress, Stages, Rows
<1> QED BY <1>1 DEF Exit, TypeOK, CmdOK

LEMMA ToType ==
  ASSUME TypeOK, NEW c \in Commands, NEW stage \in Stages, To(c, stage),
         stage = "seal" => cmd[c].parts # <<>>,
         stage \in {"keyForRestore", "swap"} => cmd[c].sealed # None
  PROVE  CmdOK'
BY ToStage DEF TypeOK, CmdOK

\* What a Store does to the file.
Disks == [exists : BOOLEAN, main : Rows, log : Rows \cup {None}]

LEMMA DiskTypes ==
  ASSUME TypeOK
  PROVE  /\ disk \in Disks /\ Merged \in Disks
         /\ \A row \in Rows \cup {None} : [disk EXCEPT !.exists = TRUE, !.log = row] \in Disks
<1>1. disk \in Disks
  BY DEF TypeOK, SealedTypeOK, Disks
<1>2. Merged \in Disks
  <2>1. Committed \in Rows
    BY <1>1 DEF Committed, Disks
  <2>2. \A row \in Rows : [disk EXCEPT !.main = row, !.log = None] \in Disks
    BY <1>1, <2>1 DEF Disks
  <2> QED BY <2>1, <2>2 DEF Merged
<1>3. ASSUME NEW row \in Rows \cup {None} PROVE [disk EXCEPT !.exists = TRUE, !.log = row] \in Disks
  BY <1>1 DEF Disks
<1> QED BY <1>1, <1>2, <1>3

LEMMA InitType == Init => TypeOK
<1> SUFFICES ASSUME Init PROVE TypeOK
  OBVIOUS
<1>1. EscrowTypeOK
  BY KeysAssumption DEF Init, EscrowInit, EscrowTypeOK, VisitOK, Visits, Away
<1>2. SealedTypeOK
  BY DEF Init, SealedInit, SealedTypeOK, Rows
<1>3. Idle \in Progress /\ Idle.stage = "idle"
  BY DEF Idle, Progress, Stages, Rows
<1> QED BY <1>1, <1>2, <1>3 DEF Init, SealedInit, TypeOK

LEMMA WorkerType ==
  ASSUME TypeOK, NEW w \in Workers, UNCHANGED <<cmd, archive>>,
         Put(w) \/ Get(w) \/ Delete(w) \/ LockKey(w) \/ KeyComes(w) \/ PutRow(w)
  PROVE  TypeOK'
<1>1. ProcOf[w] \in Procs /\ w \in Clients /\ SealedKey \in Entries
  BY ClientsAssumption, WorkersAssumption, EntriesAssumption DEF SealedKey, Entries, Backends
<1>2. EscrowTypeOK'
  <2>1. CASE UNCHANGED escrowVars
    BY <2>1 DEF TypeOK, EscrowTypeOK, VisitOK
  <2>2. CASE Visit(w, SealedKey, TRUE) /\ UNCHANGED <<items, minted, lost>>
    BY <2>2, <1>1, VisitType DEF TypeOK, EscrowTypeOK
  <2>3. CASE Leave(w) /\ UNCHANGED <<items, minted, lost>>
    BY <2>3, <1>1, LeaveType DEF TypeOK, EscrowTypeOK
  <2> QED BY <2>1, <2>2, <2>3 DEF Put, Get, Delete, LockKey, KeyComes, PutRow, SealedKey
<1>3. disk' \in Disks
  <2>1. {cache[ProcOf[w]], disk.log, NoRow} \subseteq Rows \cup {None}
    BY <1>1 DEF TypeOK, SealedTypeOK, Rows
  <2> QED BY <2>1, DiskTypes DEF Put, Get, Delete, LockKey, KeyComes, PutRow, Do
<1>4. visit[w].key \in Keys \cup {None}
  BY <1>1 DEF TypeOK, EscrowTypeOK, VisitOK, Visits
<1>5. /\ cache' \in [Procs -> Keys \cup {None}]
      /\ keyMu' \in [Procs -> Workers \cup {None}]
      /\ closed' = closed
  BY <1>1, <1>4 DEF TypeOK, SealedTypeOK, Put, Get, Delete, LockKey, KeyComes, PutRow
<1>6. /\ at' \in [Workers -> {"idle", "lock", "ask", "use"}]
      /\ doing' \in [Workers -> {"Put", "Get", None}]
  BY DEF TypeOK, SealedTypeOK, Put, Get, Delete, LockKey, KeyComes, PutRow, Begin, End, Goto, WithKey
<1>7. owner' \in Procs \cup Commands \cup {None}
  BY <1>1 DEF TypeOK, Put, Get, Delete, LockKey, KeyComes, PutRow, Do
<1> QED BY <1>2, <1>3, <1>5, <1>6, <1>7 DEF TypeOK, SealedTypeOK, Disks, Rows

LEMMA ProcessType ==
  ASSUME TypeOK, NEW p \in Procs, UNCHANGED <<cmd, archive>>,
         LetGo(p) \/ Close(p) \/ Reopen(p) \/ Crash(p)
  PROVE  TypeOK'
<1>1. EscrowTypeOK'
  <2>1. CASE UNCHANGED escrowVars
    BY <2>1 DEF TypeOK, EscrowTypeOK, VisitOK
  <2>2. CASE Crash(p)
    BY <2>2 DEF Crash, TypeOK, EscrowTypeOK, VisitOK, Visits, Away
  <2> QED BY <2>1, <2>2 DEF LetGo, Close, Reopen
<1>2. disk' \in Disks
  BY DiskTypes DEF LetGo, Close, Reopen, Crash
<1>3. /\ cache' \in [Procs -> Keys \cup {None}]
      /\ keyMu' \in [Procs -> Workers \cup {None}]
      /\ closed' \in [Procs -> BOOLEAN]
  BY DEF TypeOK, SealedTypeOK, LetGo, Close, Reopen, Crash, Fresh
<1>4. /\ at' \in [Workers -> {"idle", "lock", "ask", "use"}]
      /\ doing' \in [Workers -> {"Put", "Get", None}]
  BY DEF TypeOK, SealedTypeOK, LetGo, Close, Reopen, Crash
<1>5. owner' \in Procs \cup Commands \cup {None}
  BY DEF TypeOK, LetGo, Close, Reopen, Crash
<1> QED BY <1>1, <1>2, <1>3, <1>4, <1>5 DEF TypeOK, SealedTypeOK, Disks, Rows

LEMMA CommandType ==
  ASSUME TypeOK, NEW c \in Commands,
         \/ \E wanted \in Backends \cup {"auto"} : Backup(c, wanted) \/ Restore(c, wanted)
         \/ KeyArrives(c)
         \/ Stat(c) \/ Fence(c) \/ Checkpoint(c) \/ Read(c) \/ Seal(c)
         \/ Swap(c) \/ Interrupt(c)
  PROVE  TypeOK'
<1>1. /\ UNCHANGED <<items, minted, lost, cache, keyMu, closed, at, doing>>
      /\ c \in Clients
  BY ClientsAssumption
  DEF Backup, Restore, Ask, KeyArrives, Stat, Fence, Checkpoint, Read, Seal, Swap, Interrupt
<1>2. ASSUME NEW backend \in Backends, NEW sealed \in Archives \cup {None},
             NEW stage \in {"keyForBackup", "keyForRestore"}, Ask(c, stage, backend, sealed),
             stage = "keyForRestore" => sealed # None
      PROVE  VisitOK' /\ CmdOK' /\ UNCHANGED <<disk, owner, archive>>
  <2>1. <<backend, "backup-key">> \in Entries
    BY EntriesAssumption DEF Entries
  <2>2. VisitOK'
    BY <1>1, <1>2, <2>1, VisitType DEF Ask
  <2> DEFINE r == [Idle EXCEPT !.stage = stage, !.entry = <<backend, "backup-key">>,
                               !.sealed = sealed]
  <2>3. Idle \in Progress
    BY DEF Idle, Progress, Stages, Rows
  <2>4. stage \in Stages
    BY DEF Stages
  <2>5. r \in Progress /\ r.stage = stage /\ r.sealed = sealed
    BY <2>1, <2>3, <2>4 DEF Progress
  <2>6. CmdOK'
    BY <1>2, <2>5 DEF Ask, TypeOK, CmdOK
  <2> QED BY <1>2, <2>2, <2>6 DEF Ask
<1>3. CASE \E wanted \in Backends \cup {"auto"} : Backup(c, wanted) \/ Restore(c, wanted)
  <2>1. VisitOK' /\ CmdOK' /\ UNCHANGED <<disk, owner, archive>>
    BY <1>2, <1>3 DEF Backup, Restore, Opened, TypeOK
  <2> QED BY <1>1, <2>1 DEF TypeOK, EscrowTypeOK, SealedTypeOK, CmdOK
<1>4. CASE KeyArrives(c)
  <2>1. VisitOK'
    BY <1>1, <1>4, LeaveType DEF KeyArrives
  <2> DEFINE r == [cmd[c] EXCEPT !.stage = "stat", !.key = visit[c].key]
  <2>2. r \in Progress /\ r.stage = "stat"
    <3>1. visit[c].key \in Keys \cup {None} /\ cmd[c] \in Progress
      BY <1>1 DEF TypeOK, EscrowTypeOK, VisitOK, Visits
    <3> QED BY <3>1 DEF Progress, Stages
  <2>3. CmdOK'
    <3>1. CASE cmd' = [cmd EXCEPT ![c] = r]
      BY <2>2, <3>1 DEF TypeOK, CmdOK
    <3>2. CASE cmd[c].stage = "keyForRestore" /\ To(c, "swap")
      BY <3>2, ToType DEF TypeOK, Stages
    <3>3. CASE Exit(c)
      BY <3>3, ExitStage
    <3> QED BY <1>4, <3>1, <3>2, <3>3 DEF KeyArrives
  <2> QED BY <1>1, <1>4, <2>1, <2>3 DEF KeyArrives, TypeOK, EscrowTypeOK, SealedTypeOK, CmdOK
<1>5. CASE Stat(c) \/ Fence(c) \/ Checkpoint(c)
  <2>1. (\E stage \in {"lock", "checkpoint", "read"} : To(c, stage)) \/ Exit(c)
    BY <1>5 DEF Stat, Fence, Checkpoint
  <2>2. CmdOK'
    BY <2>1, ToType, ExitStage DEF Stages
  <2>3. disk' \in Disks /\ owner' \in Procs \cup Commands \cup {None}
    BY <1>5, DiskTypes DEF Stat, Fence, Checkpoint, TypeOK
  <2> QED
    BY <1>1, <1>5, <2>2, <2>3
    DEF Stat, Fence, Checkpoint, TypeOK, EscrowTypeOK, VisitOK, SealedTypeOK, CmdOK, Disks, Rows
<1>6. CASE Read(c)
  <2>1. disk.main \in Rows /\ cmd[c] \in Progress /\ cmd[c].parts \in Seq(Rows)
    BY DEF TypeOK, SealedTypeOK, Rows, Progress
  <2>2. Append(cmd[c].parts, disk.main) \in Seq(Rows) \ {<<>>}
    BY <2>1, AppendProperties
  <2> DEFINE parts == Append(cmd[c].parts, disk.main)
             stage == IF Len(parts) = 2 THEN "seal" ELSE "read"
             r == [cmd[c] EXCEPT !.parts = parts, !.stage = stage]
  <2>3. stage \in Stages \cap {"seal", "read"}
    BY DEF Stages
  <2>4. r \in Progress /\ r.parts = parts /\ r.stage = stage
    <3> HIDE DEF stage
    <3>1. [cmd[c] EXCEPT !.parts = parts, !.stage = stage] \in Progress
      BY <2>1, <2>2, <2>3 DEF Progress
    <3> QED BY <3>1, <2>1 DEF Progress
  <2>5. cmd' = [cmd EXCEPT ![c] = r]
    BY <1>6 DEF Read
  <2>6. CmdOK'
    <3> HIDE DEF r, stage
    <3> QED BY <2>2, <2>3, <2>4, <2>5 DEF TypeOK, CmdOK
  <2> QED BY <1>1, <1>6, <2>6 DEF Read, TypeOK, EscrowTypeOK, VisitOK, SealedTypeOK, CmdOK
<1>7. CASE Seal(c)
  <2>1. CmdOK'
    BY <1>7, ExitStage DEF Seal
  <2>2. [entry |-> cmd[c].entry, key |-> cmd[c].key, parts |-> cmd[c].parts] \in Archives
    BY <1>7 DEF Seal, TypeOK, Progress, Archives
  <2> QED BY <1>1, <1>7, <2>1, <2>2 DEF Seal, TypeOK, EscrowTypeOK, VisitOK, SealedTypeOK, CmdOK
<1>8. CASE Swap(c)
  <2>1. CmdOK'
    BY <1>8, ExitStage DEF Swap
  <2>2. cmd[c].sealed.parts \in Seq(Rows) \ {<<>>}
    BY <1>8 DEF Swap, TypeOK, Progress, Archives
  <2> DEFINE row == cmd[c].sealed.parts[1]
  <2>3. row \in Rows
    BY <2>2, ElementOfSeq, EmptySeq
  <2>4. disk' = disk \/ disk' = [exists |-> TRUE, main |-> row, log |-> None]
    BY <1>8 DEF Swap
  <2>5. disk' \in Disks
    <3> HIDE DEF row
    <3>1. [exists |-> TRUE, main |-> row, log |-> None] \in Disks
      BY <2>3 DEF Disks
    <3> QED BY <2>4, <3>1, DiskTypes
  <2> QED
    BY <1>1, <1>8, <2>1, <2>5
    DEF Swap, TypeOK, EscrowTypeOK, VisitOK, SealedTypeOK, CmdOK, Disks, Rows
<1>9. CASE Interrupt(c)
  <2>1. CmdOK'
    BY <1>9, ExitStage DEF Interrupt
  <2>2. VisitOK'
    BY <1>1, <1>9, LeaveType DEF Interrupt
  <2> QED BY <1>1, <1>9, <2>1, <2>2 DEF Interrupt, TypeOK, EscrowTypeOK, SealedTypeOK, CmdOK
<1> QED BY <1>3, <1>4, <1>5, <1>6, <1>7, <1>8, <1>9

LEMMA StepType == TypeOK /\ [Next]_vars => TypeOK'
<1> SUFFICES ASSUME TypeOK, [Next]_vars PROVE TypeOK'
  OBVIOUS
<1>1. ASSUME NEW c \in Clients, UNCHANGED <<sealedVars, cmd, archive>>, GetKey(c) \/ SetKey(c)
      PROVE  TypeOK'
  BY <1>1, EscrowTypes DEF TypeOK, SealedTypeOK
<1>2. ASSUME Elsewhere, UNCHANGED <<sealedVars, cmd, archive>>
      PROVE  TypeOK'
  <2>1. minted + 1 \in Keys /\ minted' \in 0..MaxKeys
    BY <1>2, KeysAssumption DEF Elsewhere, TypeOK, EscrowTypeOK, Keys
  <2>2. EscrowTypeOK'
    BY <1>2, <2>1 DEF Elsewhere, TypeOK, EscrowTypeOK, VisitOK
  <2> QED BY <1>2, <2>2 DEF TypeOK, SealedTypeOK
<1>3. ASSUME UNCHANGED vars
      PROVE  TypeOK'
  BY <1>3 DEF TypeOK, EscrowTypeOK, VisitOK, SealedTypeOK
<1> QED BY Steps, WorkerType, ProcessType, CommandType, <1>1, <1>2, <1>3

-----------------------------------------------------------------------------
(* Keys are kept *)

\* Nothing that was kept is lost: what a Set replaces goes to `lost'.
LEMMA KeptGrows ==
  ASSUME TypeOK, [Next]_vars, NEW entry, NEW key, Kept(entry, key)
  PROVE  Kept(entry, key)'
<1>1. CASE UNCHANGED <<items, lost>>
  BY <1>1 DEF Kept, Escrowed
<1>2. CASE \E c \in Clients : SetKey(c)
  <2>1. PICK c \in Clients : SetKey(c)
    BY <1>2
  <2>2. Store(visit[c].entry, visit[c].key) \/ UNCHANGED <<items, lost>>
    BY <2>1 DEF SetKey
  <2> QED
    BY <2>2 DEF Kept, Escrowed, Store, KeyringSet, ManagerSet, TypeOK, EscrowTypeOK
<1>3. CASE Elsewhere
  BY <1>3 DEF Elsewhere, Kept, Escrowed, TypeOK, EscrowTypeOK
<1> QED
  BY Steps, <1>1, <1>2, <1>3
  DEF Put, Get, Delete, LockKey, KeyComes, PutRow, LetGo, Close, Reopen, Crash, GetKey, Backup, Restore,
      Ask, KeyArrives, Stat, Fence, Checkpoint, Read, Seal, Swap, Interrupt

\* A row is kept as long as it stays what it is; None needs no keeping.
LEMMA RowGrows ==
  ASSUME TypeOK, [Next]_vars, NEW row, RowKept(row)
  PROVE  RowKept(row)'
BY KeptGrows DEF RowKept, SealedKey

LEMMA ArchiveGrows ==
  ASSUME TypeOK, [Next]_vars, NEW a, ArchiveKept(a)
  PROVE  ArchiveKept(a)'
<1> SUFFICES ASSUME a # None
             PROVE  /\ Kept(a.entry, a.key)' /\ 1 \in DOMAIN a.parts
                    /\ \A i \in DOMAIN a.parts : RowKept(a.parts[i])'
  BY DEF ArchiveKept
<1> QED BY KeptGrows, RowGrows DEF ArchiveKept

\* A key that Get has found, or Set has stored, is kept.
LEMMA VisitKept ==
  ASSUME TypeOK, [Next]_vars, NEW c \in Clients, GetKey(c) \/ SetKey(c),
         visit'[c].at = "have"
  PROVE  Kept(visit[c].entry, visit[c].key)'
<1>1. visit[c].entry \in Entries
  BY DEF GetKey, SetKey, TypeOK, EscrowTypeOK, VisitOK
<1>2. CASE GetKey(c)
  <2>1. PICK k \in Keys : Found(k) \in Answers(visit[c].entry) /\ Move(c, "have", k)
    BY <1>2, Moved DEF GetKey
  <2>2. k \in items[visit[c].entry]
    BY <2>1 DEF Answers, KeyringGet, ManagerGet, Found, Absent, Error
  <2> QED BY <1>1, <1>2, <2>1, <2>2, Moved DEF GetKey, Kept, Escrowed
<1>3. CASE SetKey(c)
  <2>1. Store(visit[c].entry, visit[c].key) /\ Move(c, "have", visit[c].key)
    BY <1>3, Moved DEF SetKey
  <2>2. visit[c].key \in items'[visit[c].entry]
    BY <1>1, <2>1 DEF Store, KeyringSet, ManagerSet, TypeOK, EscrowTypeOK
  <2> QED BY <1>1, <2>1, <2>2, Moved DEF Kept, Escrowed
<1> QED BY <1>2, <1>3

LEMMA MemoryStep ==
  ASSUME TypeOK, [Next]_vars, KeyMuInv, MemoryInv
  PROVE  MemoryInv'
<1>1. ASSUME NEW c \in Clients, visit'[c].at = "have"
      PROVE  Kept(visit[c].entry, visit[c].key)'
  <2>1. CASE visit'[c] = visit[c]
    BY <1>1, <2>1, KeptGrows DEF MemoryInv
  <2>2. CASE GetKey(c) \/ SetKey(c)
    BY <1>1, <2>2, VisitKept
  <2>3. CASE \E entry, creates : Visit(c, entry, creates)
    BY <1>1, <2>3 DEF Visit, TypeOK, EscrowTypeOK, VisitOK
  <2>4. CASE visit'[c] = Away
    BY <1>1, <2>4 DEF Away
  <2>5. \A d \in Clients : GetKey(d) \/ SetKey(d) => d = c \/ visit'[c] = visit[c]
    BY Moved DEF GetKey, SetKey
  <2>6. visit \in [Clients -> Visits]
    BY DEF TypeOK, EscrowTypeOK, VisitOK
  <2>7. \A d \in Clients : \A entry, creates :
          Visit(d, entry, creates) => Visit(c, entry, creates) \/ visit'[c] = visit[c]
    BY <2>6 DEF Visit
  <2>8. \A d \in Clients : Leave(d) => visit'[c] = Away \/ visit'[c] = visit[c]
    BY <2>6 DEF Leave
  <2>9. \A p \in Procs : Crash(p) => visit'[c] = Away \/ visit'[c] = visit[c]
    BY <2>6 DEF Crash
  <2> QED
    BY Steps, ClientsAssumption, <2>1, <2>2, <2>3, <2>4, <2>5, <2>7, <2>8, <2>9
    DEF Put, Get, Delete, LockKey, KeyComes, PutRow, LetGo, Close, Reopen, Elsewhere, Backup, Restore,
        Ask, KeyArrives, Stat, Fence, Checkpoint, Read, Seal, Swap, Interrupt
<1>2. ASSUME NEW p \in Procs
      PROVE  RowKept(cache[p])'
  <2>1. CASE cache'[p] = cache[p]
    BY <2>1, RowGrows DEF MemoryInv, RowKept
  <2>2. CASE cache'[p] = None
    BY <2>2 DEF RowKept
  <2>3. ASSUME NEW w \in Workers, KeyComes(w), p = ProcOf[w], visit[w].at = "have"
        PROVE  RowKept(cache[p])'
    <3>1. Kept(SealedKey, visit[w].key)
      BY <2>3, ClientsAssumption DEF KeyComes, KeyMuInv, MemoryInv
    <3>2. cache'[p] = visit[w].key
      BY <2>3 DEF KeyComes, TypeOK, SealedTypeOK
    <3>3. RowKept(visit[w].key)
      BY <3>1 DEF RowKept
    <3> QED BY <3>2, <3>3, KeptGrows DEF RowKept
  <2>4. \A w \in Workers : KeyComes(w) =>
          cache'[p] = cache[p] \/ (p = ProcOf[w] /\ visit[w].at = "have")
    BY DEF KeyComes, TypeOK, SealedTypeOK
  <2>5. \A q \in Procs : Reopen(q) \/ Crash(q) => cache'[p] \in {cache[p], None}
    BY DEF Reopen, Crash, Fresh, TypeOK, SealedTypeOK
  <2> QED
    BY Steps, <2>1, <2>2, <2>3, <2>4, <2>5
    DEF Put, Get, Delete, LockKey, PutRow, LetGo, Close, Elsewhere, Backup, Restore,
        Ask, KeyArrives, Stat, Fence, Checkpoint, Read, Seal, Swap, Interrupt
<1> QED BY <1>1, <1>2 DEF MemoryInv

LEMMA FileStep ==
  ASSUME TypeOK, [Next]_vars, MemoryInv, FileInv, CommandInv
  PROVE  FileInv'
<1>1. RowKept(None) /\ RowKept(NoRow) /\ RowKept(Committed)
  BY DEF RowKept, FileInv, Committed
<1>2. \/ UNCHANGED disk
      \/ disk' = Merged
      \/ \E log \in {disk.log, NoRow} : disk' = [disk EXCEPT !.exists = TRUE, !.log = log]
      \/ \E p \in Procs : disk' = [disk EXCEPT !.exists = TRUE, !.log = cache[p]]
      \/ \E c \in Commands :
           /\ cmd[c].stage = "swap"
           /\ disk' = [exists |-> TRUE, main |-> cmd[c].sealed.parts[1], log |-> None]
  BY Steps, WorkersAssumption
  DEF Put, Get, Delete, LockKey, KeyComes, PutRow, Do, LetGo, Close, Reopen, Crash, GetKey, SetKey,
      Elsewhere, Backup, Restore, Ask, KeyArrives, Stat, Fence, Checkpoint, Read, Seal, Swap,
      Interrupt
<1>3. disk \in Disks
  BY DiskTypes
<1>4. CASE UNCHANGED disk
  BY <1>4, RowGrows DEF FileInv, RowKept
<1>5. CASE disk' = Merged
  <2>1. disk'.main = Committed /\ disk'.log = None
    BY <1>3, <1>5 DEF Merged, Disks
  <2> QED BY <1>1, <2>1, RowGrows DEF FileInv, RowKept
<1>6. ASSUME NEW log \in {disk.log, NoRow}, disk' = [disk EXCEPT !.exists = TRUE, !.log = log]
      PROVE  FileInv'
  <2>1. disk'.main = disk.main /\ disk'.log = log
    BY <1>3, <1>6 DEF Disks
  <2> QED BY <1>1, <2>1, RowGrows DEF FileInv, RowKept
<1>7. ASSUME NEW p \in Procs, disk' = [disk EXCEPT !.exists = TRUE, !.log = cache[p]]
      PROVE  FileInv'
  <2>1. disk'.main = disk.main /\ disk'.log = cache[p]
    BY <1>3, <1>7 DEF Disks
  <2> QED BY <2>1, RowGrows DEF FileInv, MemoryInv, RowKept
<1>8. ASSUME NEW c \in Commands, cmd[c].stage = "swap",
             disk' = [exists |-> TRUE, main |-> cmd[c].sealed.parts[1], log |-> None]
      PROVE  FileInv'
  <2>1. RowKept(cmd[c].sealed.parts[1])
    BY <1>8 DEF TypeOK, CommandInv, CommandKept, ArchiveKept
  <2>2. disk'.main = cmd[c].sealed.parts[1] /\ disk'.log = None
    BY <1>8
  <2> QED BY <1>1, <2>1, <2>2, RowGrows DEF FileInv, RowKept
<1> QED BY <1>2, <1>4, <1>5, <1>6, <1>7, <1>8

LEMMA KeyMuStep ==
  ASSUME TypeOK, [Next]_vars, KeyMuInv
  PROVE  KeyMuInv'
<1> SUFFICES ASSUME NEW w \in Workers, at'[w] = "ask"
             PROVE  /\ keyMu'[ProcOf[w]] = w
                    /\ cache'[ProcOf[w]] = None
                    /\ visit'[w].entry = SealedKey
  BY DEF KeyMuInv
<1> USE WorkersAssumption, ClientsAssumption DEF TypeOK, SealedTypeOK
<1>1. visit \in [Clients -> Visits] /\ w \in Clients
  BY DEF EscrowTypeOK, VisitOK
<1>2. ASSUME NEW v \in Workers,
             Put(v) \/ Get(v) \/ Delete(v) \/ LockKey(v) \/ KeyComes(v) \/ PutRow(v)
      PROVE  /\ keyMu'[ProcOf[w]] = w
             /\ cache'[ProcOf[w]] = None
             /\ visit'[w].entry = SealedKey
  <2>1. CASE Put(v) \/ Get(v) \/ Delete(v) \/ PutRow(v)
    <3>1. at[w] = "ask"
      BY <2>1 DEF Put, Get, Delete, PutRow, Begin, End, Goto
    <3> QED BY <2>1, <3>1 DEF Put, Get, Delete, PutRow, KeyMuInv
  <2>2. CASE LockKey(v)
    <3>1. CASE at[w] = "ask"
      <4>1. v # w /\ (ProcOf[v] = ProcOf[w] => keyMu[ProcOf[v]] # None)
        BY <2>2, <3>1 DEF LockKey, KeyMuInv
      <4> QED BY <1>1, <2>2, <3>1, <4>1 DEF LockKey, KeyMuInv, Visit
    <3>2. CASE at[w] # "ask"
      <4>1. w = v /\ cache[ProcOf[v]] = None
        <5>1. /\ at \in [Workers -> {"idle", "lock", "ask", "use"}]
              /\ cache[ProcOf[v]] # None => at' \in {[at EXCEPT ![v] = "use"], [at EXCEPT ![v] = "idle"]}
              /\ cache[ProcOf[v]] = None => at' = [at EXCEPT ![v] = "ask"]
          BY <2>2 DEF LockKey, WithKey, End, Goto
        <5> QED BY <3>2, <5>1
      <4>2. /\ keyMu' = [keyMu EXCEPT ![ProcOf[v]] = v] /\ UNCHANGED cache
            /\ Visit(v, SealedKey, TRUE)
        BY <2>2, <4>1 DEF LockKey, SealedKey
      <4>3. visit'[w].entry = SealedKey
        BY <1>1, <4>1, <4>2 DEF Visit
      <4> QED BY <4>1, <4>2, <4>3
    <3> QED BY <3>1, <3>2
  <2>3. CASE KeyComes(v)
    <3>1. w # v /\ at[w] = "ask"
      BY <2>3 DEF KeyComes, WithKey, End, Goto
    <3>2. ProcOf[w] # ProcOf[v]
      BY <2>3, <3>1 DEF KeyComes, KeyMuInv
    <3> QED BY <1>1, <2>3, <3>1, <3>2 DEF KeyComes, KeyMuInv, Leave
  <2> QED BY <1>2, <2>1, <2>2, <2>3
<1>3. ASSUME NEW p \in Procs, LetGo(p) \/ Close(p) \/ Reopen(p) \/ Crash(p)
      PROVE  /\ keyMu'[ProcOf[w]] = w
             /\ cache'[ProcOf[w]] = None
             /\ visit'[w].entry = SealedKey
  <2>1. CASE LetGo(p) \/ Close(p) \/ Reopen(p)
    BY <2>1 DEF LetGo, Close, Reopen, Fresh, KeyMuInv
  <2>2. CASE Crash(p)
    <3>1. ProcOf[w] # p /\ at[w] = "ask"
      BY <2>2 DEF Crash
    <3> QED BY <1>1, <2>2, <3>1 DEF Crash, Fresh, KeyMuInv
  <2> QED BY <1>3, <2>1, <2>2
<1>4. ASSUME NEW c \in Clients, UNCHANGED sealedVars, GetKey(c) \/ SetKey(c)
      PROVE  /\ keyMu'[ProcOf[w]] = w
             /\ cache'[ProcOf[w]] = None
             /\ visit'[w].entry = SealedKey
  <2>1. visit'[w].entry = visit[w].entry
    BY <1>1, <1>4, Moved DEF GetKey, SetKey
  <2> QED BY <1>4, <2>1 DEF KeyMuInv
<1>5. ASSUME NEW c \in Commands,
             \/ \E wanted \in Backends \cup {"auto"} : Backup(c, wanted) \/ Restore(c, wanted)
             \/ KeyArrives(c)
             \/ Stat(c) \/ Fence(c) \/ Checkpoint(c) \/ Read(c) \/ Seal(c)
             \/ Swap(c) \/ Interrupt(c)
      PROVE  /\ keyMu'[ProcOf[w]] = w
             /\ cache'[ProcOf[w]] = None
             /\ visit'[w].entry = SealedKey
  <2>1. c # w /\ UNCHANGED <<keyMu, cache, at>>
    BY <1>5
    DEF Backup, Restore, Ask, KeyArrives, Stat, Fence, Checkpoint, Read, Seal, Swap, Interrupt
  <2>2. visit'[w] = visit[w]
    BY <1>1, <1>5, <2>1
    DEF Backup, Restore, Ask, KeyArrives, Stat, Fence, Checkpoint, Read, Seal, Swap, Interrupt,
        Visit, Leave
  <2> QED BY <2>1, <2>2 DEF KeyMuInv
<1>6. CASE UNCHANGED <<at, keyMu, cache, visit>>
  BY <1>6 DEF KeyMuInv
<1> QED BY Steps, <1>2, <1>3, <1>4, <1>5, <1>6 DEF Elsewhere

LEMMA VisitStep ==
  ASSUME TypeOK, [Next]_vars, VisitInv
  PROVE  VisitInv'
<1> SUFFICES ASSUME NEW c \in Commands, cmd'[c].stage \in {"keyForBackup", "keyForRestore"}
             PROVE  visit'[c].entry = cmd'[c].entry
  BY DEF VisitInv
<1>1. /\ visit \in [Clients -> Visits] /\ cmd \in [Commands -> Progress]
      /\ c \in Clients /\ c \notin Workers
  BY ClientsAssumption DEF TypeOK, EscrowTypeOK, VisitOK
<1>2. CASE cmd'[c] = cmd[c] /\ visit'[c].entry = visit[c].entry
  BY <1>2 DEF VisitInv
<1>3. ASSUME NEW w \in Workers, UNCHANGED cmd,
             Put(w) \/ Get(w) \/ Delete(w) \/ LockKey(w) \/ KeyComes(w) \/ PutRow(w)
      PROVE  cmd'[c] = cmd[c] /\ visit'[c].entry = visit[c].entry
  BY <1>1, <1>3 DEF Put, Get, Delete, LockKey, KeyComes, PutRow, Visit, Leave
<1>4. ASSUME NEW p \in Procs, UNCHANGED cmd, LetGo(p) \/ Close(p) \/ Reopen(p) \/ Crash(p)
      PROVE  cmd'[c] = cmd[c] /\ visit'[c].entry = visit[c].entry
  BY <1>1, <1>4 DEF LetGo, Close, Reopen, Crash
<1>5. ASSUME NEW d \in Clients, UNCHANGED cmd, GetKey(d) \/ SetKey(d)
      PROVE  cmd'[c] = cmd[c] /\ visit'[c].entry = visit[c].entry
  BY <1>1, <1>5, Moved DEF GetKey, SetKey
<1>6. ASSUME NEW d \in Commands,
             \/ \E wanted \in Backends \cup {"auto"} : Backup(d, wanted) \/ Restore(d, wanted)
             \/ KeyArrives(d)
             \/ Stat(d) \/ Fence(d) \/ Checkpoint(d) \/ Read(d) \/ Seal(d)
             \/ Swap(d) \/ Interrupt(d)
      PROVE  visit'[c].entry = cmd'[c].entry
  <2>1. CASE d # c
    <3>1. cmd'[c] = cmd[c]
      BY <1>1, <1>6, <2>1
      DEF Backup, Restore, Ask, KeyArrives, Stat, Fence, Checkpoint, Read, Seal, Swap,
          Interrupt, To, Exit
    <3>2. visit'[c] = visit[c]
      BY <1>1, <1>6, <2>1
      DEF Backup, Restore, Ask, KeyArrives, Stat, Fence, Checkpoint, Read, Seal, Swap,
          Interrupt, Visit, Leave
    <3> QED BY <3>1, <3>2, <1>2
  <2>2. ASSUME d = c, NEW entry, NEW stage, NEW sealed, NEW creates,
               cmd' = [cmd EXCEPT ![c] = [Idle EXCEPT !.stage = stage, !.entry = entry,
                                                      !.sealed = sealed]],
               Visit(c, entry, creates)
        PROVE  visit'[c].entry = cmd'[c].entry
    BY <1>1, <2>2 DEF Visit, Idle
  <2>3. CASE d = c /\ \E wanted \in Backends \cup {"auto"} : Backup(d, wanted) \/ Restore(d, wanted)
    <3>1. PICK stage, backend, sealed : Ask(c, stage, backend, sealed)
      BY <2>3 DEF Backup, Restore
    <3> DEFINE entry == <<backend, "backup-key">>
               creates == (stage = "keyForBackup")
    <3>2. /\ cmd' = [cmd EXCEPT ![c] = [Idle EXCEPT !.stage = stage, !.entry = entry,
                                                    !.sealed = sealed]]
          /\ Visit(c, entry, creates)
      BY <3>1 DEF Ask
    <3> HIDE DEF entry, creates
    <3> QED BY <2>2, <2>3, <3>2
  <2>4. CASE d = c /\ KeyArrives(c)
    <3> DEFINE r == [cmd[c] EXCEPT !.stage = "stat", !.key = visit[c].key]
    <3>1. \/ To(c, "swap") \/ Exit(c) \/ cmd' = [cmd EXCEPT ![c] = r]
      BY <2>4 DEF KeyArrives
    <3>2. r.stage = "stat"
      BY <1>1 DEF Progress
    <3>3. cmd'[c].stage \notin {"keyForBackup", "keyForRestore"}
      <4>1. CASE To(c, "swap")
        BY <4>1, ToStage DEF Stages
      <4>2. CASE Exit(c)
        BY <4>2, ExitStage DEF Idle
      <4>3. CASE cmd' = [cmd EXCEPT ![c] = r]
        BY <1>1, <3>2, <4>3
      <4> QED BY <3>1, <4>1, <4>2, <4>3
    <3> QED BY <3>3
  <2>5. CASE d = c /\ Read(c)
    <3> DEFINE parts == Append(cmd[c].parts, disk.main)
               stage == IF Len(parts) = 2 THEN "seal" ELSE "read"
               r == [cmd[c] EXCEPT !.parts = parts, !.stage = stage]
    <3>1. r.stage = stage
      <4> HIDE DEF stage, parts
      <4> QED BY <1>1 DEF Progress
    <3>2. cmd' = [cmd EXCEPT ![c] = r]
      BY <2>5 DEF Read
    <3> QED BY <1>1, <3>1, <3>2
  <2>6. CASE d = c /\ (Stat(d) \/ Fence(d) \/ Checkpoint(d) \/ Seal(d) \/ Swap(d) \/ Interrupt(d))
    <3>1. (\E stage \in {"lock", "checkpoint", "read"} : To(c, stage)) \/ Exit(c)
      BY <2>6 DEF Stat, Fence, Checkpoint, Seal, Swap, Interrupt
    <3>2. cmd'[c].stage \notin {"keyForBackup", "keyForRestore"}
      BY <3>1, ToStage, ExitStage DEF Idle, Stages
    <3> QED BY <3>2
  <2> QED BY <1>6, <2>1, <2>3, <2>4, <2>5, <2>6
<1>7. CASE UNCHANGED <<cmd, visit>>
  BY <1>2, <1>7
<1> QED BY Steps, <1>2, <1>3, <1>4, <1>5, <1>6, <1>7 DEF Elsewhere

\* A command that stands still, or that only goes on to another stage.
LEMMA CommandGrows ==
  ASSUME TypeOK, [Next]_vars, NEW c \in Commands, CommandKept(c), cmd'[c] = cmd[c]
  PROVE  CommandKept(c)'
BY KeptGrows, RowGrows, ArchiveGrows DEF CommandKept

LEMMA CommandMoves ==
  ASSUME TypeOK, [Next]_vars, NEW c \in Commands, CommandKept(c), NEW stage \in Stages,
         To(c, stage), stage \notin {"seal", "keyForRestore"},
         stage \in {"stat", "lock", "checkpoint", "read"} =>
           cmd[c].stage \in {"stat", "lock", "checkpoint", "read", "seal"},
         stage = "swap" => cmd[c].stage = "keyForRestore"
  PROVE  CommandKept(c)'
<1>1. /\ cmd'[c].stage = stage /\ cmd'[c].entry = cmd[c].entry /\ cmd'[c].key = cmd[c].key
      /\ cmd'[c].parts = cmd[c].parts /\ cmd'[c].sealed = cmd[c].sealed
  BY ToStage
<1>2. stage \in {"stat", "lock", "checkpoint", "read"} => Kept(cmd[c].entry, cmd[c].key)
  BY DEF CommandKept
<1>3. (\A i \in DOMAIN cmd[c].parts : RowKept(cmd[c].parts[i])) /\ ArchiveKept(cmd[c].sealed)
  BY DEF CommandKept
<1>4. stage = "swap" => cmd[c].sealed # None
  BY DEF CommandKept
<1> QED BY <1>1, <1>2, <1>3, <1>4, KeptGrows, RowGrows, ArchiveGrows DEF CommandKept

LEMMA CommandExits ==
  ASSUME TypeOK, NEW c \in Commands, Exit(c)
  PROVE  CommandKept(c)'
BY ExitStage DEF CommandKept, Idle, ArchiveKept

LEMMA CommandStep ==
  ASSUME TypeOK, [Next]_vars, VisitInv, MemoryInv, FileInv, CommandInv
  PROVE  CommandInv'
<1> USE DEF CommandInv
<1>1. CASE UNCHANGED <<cmd, archive>>
  BY <1>1, CommandGrows, ArchiveGrows DEF ArchiveKept
<1>2. ASSUME NEW c \in Commands,
             \/ \E wanted \in Backends \cup {"auto"} : Backup(c, wanted) \/ Restore(c, wanted)
             \/ KeyArrives(c)
             \/ Stat(c) \/ Fence(c) \/ Checkpoint(c) \/ Read(c) \/ Seal(c)
             \/ Swap(c) \/ Interrupt(c)
      PROVE  CommandInv'
  <2>1. ASSUME NEW d \in Commands \ {c} PROVE CommandKept(d)'
    <3>1. cmd'[d] = cmd[d]
      BY <1>2
      DEF Backup, Restore, Ask, KeyArrives, Stat, Fence, Checkpoint, Read, Seal, Swap,
          Interrupt, To, Exit, TypeOK
    <3> QED BY <3>1, CommandGrows
  <2>2. c \in Clients /\ cmd[c] \in Progress
    BY ClientsAssumption DEF TypeOK
  <2>3. CASE \E wanted \in Backends \cup {"auto"} : Backup(c, wanted) \/ Restore(c, wanted)
    <3>1. ASSUME NEW stage \in {"keyForBackup", "keyForRestore"}, NEW backend,
                 NEW sealed \in {None, archive}, Ask(c, stage, backend, sealed),
                 stage = "keyForRestore" => sealed # None
          PROVE  CommandInv'
      <4> DEFINE entry == <<backend, "backup-key">>
                 r == [Idle EXCEPT !.stage = stage, !.entry = entry, !.sealed = sealed]
      <4>1. cmd'[c] = r /\ UNCHANGED archive
        BY <3>1 DEF Ask, TypeOK
      <4>2. r.stage = stage /\ r.parts = <<>> /\ r.sealed = sealed
        <5> HIDE DEF entry
        <5> QED BY DEF Idle
      <4>3. ArchiveKept(sealed)' /\ ArchiveKept(archive)'
        BY <3>1, <4>1, ArchiveGrows DEF ArchiveKept
      <4>4. CommandKept(c)'
        <5> HIDE DEF r
        <5> QED BY <3>1, <4>1, <4>2, <4>3 DEF CommandKept
      <4> QED BY <2>1, <4>3, <4>4
    <3>2. CASE \E wanted \in Backends \cup {"auto"} : Backup(c, wanted)
      <4>1. PICK backend : Ask(c, "keyForBackup", backend, None)
        BY <3>2 DEF Backup
      <4> QED BY <3>1, <4>1
    <3>3. CASE \E wanted \in Backends \cup {"auto"} : Restore(c, wanted)
      <4>1. PICK backend : archive # None /\ Ask(c, "keyForRestore", backend, archive)
        BY <3>3 DEF Restore
      <4> QED BY <3>1, <4>1
    <3> QED BY <2>3, <3>2, <3>3
  <2>4. CASE KeyArrives(c)
    <3>1. ArchiveKept(archive)'
      BY <2>4, ArchiveGrows DEF KeyArrives, ArchiveKept
    <3> DEFINE r == [cmd[c] EXCEPT !.stage = "stat", !.key = visit[c].key]
    <3>2. CASE cmd[c].stage = "keyForBackup" /\ visit[c].at = "have" /\ cmd' = [cmd EXCEPT ![c] = r]
      <4>1. /\ r.stage = "stat" /\ r.entry = cmd[c].entry /\ r.key = visit[c].key
            /\ r.parts = cmd[c].parts /\ r.sealed = cmd[c].sealed
        BY <2>2 DEF Progress
      <4>2. Kept(cmd[c].entry, visit[c].key)
        BY <2>2, <3>2 DEF VisitInv, MemoryInv
      <4>3. cmd'[c] = r
        BY <3>2 DEF TypeOK
      <4>4. (\A i \in DOMAIN cmd[c].parts : RowKept(cmd[c].parts[i])) /\ ArchiveKept(cmd[c].sealed)
        BY DEF CommandKept
      <4> HIDE DEF r
      <4> QED
        BY <2>1, <3>1, <4>1, <4>2, <4>3, <4>4, KeptGrows, RowGrows, ArchiveGrows DEF CommandKept
    <3>3. CASE cmd[c].stage = "keyForRestore" /\ To(c, "swap")
      <4>1. CommandKept(c)'
        BY <3>3, CommandMoves DEF Stages
      <4> QED BY <2>1, <3>1, <4>1
    <3>4. CASE Exit(c)
      BY <2>1, <3>1, <3>4, CommandExits
    <3> QED BY <2>4, <3>2, <3>3, <3>4 DEF KeyArrives
  <2>5. CASE Stat(c) \/ Fence(c) \/ Checkpoint(c)
    <3>1. ArchiveKept(archive)'
      BY <2>5, ArchiveGrows DEF Stat, Fence, Checkpoint, ArchiveKept
    <3>2. /\ (\E stage \in {"lock", "checkpoint", "read"} : To(c, stage)) \/ Exit(c)
          /\ cmd[c].stage \in {"stat", "lock", "checkpoint"}
      BY <2>5 DEF Stat, Fence, Checkpoint
    <3>3. CommandKept(c)'
      BY <3>2, CommandMoves, CommandExits DEF Stages
    <3> QED BY <2>1, <3>1, <3>3
  <2>6. CASE Read(c)
    <3>1. ArchiveKept(archive)'
      BY <2>6, ArchiveGrows DEF Read, ArchiveKept
    <3> DEFINE parts == Append(cmd[c].parts, disk.main)
               stage == IF Len(parts) = 2 THEN "seal" ELSE "read"
               r == [cmd[c] EXCEPT !.parts = parts, !.stage = stage]
    <3>2. cmd'[c] = r /\ cmd[c].stage = "read"
      BY <2>6 DEF Read, TypeOK
    <3>3. /\ r.stage = stage /\ r.parts = parts /\ r.entry = cmd[c].entry
          /\ r.key = cmd[c].key /\ r.sealed = cmd[c].sealed
      <4> HIDE DEF stage, parts
      <4> QED BY <2>2 DEF Progress
    <3>4. cmd[c].parts \in Seq(Rows) /\ disk.main \in Rows
      BY <2>2, DiskTypes DEF Progress, Disks
    <3>5. 1 \in DOMAIN parts /\ \A i \in DOMAIN parts :
            parts[i] = disk.main \/ (i \in DOMAIN cmd[c].parts /\ parts[i] = cmd[c].parts[i])
      <4>1. /\ Len(cmd[c].parts) \in Nat /\ DOMAIN cmd[c].parts = 1..Len(cmd[c].parts)
            /\ Len(parts) = Len(cmd[c].parts) + 1 /\ DOMAIN parts = 1..Len(parts)
            /\ \A i \in 1..Len(cmd[c].parts) : parts[i] = cmd[c].parts[i]
            /\ parts[Len(cmd[c].parts) + 1] = disk.main
        BY <3>4, AppendProperties, LenProperties
      <4> HIDE DEF parts
      <4> QED BY <4>1
    <3>6. \A i \in DOMAIN parts : RowKept(parts[i])
      <4> HIDE DEF parts
      <4> QED BY <3>5 DEF CommandKept, FileInv
    <3>7. stage \in {"read", "seal"}
      OBVIOUS
    <3>8. Kept(cmd[c].entry, cmd[c].key) /\ ArchiveKept(cmd[c].sealed)
      BY <3>2 DEF CommandKept
    <3> HIDE DEF r, parts, stage
    <3>9. CommandKept(c)'
      <4>1. \A i \in DOMAIN cmd'[c].parts : RowKept(cmd'[c].parts[i])
        BY <3>2, <3>3, <3>6
      <4>2. \A i \in DOMAIN cmd'[c].parts : RowKept(cmd[c].parts[i])'
        BY <4>1, RowGrows DEF RowKept
      <4> QED
        BY <3>2, <3>3, <3>5, <3>7, <3>8, <4>2, KeptGrows, ArchiveGrows DEF CommandKept
    <3> QED BY <2>1, <3>1, <3>9
  <2>7. CASE Seal(c)
    <3>1. CommandKept(c)'
      BY <2>7, CommandExits DEF Seal
    <3> DEFINE a == [entry |-> cmd[c].entry, key |-> cmd[c].key, parts |-> cmd[c].parts]
    <3>2. ArchiveKept(a)
      BY <2>7 DEF Seal, ArchiveKept, CommandKept
    <3>3. archive' = a
      BY <2>7 DEF Seal
    <3>4. ArchiveKept(archive)'
      <4> HIDE DEF a
      <4> QED BY <3>2, <3>3, KeptGrows, RowGrows DEF ArchiveKept
    <3> QED BY <2>1, <3>1, <3>4
  <2>8. CASE Swap(c) \/ Interrupt(c)
    <3>1. CommandKept(c)' /\ ArchiveKept(archive)'
      BY <2>8, CommandExits, ArchiveGrows DEF Swap, Interrupt, ArchiveKept
    <3> QED BY <2>1, <3>1
  <2> QED BY <1>2, <2>3, <2>4, <2>5, <2>6, <2>7, <2>8
<1> QED BY Steps, <1>1, <1>2 DEF Elsewhere

-----------------------------------------------------------------------------
(* The lock *)

LEMMA LockStep ==
  ASSUME TypeOK, [Next]_vars, LockInv
  PROVE  LockInv'
<1> SUFFICES ASSUME NEW c \in Commands
             PROVE  /\ cmd'[c].stage \in {"checkpoint", "read", "seal"} => owner' = c
                    /\ cmd'[c].stage \notin {"read", "seal"} => cmd'[c].parts = <<>>
                    /\ cmd'[c].stage \in {"read", "seal"} =>
                         /\ disk'.log = None
                         /\ \A i \in DOMAIN cmd'[c].parts : cmd'[c].parts[i] = disk'.main
  BY DEF LockInv
<1>0. c \notin Procs /\ c # None /\ cmd[c] \in Progress /\ disk \in Disks
  BY ClientsAssumption, DiskTypes DEF TypeOK
<1> DEFINE Still == /\ cmd'[c] = cmd[c]
                    /\ owner = c => owner' = c /\ disk' = disk
<1>1. CASE Still
  BY <1>1 DEF LockInv
<1>2. ASSUME NEW w \in Workers, UNCHANGED cmd,
             Put(w) \/ Get(w) \/ Delete(w) \/ LockKey(w) \/ KeyComes(w) \/ PutRow(w)
      PROVE  Still
  <2>1. ProcOf[w] # c
    BY <1>0, WorkersAssumption
  <2> QED BY <1>0, <1>2, <2>1 DEF Put, Get, Delete, LockKey, KeyComes, PutRow, Do
<1>3. ASSUME NEW p \in Procs, UNCHANGED cmd, LetGo(p) \/ Close(p) \/ Reopen(p) \/ Crash(p)
      PROVE  Still
  BY <1>0, <1>3 DEF LetGo, Close, Reopen, Crash
<1>4. ASSUME NEW d \in Commands,
             \/ \E wanted \in Backends \cup {"auto"} : Backup(d, wanted) \/ Restore(d, wanted)
             \/ KeyArrives(d)
             \/ Stat(d) \/ Fence(d) \/ Checkpoint(d) \/ Read(d) \/ Seal(d)
             \/ Swap(d) \/ Interrupt(d),
             d # c
      PROVE  Still
  <2>1. cmd'[c] = cmd[c]
    BY <1>4
    DEF Backup, Restore, Ask, KeyArrives, Stat, Fence, Checkpoint, Read, Seal, Swap,
        Interrupt, To, Exit, TypeOK
  <2>2. cmd[d].stage = "checkpoint" => owner = d
    BY DEF LockInv
  <2>3. owner = c => owner' = c /\ disk' = disk
    BY <1>0, <1>4, <2>2
    DEF Backup, Restore, Ask, KeyArrives, Stat, Fence, Checkpoint, Read, Seal, Swap, Interrupt
  <2> QED BY <2>1, <2>3
<1>5. CASE Exit(c)
  BY <1>5, ExitStage DEF Idle
<1>6. CASE \E wanted \in Backends \cup {"auto"} : Backup(c, wanted) \/ Restore(c, wanted)
  <2>1. PICK stage, backend, sealed : Ask(c, stage, backend, sealed)
                                      /\ stage \in {"keyForBackup", "keyForRestore"}
    BY <1>6 DEF Backup, Restore
  <2> DEFINE entry == <<backend, "backup-key">>
             r == [Idle EXCEPT !.stage = stage, !.entry = entry, !.sealed = sealed]
  <2>2. r.stage = stage /\ r.parts = <<>>
    <3> HIDE DEF entry
    <3> QED BY DEF Idle
  <2>3. cmd'[c] = r
    BY <2>1 DEF Ask, TypeOK
  <2> QED BY <2>1, <2>2, <2>3
<1>7. CASE KeyArrives(c)
  <2> DEFINE r == [cmd[c] EXCEPT !.stage = "stat", !.key = visit[c].key]
  <2>1. /\ cmd[c].stage \in {"keyForBackup", "keyForRestore"}
        /\ To(c, "swap") \/ Exit(c) \/ cmd' = [cmd EXCEPT ![c] = r]
    BY <1>7 DEF KeyArrives
  <2>2. cmd[c].parts = <<>>
    BY <2>1 DEF LockInv
  <2>3. CASE To(c, "swap")
    BY <2>2, <2>3, ToStage DEF Stages
  <2>4. CASE cmd' = [cmd EXCEPT ![c] = r]
    <3>1. r.stage = "stat" /\ r.parts = cmd[c].parts
      BY <1>0 DEF Progress
    <3>2. cmd'[c] = r
      BY <2>4 DEF TypeOK
    <3> QED BY <2>2, <3>1, <3>2
  <2> QED BY <2>1, <2>3, <2>4, <1>5
<1>8. CASE Stat(c)
  <2>1. cmd[c].parts = <<>> /\ (To(c, "lock") \/ Exit(c))
    BY <1>8 DEF Stat, LockInv
  <2>2. CASE To(c, "lock")
    BY <2>1, <2>2, ToStage DEF Stages
  <2> QED BY <2>1, <2>2, <1>5
<1>9. CASE Fence(c)
  <2>1. cmd[c].parts = <<>> /\ ((To(c, "checkpoint") /\ owner' = c) \/ Exit(c))
    BY <1>9 DEF Fence, LockInv
  <2>2. CASE To(c, "checkpoint") /\ owner' = c
    BY <2>1, <2>2, ToStage DEF Stages
  <2> QED BY <2>1, <2>2, <1>5
<1>10. CASE Checkpoint(c)
  <2>1. /\ cmd[c].parts = <<>> /\ owner = c
        /\ (To(c, "read") /\ UNCHANGED owner /\ disk' = Merged) \/ Exit(c)
    BY <1>10 DEF Checkpoint, LockInv
  <2>2. CASE To(c, "read") /\ UNCHANGED owner /\ disk' = Merged
    <3>1. disk'.log = None
      BY <1>0, <2>2 DEF Merged, Disks
    <3>2. cmd'[c].stage = "read" /\ cmd'[c].parts = <<>>
      BY <2>1, <2>2, ToStage DEF Stages
    <3> QED BY <2>1, <2>2, <3>1, <3>2
  <2> QED BY <2>1, <2>2, <1>5
<1>11. CASE Read(c)
  <2> DEFINE parts == Append(cmd[c].parts, disk.main)
             stage == IF Len(parts) = 2 THEN "seal" ELSE "read"
             r == [cmd[c] EXCEPT !.parts = parts, !.stage = stage]
  <2>1. cmd'[c] = r /\ cmd[c].stage = "read" /\ UNCHANGED <<disk, owner>>
    BY <1>11 DEF Read, TypeOK
  <2>2. r.stage = stage /\ r.parts = parts
    <3> HIDE DEF stage, parts
    <3> QED BY <1>0 DEF Progress
  <2>3. cmd[c].parts \in Seq(Rows) /\ disk.main \in Rows
    BY <1>0 DEF Progress, Disks
  <2>4. /\ owner = c /\ disk.log = None
        /\ \A i \in DOMAIN cmd[c].parts : cmd[c].parts[i] = disk.main
    BY <2>1 DEF LockInv
  <2>5. \A i \in DOMAIN parts : parts[i] = disk.main
    <3>1. /\ Len(cmd[c].parts) \in Nat /\ DOMAIN cmd[c].parts = 1..Len(cmd[c].parts)
          /\ Len(parts) = Len(cmd[c].parts) + 1 /\ DOMAIN parts = 1..Len(parts)
          /\ \A i \in 1..Len(cmd[c].parts) : parts[i] = cmd[c].parts[i]
          /\ parts[Len(cmd[c].parts) + 1] = disk.main
      BY <2>3, AppendProperties, LenProperties
    <3> HIDE DEF parts
    <3> QED BY <2>4, <3>1
  <2>6. stage \in {"read", "seal"}
    OBVIOUS
  <2> HIDE DEF r, parts, stage
  <2> QED BY <2>1, <2>2, <2>4, <2>5, <2>6
<1>12. CASE Seal(c) \/ Swap(c) \/ Interrupt(c)
  BY <1>12, <1>5 DEF Seal, Swap, Interrupt
<1>13. CASE UNCHANGED <<cmd, disk, owner>>
  BY <1>1, <1>13
<1> HIDE DEF Still
<1> QED
  BY Steps, <1>1, <1>2, <1>3, <1>4, <1>6, <1>7, <1>8, <1>9, <1>10, <1>11, <1>12, <1>13

-----------------------------------------------------------------------------
(* Theorems *)

LEMMA Initially == Init => IndInv
<1> SUFFICES ASSUME Init PROVE IndInv
  OBVIOUS
<1>1. TypeOK
  BY InitType
<1>2. KeyMuInv /\ VisitInv /\ LockInv
  BY DEF Init, SealedInit, Idle, KeyMuInv, VisitInv, LockInv
<1>3. MemoryInv /\ FileInv
  BY DEF Init, EscrowInit, SealedInit, Away, MemoryInv, FileInv, RowKept
<1>4. CommandInv
  BY DEF Init, Idle, CommandInv, CommandKept, ArchiveKept
<1> QED BY <1>1, <1>2, <1>3, <1>4 DEF IndInv, EscrowInv

LEMMA Inductive == IndInv /\ [Next]_vars => IndInv'
<1> SUFFICES ASSUME IndInv, [Next]_vars PROVE IndInv'
  OBVIOUS
<1>1. TypeOK /\ KeyMuInv /\ VisitInv /\ MemoryInv /\ FileInv /\ CommandInv /\ LockInv
  BY DEF IndInv, EscrowInv
<1> QED
  BY <1>1, StepType, KeyMuStep, VisitStep, MemoryStep, FileStep, CommandStep, LockStep
  DEF IndInv, EscrowInv

LEMMA Always == Spec => []IndInv
BY Initially, Inductive, PTL DEF Spec

\* Every variable keeps its type: secret, sealed and backup hand each other keys
\* and rows only.
THEOREM TypeCorrect == Spec => []TypeOK
<1>1. IndInv => TypeOK
  BY DEF IndInv
<1> QED BY <1>1, Always, PTL

\* GetOrCreate stores a key before anybody has it, encryptionKey caches only such a
\* key, and Archive seals only with such a key: for any number of processes,
\* goroutines, commands and keys, and whatever fails.
THEOREM EscrowHolds == Spec => []EscrowedBeforeUse
<1>1. IndInv => EscrowedBeforeUse
  BY DEF IndInv, EscrowInv, EscrowedBeforeUse, FileInv, CommandInv, RowKept, ArchiveKept, Kept,
         SealedKey
<1> QED BY <1>1, Always, PTL

\* snapshot reads under the lock and after the checkpoint, so that nothing is
\* committed between its reads and nothing is left in the log.
THEOREM SnapshotHolds == Spec => []SnapshotIsWhole
<1>1. IndInv => SnapshotIsWhole
  BY DEF IndInv, LockInv, SnapshotIsWhole, Committed
<1> QED BY <1>1, Always, PTL

\* keyMu makes the goroutines of a Store wait for the first one's key.
THEOREM OneKeyHolds == Spec => OneKeyPerStore
<1>1. ASSUME IndInv, [Next]_vars
      PROVE  [\A p \in Procs : cache[p] # None => cache'[p] \in {cache[p], None}]_vars
  <2> SUFFICES ASSUME NEW p \in Procs, cache[p] # None
               PROVE  cache'[p] \in {cache[p], None}
    OBVIOUS
  <2>1. TypeOK /\ KeyMuInv
    BY <1>1 DEF IndInv, EscrowInv
  <2>2. \A w \in Workers : KeyComes(w) => cache'[p] = cache[p]
    BY <2>1 DEF KeyComes, KeyMuInv, TypeOK, SealedTypeOK
  <2>3. \A q \in Procs : Reopen(q) \/ Crash(q) => cache'[p] \in {cache[p], None}
    BY <2>1 DEF Reopen, Crash, Fresh, TypeOK, SealedTypeOK
  <2> QED
    BY <1>1, Steps, <2>2, <2>3
    DEF Put, Get, Delete, LockKey, PutRow, LetGo, Close, Elsewhere, Backup, Restore,
        Ask, KeyArrives, Stat, Fence, Checkpoint, Read, Seal, Swap, Interrupt
<1> QED BY <1>1, Always, PTL DEF Spec, OneKeyPerStore
=============================================================================
