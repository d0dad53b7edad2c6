-------------------------------- MODULE Vault --------------------------------
(***************************************************************************)
(* backup.go (Backup, Restore) and backup/backup.go (Archive) of a sealed  *)
(* store's database: processes that put credentials, and commands that     *)
(* back the file up under a key of their own and bring it back.            *)
(*                                                                         *)
(* The spec's Files are that one database: Archive handles its paths one   *)
(* after the other and independently.  The swap of the restored files is   *)
(* one step here, and module Restore shows what it is made of.             *)
(***************************************************************************)
EXTENDS Sealed, Sequences

CONSTANT Commands  \* processes that run Backup or Restore

ASSUME ClientsAssumption ==
  /\ Clients = Workers \cup Commands
  /\ Commands \cap (Workers \cup Procs) = {}
  /\ None \notin Clients
ASSUME WorkersAssumption == ProcOf \in [Workers -> Procs]
ASSUME EntriesAssumption == EntryNames = {"sealed-key", "backup-key"}

VARIABLES
  cmd,     \* what each command is doing
  archive  \* the sealed archive of the last Backup, or None

vars == <<escrowVars, sealedVars, cmd, archive>>

Idle == [stage |-> "idle", entry |-> None, key |-> None, parts |-> <<>>, sealed |-> None]

Archives == [entry : Entries \cup {None}, key : Keys \cup {None}, parts : Seq(Rows) \ {<<>>}]
Stages   == {"idle", "keyForBackup", "keyForRestore", "stat", "lock", "checkpoint", "read",
             "seal", "swap"}
Progress == [stage : Stages, entry : Entries \cup {None}, key : Keys \cup {None}, parts : Seq(Rows),
             sealed : Archives \cup {None}]

TypeOK ==
  /\ EscrowTypeOK
  /\ SealedTypeOK
  /\ owner \in Procs \cup Commands \cup {None}
  /\ cmd \in [Commands -> Progress]
  /\ \A c \in Commands :
       /\ cmd[c].stage = "seal" => cmd[c].parts # <<>>
       /\ cmd[c].stage \in {"keyForRestore", "swap"} => cmd[c].sealed # None
  /\ archive \in Archives \cup {None}

Init == EscrowInit /\ SealedInit /\ cmd = [c \in Commands |-> Idle] /\ archive = None

To(c, stage)  == cmd' = [cmd EXCEPT ![c] = [@ EXCEPT !.stage = stage]]
Exit(c)       == cmd' = [cmd EXCEPT ![c] = Idle]
StoresAlone   == UNCHANGED <<cache, keyMu, closed, at, doing>>
NotTheEscrow  == UNCHANGED escrowVars
NotTheFile    == UNCHANGED <<disk, owner>>

-----------------------------------------------------------------------------
(* Keys *)

\* The first call for the entry of a SecretRef.
Ask(c, stage, backend, sealed) ==
  /\ cmd[c].stage = "idle"
  /\ LET entry == <<backend, "backup-key">> IN
     /\ cmd' = [cmd EXCEPT ![c] = [Idle EXCEPT !.stage = stage, !.entry = entry, !.sealed = sealed]]
     /\ Visit(c, entry, stage = "keyForBackup")
  /\ UNCHANGED <<items, minted, lost, archive>>
  /\ StoresAlone /\ NotTheFile

\* Backup: getOrCreateKey in the Store that Open gives.
Backup(c, wanted) == \E backend \in Opened(wanted) : Ask(c, "keyForBackup", backend, None)

\* Restore: readKey.
Restore(c, wanted) ==
  /\ archive # None
  /\ \E backend \in Opened(wanted) : Ask(c, "keyForRestore", backend, archive)

\* The key, or the end.  Restore goes on with a key that opens what it was given.
KeyArrives(c) ==
  /\ cmd[c].stage \in {"keyForBackup", "keyForRestore"}
  /\ \/ /\ visit[c].at = "have"
        /\ CASE cmd[c].stage = "keyForBackup" ->
                  cmd' = [cmd EXCEPT ![c] = [@ EXCEPT !.stage = "stat", !.key = visit[c].key]]
             [] cmd[c].stage = "keyForRestore" /\ visit[c].key = cmd[c].sealed.key -> To(c, "swap")
             [] OTHER -> Exit(c)
     \/ visit[c].at = "failed" /\ Exit(c)
  /\ Leave(c)
  /\ UNCHANGED <<items, minted, lost, archive>>
  /\ StoresAlone /\ NotTheFile

-----------------------------------------------------------------------------
(* Archive *)

\* snapshot: no file, nothing to back up; else it is a database.
Stat(c) ==
  /\ cmd[c].stage = "stat"
  /\ IF disk.exists THEN To(c, "lock") ELSE Exit(c)
  /\ UNCHANGED archive
  /\ StoresAlone /\ NotTheEscrow /\ NotTheFile

\* AcquireLock and duckdb.Open, or the refusal after lockTimeout.
Fence(c) ==
  /\ cmd[c].stage = "lock"
  /\ \/ owner = None /\ owner' = c /\ To(c, "checkpoint")
     \/ owner # None /\ Exit(c) /\ UNCHANGED owner
  /\ UNCHANGED <<disk, archive>>
  /\ StoresAlone /\ NotTheEscrow

\* A snapshot that gives the lock back with the database.
CheckpointReleasing(c) ==
  /\ cmd[c].stage = "checkpoint"
  /\ owner' = None
  /\ \/ disk' = Merged /\ To(c, "read")
     \/ "checkpoint" \in Faults /\ disk' \in {disk, Merged} /\ Exit(c)
  /\ UNCHANGED archive
  /\ StoresAlone /\ NotTheEscrow

\* CHECKPOINT and Close; when one of them fails, the log may or may not be merged.
Checkpoint(c) ==
  /\ cmd[c].stage = "checkpoint"
  /\ \/ disk' = Merged /\ To(c, "read") /\ UNCHANGED owner
     \/ /\ "checkpoint" \in Faults
        /\ disk' \in {disk, Merged}
        /\ owner' = None
        /\ Exit(c)
  /\ UNCHANGED archive
  /\ StoresAlone /\ NotTheEscrow

\* ReadFile takes several reads, here two.
Read(c) ==
  /\ cmd[c].stage = "read"
  /\ LET parts == Append(cmd[c].parts, disk.main) IN
     cmd' = [cmd EXCEPT ![c] =
               [@ EXCEPT !.parts = parts,
                         !.stage = IF Len(parts) = 2 THEN "seal" ELSE "read"]]
  /\ UNCHANGED archive
  /\ StoresAlone /\ NotTheEscrow /\ NotTheFile

\* Release, crypt.Encrypt, and the archive is the caller's.
Seal(c) ==
  /\ cmd[c].stage = "seal"
  /\ owner' = IF owner = c THEN None ELSE owner
  /\ archive' = [entry |-> cmd[c].entry, key |-> cmd[c].key, parts |-> cmd[c].parts]
  /\ Exit(c)
  /\ UNCHANGED disk
  /\ StoresAlone /\ NotTheEscrow

-----------------------------------------------------------------------------
(* The swap *)

\* backup.Restore: the file of the archive for the present one and its log.
Swap(c) ==
  /\ cmd[c].stage = "swap"
  /\ \/ /\ owner = None
        /\ disk' = [exists |-> TRUE, main |-> cmd[c].sealed.parts[1], log |-> None]
     \/ owner # None /\ UNCHANGED disk
  /\ Exit(c)
  /\ UNCHANGED <<owner, archive>>
  /\ StoresAlone /\ NotTheEscrow

\* A command is interrupted: the kernel frees its lock.
Interrupt(c) ==
  /\ cmd[c].stage # "idle"
  /\ Exit(c)
  /\ Leave(c)
  /\ owner' = IF owner = c THEN None ELSE owner
  /\ UNCHANGED <<items, minted, lost, disk, archive>>
  /\ StoresAlone

Next ==
  \/ /\ \/ StoreStep
        \/ ((\E c \in Clients : GetKey(c) \/ SetKey(c)) \/ Elsewhere) /\ UNCHANGED sealedVars
     /\ UNCHANGED <<cmd, archive>>
  \/ \E c \in Commands :
       \/ \E wanted \in Backends \cup {"auto"} : Backup(c, wanted) \/ Restore(c, wanted)
       \/ KeyArrives(c)
       \/ Stat(c) \/ Fence(c) \/ Checkpoint(c) \/ Read(c) \/ Seal(c)
       \/ Swap(c) \/ Interrupt(c)

Spec == Init /\ [][Next]_vars

-----------------------------------------------------------------------------
(* Properties *)

\* A Store seals with one key as long as it lives, so that it can open what it
\* has sealed: also when its first operations ask for the key at the same time.
OneKeyPerStore ==
  [][\A p \in Procs : cache[p] # None => cache'[p] \in {cache[p], None}]_vars

\* The key of every row and of the archive is in the backend it was to be kept
\* in, unless the Set of somebody who had found no key there replaced it: nothing
\* is sealed with a key that only memory knows, whatever fails or dies when.
EscrowedBeforeUse ==
  /\ \A row \in {disk.main, disk.log} \ {None, NoRow} : Escrowed(<<"keyring", "sealed-key">>, row)
  /\ archive # None => Escrowed(archive.entry, archive.key)

\* What Archive has read is all that is committed, and of one piece, until it
\* has read the rest and given the lock back.
SnapshotIsWhole ==
  \A c \in Commands : cmd[c].stage \in {"read", "seal"} =>
    \A i \in DOMAIN cmd[c].parts : cmd[c].parts[i] = Committed
=============================================================================
