------------------------------- MODULE Escrow -------------------------------
(***************************************************************************)
(* secret/: keys kept in the OS keyring or in a password manager (the bw   *)
(* and op stores, which behave alike), and GetOrCreate.  A visit is what a *)
(* client is doing there: GetOrCreate, or the Get alone of readKey.  The   *)
(* keyring and the managers are external: each of their calls is atomic,   *)
(* and those of other clients come between a Get and its Set.              *)
(***************************************************************************)
EXTENDS Integers, FiniteSets

CONSTANTS
  None,
  Clients,     \* goroutines that need keys, of any process
  EntryNames,  \* names of entries
  Faults,      \* which of "get", "set", "checkpoint" may fail
  MaxKeys      \* bound: keys generated

ASSUME KeysAssumption == MaxKeys \in Nat

Backends == {"keyring", "manager"}
Entries  == Backends \X EntryNames
Keys     == 1..MaxKeys

VARIABLES
  items,     \* what is stored for each entry
  minted,    \* keys generated so far
  visit,     \* what each client is doing
  lost       \* ghost: keys that a later Set has replaced

escrowVars == <<items, minted, visit, lost>>

Away == [at |-> "away", entry |-> None, creates |-> FALSE, key |-> None]
Visits == [at : {"away", "get", "set", "have", "failed"}, entry : Entries \cup {None},
           creates : BOOLEAN, key : Keys \cup {None}]

VisitOK ==
  /\ visit \in [Clients -> Visits]
  /\ \A c \in Clients : visit[c].at # "away" => visit[c].entry \in Entries
  /\ \A c \in Clients : visit[c].at = "set" => visit[c].key \in Keys

EscrowTypeOK ==
  /\ items \in [Entries -> SUBSET Keys]
  /\ minted \in 0..MaxKeys
  /\ VisitOK
  /\ lost \subseteq Keys

EscrowInit ==
  /\ items = [e \in Entries |-> {}]
  /\ minted = 0
  /\ visit = [c \in Clients |-> Away]
  /\ lost = {}

\* Open.  A manager must be available; BackendAuto takes one that is available at
\* that moment and else the keyring, so a later call may get another backend.
Opened(wanted) == IF wanted = "auto" THEN Backends ELSE {wanted}

-----------------------------------------------------------------------------
(* The backends *)

Absent == <<"absent", None>>
Error  == <<"error", None>>
Found(k) == <<"found", k>>

\* keyringStore.Get
KeyringGet(e) ==
  (IF items[e] = {} THEN {Absent} ELSE {Found(k) : k \in items[e]})
    \cup (IF "get" \in Faults THEN {Error} ELSE {})

\* bwStore.Get, opStore.Get: an error if the manager has been locked since Open, or
\* has two items of that name.
ManagerGet(e) ==
  IF Cardinality(items[e]) > 1 THEN {Error}
  ELSE {Error} \cup IF items[e] = {} THEN {Absent} ELSE {Found(k) : k \in items[e]}

\* keyringStore.Set: the later value replaces the earlier one.
KeyringSet(e, k) ==
  /\ items' = [items EXCEPT ![e] = {k}]
  /\ lost' = lost \cup (items[e] \ {k})

\* bwStore.Set, opStore.Set: create makes an item, also where there is one.
ManagerSet(e, k) ==
  /\ items' = [items EXCEPT ![e] = @ \cup {k}]
  /\ UNCHANGED lost

Answers(e) == IF e[1] = "keyring" THEN KeyringGet(e) ELSE ManagerGet(e)
Store(e, k) == IF e[1] = "keyring" THEN KeyringSet(e, k) ELSE ManagerSet(e, k)
SetMayFail(e) == "set" \in Faults \/ e[1] = "manager"

-----------------------------------------------------------------------------
(* Clients *)

Visit(c, entry, creates) ==
  visit' = [visit EXCEPT ![c] = [at |-> "get", entry |-> entry, creates |-> creates, key |-> None]]

Leave(c) == visit' = [visit EXCEPT ![c] = Away]

Move(c, at, key) == visit' = [visit EXCEPT ![c] = [@ EXCEPT !.at = at, !.key = key]]

\* The Get of GetOrCreate and of readKey.  GetOrCreate makes a key if there is none.
GetKey(c) ==
  /\ visit[c].at = "get"
  /\ \E answer \in Answers(visit[c].entry) :
       \/ /\ answer = Absent /\ visit[c].creates
          /\ minted < MaxKeys
          /\ minted' = minted + 1
          /\ Move(c, "set", minted + 1)
       \/ /\ \E k \in Keys : answer = Found(k) /\ Move(c, "have", k)
          /\ UNCHANGED minted
       \/ /\ answer = Error \/ (answer = Absent /\ ~visit[c].creates)
          /\ Move(c, "failed", None)
          /\ UNCHANGED minted
  /\ UNCHANGED <<items, lost>>

\* A Set whose failure is overlooked.
SetKeyLenient(c) ==
  LET v == visit[c] IN
  /\ v.at = "set"
  /\ \/ Store(v.entry, v.key)
     \/ SetMayFail(v.entry) /\ UNCHANGED <<items, lost>>
  /\ Move(c, "have", v.key)
  /\ UNCHANGED minted

\* The Set of GetOrCreate; one that fails may have done its work.
SetKey(c) ==
  LET v == visit[c] IN
  /\ v.at = "set"
  /\ \/ Store(v.entry, v.key) /\ Move(c, "have", v.key)
     \/ /\ SetMayFail(v.entry)
        /\ Store(v.entry, v.key) \/ UNCHANGED <<items, lost>>
        /\ Move(c, "failed", None)
  /\ UNCHANGED minted

\* GetOrCreate on another machine with the same manager, which had found nothing.
Elsewhere ==
  /\ minted < MaxKeys
  /\ minted' = minted + 1
  /\ \E name \in EntryNames \ {"sealed-key"} :
       items' = [items EXCEPT ![<<"manager", name>>] = @ \cup {minted + 1}]
  /\ UNCHANGED <<visit, lost>>

\* Whoever asks for the entry is told k, or that there is a choice to make; or k
\* has been replaced.
Escrowed(entry, k) == k \in items[entry] \/ k \in lost
=============================================================================
