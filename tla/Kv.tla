--------------------------------- MODULE Kv ---------------------------------
(***************************************************************************)
(* kv/kv.go: a table of rows (namespace, key, expiry), used by everybody   *)
(* who has the file open.  Handle.Do runs one operation at a time, in one  *)
(* process at a time (DuckHandle), so each operation is one step; values,  *)
(* and updated_at, which no operation decides on, are left out.  Expiry is *)
(* tested in three places: in Go by Get, in SQL by sweepOn and by Stats.   *)
(***************************************************************************)
EXTENDS Integers, FiniteSets

CONSTANTS
  Spaces,    \* namespaces
  Keys,      \* keys
  Cached,    \* pairs <<ns, k>> that other users of the store read and write
  Expiries,  \* the expiries they give
  MaxNow     \* bound: the clock

Never == 0   \* the zero time, stored as NULL

ASSUME KvAssumption ==
  /\ MaxNow \in Nat \ {0}
  /\ Cached \subseteq Spaces \X Keys
  /\ Expiries \subseteq {Never} \cup 1..MaxNow

VARIABLES
  rows,  \* the table
  now    \* time.Now()

kvVars == <<rows, now>>

At(ns, k) == {r \in rows : r.ns = ns /\ r.key = k}

\* At most one row for each primary key, although Put never updates one.
KvTypeOK ==
  /\ rows \subseteq [ns : Spaces, key : Keys, expiry : {Never} \cup Expiries]
  /\ \A ns \in Spaces, k \in Keys : Cardinality(At(ns, k)) <= 1
  /\ now \in 1..MaxNow

KvInit == rows = {} /\ now = 1

-----------------------------------------------------------------------------
(* What the statements read and leave behind *)

\* An expired() that lets a row live to the end of its last instant.
ExpiredLate(r) == r.expiry # Never /\ r.expiry < now

\* expired(): not zero and not after now.
Expired(r) == r.expiry # Never /\ ~(r.expiry > now)

\* A sweep that has forgotten the NULLs: the zero time lies in the past.
SweptNulls == {r \in rows : r.expiry > now}

\* What sweepOn leaves: DELETE WHERE expiry IS NOT NULL AND expiry <= now.
Swept == {r \in rows : ~(r.expiry # Never /\ r.expiry <= now)}

\* What Stats counts as live: expiry IS NULL OR expiry > now.
StatsLive(ns) == {r \in rows : r.ns = ns /\ (r.expiry = Never \/ r.expiry > now)}

\* What Get finds, List returns and Namespaces lists.
Found(ns, k) == \E r \in At(ns, k) : ~Expired(r)
Listed(ns)   == {r.key : r \in {s \in Swept : s.ns = ns}}
Namespaces   == {r.ns : r \in Swept}

\* Put: a DELETE and an INSERT in one transaction.
PutRow(ns, k, expiry) ==
  rows' = (rows \ At(ns, k)) \cup {[ns |-> ns, key |-> k, expiry |-> expiry]}

DeleteRow(ns, k) == rows' = rows \ At(ns, k)

-----------------------------------------------------------------------------
(* Other users of the store; one that fails changes nothing, or what it    *)
(* would have changed: nobody here looks at the error.                     *)

Put(ns, k, expiry) == PutRow(ns, k, expiry) /\ UNCHANGED now

Delete(ns, k) ==
  /\ At(ns, k) # {}
  /\ DeleteRow(ns, k)
  /\ UNCHANGED now

\* Get deletes the expired row it hits; in any other case it changes nothing.
Get(ns, k) ==
  /\ \E r \in At(ns, k) : Expired(r)
  /\ DeleteRow(ns, k)
  /\ UNCHANGED now

\* Sweep, and List and Namespaces, which begin with a sweep of all namespaces.
Sweep ==
  /\ Swept # rows
  /\ rows' = Swept
  /\ UNCHANGED now

\* Clear of one namespace, or with "" of the whole store.
Clear(hit) ==
  /\ rows' = {r \in rows : r.ns \notin hit}
  /\ UNCHANGED now

ClearArguments == {{ns} : ns \in Spaces} \cup {Spaces}

Tick == now < MaxNow /\ now' = now + 1 /\ UNCHANGED rows

KvOthers ==
  \/ \E c \in Cached :
       \/ \E expiry \in Expiries : Put(c[1], c[2], expiry)
       \/ Delete(c[1], c[2])
       \/ Get(c[1], c[2])
  \/ Sweep
  \/ Tick

-----------------------------------------------------------------------------
\* "Expired rows are lazily deleted": whether a row is still there or not, Get,
\* List, Namespaces and Stats give the same answer at the same time.
ReadersAgree ==
  \A ns \in Spaces :
    /\ \A k \in Keys : Found(ns, k) <=> k \in Listed(ns)
    /\ Cardinality(StatsLive(ns)) = Cardinality(Listed(ns))
    /\ ns \in Namespaces <=> StatsLive(ns) # {}
=============================================================================
