----------------------------- MODULE SourceProofs -----------------------------
(***************************************************************************)
(* Source on top of Kv, proved for any number of items, namespaces and     *)
(* users of the store, any capacity of the Deduper, and whatever fails,    *)
(* is cancelled, cleared or dies when.                                     *)
(***************************************************************************)
EXTENDS Source, FiniteSetTheorems, TLAPS

-----------------------------------------------------------------------------
(* The inductive invariant *)

\* The table: finite, at most one row for each primary key; the Deduper's rows never
\* expire, and they are items and the marker.
RowsInv ==
  /\ rows \subseteq [ns : Spaces, key : Keys, expiry : {Never} \cup Expiries]
  /\ IsFiniteSet(rows)
  /\ \A r, s \in rows : r.ns = s.ns /\ r.key = s.key => r = s
  /\ \A r \in rows : r.ns = Seen => r.expiry = Never /\ r.key \in Items \cup {seenInitKey}
  /\ now \in 1..MaxNow

\* The keys of the Deduper's rows, which are what List returns.
Here == {r.key : r \in {s \in rows : s.ns = Seen}}

VarsInv ==
  /\ feed \subseteq Items /\ IsFiniteSet(feed) /\ Cardinality(feed) <= Window
  /\ ctx \in {"live", "cancelled"}
  /\ poll \in {"step", "send", "wait", "done"} /\ em \in Emissions
  /\ ded \in {"recv", "load", "unseen", "send", "done"} /\ out \in Emissions
  /\ made \in BOOLEAN /\ first \in BOOLEAN
  /\ order \in Seq(Items) /\ IsInjective(order) /\ batch \subseteq Items
  /\ excused \subseteq Items /\ known \subseteq Items \ excused /\ sound \in BOOLEAN

\* Where the Deduper exists, and where it can have something for the consumer.
StageInv ==
  /\ ded = "unseen" => made
  /\ ded \in {"load", "done"} => ~made
  /\ ~made => out.items = {}

\* Unless it is excused, what the consumer has got, or is about to get, is in the
\* store and in the memory of the Deduper, if there is one.
KnownInv ==
  /\ known \subseteq Here /\ out.items \ excused \subseteq Here
  /\ made => known \subseteq Range(order) /\ out.items \ excused \subseteq Range(order)

\* The mirror, with the rows themselves in the place of what List returns.
MirrorInv ==
  made /\ sound => /\ Here \ {seenInitKey} = Range(order)
                   /\ ~first => Here # {}

IInv == RowsInv /\ VarsInv /\ StageInv /\ KnownInv /\ MirrorInv

-----------------------------------------------------------------------------
(* The table *)

\* Go's test of expiry and SQL's agree, and an expiry is a number.
LEMMA SweptIs ==
  ASSUME RowsInv
  PROVE  /\ Swept = {r \in rows : ~Expired(r)}
         /\ \A ns \in Spaces : StatsLive(ns) = {r \in Swept : r.ns = ns}
         /\ \A r \in rows : r.ns = Seen => r \in Swept
         /\ Swept \subseteq rows
<1>1. \A r \in rows : r.expiry \in Int /\ now \in Int
  <2>1. {Never} \cup Expiries \subseteq Int
    BY KvAssumption DEF Never
  <2>2. \A r \in rows : r.expiry \in {Never} \cup Expiries
    BY DEF RowsInv
  <2>3. now \in Int
    BY DEF RowsInv
  <2> QED BY <2>1, <2>2, <2>3
<1>2. \A r \in rows : (r.expiry # Never /\ r.expiry <= now) <=> Expired(r)
  BY <1>1 DEF Expired
<1>3. \A r \in rows : (r.expiry = Never \/ r.expiry > now) <=> ~Expired(r)
  BY <1>1 DEF Expired
<1>4. \A r \in rows : r.ns = Seen => ~Expired(r)
  BY DEF RowsInv, Expired
<1> QED BY <1>2, <1>3, <1>4 DEF Swept, StatsLive

LEMMA ListedIs ==
  ASSUME RowsInv
  PROVE  Listed(Seen) = Here
BY SweptIs DEF Listed, Here

LEMMA PutKeeps ==
  ASSUME RowsInv, now' \in 1..MaxNow,
         NEW ns \in Spaces, NEW k \in Keys, NEW e \in {Never} \cup Expiries,
         ns = Seen => e = Never /\ k \in Items \cup {seenInitKey},
         PutRow(ns, k, e)
  PROVE  RowsInv' /\ Here' = (IF ns = Seen THEN Here \cup {k} ELSE Here)
<1> DEFINE row == [ns |-> ns, key |-> k, expiry |-> e]
<1>1. rows' = (rows \ At(ns, k)) \cup {row}
  BY DEF PutRow
<1>2. row \in [ns : Spaces, key : Keys, expiry : {Never} \cup Expiries]
      /\ row.ns = ns /\ row.key = k /\ row.expiry = e
  OBVIOUS
<1> HIDE DEF row
<1>3. IsFiniteSet(rows')
  <2>1. IsFiniteSet(rows \ At(ns, k))
    BY FS_Subset DEF RowsInv
  <2> QED BY <1>1, <2>1, FS_AddElement
<1>4. \A r \in rows' : (r \in rows /\ ~(r.ns = ns /\ r.key = k)) \/ r = row
  BY <1>1 DEF At
<1>5. RowsInv'
  BY <1>1, <1>2, <1>3, <1>4 DEF RowsInv
<1>6. Here' = (IF ns = Seen THEN Here \cup {k} ELSE Here)
  <2>1. row \in rows' /\ \A r \in rows : r \in rows' \/ (r.ns = ns /\ r.key = k)
    BY <1>1 DEF At
  <2>2. CASE ns = Seen
    BY <1>2, <1>4, <2>1, <2>2 DEF Here
  <2>3. CASE ns # Seen
    BY <1>2, <1>4, <2>1, <2>3 DEF Here
  <2> QED BY <2>2, <2>3
<1> QED BY <1>5, <1>6

LEMMA FewerKeeps ==
  ASSUME RowsInv, now' \in 1..MaxNow, rows' \subseteq rows
  PROVE  RowsInv'
<1>1. IsFiniteSet(rows')
  BY FS_Subset DEF RowsInv
<1> QED BY <1>1 DEF RowsInv

LEMMA DeleteKeeps ==
  ASSUME RowsInv, now' \in 1..MaxNow, NEW ns \in Spaces, NEW k \in Keys, DeleteRow(ns, k)
  PROVE  RowsInv' /\ Here' = (IF ns = Seen THEN Here \ {k} ELSE Here)
<1>1. rows' = rows \ At(ns, k)
  BY DEF DeleteRow
<1>2. RowsInv'
  BY <1>1, FewerKeeps
<1>3. \A r : r \in rows' <=> r \in rows /\ ~(r.ns = ns /\ r.key = k)
  BY <1>1 DEF At
<1>4. CASE ns = Seen
  BY <1>2, <1>3, <1>4 DEF Here
<1>5. CASE ns # Seen
  BY <1>2, <1>3, <1>5 DEF Here
<1> QED BY <1>4, <1>5

LEMMA SweepKeeps ==
  ASSUME RowsInv, now' \in 1..MaxNow, rows' = Swept
  PROVE  RowsInv' /\ Here' = Here
<1>1. RowsInv'
  BY SweptIs, FewerKeeps
<1>2. Here' = Here
  BY SweptIs DEF Here
<1> QED BY <1>1, <1>2

\* Other users of the store do not change what the Deduper has there.
LEMMA OthersKeep ==
  ASSUME RowsInv, KvOthers
  PROVE  RowsInv' /\ Here' = Here
<1> USE DEF RowsInv
<1>1. ASSUME NEW c \in Cached, NEW expiry \in Expiries, Put(c[1], c[2], expiry)
      PROVE  RowsInv' /\ Here' = Here
  <2>1. c[1] \in Spaces /\ c[2] \in Keys /\ c[1] # Seen
    BY KvAssumption, NamespaceAssumption
  <2> QED BY <1>1, <2>1, PutKeeps DEF Put
<1>2. ASSUME NEW c \in Cached, Delete(c[1], c[2]) \/ Get(c[1], c[2])
      PROVE  RowsInv' /\ Here' = Here
  <2>1. c[1] \in Spaces /\ c[2] \in Keys /\ c[1] # Seen
    BY KvAssumption, NamespaceAssumption
  <2> QED BY <1>2, <2>1, DeleteKeeps DEF Delete, Get
<1>3. CASE Sweep
  BY <1>3, SweepKeeps DEF Sweep
<1>4. CASE Tick
  BY <1>4, KvAssumption DEF Tick, Here
<1> QED BY <1>1, <1>2, <1>3, <1>4 DEF KvOthers

-----------------------------------------------------------------------------
(* The memory of the Deduper *)

LEMMA Batches ==
  /\ \A s \in SUBSET Items : Batch(s) \in Emissions /\ Batch(s).items = s /\ Batch(s).err = FALSE
  /\ Failure \in Emissions /\ Failure.items = {} /\ Failure.err
  /\ \A e \in Emissions : e.items \subseteq Items /\ e.err \in BOOLEAN /\ (e.err => e.items = {})
  /\ Items \cup {seenInitKey} \subseteq Keys
<1>1. \A s \in SUBSET Items : Batch(s) \in Emissions /\ Batch(s).items = s /\ Batch(s).err = FALSE
  BY DEF Emissions, Batch
<1>2. Failure \in Emissions /\ Failure.items = {} /\ Failure.err
  BY DEF Emissions, Failure
<1>3. \A e \in Emissions : e = Failure \/ \E s \in SUBSET Items : e = Batch(s)
  BY DEF Emissions
<1>4. \A e \in Emissions : e.items \subseteq Items /\ e.err \in BOOLEAN /\ (e.err => e.items = {})
  BY <1>1, <1>2, <1>3
<1> QED BY <1>1, <1>2, <1>4, SourceAssumption

LEMMA NothingRemembered == <<>> \in Seq(Items) /\ IsInjective(<<>>) /\ Range(<<>>) = {}
BY DEF IsInjective, Range

\* A permutation of a finite set has exactly its elements.
LEMMA Enumerated ==
  ASSUME NEW S, IsFiniteSet(S), NEW p, p \in SetToSeqs(S)
  PROVE  p \in Seq(S) /\ IsInjective(p) /\ Range(p) = S
<1> DEFINE D == 1..Cardinality(S)
<1>1. Cardinality(S) \in Nat
  BY FS_CardinalityType
<1>2. p \in [D -> S] /\ \A a, b \in D : a # b => p[a] # p[b]
  BY DEF SetToSeqs
<1>3. p \in Injection(D, S) /\ IsInjective(p)
  BY <1>2 DEF Injection, IsInjective
<1>4. p \in Surjection(D, S)
  <2>1. Cardinality(D) = Cardinality(S)
    BY <1>1, FS_Interval
  <2>2. ASSUME NEW N, Cardinality(N) = Cardinality(S), p \in Injection(N, S)
        PROVE  p \in Surjection(N, S)
    BY <2>2, FS_Injection
  <2> QED BY <1>3, <2>1, <2>2
<1>5. p \in Seq(S)
  BY <1>1, <1>2
<1>6. Range(p) = S
  BY <1>2, <1>4 DEF Surjection, Range
<1> QED BY <1>3, <1>5, <1>6

\* evict drops the oldest key, and no other.
LEMMA OldestGoes ==
  ASSUME order \in Seq(Items), IsInjective(order), order # <<>>
  PROVE  /\ Oldest \in Items /\ Tail(order) \in Seq(Items) /\ IsInjective(Tail(order))
         /\ Range(Tail(order)) = Range(order) \ {Oldest}
<1>1. /\ Oldest = order[1] /\ Len(order) \in Nat \ {0}
      /\ DOMAIN order = 1..Len(order)
      /\ DOMAIN Tail(order) = 1..(Len(order) - 1)
      /\ \A a \in DOMAIN Tail(order) : Tail(order)[a] = order[a + 1]
  BY DEF Oldest
<1>2. Oldest \in Items /\ Tail(order) \in Seq(Items)
  BY <1>1
<1>3. IsInjective(Tail(order))
  BY <1>1 DEF IsInjective
<1>4. ASSUME NEW x \in Range(order), x # Oldest PROVE x \in Range(Tail(order))
  <2>1. PICK a \in DOMAIN order : x = order[a]
    BY DEF Range
  <2>2. a - 1 \in DOMAIN Tail(order) /\ Tail(order)[a - 1] = x
    BY <1>1, <1>4, <2>1
  <2> QED BY <2>2 DEF Range
<1>5. ASSUME NEW x \in Range(Tail(order)) PROVE x \in Range(order) \ {Oldest}
  <2>1. PICK a \in DOMAIN Tail(order) : x = order[a + 1]
    BY <1>1 DEF Range
  <2>2. a + 1 \in DOMAIN order /\ 1 \in DOMAIN order /\ a + 1 # 1
    BY <1>1, <2>1
  <2> QED BY <1>1, <2>1, <2>2 DEF Range, IsInjective
<1> QED BY <1>2, <1>3, <1>4, <1>5

LEMMA NewestComes ==
  ASSUME order \in Seq(Items), IsInjective(order), NEW k \in Items, k \notin Range(order)
  PROVE  /\ Append(order, k) \in Seq(Items) /\ IsInjective(Append(order, k))
         /\ Range(Append(order, k)) = Range(order) \cup {k}
<1> DEFINE p == Append(order, k)
<1>1. /\ p \in Seq(Items) /\ Len(order) \in Nat /\ DOMAIN order = 1..Len(order)
      /\ DOMAIN p = DOMAIN order \cup {Len(order) + 1}
      /\ \A a \in DOMAIN order : p[a] = order[a]
      /\ p[Len(order) + 1] = k
  OBVIOUS
<1>2. \A a \in DOMAIN order : order[a] # k
  BY DEF Range
<1> HIDE DEF p
<1>3. IsInjective(p)
  BY <1>1, <1>2 DEF IsInjective
<1>4. Range(p) = Range(order) \cup {k}
  BY <1>1 DEF Range
<1> QED BY <1>1, <1>3, <1>4 DEF p

-----------------------------------------------------------------------------
(* Around the pipeline *)

LEMMA InitIInv == Init => IInv
<1> SUFFICES ASSUME Init PROVE IInv
  OBVIOUS
<1>1. RowsInv
  BY FS_EmptySet, KvAssumption DEF Init, KvInit, RowsInv
<1>2. VarsInv
  <2>1. Cardinality({}) <= Window
    BY FS_EmptySet, SourceAssumption
  <2>2. feed = {} /\ IsFiniteSet({}) /\ order = <<>>
    BY FS_EmptySet DEF Init
  <2>3. Batch({}) \in Emissions
    BY Batches
  <2> QED BY <2>1, <2>2, <2>3, NothingRemembered DEF Init, VarsInv
<1>3. StageInv /\ KnownInv /\ MirrorInv
  BY Batches DEF Init, StageInv, KnownInv, MirrorInv
<1> QED BY <1>1, <1>2, <1>3 DEF IInv

LEMMA OthersKeepAll ==
  ASSUME IInv, Others
  PROVE  IInv'
<1>1. RowsInv' /\ Here' = Here
  BY OthersKeep DEF IInv, Others
<1>2. UNCHANGED <<feed, ctx, poll, em, ded, made, first, order, batch, out, known, excused, sound>>
  BY DEF Others, pollVars, dedVars, ghosts
<1>3. VarsInv' /\ StageInv'
  BY <1>2 DEF IInv, VarsInv, StageInv
<1>4. KnownInv' /\ MirrorInv'
  BY <1>1, <1>2 DEF IInv, KnownInv, MirrorInv
<1> QED BY <1>1, <1>3, <1>4 DEF IInv

LEMMA ClearKeeps ==
  ASSUME IInv, ClearNamespaces
  PROVE  IInv'
<1>1. PICK hit \in ClearArguments :
        /\ Clear(hit)
        /\ IF Seen \in hit THEN Excuse(Items) /\ sound' = FALSE ELSE UNCHANGED ghosts
  BY DEF ClearNamespaces
<1>2. UNCHANGED <<now, feed, ctx, poll, em, ded, made, first, order, batch, out>>
  BY <1>1 DEF ClearNamespaces, Clear, pollVars, dedVars
<1>3. rows' = {r \in rows : r.ns \notin hit}
  BY <1>1 DEF Clear
<1>4. RowsInv'
  BY <1>2, <1>3, FewerKeeps DEF IInv, RowsInv
<1>5. CASE Seen \in hit
  <2>1. known' = {} /\ excused' = Items /\ sound' = FALSE
    BY <1>1, <1>5 DEF Excuse, IInv, VarsInv
  <2>2. out.items \ excused' = {}
    BY <2>1, Batches DEF IInv, VarsInv
  <2>3. VarsInv'
    BY <1>2, <2>1 DEF IInv, VarsInv
  <2>4. StageInv'
    BY <1>2 DEF IInv, StageInv
  <2> QED BY <1>2, <1>4, <2>1, <2>2, <2>3, <2>4 DEF IInv, KnownInv, MirrorInv
<1>6. CASE Seen \notin hit
  <2>1. UNCHANGED <<known, excused, sound>>
    BY <1>1, <1>6 DEF ghosts
  <2>2. Here' = Here
    BY <1>3, <1>6 DEF Here
  <2>3. VarsInv' /\ StageInv'
    BY <1>2, <2>1 DEF IInv, VarsInv, StageInv
  <2>4. KnownInv' /\ MirrorInv'
    BY <1>2, <2>1, <2>2 DEF IInv, KnownInv, MirrorInv
  <2> QED BY <1>4, <2>3, <2>4 DEF IInv
<1> QED BY <1>5, <1>6

LEMMA FeedKeeps ==
  ASSUME IInv, NEW k \in Items, Appear(k) \/ Leave(k)
  PROVE  IInv'
<1>1. UNCHANGED <<rows, now, ctx, poll, em, ded, made, first, order, batch, out, known, excused, sound>>
  BY DEF Appear, Leave, kvVars, pollVars, dedVars, ghosts
<1>2. feed' \subseteq Items /\ IsFiniteSet(feed') /\ Cardinality(feed') <= Window
  <2>1. feed \subseteq Items /\ IsFiniteSet(feed) /\ Cardinality(feed) <= Window
        /\ Cardinality(feed) \in Nat /\ Window \in Nat
    BY FS_CardinalityType, SourceAssumption DEF IInv, VarsInv
  <2>2. CASE Appear(k)
    <3>1. feed' = feed \cup {k} /\ Cardinality(feed) < Window
      BY <2>2 DEF Appear
    <3>2. IsFiniteSet(feed \cup {k}) /\ Cardinality(feed \cup {k}) <= Cardinality(feed) + 1
      <4>1. ASSUME NEW F, IsFiniteSet(F), Cardinality(F) \in Nat
            PROVE  IsFiniteSet(F \cup {k}) /\ Cardinality(F \cup {k}) <= Cardinality(F) + 1
        BY <4>1, FS_AddElement
      <4> QED BY <2>1, <4>1
    <3>3. Cardinality(feed \cup {k}) \in Nat
      BY <3>2, FS_CardinalityType
    <3> QED BY <2>1, <3>1, <3>2, <3>3
  <2>3. CASE Leave(k)
    <3>1. feed' = feed \ {k}
      BY <2>3 DEF Leave
    <3>2. IsFiniteSet(feed \ {k}) /\ Cardinality(feed \ {k}) <= Cardinality(feed)
      BY <2>1, FS_RemoveElement
    <3>3. Cardinality(feed \ {k}) \in Nat
      BY <3>2, FS_CardinalityType
    <3> QED BY <2>1, <3>1, <3>2, <3>3
  <2> QED BY <2>2, <2>3
<1>3. VarsInv'
  BY <1>1, <1>2 DEF IInv, VarsInv
<1>4. RowsInv' /\ StageInv'
  BY <1>1 DEF IInv, RowsInv, StageInv
<1>5. KnownInv' /\ MirrorInv'
  BY <1>1 DEF IInv, KnownInv, MirrorInv, Here
<1> QED BY <1>3, <1>4, <1>5 DEF IInv

\* A pipeline that ends takes the memory with it, and what it still had to deliver.
LEMMA EndsKeep ==
  ASSUME IInv, DedEnds, UNCHANGED <<rows, now, feed, known, excused>>,
         ctx' \in {"live", "cancelled"}, poll' \in {"step", "send", "wait", "done"}, em' \in Emissions
  PROVE  IInv'
<1>1. VarsInv'
  <2>1. Batch({}) \in Emissions
    BY Batches
  <2> QED BY <2>1, NothingRemembered DEF IInv, VarsInv, DedEnds
<1>2. RowsInv'
  BY DEF IInv, RowsInv
<1>3. StageInv' /\ MirrorInv'
  BY Batches DEF DedEnds, StageInv, MirrorInv
<1>4. KnownInv'
  BY Batches DEF IInv, KnownInv, DedEnds, Here
<1> QED BY <1>1, <1>2, <1>3, <1>4 DEF IInv

LEMMA PipelineKeeps ==
  ASSUME IInv, Run \/ Cancel \/ Crash \/ Step \/ PollDone \/ Closed \/ Abandon
  PROVE  IInv'
<1>1. CASE Crash \/ Closed \/ Abandon
  <2>1. DedEnds /\ UNCHANGED <<rows, now, feed, known, excused>>
        /\ ctx' \in {ctx, "cancelled"} /\ poll' \in {poll, "done"} /\ em' \in {em, Batch({})}
    BY <1>1 DEF Crash, Closed, Abandon, kvVars, pollVars
  <2>2. ctx' \in {"live", "cancelled"} /\ poll' \in {"step", "send", "wait", "done"} /\ em' \in Emissions
    BY <2>1, Batches DEF IInv, VarsInv
  <2> QED BY <2>1, <2>2, EndsKeep
<1>2. CASE Run \/ Cancel \/ Step \/ PollDone
  <2>1. /\ UNCHANGED <<rows, now, feed, made, first, order, batch, out, known, excused, sound>>
        /\ ded' = ded \/ (ded = "done" /\ ded' = "recv")
        /\ ctx' \in {"live", "cancelled"} /\ poll' \in {"step", "send", "wait", "done"}
    BY <1>2 DEF Run, Cancel, Step, PollDone, kvVars, pollVars, dedVars, ghosts, IInv, VarsInv
  <2>2. em' \in {em, Batch(feed), Batch({}), Failure}
    BY <1>2 DEF Run, Cancel, Step, PollDone
  <2>3. em' \in Emissions
    BY <2>2, Batches DEF IInv, VarsInv
  <2>4. VarsInv'
    BY <2>1, <2>3 DEF IInv, VarsInv
  <2>5. RowsInv' /\ StageInv'
    BY <2>1 DEF IInv, RowsInv, StageInv
  <2>6. KnownInv' /\ MirrorInv'
    BY <2>1 DEF IInv, KnownInv, MirrorInv, Here
  <2> QED BY <2>4, <2>5, <2>6 DEF IInv
<1> QED BY <1>1, <1>2

-----------------------------------------------------------------------------
(* The Deduper *)

LEMMA ReceiveKeeps ==
  ASSUME IInv, Receive
  PROVE  IInv'
<1>1. /\ UNCHANGED <<rows, now, feed, ctx, made, first, order, known, excused, sound>>
      /\ poll' = "wait" /\ em' = Batch({})
      /\ \/ em.err /\ ded' = "send" /\ out' = em /\ batch' = batch
         \/ /\ ded' = IF made THEN "unseen" ELSE "load"
            /\ out' = Batch({}) /\ batch' = em.items
  BY DEF Receive, kvVars, ghosts
<1>2. em \in Emissions
  BY DEF IInv, VarsInv
<1>3. em' \in Emissions /\ out' \in Emissions /\ out'.items = {} /\ batch' \subseteq Items
  BY <1>1, <1>2, Batches DEF IInv, VarsInv
<1>4. VarsInv'
  BY <1>1, <1>3 DEF IInv, VarsInv
<1>5. RowsInv'
  BY <1>1 DEF IInv, RowsInv
<1>6. StageInv'
  BY <1>1, <1>3 DEF IInv, VarsInv, StageInv
<1>7. KnownInv' /\ MirrorInv'
  BY <1>1, <1>3 DEF IInv, KnownInv, MirrorInv, Here
<1> QED BY <1>4, <1>5, <1>6, <1>7 DEF IInv

\* What a restart finds in the store is what the Deduper remembers then.
LEMMA LoadKeeps ==
  ASSUME IInv, Load
  PROVE  IInv'
<1>1. /\ UNCHANGED <<now, feed, ctx, poll, em, batch, out, known, excused>>
      /\ rows' = Swept /\ order' \in SetToSeqs(Stored) /\ first' = (Listed(Seen) = {})
      /\ made' = TRUE /\ ded' = "unseen" /\ sound' = TRUE
  BY DEF Load, pollVars
<1>2. RowsInv' /\ Here' = Here
  BY <1>1, SweepKeeps DEF IInv, RowsInv
<1>3. Stored = Here \ {seenInitKey} /\ Listed(Seen) = Here
  BY ListedIs DEF IInv, Stored
<1>4. Here \ {seenInitKey} \subseteq Items
  BY DEF IInv, RowsInv, Here
<1>5. IsFiniteSet(Here \ {seenInitKey})
  <2> DEFINE S == {s \in rows : s.ns = Seen}
             f == [r \in S |-> r.key]
  <2>1. IsFiniteSet(S)
    BY FS_Subset DEF IInv, RowsInv
  <2>2. f \in Surjection(S, Here)
    BY DEF Surjection, Here
  <2> HIDE DEF S, f
  <2>3. IsFiniteSet(Here)
    BY <2>1, <2>2, FS_Surjection
  <2> QED BY <2>3, FS_Subset
<1>6. order' \in Seq(Items) /\ IsInjective(order') /\ Range(order') = Here \ {seenInitKey}
  <2> DEFINE S == Here \ {seenInitKey}
  <2>1. order' \in SetToSeqs(S) /\ S \subseteq Items /\ IsFiniteSet(S)
    BY <1>1, <1>3, <1>4, <1>5
  <2> HIDE DEF S
  <2>2. order' \in Seq(S) /\ IsInjective(order') /\ Range(order') = S
    BY <2>1, Enumerated
  <2> QED BY <2>1, <2>2 DEF S
<1>7. VarsInv'
  BY <1>1, <1>6 DEF IInv, VarsInv
<1>8. StageInv'
  BY <1>1 DEF StageInv
<1>9. out.items = {}
  BY DEF IInv, StageInv, Load
<1>10. known \subseteq Items /\ seenInitKey \notin Items
  BY SourceAssumption DEF IInv, VarsInv
<1>11. KnownInv'
  BY <1>1, <1>2, <1>6, <1>9, <1>10 DEF IInv, KnownInv
<1>12. MirrorInv'
  BY <1>1, <1>2, <1>3, <1>6 DEF MirrorInv
<1> QED BY <1>2, <1>7, <1>8, <1>11, <1>12 DEF IInv

LEMMA LoadFailsKeeps ==
  ASSUME IInv, LoadFails
  PROVE  IInv'
<1>1. /\ UNCHANGED <<rows, now, feed, ctx, poll, em, batch, out>>
      /\ order' = <<>> /\ first' = TRUE /\ made' = TRUE /\ ded' = "unseen" /\ sound' = FALSE
      /\ known' = {} /\ excused' = Items
  BY DEF LoadFails, Excuse, kvVars, pollVars, IInv, VarsInv
<1>2. out.items = {}
  BY DEF IInv, StageInv, LoadFails
<1>3. VarsInv'
  BY <1>1, NothingRemembered DEF IInv, VarsInv
<1>4. RowsInv'
  BY <1>1 DEF IInv, RowsInv
<1>5. StageInv' /\ KnownInv' /\ MirrorInv'
  BY <1>1, <1>2 DEF StageInv, KnownInv, MirrorInv
<1> QED BY <1>3, <1>4, <1>5 DEF IInv

LEMMA SkipKeeps ==
  ASSUME IInv, NEW k \in Items, Skip(k)
  PROVE  IInv'
<1>1. UNCHANGED <<rows, now, feed, ctx, poll, em, ded, made, first, order, out, known, excused, sound>>
      /\ batch' = batch \ {k}
  BY DEF Skip, kvVars, pollVars, ghosts
<1>2. VarsInv'
  BY <1>1 DEF IInv, VarsInv
<1>3. RowsInv' /\ StageInv'
  BY <1>1 DEF IInv, RowsInv, StageInv
<1>4. KnownInv' /\ MirrorInv'
  BY <1>1 DEF IInv, KnownInv, MirrorInv, Here
<1> QED BY <1>2, <1>3, <1>4 DEF IInv

\* A new key, whether the store hears of it or not.
LEMMA RememberKeeps ==
  ASSUME IInv, NEW k \in Items, ded = "unseen", k \notin Range(order), Remember(k)
  PROVE  /\ order' \in Seq(Items) /\ IsInjective(order') /\ Range(order') = Range(order) \cup {k}
         /\ out' \in Emissions /\ out'.items \subseteq out.items \cup {k}
         /\ batch' \subseteq Items /\ made
<1>1. order \in Seq(Items) /\ IsInjective(order) /\ out \in Emissions /\ batch \subseteq Items
  BY DEF IInv, VarsInv
<1>2. order' = Append(order, k) /\ batch' = batch \ {k}
      /\ out' = IF first THEN out ELSE Batch(out.items \cup {k})
  BY DEF Remember
<1>3. order' \in Seq(Items) /\ IsInjective(order') /\ Range(order') = Range(order) \cup {k}
  BY <1>1, <1>2, NewestComes
<1>4. out.items \cup {k} \in SUBSET Items
  BY <1>1, Batches
<1>5. out' \in Emissions /\ out'.items \subseteq out.items \cup {k}
  BY <1>1, <1>2, <1>4, Batches
<1> QED BY <1>1, <1>2, <1>3, <1>5 DEF IInv, StageInv

LEMMA RecordKeeps ==
  ASSUME IInv, NEW k \in Items, Record(k)
  PROVE  IInv'
<1>1. /\ ded = "unseen" /\ k \notin Range(order) /\ PutRow(Seen, k, Never) /\ Remember(k)
      /\ known' = (IF first THEN known \cup {k} ELSE known)
      /\ excused' = excused \ {k}
      /\ UNCHANGED <<now, feed, ctx, poll, em, ded, made, first, sound>>
  BY DEF Record, InUnseen, pollVars
<1>2. RowsInv' /\ Here' = Here \cup {k}
  <2>1. Seen \in Spaces /\ k \in Keys
    BY SourceAssumption
  <2>2. now' \in 1..MaxNow
    BY <1>1 DEF IInv, RowsInv
  <2> QED BY <1>1, <2>1, <2>2, PutKeeps DEF IInv
<1>3. /\ order' \in Seq(Items) /\ IsInjective(order') /\ Range(order') = Range(order) \cup {k}
      /\ out' \in Emissions /\ out'.items \subseteq out.items \cup {k}
      /\ batch' \subseteq Items /\ made
  BY <1>1, RememberKeeps
<1>4. VarsInv'
  BY <1>1, <1>3 DEF IInv, VarsInv
<1>5. StageInv'
  BY <1>1, <1>3 DEF IInv, StageInv
<1>6. KnownInv'
  BY <1>1, <1>2, <1>3 DEF IInv, KnownInv
<1>7. MirrorInv'
  <2>1. k # seenInitKey
    BY SourceAssumption
  <2> QED BY <1>1, <1>2, <1>3, <2>1 DEF IInv, MirrorInv
<1> QED BY <1>2, <1>4, <1>5, <1>6, <1>7 DEF IInv

LEMMA RecordFailsKeeps ==
  ASSUME IInv, NEW k \in Items, RecordFails(k)
  PROVE  IInv'
<1>1. /\ ded = "unseen" /\ k \notin Range(order) /\ Remember(k)
      /\ known' = known \ {k} /\ excused' = excused \cup {k} /\ sound' = FALSE
      /\ UNCHANGED <<rows, now, feed, ctx, poll, em, ded, made, first>>
  BY DEF RecordFails, InUnseen, Excuse, kvVars, pollVars
<1>2. /\ order' \in Seq(Items) /\ IsInjective(order') /\ Range(order') = Range(order) \cup {k}
      /\ out' \in Emissions /\ out'.items \subseteq out.items \cup {k}
      /\ batch' \subseteq Items /\ made
  BY <1>1, RememberKeeps
<1>3. VarsInv'
  BY <1>1, <1>2 DEF IInv, VarsInv
<1>4. RowsInv'
  BY <1>1 DEF IInv, RowsInv
<1>5. StageInv'
  BY <1>1, <1>2 DEF IInv, StageInv
<1>6. KnownInv' /\ MirrorInv'
  BY <1>1, <1>2 DEF IInv, KnownInv, MirrorInv, Here
<1> QED BY <1>3, <1>4, <1>5, <1>6 DEF IInv

\* The evicted key leaves memory and store together or is excused, and there is
\* another one left in both.
LEMMA EvictKeeps ==
  ASSUME IInv, Evict
  PROVE  IInv'
<1>1. /\ ded = "unseen" /\ Len(order) > Cap /\ order' = Tail(order)
      /\ known' = known \ {Oldest} /\ excused' = excused \cup {Oldest}
      /\ UNCHANGED <<now, feed, ctx, poll, em, ded, made, first, batch, out>>
      /\ \/ DeleteRow(Seen, Oldest) /\ UNCHANGED sound
         \/ UNCHANGED rows /\ sound' = FALSE
  BY DEF Evict, Excuse, pollVars
<1>2. order \in Seq(Items) /\ IsInjective(order) /\ Len(order) \in Nat /\ Len(order) > 1
  BY <1>1, SourceAssumption DEF IInv, VarsInv
<1>3. /\ Oldest \in Items /\ order' \in Seq(Items) /\ IsInjective(order')
      /\ Range(order') = Range(order) \ {Oldest}
  BY <1>1, <1>2, OldestGoes
<1>4. Range(order') # {}
  <2>1. 1 \in DOMAIN order'
    BY <1>1, <1>2
  <2> QED BY <2>1 DEF Range
<1>5. VarsInv'
  BY <1>1, <1>3 DEF IInv, VarsInv
<1>6. StageInv'
  BY <1>1 DEF IInv, StageInv
<1>7. CASE DeleteRow(Seen, Oldest) /\ UNCHANGED sound
  <2>1. RowsInv' /\ Here' = Here \ {Oldest}
    <3>1. Seen \in Spaces /\ Oldest \in Keys
      BY <1>3, SourceAssumption
    <3>2. now' \in 1..MaxNow
      BY <1>1 DEF IInv, RowsInv
    <3> QED BY <1>7, <3>1, <3>2, DeleteKeeps DEF IInv
  <2>2. KnownInv'
    BY <1>1, <1>3, <2>1 DEF IInv, KnownInv
  <2>3. MirrorInv'
    BY <1>1, <1>3, <1>4, <1>7, <2>1 DEF IInv, MirrorInv
  <2> QED BY <1>5, <1>6, <2>1, <2>2, <2>3 DEF IInv
<1>8. CASE UNCHANGED rows /\ sound' = FALSE
  <2>1. RowsInv'
    BY <1>1, <1>8 DEF IInv, RowsInv
  <2>2. KnownInv' /\ MirrorInv'
    BY <1>1, <1>3, <1>8 DEF IInv, KnownInv, MirrorInv, Here
  <2> QED BY <1>5, <1>6, <2>1, <2>2 DEF IInv
<1> QED BY <1>1, <1>7, <1>8

LEMMA FinishKeeps ==
  ASSUME IInv, Finish
  PROVE  IInv'
<1>1. /\ ded = "unseen" /\ ded' \in {"recv", "send"} /\ first' = FALSE
      /\ UNCHANGED <<now, feed, ctx, poll, em, made, order, batch, out, known, excused>>
      /\ \/ ~first /\ UNCHANGED <<rows, sound>>
         \/ PutRow(Seen, seenInitKey, Never) /\ UNCHANGED sound
         \/ UNCHANGED rows /\ sound' = FALSE
  BY DEF Finish, InUnseen, pollVars
<1>2. VarsInv'
  BY <1>1 DEF IInv, VarsInv
<1>3. StageInv'
  BY <1>1 DEF IInv, StageInv
<1>4. CASE PutRow(Seen, seenInitKey, Never) /\ UNCHANGED sound
  <2>1. RowsInv' /\ Here' = Here \cup {seenInitKey}
    <3>1. Seen \in Spaces /\ seenInitKey \in Keys
      BY SourceAssumption
    <3>2. now' \in 1..MaxNow
      BY <1>1 DEF IInv, RowsInv
    <3> QED BY <1>4, <3>1, <3>2, PutKeeps DEF IInv
  <2>2. KnownInv' /\ MirrorInv'
    BY <1>1, <1>4, <2>1 DEF IInv, KnownInv, MirrorInv
  <2> QED BY <1>2, <1>3, <2>1, <2>2 DEF IInv
<1>5. CASE UNCHANGED rows /\ (sound' = FALSE \/ (~first /\ UNCHANGED sound))
  <2>1. RowsInv'
    BY <1>1, <1>5 DEF IInv, RowsInv
  <2>2. KnownInv' /\ MirrorInv'
    BY <1>1, <1>5 DEF IInv, KnownInv, MirrorInv, Here
  <2> QED BY <1>2, <1>3, <2>1, <2>2 DEF IInv
<1> QED BY <1>1, <1>4, <1>5

LEMMA DeliverKeeps ==
  ASSUME IInv, Deliver
  PROVE  IInv'
<1>1. /\ ded = "send" /\ ded' = "recv" /\ out' = Batch({})
      /\ known' = known \cup (out.items \ excused)
      /\ UNCHANGED <<rows, now, feed, ctx, poll, em, made, first, order, batch, excused, sound>>
  BY DEF Deliver, kvVars, pollVars, dedVars
<1>2. out' \in Emissions /\ out'.items = {} /\ out.items \subseteq Items
  BY <1>1, Batches DEF IInv, VarsInv
<1>3. VarsInv'
  BY <1>1, <1>2 DEF IInv, VarsInv
<1>4. RowsInv' /\ StageInv'
  BY <1>1, <1>2 DEF IInv, RowsInv, StageInv
<1>5. KnownInv' /\ MirrorInv'
  BY <1>1, <1>2 DEF IInv, KnownInv, MirrorInv, Here
<1> QED BY <1>3, <1>4, <1>5 DEF IInv

-----------------------------------------------------------------------------
(* The theorems *)

LEMMA StepKeeps == IInv /\ [Next]_vars => IInv'
<1> SUFFICES ASSUME IInv, [Next]_vars PROVE IInv'
  OBVIOUS
<1>1. CASE Others
  BY <1>1, OthersKeepAll
<1>2. CASE ClearNamespaces
  BY <1>2, ClearKeeps
<1>3. CASE \E k \in Items : Appear(k) \/ Leave(k)
  BY <1>3, FeedKeeps
<1>4. CASE Run \/ Cancel \/ Crash \/ Step \/ PollDone \/ Closed \/ Abandon
  BY <1>4, PipelineKeeps
<1>5. CASE Receive
  BY <1>5, ReceiveKeeps
<1>6. CASE Load
  BY <1>6, LoadKeeps
<1>7. CASE LoadFails
  BY <1>7, LoadFailsKeeps
<1>8. CASE Unseen
  BY <1>8, SkipKeeps, RecordKeeps, RecordFailsKeeps, EvictKeeps, FinishKeeps DEF Unseen
<1>9. CASE Deliver
  BY <1>9, DeliverKeeps
<1>10. CASE UNCHANGED vars
  <2>1. UNCHANGED <<rows, now, feed, ctx, poll, em, ded, made, first, order, batch, out,
                    known, excused, sound>>
    BY <1>10 DEF vars, kvVars, pollVars, dedVars, ghosts
  <2>2. VarsInv'
    BY <2>1 DEF IInv, VarsInv
  <2>3. RowsInv' /\ StageInv'
    BY <2>1 DEF IInv, RowsInv, StageInv
  <2>4. KnownInv' /\ MirrorInv'
    BY <2>1 DEF IInv, KnownInv, MirrorInv, Here
  <2> QED BY <2>2, <2>3, <2>4 DEF IInv
<1> QED BY <1>1, <1>2, <1>3, <1>4, <1>5, <1>6, <1>7, <1>8, <1>9, <1>10 DEF Next

LEMMA IInvHolds == Spec => []IInv
BY InitIInv, StepKeeps, PTL DEF Spec

\* Every variable of the pipeline and of the table keeps its type; a primary key is
\* never there twice.
THEOREM TypeCorrect == Spec => []TypeOK
<1>1. IInv => TypeOK
  <2> SUFFICES ASSUME IInv PROVE TypeOK
    OBVIOUS
  <2>1. ASSUME NEW ns \in Spaces, NEW k \in Keys PROVE Cardinality(At(ns, k)) <= 1
    <3>1. \A r, s \in At(ns, k) : r = s
      BY DEF At, IInv, RowsInv
    <3>2. CASE At(ns, k) = {}
      BY <3>2, FS_EmptySet
    <3>3. CASE At(ns, k) # {}
      <4>1. PICK r \in At(ns, k) : TRUE
        BY <3>3
      <4>2. At(ns, k) = {r}
        BY <3>1, <4>1
      <4>3. Cardinality({r}) = 1
        BY FS_Singleton
      <4> QED BY <4>2, <4>3
    <3> QED BY <3>2, <3>3
  <2>2. KvTypeOK
    BY <2>1 DEF KvTypeOK, IInv, RowsInv
  <2> QED BY <2>2 DEF TypeOK, IInv, VarsInv
<1> QED BY <1>1, IInvHolds, PTL

\* Get's test in Go, the sweep that List and Namespaces begin with and the query of
\* Stats never disagree about a row, swept away or not.
THEOREM ReadersAgreeHolds == Spec => []ReadersAgree
<1>1. IInv => ReadersAgree
  <2> SUFFICES ASSUME IInv, NEW ns \in Spaces
               PROVE  /\ \A k \in Keys : Found(ns, k) <=> k \in Listed(ns)
                      /\ Cardinality(StatsLive(ns)) = Cardinality(Listed(ns))
                      /\ ns \in Namespaces <=> StatsLive(ns) # {}
    BY DEF ReadersAgree
  <2> DEFINE T == {r \in Swept : r.ns = ns}
             f == [r \in T |-> r.key]
  <2>1. /\ Swept = {r \in rows : ~Expired(r)}
        /\ StatsLive(ns) = T
        /\ Swept \subseteq rows
    BY SweptIs DEF IInv
  <2>2. Listed(ns) = {r.key : r \in T}
    BY DEF Listed
  <2>3. \A k \in Keys : Found(ns, k) <=> k \in Listed(ns)
    BY <2>1, <2>2 DEF Found, At
  <2>4. ns \in Namespaces <=> T # {}
    BY DEF Namespaces
  <2>5. \A r, s \in T : r.key = s.key => r = s
    BY <2>1 DEF IInv, RowsInv
  <2>6. f \in Bijection(T, Listed(ns))
    BY <2>2, <2>5 DEF Bijection, Injection, IsInjective, Surjection
  <2>7. IsFiniteSet(T)
    BY <2>1, FS_Subset DEF IInv, RowsInv
  <2> HIDE DEF T, f
  <2>8. ExistsBijection(T, Listed(ns))
    BY <2>6 DEF ExistsBijection
  <2>9. Cardinality(T) = Cardinality(Listed(ns))
    BY <2>7, <2>8, FS_Bijection
  <2> QED BY <2>1, <2>3, <2>4, <2>9
<1> QED BY <1>1, IInvHolds, PTL

\* As long as the store answers, it has the remembered keys and no others, and a
\* finished first pass leaves something behind.
THEOREM MirrorHolds == Spec => []MirrorIsExact
<1>1. IInv => MirrorIsExact
  BY ListedIs DEF IInv, MirrorInv, MirrorIsExact, Stored
<1> QED BY <1>1, IInvHolds, PTL

\* No restart, failure, cancellation or expiry makes an item known to the consumer
\* new again, as long as the store has heard of it and it has not been evicted.
THEOREM NotAgainHolds == Spec => NotAnnouncedAgain
<1>1. IInv /\ [Next]_vars => (out'.items \ out.items) \cap known = {}
  <2> SUFFICES ASSUME IInv, [Next]_vars PROVE (out'.items \ out.items) \cap known = {}
    OBVIOUS
  <2>1. \/ UNCHANGED out
        \/ out' = Batch({})
        \/ Receive /\ out' = em /\ em.err
        \/ \E k \in Items : ded = "unseen" /\ k \notin Range(order) /\ Remember(k)
    BY DEF Next, vars, Others, ClearNamespaces, Appear, Leave, Run, Cancel, Crash, Step, PollDone,
           Receive, Closed, DedEnds, Load, LoadFails, Unseen, InUnseen, Skip, Record, RecordFails,
           Evict, Finish, Deliver, Abandon
  <2>2. CASE UNCHANGED out
    BY <2>2
  <2>3. CASE out' = Batch({})
    BY <2>3, Batches
  <2>4. CASE out' = em /\ em.err
    <3>1. em.items = {}
      BY <2>4, Batches DEF IInv, VarsInv
    <3> QED BY <2>4, <3>1
  <2>5. ASSUME NEW k \in Items, ded = "unseen", k \notin Range(order), Remember(k)
        PROVE  (out'.items \ out.items) \cap known = {}
    <3>1. out'.items \subseteq out.items \cup {k} /\ made
      BY <2>5, RememberKeeps
    <3>2. k \notin known
      BY <2>5, <3>1 DEF IInv, KnownInv
    <3> QED BY <3>1, <3>2
  <2> QED BY <2>1, <2>2, <2>3, <2>4, <2>5
<1> QED BY <1>1, IInvHolds, PTL DEF Spec, NotAnnouncedAgain
=============================================================================
