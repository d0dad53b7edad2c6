------------------------------- MODULE Source -------------------------------
(***************************************************************************)
(* stream: Source.Run with a Key and a KV.  One goroutine polls and hands  *)
(* each batch over an unbuffered channel to a second one, which passes it  *)
(* through a persistent Deduper and offers what is left to the consumer.   *)
(* The context may be cancelled, the process may die, and Run begins again *)
(* on the same namespace.  Every call of the KV is an operation of Kv; it  *)
(* may fail, and the Deduper drops the error.                              *)
(*                                                                         *)
(* An item is its key, and a batch is a set: the loop over it in Unseen    *)
(* comes to its items in any order.                                        *)
(***************************************************************************)
EXTENDS Kv, SequencesExt

CONSTANTS
  Items,        \* keys of items; none is that of the marker
  seenInitKey,  \* the marker; its legacy spelling is the same here
  Seen,         \* the Deduper's namespace
  Cap,          \* Deduper.max
  Window,       \* bound: how many items one step returns
  Faults        \* subset of {"store", "step", "crash", "cancel"}

ASSUME SourceAssumption ==
  /\ Seen \in Spaces /\ seenInitKey \notin Items
  /\ Items \cup {seenInitKey} \subseteq Keys
  /\ Cap \in Nat \ {0} /\ Window \in Nat

\* The namespace is the Deduper's ("KV namespace for persistent dedupe"): others
\* clear it, but they do not put or delete its rows.
ASSUME NamespaceAssumption == \A c \in Cached : c[1] # Seen

VARIABLES
  feed,   \* the items a step would return now
  ctx,    \* "live" or "cancelled"
  poll,   \* where the goroutine of Poll is
  em,     \* the Emission it is sending
  ded,    \* where the goroutine of Source.Run is
  made,   \* it has made its Deduper
  first,  \* Deduper.first
  order,  \* Deduper.order; the keys of Deduper.keys are its elements
  batch,  \* items that Unseen has not come to
  out,    \* the Emission for the consumer
  excused, \* ghost: items that were evicted, cleared, not listed or not stored
  known,   \* ghost: items delivered, or taken by a first pass, and not excused
  sound    \* ghost: since the load no operation on Seen has failed, no Clear hit it

pollVars == <<ctx, poll, em>>
dedVars  == <<made, first, order, batch>>
ghosts   == <<known, excused, sound>>
vars     == <<kvVars, feed, pollVars, ded, dedVars, out, ghosts>>

Failure      == [err |-> TRUE, items |-> {}]
Batch(items) == [err |-> FALSE, items |-> items]
Emissions    == {Failure} \cup {Batch(s) : s \in SUBSET Items}

Stored == Listed(Seen) \ {seenInitKey}

TypeOK ==
  /\ KvTypeOK
  /\ feed \subseteq Items /\ Cardinality(feed) <= Window
  /\ ctx \in {"live", "cancelled"}
  /\ poll \in {"step", "send", "wait", "done"} /\ em \in Emissions
  /\ ded \in {"recv", "load", "unseen", "send", "done"} /\ out \in Emissions
  /\ made \in BOOLEAN /\ first \in BOOLEAN
  /\ order \in Seq(Items) /\ IsInjective(order) /\ batch \subseteq Items
  /\ excused \subseteq Items /\ known \subseteq Items \ excused /\ sound \in BOOLEAN

Init ==
  /\ KvInit
  /\ feed = {} /\ ctx = "cancelled"
  /\ poll = "done" /\ em = Batch({}) /\ ded = "done" /\ out = Batch({})
  /\ made = FALSE /\ first = TRUE /\ order = <<>> /\ batch = {}
  /\ known = {} /\ excused = {} /\ sound = FALSE

-----------------------------------------------------------------------------
(* Around the pipeline *)

Excuse(items) == excused' = excused \cup items /\ known' = known \ items

Others == KvOthers /\ UNCHANGED <<feed, pollVars, ded, dedVars, out, ghosts>>

\* Somebody clears a namespace, or everything.
ClearNamespaces ==
  /\ \E hit \in ClearArguments :
       /\ Clear(hit)
       /\ IF Seen \in hit THEN Excuse(Items) /\ sound' = FALSE ELSE UNCHANGED ghosts
  /\ UNCHANGED <<feed, pollVars, ded, dedVars, out>>

\* Items come to and leave what the step queries.
Appear(k) ==
  /\ k \notin feed /\ Cardinality(feed) < Window
  /\ feed' = feed \cup {k}
  /\ UNCHANGED <<kvVars, pollVars, ded, dedVars, out, ghosts>>

Leave(k) ==
  /\ k \in feed
  /\ feed' = feed \ {k}
  /\ UNCHANGED <<kvVars, pollVars, ded, dedVars, out, ghosts>>

\* The goroutine of Source.Run ends, and its Deduper is garbage.
DedEnds ==
  /\ ded' = "done" /\ out' = Batch({}) /\ batch' = {}
  /\ made' = FALSE /\ first' = TRUE /\ order' = <<>> /\ sound' = FALSE

\* Source.Run, after the previous pipeline has ended or has died with its process.
Run ==
  /\ poll = "done" /\ ded = "done"
  /\ ctx' = "live" /\ poll' = "step" /\ ded' = "recv"
  /\ UNCHANGED <<kvVars, feed, em, dedVars, out, ghosts>>

Cancel ==
  /\ "cancel" \in Faults /\ ctx = "live"
  /\ ctx' = "cancelled"
  /\ UNCHANGED <<kvVars, feed, poll, em, ded, dedVars, out, ghosts>>

Crash ==
  /\ "crash" \in Faults /\ ~(poll = "done" /\ ded = "done")
  /\ ctx' = "cancelled" /\ poll' = "done" /\ em' = Batch({})
  /\ DedEnds
  /\ UNCHANGED <<kvVars, feed, known, excused>>

-----------------------------------------------------------------------------
(* Poll and PollAdaptive *)

\* The first step at once, the others when the timer fires: items, an error, or
\* neither, and the timer is next.
Step ==
  /\ poll \in {"step", "wait"}
  /\ \/ feed = {} /\ poll' = "wait" /\ UNCHANGED em
     \/ feed # {} /\ poll' = "send" /\ em' = Batch(feed)
     \/ ("step" \in Faults \/ ctx = "cancelled") /\ poll' = "send" /\ em' = Failure
  /\ UNCHANGED <<kvVars, feed, ctx, ded, dedVars, out, ghosts>>

\* A send that does not look at the context.
PollDoneWaiting ==
  /\ poll = "wait" /\ ctx = "cancelled"
  /\ poll' = "done" /\ em' = Batch({})
  /\ UNCHANGED <<kvVars, feed, ctx, ded, dedVars, out, ghosts>>

\* ctx.Done in the select of a send or of the wait; the channel is closed.
PollDone ==
  /\ poll \in {"send", "wait"} /\ ctx = "cancelled"
  /\ poll' = "done" /\ em' = Batch({})
  /\ UNCHANGED <<kvVars, feed, ctx, ded, dedVars, out, ghosts>>

-----------------------------------------------------------------------------
(* Source.Run *)

\* The next Emission: an error goes to the consumer as it is, a batch goes
\* through the Deduper, which the first batch makes.
Receive ==
  /\ ded = "recv" /\ poll = "send"
  /\ poll' = "wait" /\ em' = Batch({})
  /\ IF em.err
     THEN ded' = "send" /\ out' = em /\ UNCHANGED batch
     ELSE /\ ded' = IF made THEN "unseen" ELSE "load"
          /\ out' = Batch({}) /\ batch' = em.items
  /\ UNCHANGED <<kvVars, feed, ctx, made, first, order, ghosts>>

\* The range ends with the channel.
Closed ==
  /\ ded = "recv" /\ poll = "done"
  /\ DedEnds
  /\ UNCHANGED <<kvVars, feed, pollVars, known, excused>>

\* Every error of the store is dropped: one that comes after the commit, when Do
\* looks at the log, is as good as none.
StoreWorks == ctx = "live"
StoreFails == ctx = "cancelled" \/ "store" \in Faults

\* NewPersistentDeduper: rows that are there, or the marker, end the first pass.
\* The rows come out of a Go map, so order is any permutation of them.
Load ==
  /\ ded = "load" /\ StoreWorks
  /\ rows' = Swept
  /\ order' \in SetToSeqs(Stored) /\ first' = (Listed(Seen) = {})
  /\ made' = TRUE /\ ded' = "unseen" /\ sound' = TRUE
  /\ UNCHANGED <<now, feed, pollVars, batch, out, known, excused>>

\* List fails and the Deduper starts afresh.
LoadFails ==
  /\ ded = "load" /\ StoreFails
  /\ order' = <<>> /\ first' = TRUE
  /\ made' = TRUE /\ ded' = "unseen" /\ sound' = FALSE /\ Excuse(Items)
  /\ UNCHANGED <<kvVars, feed, pollVars, batch, out>>

InUnseen == ded = "unseen" /\ Len(order) <= Cap

\* Unseen: the key is remembered.
Skip(k) ==
  /\ InUnseen /\ k \in batch /\ k \in Range(order)
  /\ batch' = batch \ {k}
  /\ UNCHANGED <<kvVars, feed, pollVars, ded, made, first, order, out, ghosts>>

\* Unseen: it is not; the key is remembered, stored, and announced unless this
\* is the first pass.
Remember(k) ==
  /\ batch' = batch \ {k}
  /\ order' = Append(order, k)
  /\ out' = IF first THEN out ELSE Batch(out.items \cup {k})

Record(k) ==
  /\ InUnseen /\ k \in batch /\ k \notin Range(order)
  /\ StoreWorks
  /\ PutRow(Seen, k, Never)
  /\ Remember(k)
  /\ known' = IF first THEN known \cup {k} ELSE known
  /\ excused' = excused \ {k}
  /\ UNCHANGED <<now, feed, pollVars, ded, made, first, sound>>

RecordFails(k) ==
  /\ InUnseen /\ k \in batch /\ k \notin Range(order)
  /\ StoreFails
  /\ Remember(k)
  /\ Excuse({k}) /\ sound' = FALSE
  /\ UNCHANGED <<kvVars, feed, pollVars, ded, made, first>>

\* evict, after a load and after each new key: the head of order goes.
Oldest == Head(order)

\* An evict that deletes the key from memory only.
EvictUnmirrored ==
  /\ ded = "unseen" /\ Len(order) > Cap
  /\ order' = Tail(order)
  /\ Excuse({Oldest})
  /\ UNCHANGED <<rows, now, feed, pollVars, ded, made, first, batch, out, sound>>

Evict ==
  /\ ded = "unseen" /\ Len(order) > Cap
  /\ order' = Tail(order)
  /\ Excuse({Oldest})
  /\ \/ StoreWorks /\ DeleteRow(Seen, Oldest) /\ UNCHANGED sound
     \/ StoreFails /\ UNCHANGED rows /\ sound' = FALSE
  /\ UNCHANGED <<now, feed, pollVars, ded, made, first, batch, out>>

\* A loop that goes on to the next Emission whatever Unseen returns.
FinishSilent ==
  /\ InUnseen /\ batch = {}
  /\ ded' = "recv" /\ first' = FALSE
  /\ IF first /\ StoreWorks THEN PutRow(Seen, seenInitKey, Never) ELSE UNCHANGED rows
  /\ UNCHANGED <<now, feed, pollVars, made, order, batch, out, ghosts>>

\* The end of Unseen: the first pass leaves the marker; nothing new is dropped.
Finish ==
  /\ InUnseen /\ batch = {}
  /\ ded' = IF out.items = {} THEN "recv" ELSE "send"
  /\ first' = FALSE
  /\ \/ ~first /\ UNCHANGED <<rows, sound>>
     \/ first /\ StoreWorks /\ PutRow(Seen, seenInitKey, Never) /\ UNCHANGED sound
     \/ first /\ StoreFails /\ UNCHANGED rows /\ sound' = FALSE
  /\ UNCHANGED <<now, feed, pollVars, made, order, batch, out, known, excused>>

\* The consumer takes the Emission.
Deliver ==
  /\ ded = "send" /\ ded' = "recv"
  /\ known' = known \cup (out.items \ excused) /\ out' = Batch({})
  /\ UNCHANGED <<kvVars, feed, pollVars, dedVars, excused, sound>>

\* ctx.Done while the Emission is offered: Run returns, out is closed.
Abandon ==
  /\ ded = "send" /\ ctx = "cancelled"
  /\ DedEnds
  /\ UNCHANGED <<kvVars, feed, pollVars, known, excused>>

Unseen == (\E k \in Items : Skip(k) \/ Record(k) \/ RecordFails(k)) \/ Evict \/ Finish

Next ==
  \/ Others \/ ClearNamespaces
  \/ \E k \in Items : Appear(k) \/ Leave(k)
  \/ Run \/ Cancel \/ Crash
  \/ Step \/ PollDone
  \/ Receive \/ Closed \/ Load \/ LoadFails \/ Unseen \/ Deliver \/ Abandon

Spec == Init /\ [][Next]_vars

\* The goroutines run, timers fire and the consumer reads; steps do not all
\* fail.  Go's select is random: a cancelled context is noticed in the end,
\* even by a Poll whose timer and receiver are always ready.
FairSpec ==
  /\ Spec
  /\ WF_vars(Step) /\ SF_vars(Step /\ ~em'.err) /\ SF_vars(PollDone)
  /\ WF_vars(Receive) /\ WF_vars(Closed) /\ WF_vars(Load \/ LoadFails)
  /\ WF_vars(Unseen) /\ WF_vars(Deliver \/ Abandon)

-----------------------------------------------------------------------------
(* Properties *)

\* "so restarts do not re-announce old items": what the consumer has got, and what
\* a first pass took as known, is announced again only if the store failed to hear
\* of it, was cleared or could not be listed, or the item was evicted.
NotAnnouncedAgain ==
  [][(out'.items \ out.items) \cap known = {}]_vars

\* "mirrors its seen keys": as long as the operations succeed, the store has the
\* remembered keys and no others after every step, expired rows of other
\* namespaces and sweeps notwithstanding; and a process that dies after the first
\* pass has left something there that stops the next one from having its own.
MirrorIsExact ==
  made /\ sound => /\ Stored = Range(order)
                   /\ ~first => Listed(Seen) # {}

\* An item that stays in the feed is remembered in the end, and one that Unseen
\* returns reaches the consumer, unless the context is cancelled.
EveryItemIsHandled ==
  /\ \A k \in Items :
       k \in feed ~> k \in Range(order) \/ k \notin feed \/ ctx = "cancelled"
  /\ \A k \in Items :
       k \in out.items ~> k \in known \cup excused \/ ctx = "cancelled"

\* "The channel closes when ctx is done", also if a step hangs on to its error, the
\* store fails and a batch is in the middle of the Deduper.
PipelineEnds ==
  ctx = "cancelled" ~> (poll = "done" /\ ded = "done") \/ ctx = "live"
=============================================================================
