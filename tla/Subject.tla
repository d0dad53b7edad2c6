------------------------------- MODULE Subject -------------------------------
(***************************************************************************)
(* stream/subject.go: one goroutine, run, that owns the set of subscribed  *)
(* channels and serves everybody else through unbuffered channels.  Each   *)
(* call of Subscribe, Unsubscribe and Next is a goroutine that waits until *)
(* run takes its value in the select, or until run has ended.              *)
(*                                                                         *)
(* Published values are numbered in the order in which run takes them.     *)
(***************************************************************************)
EXTENDS Integers, Sequences, FiniteSets

CONSTANTS
  Subscribers,   \* goroutines with one channel each at a time
  Publishers,    \* goroutines that call Next
  Buffer,        \* capacity of a subscriber's channel
  MaxPublished   \* bound: values published

ASSUME BufferAssumption == Buffer \in Nat \ {0} /\ MaxPublished \in Nat

VARIABLES
  loop,       \* where run is: its select, a loop over the channels, or ended
  stop,       \* the one element of the channel stop
  subs,       \* whose channels run has
  todo,       \* the channels its loop has not come to
  published,  \* values taken so far; the last one is the one being sent
  call,       \* where each subscriber is; "on": it has a channel
  buf,        \* what its channel holds
  shut,       \* subscribers whose channel is closed
  next,       \* publishers waiting in Next
  since       \* the value each subscriber has last heard of, or subscribed after

runVars == <<loop, stop, subs, todo, published>>
subjectVars == <<runVars, call, buf, shut, next, since>>

SubjectTypeOK ==
  /\ loop \in {"select", "publish", "close", "done"}
  /\ stop \in BOOLEAN
  /\ subs \subseteq Subscribers /\ todo \subseteq subs
  /\ published \in 0..MaxPublished
  /\ call \in [Subscribers -> {"out", "subscribe", "on", "unsubscribe"}]
  /\ buf \in [Subscribers -> Seq(1..MaxPublished)]
  /\ \A k \in Subscribers : Len(buf[k]) <= Buffer
  /\ shut \subseteq Subscribers /\ next \subseteq Publishers
  /\ since \in [Subscribers -> 0..MaxPublished]

SubjectInit ==
  /\ loop = "select" /\ stop = FALSE
  /\ subs = {} /\ todo = {} /\ published = 0
  /\ call = [k \in Subscribers |-> "out"]
  /\ buf = [k \in Subscribers |-> <<>>]
  /\ shut = {} /\ next = {}
  /\ since = [k \in Subscribers |-> 0]

-----------------------------------------------------------------------------
(* The calls *)

Subscribe(k) ==
  /\ call[k] = "out"
  /\ call' = [call EXCEPT ![k] = "subscribe"]
  /\ UNCHANGED <<runVars, buf, shut, next, since>>

Unsubscribe(k) ==
  /\ call[k] = "on"
  /\ call' = [call EXCEPT ![k] = "unsubscribe"]
  /\ UNCHANGED <<runVars, buf, shut, next, since>>

\* The subscriber takes the oldest value of its channel.
Receive(k) ==
  /\ call[k] = "on"
  /\ buf[k] # <<>>
  /\ buf' = [buf EXCEPT ![k] = Tail(@)]
  /\ UNCHANGED <<runVars, call, shut, next, since>>

Publish(q) ==
  /\ q \notin next
  /\ published + Cardinality(next) < MaxPublished
  /\ next' = next \cup {q}
  /\ UNCHANGED <<runVars, call, buf, shut, since>>

\* Close: never waits; a second one finds the channel full, or nobody listening.
Close ==
  /\ stop' = TRUE
  /\ UNCHANGED <<loop, subs, todo, published, call, buf, shut, next, since>>

\* A Subscribe that starts with the latest value.
SubscribedReplaying(k) ==
  /\ call[k] = "subscribe"
  /\ call' = [call EXCEPT ![k] = "on"]
  /\ buf' = [buf EXCEPT ![k] = IF published > 0 THEN <<published>> ELSE <<>>]
  /\ since' = [since EXCEPT ![k] = published]
  /\ \/ loop = "select" /\ subs' = subs \cup {k} /\ shut' = shut \ {k}
     \/ loop = "done" /\ shut' = shut \cup {k} /\ UNCHANGED subs
  /\ UNCHANGED <<loop, stop, todo, published, next>>

\* A new channel, registered, or closed at once when run has ended.
Subscribed(k) ==
  /\ call[k] = "subscribe"
  /\ call' = [call EXCEPT ![k] = "on"]
  /\ buf' = [buf EXCEPT ![k] = <<>>]
  /\ since' = [since EXCEPT ![k] = published]
  /\ \/ loop = "select" /\ subs' = subs \cup {k} /\ shut' = shut \ {k}
     \/ loop = "done" /\ shut' = shut \cup {k} /\ UNCHANGED subs
  /\ UNCHANGED <<loop, stop, todo, published, next>>

\* An Unsubscribe that closes the channel without removing it.
UnsubscribedKept(k) ==
  /\ call[k] = "unsubscribe"
  /\ loop \in {"select", "done"}
  /\ call' = [call EXCEPT ![k] = "out"]
  /\ shut' = IF k \in subs THEN shut \cup {k} ELSE shut
  /\ UNCHANGED <<runVars, buf, next, since>>

\* run removes and closes the channel; an ended run has closed it already.
Unsubscribed(k) ==
  /\ call[k] = "unsubscribe"
  /\ loop \in {"select", "done"}
  /\ call' = [call EXCEPT ![k] = "out"]
  /\ subs' = subs \ {k}
  /\ shut' = IF k \in subs THEN shut \cup {k} ELSE shut
  /\ UNCHANGED <<loop, stop, todo, published, buf, next, since>>

\* A Next that does not look at done.
PublishedBlind(q) ==
  /\ q \in next
  /\ loop = "select"
  /\ next' = next \ {q}
  /\ published' = published + 1 /\ todo' = subs /\ loop' = "publish"
  /\ UNCHANGED <<stop, subs, call, buf, shut, since>>

\* run takes the value and starts to send it, or has ended.
Published(q) ==
  /\ q \in next
  /\ next' = next \ {q}
  /\ \/ /\ loop = "select"
        /\ published' = published + 1 /\ todo' = subs /\ loop' = "publish"
     \/ loop = "done" /\ UNCHANGED <<loop, todo, published>>
  /\ UNCHANGED <<stop, subs, call, buf, shut, since>>

-----------------------------------------------------------------------------
(* run *)

\* A send without a default.
OfferBlocking(k) ==
  /\ loop = "publish"
  /\ k \in todo
  /\ Len(buf[k]) < Buffer
  /\ todo' = todo \ {k}
  /\ buf' = [buf EXCEPT ![k] = Append(@, published)]
  /\ UNCHANGED <<loop, stop, subs, published, call, shut, next, since>>

\* A send that does not wait: with the buffer full the value is dropped.
Offer(k) ==
  /\ loop = "publish"
  /\ k \in todo
  /\ todo' = todo \ {k}
  /\ buf' = IF Len(buf[k]) < Buffer
            THEN [buf EXCEPT ![k] = Append(@, published)] ELSE buf
  /\ UNCHANGED <<loop, stop, subs, published, call, shut, next, since>>

TakeStop ==
  /\ loop = "select"
  /\ stop
  /\ stop' = FALSE
  /\ todo' = subs
  /\ loop' = "close"
  /\ UNCHANGED <<subs, published, call, buf, shut, next, since>>

CloseChannel(k) ==
  /\ loop = "close"
  /\ k \in todo
  /\ todo' = todo \ {k}
  /\ subs' = subs \ {k}
  /\ shut' = shut \cup {k}
  /\ UNCHANGED <<loop, stop, published, call, buf, next, since>>

\* Back to the select, or done is closed.
LoopEnds ==
  /\ loop \in {"publish", "close"}
  /\ todo = {}
  /\ loop' = IF loop = "publish" THEN "select" ELSE "done"
  /\ UNCHANGED <<stop, subs, todo, published, call, buf, shut, next, since>>

Run == TakeStop \/ LoopEnds \/ \E k \in Subscribers : Offer(k) \/ CloseChannel(k)
=============================================================================
