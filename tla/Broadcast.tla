------------------------------ MODULE Broadcast ------------------------------
(***************************************************************************)
(* ipc/socket.go: Broadcast accepts connections and gives each a           *)
(* goroutine, broadcastConn, which subscribes to a Subject and writes what *)
(* it receives; Dial is the other end.  A subscriber of the Subject is a   *)
(* connection here.                                                        *)
(*                                                                         *)
(* job[k], the server's side of connection k:                              *)
(*   none     not connected             backlog  connected, not accepted   *)
(*   serve    in Subscribe or select    write    in conn.Write             *)
(*   leave    in the deferred Unsubscribe, then conn.Close                 *)
(*   closed   closed by the server (its goroutine may still have a slot)   *)
(* Of the client there is only whether it still has the connection.        *)
(***************************************************************************)
EXTENDS Subject

CONSTANTS
  MaxConns,   \* maxBroadcastConns
  Wire        \* frames a socket holds while the client does not read

ASSUME BroadcastAssumption ==
  MaxConns \in Nat /\ Wire \in Nat \ {0}

VARIABLES
  cancelled,  \* ctx of Broadcast
  ln,         \* the listener is open
  accepting,  \* Broadcast has not returned
  slots,      \* taken slots
  ending,     \* goroutines that have closed their connection and still have a slot
  job, frame, \* the server's side; the value it writes
  wire,       \* frames between the two
  dialled     \* [connection -> the client has it open]

serverVars == <<cancelled, ln, accepting, slots, ending, job, frame>>
vars == <<subjectVars, serverVars, wire, dialled>>

\* Types; and a slot is taken exactly for each connection that has a goroutine.
TypeOK ==
  /\ SubjectTypeOK
  /\ {cancelled, ln, accepting} \subseteq BOOLEAN
  /\ slots \in 0..MaxConns /\ ending \in Nat
  /\ job \in [Subscribers -> {"none", "backlog", "serve", "write", "leave", "closed"}]
  /\ dialled \in [Subscribers -> BOOLEAN]
  /\ wire \in [Subscribers -> Seq(1..MaxPublished)]
  /\ frame \in [Subscribers -> 0..MaxPublished]
  /\ \A k \in Subscribers : /\ Len(wire[k]) <= Wire
                            /\ frame[k] # 0 <=> job[k] = "write"
  /\ slots = ending + Cardinality({k \in Subscribers : job[k] \in {"serve", "write", "leave"}})

Init ==
  /\ SubjectInit
  /\ cancelled = FALSE /\ ln = TRUE /\ accepting = TRUE
  /\ slots = 0 /\ ending = 0
  /\ job = [k \in Subscribers |-> "none"] /\ dialled = [k \in Subscribers |-> FALSE]
  /\ frame = [k \in Subscribers |-> 0]
  /\ wire = [k \in Subscribers |-> <<>>]

\* What the goroutine that drains the connection tells broadcastConn.
Departed(k) == ~dialled[k]

Job(k, j) == job' = [job EXCEPT ![k] = j]
Write(k, v) == frame' = [frame EXCEPT ![k] = v]

-----------------------------------------------------------------------------
(* Broadcast *)

Cancel ==
  /\ ~cancelled
  /\ cancelled' = TRUE
  /\ UNCHANGED <<subjectVars, ln, accepting, slots, ending, job, frame, wire, dialled>>

\* The goroutine that waits for ctx; the kernel drops the backlog.
CloseListener ==
  /\ cancelled /\ ln
  /\ ln' = FALSE
  /\ job' = [k \in Subscribers |-> IF job[k] = "backlog" THEN "closed" ELSE job[k]]
  /\ UNCHANGED <<subjectVars, cancelled, accepting, slots, ending, frame, wire, dialled>>

\* Accept fails.
Return ==
  /\ accepting /\ ~ln
  /\ accepting' = FALSE
  /\ UNCHANGED <<subjectVars, cancelled, ln, slots, ending, job, frame, wire, dialled>>

\* No slot left.  (A peer of another user is closed as well; all peers here are
\* the same user's.)
Refuse(k) ==
  /\ accepting /\ job[k] = "backlog"
  /\ slots = MaxConns
  /\ Job(k, "closed")
  /\ UNCHANGED <<subjectVars, cancelled, ln, accepting, slots, ending, frame, wire, dialled>>

\* A slot, and the goroutine, which calls Subscribe.
Accept(k) ==
  /\ accepting /\ job[k] = "backlog"
  /\ slots < MaxConns
  /\ slots' = slots + 1
  /\ Job(k, "serve")
  /\ Subscribe(k)
  /\ UNCHANGED <<cancelled, ln, accepting, ending, frame, wire, dialled>>

-----------------------------------------------------------------------------
(* broadcastConn *)

\* A value that encodes; one that does not is skipped.
Take(k) ==
  /\ job[k] = "serve"
  /\ Receive(k)
  /\ \/ Job(k, "write") /\ Write(k, Head(buf[k]))
     \/ UNCHANGED <<job, frame>>
  /\ UNCHANGED <<cancelled, ln, accepting, slots, ending, wire, dialled>>

Written(k) ==
  /\ job[k] = "write"
  /\ dialled[k] /\ Len(wire[k]) < Wire
  /\ wire' = [wire EXCEPT ![k] = Append(@, frame[k])]
  /\ Job(k, "serve") /\ Write(k, 0)
  /\ UNCHANGED <<subjectVars, cancelled, ln, accepting, slots, ending, dialled>>

\* The client has gone, or has not read for the length of the deadline.
WriteFails(k) ==
  /\ job[k] = "write"
  /\ Departed(k) \/ Len(wire[k]) = Wire
  /\ Job(k, "leave") /\ Write(k, 0)
  /\ Unsubscribe(k)
  /\ UNCHANGED <<cancelled, ln, accepting, slots, ending, wire, dialled>>

\* The select sees ctx, the departure of the client, or a closed channel.
Leave(k) ==
  /\ job[k] = "serve"
  /\ cancelled \/ Departed(k) \/ (k \in shut /\ buf[k] = <<>>)
  /\ Job(k, "leave")
  /\ Unsubscribe(k)
  /\ UNCHANGED <<cancelled, ln, accepting, slots, ending, frame, wire, dialled>>

\* The deferred calls, in turn: Unsubscribe (Subject), conn.Close ...
HangUp(k) ==
  /\ job[k] = "leave" /\ call[k] = "out"
  /\ Job(k, "closed")
  /\ ending' = ending + 1
  /\ UNCHANGED <<subjectVars, cancelled, ln, accepting, slots, frame, wire, dialled>>

\* ... and the slot.
FreeSlot ==
  /\ ending > 0
  /\ ending' = ending - 1 /\ slots' = slots - 1
  /\ UNCHANGED <<subjectVars, cancelled, ln, accepting, job, frame, wire, dialled>>

-----------------------------------------------------------------------------
(* Dial *)

Dial(k) ==
  /\ ln
  /\ job[k] = "none"
  /\ Job(k, "backlog")
  /\ dialled' = [dialled EXCEPT ![k] = TRUE]
  /\ UNCHANGED <<subjectVars, cancelled, ln, accepting, slots, ending, frame, wire>>

\* A frame is read, decoded and taken by the consumer, in its own time.
Deliver(k) ==
  /\ dialled[k] /\ wire[k] # <<>>
  /\ wire' = [wire EXCEPT ![k] = Tail(@)]
  /\ since' = [since EXCEPT ![k] = Head(wire[k])]
  /\ UNCHANGED <<runVars, call, buf, shut, next, serverVars, dialled>>

\* The client's context is cancelled, or the server has closed and all is read.
DialEnds(k) ==
  /\ dialled[k]
  /\ dialled' = [dialled EXCEPT ![k] = FALSE]
  /\ wire' = [wire EXCEPT ![k] = <<>>]
  /\ UNCHANGED <<subjectVars, serverVars>>

-----------------------------------------------------------------------------

SubjectStep ==
  /\ \/ Run \/ Close
     \/ \E q \in Publishers : Publish(q) \/ Published(q)
     \/ \E k \in Subscribers : Subscribed(k) \/ Unsubscribed(k)
  /\ UNCHANGED <<serverVars, wire, dialled>>

Next ==
  \/ SubjectStep
  \/ Cancel \/ CloseListener \/ Return \/ FreeSlot
  \/ \E k \in Subscribers :
       \/ Accept(k) \/ Refuse(k) \/ Take(k) \/ Written(k) \/ WriteFails(k) \/ Leave(k) \/ HangUp(k)
       \/ Dial(k) \/ Deliver(k) \/ DialEnds(k)

Spec == Init /\ [][Next]_vars

\* What the goroutines of the server owe by themselves: a send, a receive or a
\* select that can go on does, and a write ends by its deadline.  Nothing is
\* expected of clients, publishers and Close.
FairSpec ==
  /\ Spec
  /\ WF_vars(CloseListener) /\ WF_vars(Return) /\ WF_vars(FreeSlot)
  /\ WF_vars(Run /\ UNCHANGED <<serverVars, wire, dialled>>)
  /\ \A q \in Publishers : WF_vars(Published(q) /\ UNCHANGED <<serverVars, wire, dialled>>)
  /\ \A k \in Subscribers :
       /\ WF_vars((Subscribed(k) \/ Unsubscribed(k)) /\ UNCHANGED <<serverVars, wire, dialled>>)
       /\ WF_vars(Take(k) \/ Leave(k)) /\ WF_vars(Written(k) \/ WriteFails(k)) /\ WF_vars(HangUp(k))

-----------------------------------------------------------------------------
(* Properties *)

\* run never sends on a closed channel and closes none twice: what it has is
\* open; and it has the channels of live connections only.
Subscriptions ==
  /\ subs \cap shut = {}
  /\ \A k \in subs : call[k] \in {"on", "unsubscribe"}

\* From the Subject over the socket to the consumer: a client sees values in the
\* order they were published, none twice, and none from before its subscription.
InOrder ==
  \A k \in Subscribers :
    LET one(v) == IF v = 0 THEN <<>> ELSE <<v>>
        way == <<since[k]>> \o wire[k] \o one(frame[k]) \o buf[k]
    IN  /\ \A i \in 2..Len(way) : way[i - 1] < way[i]
        /\ way[Len(way)] <= published

\* No call of Subscribe, Unsubscribe or Next waits for ever, whoever has called
\* Close and however slow the subscribers are; and Close does end the Subject.
EveryCallReturns ==
  /\ \A k \in Subscribers : call[k] = "subscribe" ~> call[k] = "on"
  /\ \A k \in Subscribers : call[k] = "unsubscribe" ~> call[k] = "out"
  /\ \A q \in Publishers : q \in next ~> q \notin next
  /\ stop ~> loop = "done"

\* Every slot comes back: when the client goes, however full its channel and its
\* socket, when the Subject closes, and all of them when ctx is cancelled, with
\* Broadcast returning.
SlotsComeBack ==
  /\ \A k \in Subscribers :
       job[k] \in {"serve", "write", "leave"} /\ (Departed(k) \/ loop = "done")
         ~> job[k] = "closed"
  /\ cancelled ~> slots = 0 /\ ~accepting
=============================================================================
