----------------------------- MODULE SocketProofs -----------------------------
(***************************************************************************)
(* ipc/socket.go and socket_unix.go: SocketListen, and Broadcast above a   *)
(* Subject, proved for any number of processes, inodes, connections and    *)
(* publishers, whichever faults may happen, whoever calls Close and        *)
(* however slow a client is.                                               *)
(***************************************************************************)
EXTENDS SocketListen, Broadcast, FiniteSetTheorems, SequenceTheorems, TLAPS

-----------------------------------------------------------------------------
(* Listen: the inductive invariant *)

Serving == {"chmod", "guard", "up"}

\* A socket accepts from net.Listen until its listener is closed, and is bound
\* to an inode no other accepting socket has.
Sockets ==
  /\ \A p \in Procs : p \in accepts <=> pc[p] \in Serving
  /\ \A p \in accepts : bound[p] \in Inodes
  /\ \A p, q \in accepts : bound[p] = bound[q] => p = q

\* Nobody accepts on the file that is about to be removed: the path lock keeps
\* the verdict of the probe true.
ProbeStands == \A p \in Procs : pc[p] = "remove" => ~Live(file)

\* While a new listener is being set up the path shows its file or, after a late
\* Close, nothing; and every other listener has lost its file.
Fresh ==
  \A p \in Procs : pc[p] \in {"chmod", "guard"} =>
    /\ file \in {None, bound[p]}
    /\ \A q \in Procs : pc[q] = "up" => q \in robbed

ListenInv == ListenTypeOK /\ Sockets /\ ProbeStands /\ Fresh /\ Reachable

-----------------------------------------------------------------------------
(* Listen: every action preserves it *)

\* Listen's steps under the path lock up to net.Listen.
LEMMA ListenKeeps ==
  ASSUME ListenInv, NEW p \in Procs, Call(p) \/ Lock(p) \/ Look(p) \/ Probe(p) \/ Remove(p)
  PROVE  ListenInv'
<1> USE SocketAssumption DEF ListenInv, ListenTypeOK, States, Holding, Goto, ghosts
<1>1. CASE Call(p)
  BY <1>1 DEF Call, Sockets, Serving, ProbeStands, Live, Fresh, Reachable
<1>2. CASE Lock(p)
  BY <1>2 DEF Lock, Sockets, Serving, ProbeStands, Live, Fresh, Reachable
<1>3. CASE Look(p)
  BY <1>3 DEF Look, Sockets, Serving, ProbeStands, Live, Fresh, Reachable
<1>4. CASE Probe(p)
  BY <1>4 DEF Probe, Sockets, Serving, ProbeStands, Live, Fresh, Reachable
<1>5. CASE Remove(p)
  BY <1>5 DEF Remove, Sockets, Serving, ProbeStands, Live, Fresh, Reachable
<1> QED BY <1>1, <1>2, <1>3, <1>4, <1>5

\* From net.Listen to the listener that Listen returns.
LEMMA BindKeeps ==
  ASSUME ListenInv, NEW p \in Procs, Bind(p) \/ Chmod(p) \/ Guard(p)
  PROVE  ListenInv'
<1> USE SocketAssumption DEF ListenInv, ListenTypeOK, States, Holding, Goto, ghosts
<1>1. CASE Bind(p)
  BY <1>1 DEF Bind, Sockets, Serving, ProbeStands, Live, Fresh, Reachable
<1>2. CASE Chmod(p)
  BY <1>2 DEF Chmod, Sockets, Serving, ProbeStands, Live, Fresh, Reachable
<1>3. CASE Guard(p)
  BY <1>3 DEF Guard, Sockets, Serving, ProbeStands, Live, Fresh, Reachable
<1> QED BY <1>1, <1>2, <1>3

\* Close, which takes no lock.
LEMMA CloseKeeps ==
  ASSUME ListenInv, NEW p \in Procs, CloseListening(p) \/ Check(p) \/ Unlink(p)
  PROVE  ListenInv'
<1> USE SocketAssumption DEF ListenInv, ListenTypeOK, States, Holding, Goto, ghosts
<1>1. CASE CloseListening(p)
  BY <1>1 DEF CloseListening, Sockets, Serving, ProbeStands, Live, Fresh, Reachable
<1>2. CASE Check(p)
  BY <1>2 DEF Check, Sockets, Serving, ProbeStands, Live, Fresh, Reachable
<1>3. CASE Unlink(p)
  BY <1>3 DEF Unlink, Sockets, Serving, ProbeStands, Live, Fresh, Reachable
<1> QED BY <1>1, <1>2, <1>3

\* Failures and deaths.
LEMMA FaultsKeep ==
  ASSUME ListenInv, NEW p \in Procs, LockTimesOut(p) \/ Fails(p) \/ ChmodFails(p) \/ Crash(p)
  PROVE  ListenInv'
<1> USE SocketAssumption DEF ListenInv, ListenTypeOK, States, Holding, Goto, ghosts
<1>1. CASE LockTimesOut(p)
  BY <1>1 DEF LockTimesOut, Sockets, Serving, ProbeStands, Live, Fresh, Reachable
<1>2. CASE Fails(p)
  BY <1>2 DEF Fails, Sockets, Serving, ProbeStands, Live, Fresh, Reachable
<1>3. CASE ChmodFails(p)
  BY <1>3 DEF ChmodFails, Sockets, Serving, ProbeStands, Live, Fresh, Reachable
<1>4. CASE Crash(p)
  BY <1>4 DEF Crash, Sockets, Serving, ProbeStands, Live, Fresh, Reachable
<1> QED BY <1>1, <1>2, <1>3, <1>4

-----------------------------------------------------------------------------
(* Listen: the theorems *)

LEMMA ListenInvHolds == ListenSpec => []ListenInv
<1> USE SocketAssumption
<1>1. ListenInit => ListenInv
  BY DEF ListenInit, ListenInv, ListenTypeOK, States, Holding, Sockets, Serving, ProbeStands, Live,
     Fresh, Reachable
<1>2. ListenInv /\ [ListenNext]_listenVars => ListenInv'
  <2> SUFFICES ASSUME ListenInv, [ListenNext]_listenVars
               PROVE  ListenInv'
    OBVIOUS
  <2>1. ASSUME NEW p \in Procs,
               Call(p) \/ Listen(p) \/ CloseListening(p) \/ Check(p) \/ Unlink(p) \/ Faulty(p)
        PROVE  ListenInv'
    BY <2>1, ListenKeeps, BindKeeps, CloseKeeps, FaultsKeep DEF Listen, Faulty
  <2>2. CASE Calm \/ UNCHANGED listenVars
    BY <2>2 DEF Calm, listenVars, ghosts, ListenInv, ListenTypeOK, States, Holding, Sockets,
       Serving, ProbeStands, Live, Fresh, Reachable
  <2> QED BY <2>1, <2>2 DEF ListenNext
<1> QED BY <1>1, <1>2, PTL DEF ListenSpec

\* ListenTypeOK: and <path>.lock is held exactly from lockSocketPath to the return of
\* Listen, whichever of its returns that is.
THEOREM TypeCorrect == ListenSpec => []ListenTypeOK
<1>1. ListenInv => ListenTypeOK
  BY DEF ListenInv
<1> QED BY <1>1, ListenInvHolds, PTL

\* Reachable: between the probe, net.Listen and guardUnlink no other process
\* changes what the path shows, except a late Close, and that one counts whom
\* it robs; so a listener that Listen returned is the one clients reach.
THEOREM ReachableHolds == ListenSpec => []Reachable
<1>1. ListenInv => Reachable
  BY DEF ListenInv
<1> QED BY <1>1, ListenInvHolds, PTL

\* SingleListener: two listeners nobody robbed would both own the file at the
\* path, and no two accepting sockets are bound to one inode.
THEOREM SingleListenerHolds == ListenSpec => []SingleListener
<1>1. ListenInv => SingleListener
  <2> SUFFICES ASSUME ListenInv
               PROVE  SingleListener
    OBVIOUS
  <2> DEFINE Up == {p \in Procs \ robbed : pc[p] = "up"}
  <2>1. \A p, q \in Up : p = q
    BY DEF ListenInv, Reachable, Sockets, Serving
  <2>2. CASE Up = {}
    BY <2>2, FS_EmptySet DEF SingleListener
  <2>3. ASSUME NEW p \in Up
        PROVE  SingleListener
    <3>1. Up = {p}
      BY <2>1, <2>3
    <3>2. Cardinality(Up) = 1
      BY <3>1, FS_Singleton
    <3> QED BY <3>2 DEF SingleListener
  <2> QED BY <2>2, <2>3
<1> QED BY <1>1, ListenInvHolds, PTL
-----------------------------------------------------------------------------
(* Broadcast: subscriptions *)

\* Subscriptions, which is inductive with its types.
SubInv ==
  /\ call \in [Subscribers -> {"out", "subscribe", "on", "unsubscribe"}]
  /\ subs \subseteq Subscribers /\ Subscriptions

\* run is the only one that adds or closes channels.
LEMMA SubscriptionsKeep ==
  ASSUME SubInv, [Next]_vars PROVE SubInv'
<1> USE DEF SubInv, Subscriptions, subjectVars, runVars
<1>1. CASE Run \/ Close \/ \E q \in Publishers : Publish(q) \/ Published(q)
  BY <1>1 DEF Run, TakeStop, LoopEnds, Offer, CloseChannel, Close, Publish, Published
<1>2. ASSUME NEW k \in Subscribers, Subscribed(k) \/ Unsubscribed(k) PROVE SubInv'
  BY <1>2 DEF Subscribed, Unsubscribed
<1>3. CASE Cancel \/ CloseListener \/ Return \/ FreeSlot \/ UNCHANGED vars
  BY <1>3 DEF Cancel, CloseListener, Return, FreeSlot, vars
<1>4. ASSUME NEW k \in Subscribers, UNCHANGED <<subs, shut>>,
             \/ UNCHANGED call
             \/ call[k] = "out" /\ call' = [call EXCEPT ![k] = "subscribe"]
             \/ call[k] = "on" /\ call' = [call EXCEPT ![k] = "unsubscribe"]
      PROVE  SubInv'
  BY <1>4
<1>5. ASSUME NEW k \in Subscribers, 
             Accept(k) \/ WriteFails(k) \/ Leave(k)
      PROVE SubInv'
  BY <1>4, <1>5 DEF Accept, WriteFails, Leave, Subscribe, Unsubscribe
<1>6. ASSUME NEW k \in Subscribers, 
             \/ Refuse(k) \/ Take(k) \/ Written(k) \/ HangUp(k)
             \/ Dial(k) \/ Deliver(k) \/ DialEnds(k)
      PROVE SubInv'
  BY <1>4, <1>6 DEF Refuse, Take, Receive, Written, HangUp, Dial, Deliver, DialEnds
<1> QED BY <1>1, <1>2, <1>3, <1>5, <1>6 DEF Next, SubjectStep

\* Subscriptions: a Subscribe that overtakes the end of run, an Unsubscribe beside a
\* Close and a send in progress never leave run with a closed channel, or the
\* channel of a connection that has gone.
THEOREM SubscriptionsHold == Spec => []Subscriptions
<1>1. Init => SubInv
  BY DEF Init, SubjectInit, SubInv, Subscriptions
<1>2. SubInv /\ [Next]_vars => SubInv'
  BY SubscriptionsKeep
<1>3. SubInv => Subscriptions
  BY DEF SubInv
<1> QED BY <1>1, <1>2, <1>3, PTL DEF Spec

-----------------------------------------------------------------------------
(* Broadcast: the order of values *)

\* Types, and that a loop over the channels is over before the select comes again.
Shapes ==
  /\ todo \subseteq subs /\ subs \subseteq Subscribers
  /\ loop \in {"select", "done"} => todo = {}
  /\ published \in Nat
  /\ call \in [Subscribers -> {"out", "subscribe", "on", "unsubscribe"}]
  /\ job \in [Subscribers -> {"none", "backlog", "serve", "write", "leave", "closed"}]
  /\ buf \in [Subscribers -> Seq(Nat)] /\ wire \in [Subscribers -> Seq(Nat)]
  /\ frame \in [Subscribers -> Nat] /\ since \in [Subscribers -> Nat]

\* A connection has one life, and values for it only from its subscription on.
Lives ==
  \A k \in Subscribers :
    /\ job[k] \in {"none", "backlog"} => call[k] = "out"
    /\ call[k] = "subscribe" => job[k] = "serve"
    /\ job[k] \in {"none", "backlog"} \/ call[k] = "subscribe" => wire[k] = <<>>
    /\ frame[k] # 0 <=> job[k] = "write"

\* What is behind, in the channel, the frame and the socket, is newer than what is
\* in front.
Rising(s) == \A m, n \in 1..Len(s) : m < n => s[m] < s[n]
InFront(k, v) ==
  /\ since[k] < v
  /\ \A m \in 1..Len(wire[k]) : wire[k][m] < v
Ordered(k) ==
  /\ since[k] <= published
  /\ Rising(wire[k]) /\ Rising(buf[k])
  /\ \A m \in 1..Len(wire[k]) : since[k] < wire[k][m] /\ wire[k][m] <= published
  /\ frame[k] # 0 => InFront(k, frame[k]) /\ frame[k] <= published
  /\ \A m \in 1..Len(buf[k]) :
       InFront(k, buf[k][m]) /\ frame[k] < buf[k][m] /\ buf[k][m] <= published

\* The value being sent is newer than all that is on the way to those it has not
\* been sent to.
Due ==
  loop = "publish" => \A k \in todo :
    /\ InFront(k, published) /\ frame[k] < published
    /\ \A m \in 1..Len(buf[k]) : buf[k][m] < published

OrderInv == Shapes /\ Lives /\ Due /\ \A k \in Subscribers : Ordered(k)

-----------------------------------------------------------------------------
(* Broadcast: every action keeps the order *)

\* The variables of the way from the Subject to the consumer.
way == <<wire, frame, buf, since>>

\* What is not touched stays in order, as values only get newer.
LEMMA Untouched ==
  ASSUME OrderInv, NEW k \in Subscribers, published' \in Nat, published' >= published,
         wire'[k] = wire[k], buf'[k] = buf[k], frame'[k] = frame[k], since'[k] = since[k]
  PROVE  Ordered(k)'
<1>1. /\ buf[k] \in Seq(Nat) /\ wire[k] \in Seq(Nat) /\ frame[k] \in Nat /\ since[k] \in Nat
      /\ published \in Nat /\ Ordered(k)
  BY DEF OrderInv, Shapes
<1>2. /\ \A m \in 1..Len(buf[k]) : buf[k][m] <= published'
      /\ \A m \in 1..Len(wire[k]) : wire[k][m] <= published'
      /\ since[k] <= published' /\ (frame[k] # 0 => frame[k] <= published')
  BY <1>1 DEF Ordered
<1> QED BY <1>1, <1>2 DEF Ordered, InFront, Rising

\* Steps that move no value.
LEMMA StillKeeps ==
  ASSUME OrderInv, UNCHANGED <<way, published>>, Shapes', Lives',
         \/ UNCHANGED <<loop, todo>>
         \/ loop' # "publish"
  PROVE  OrderInv'
<1>1. \A k \in Subscribers : Ordered(k)'
  BY Untouched DEF OrderInv, Shapes, way
<1>2. Due'
  BY DEF OrderInv, Due, InFront, way
<1> QED BY <1>1, <1>2 DEF OrderInv

\* The Subject: only Offer moves a value, and Published makes one due.
LEMMA RunKeeps ==
  ASSUME OrderInv, Run, UNCHANGED <<serverVars, wire, dialled>>
  PROVE  OrderInv'
<1> USE DEF serverVars
<1>1. CASE TakeStop \/ LoopEnds \/ \E k \in Subscribers : CloseChannel(k)
  <2>1. Shapes' /\ Lives'
    BY <1>1 DEF TakeStop, LoopEnds, CloseChannel, OrderInv, Shapes, Lives
  <2> QED BY <1>1, <2>1, StillKeeps DEF TakeStop, LoopEnds, CloseChannel, way
<1>2. ASSUME NEW k \in Subscribers, Offer(k) PROVE OrderInv'
  <2> USE <1>2 DEF Offer, OrderInv
  <2>1. Shapes' /\ Lives'
    BY DEF Shapes, Lives
  <2>2. ASSUME NEW c \in Subscribers, c # k PROVE Ordered(c)'
    BY <2>2, Untouched DEF Shapes
  <2>3. Ordered(k)'
    <3>1. CASE buf' = buf
      BY <3>1, Untouched DEF Shapes
    <3>2. CASE buf' = [buf EXCEPT ![k] = Append(@, published)]
      BY <3>2 DEF Shapes, Due, Ordered, InFront, Rising
    <3> QED BY <3>1, <3>2
  <2>4. Due'
    BY DEF Shapes, Due, InFront
  <2> QED BY <2>1, <2>2, <2>3, <2>4
<1> QED BY <1>1, <1>2 DEF Run

\* Calls: a value gets published and is due to everyone, a new channel is empty.
LEMMA CallsKeep ==
  ASSUME OrderInv, UNCHANGED <<serverVars, wire, dialled>>,
         \/ Close \/ \E q \in Publishers : Publish(q) \/ Published(q)
         \/ \E k \in Subscribers : Subscribed(k) \/ Unsubscribed(k)
  PROVE  OrderInv'
<1> USE DEF serverVars
<1>1. CASE Close \/ \E q \in Publishers : Publish(q)
  <2>1. Shapes' /\ Lives'
    BY <1>1 DEF Close, Publish, runVars, OrderInv, Shapes, Lives
  <2> QED BY <1>1, <2>1, StillKeeps DEF Close, Publish, runVars, way
<1>2. ASSUME NEW q \in Publishers, Published(q) PROVE OrderInv'
  <2> USE <1>2 DEF Published, OrderInv
  <2>1. Shapes' /\ Lives'
    BY DEF Shapes, Lives
  <2>2. published' \in Nat /\ published' >= published /\ UNCHANGED way
    BY DEF Shapes, way
  <2>3. \A k \in Subscribers : Ordered(k)'
    BY <2>2, Untouched DEF way
  <2>4. CASE loop' = "publish"
    <3>1. published' = published + 1 /\ todo' \subseteq Subscribers
      BY <2>4 DEF Shapes
    <3>2. ASSUME NEW k \in Subscribers
          PROVE  /\ InFront(k, published)' /\ frame'[k] < published'
                 /\ \A m \in 1..Len(buf'[k]) : buf'[k][m] < published'
      <4>1. /\ buf[k] \in Seq(Nat) /\ wire[k] \in Seq(Nat) /\ frame[k] \in Nat /\ since[k] \in Nat
            /\ published \in Nat /\ Ordered(k)
        BY DEF Shapes
      <4> QED BY <2>2, <3>1, <4>1 DEF Ordered, InFront, way
    <3> QED BY <2>1, <2>3, <3>1, <3>2 DEF Due
  <2> QED BY <2>1, <2>3, <2>4 DEF Due
<1>3. ASSUME NEW k \in Subscribers, Subscribed(k) PROVE OrderInv'
  <2> USE <1>3 DEF Subscribed, OrderInv
  <2>1. Shapes' /\ Lives'
    BY DEF Shapes, Lives
  <2>2. ASSUME NEW c \in Subscribers, c # k PROVE Ordered(c)'
    BY <2>2, Untouched DEF Shapes
  <2>3. wire'[k] = <<>> /\ buf'[k] = <<>> /\ frame'[k] = 0 /\ since'[k] = published'
    BY DEF Shapes, Lives
  <2>4. Ordered(k)'
    BY <2>3 DEF Shapes, Ordered, InFront, Rising
  <2>5. Due'
    BY DEF Due
  <2> QED BY <2>1, <2>2, <2>4, <2>5
<1>4. ASSUME NEW k \in Subscribers, Unsubscribed(k) PROVE OrderInv'
  <2> USE <1>4 DEF Unsubscribed
  <2>1. Shapes' /\ Lives'
    BY DEF OrderInv, Shapes, Lives
  <2> QED BY <2>1, StillKeeps DEF way
<1> QED BY <1>1, <1>2, <1>3, <1>4

\* The server's steps that move no value.
LEMMA ServerKeeps ==
  ASSUME OrderInv,
         \/ Cancel \/ CloseListener \/ Return \/ FreeSlot
         \/ \E k \in Subscribers :
              Accept(k) \/ Refuse(k) \/ Leave(k) \/ HangUp(k) \/ Dial(k)
  PROVE  OrderInv'
<1> USE DEF subjectVars, runVars
<1>1. CASE Cancel \/ CloseListener \/ Return \/ FreeSlot
  <2>1. Shapes' /\ Lives'
    BY <1>1 DEF Cancel, CloseListener, Return, FreeSlot, OrderInv, Shapes, Lives
  <2> QED BY <1>1, <2>1, StillKeeps DEF Cancel, CloseListener, Return, FreeSlot, way
<1>2. ASSUME NEW k \in Subscribers,
             Accept(k) \/ Refuse(k) \/ Leave(k) \/ HangUp(k) \/ Dial(k)
      PROVE  OrderInv'
  <2> USE DEF Accept, Refuse, Leave, HangUp, Dial, Job, Subscribe, Unsubscribe
  <2>1. Shapes'
    BY <1>2 DEF OrderInv, Shapes
  <2>2. UNCHANGED <<way, loop, todo, published>>
    BY <1>2 DEF way
  <2>3. Lives'
    <3>1. CASE Accept(k)
      BY <3>1 DEF OrderInv, Shapes, Lives
    <3>2. CASE Leave(k)
      BY <3>2 DEF OrderInv, Shapes, Lives
    <3>3. CASE Refuse(k)
      BY <3>3 DEF OrderInv, Shapes, Lives
    <3>4. CASE HangUp(k)
      BY <3>4 DEF OrderInv, Shapes, Lives
    <3>5. CASE Dial(k)
      BY <3>5 DEF OrderInv, Shapes, Lives
    <3> QED BY <1>2, <3>1, <3>2, <3>3, <3>4, <3>5
  <2> QED BY <2>1, <2>2, <2>3, StillKeeps
<1> QED BY <1>1, <1>2

\* A step on the way of one connection.
LEMMA OneKeeps ==
  ASSUME OrderInv, NEW k \in Subscribers, Shapes', Lives', Ordered(k)',
         UNCHANGED <<loop, todo, published>>,
         \A c \in Subscribers \ {k} : /\ wire'[c] = wire[c] /\ buf'[c] = buf[c]
                                      /\ frame'[c] = frame[c] /\ since'[c] = since[c],
         loop = "publish" /\ k \in todo =>
           /\ InFront(k, published)' /\ frame'[k] < published
           /\ \A m \in 1..Len(buf'[k]) : buf'[k][m] < published
  PROVE  OrderInv'
<1>1. ASSUME NEW c \in Subscribers, c # k PROVE Ordered(c)'
  <2>1. /\ wire'[c] = wire[c] /\ buf'[c] = buf[c]
        /\ frame'[c] = frame[c] /\ since'[c] = since[c]
    BY <1>1
  <2>2. published' \in Nat /\ published' >= published
    BY DEF OrderInv, Shapes
  <2> QED BY <2>1, <2>2, Untouched
<1>2. ASSUME NEW c \in Subscribers, loop = "publish", c \in todo
      PROVE  /\ InFront(c, published)' /\ frame'[c] < published
             /\ \A m \in 1..Len(buf'[c]) : buf'[c][m] < published
  <2>1. CASE c = k
    BY <1>2, <2>1
  <2>2. CASE c # k
    BY <1>2, <2>2 DEF OrderInv, Due, InFront
  <2> QED BY <2>1, <2>2
<1>3. Due'
  BY <1>2 DEF OrderInv, Shapes, Due
<1> QED BY <1>1, <1>3 DEF OrderInv

\* From the channel into the frame, or nowhere.
LEMMA TakeKeeps ==
  ASSUME OrderInv, NEW k \in Subscribers, Take(k)
  PROVE  OrderInv'
<1> USE DEF Take, Receive, Job, Write, runVars
<1>1. /\ buf[k] \in Seq(Nat) /\ wire[k] \in Seq(Nat) /\ frame[k] = 0 /\ since[k] \in Nat
      /\ published \in Nat /\ Ordered(k) /\ buf[k] # <<>>
  BY DEF OrderInv, Shapes, Lives
<1>2. /\ Tail(buf[k]) \in Seq(Nat) /\ Len(Tail(buf[k])) = Len(buf[k]) - 1
      /\ \A m \in 1..Len(Tail(buf[k])) : Tail(buf[k])[m] = buf[k][m + 1]
      /\ Head(buf[k]) = buf[k][1] /\ Head(buf[k]) \in Nat /\ Len(buf[k]) >= 1
  BY <1>1
<1>3. Shapes'
  <2>1. frame' \in [Subscribers -> Nat] /\ buf' \in [Subscribers -> Seq(Nat)]
    BY <1>2 DEF OrderInv, Shapes
  <2> QED BY <2>1 DEF OrderInv, Shapes
<1>4. Lives'
  <2>1. Head(buf[k]) # 0
    BY <1>1, <1>2 DEF Ordered, InFront
  <2> QED BY <2>1 DEF OrderInv, Shapes, Lives
<1>5. /\ buf'[k] = Tail(buf[k]) /\ wire'[k] = wire[k] /\ since'[k] = since[k]
      /\ frame'[k] \in {0, buf[k][1]}
  BY <1>1, <1>2 DEF OrderInv, Shapes
<1>6. Ordered(k)'
  <2>1. Rising(Tail(buf[k])) /\ \A m \in 1..Len(Tail(buf[k])) : buf[k][1] < Tail(buf[k])[m]
    BY <1>1, <1>2 DEF Ordered, Rising
  <2>2. since[k] <= published /\ Rising(wire[k])
        /\ \A m \in 1..Len(wire[k]) : since[k] < wire[k][m] /\ wire[k][m] <= published
    BY <1>1 DEF Ordered
  <2>3. InFront(k, buf[k][1]) /\ buf[k][1] <= published
    BY <1>1, <1>2 DEF Ordered
  <2>4. \A m \in 1..Len(Tail(buf[k])) : /\ InFront(k, Tail(buf[k])[m]) /\ 0 < Tail(buf[k])[m]
                                        /\ Tail(buf[k])[m] <= published
    BY <1>1, <1>2 DEF Ordered
  <2> QED BY <1>1, <1>5, <2>1, <2>2, <2>3, <2>4 DEF Ordered, InFront, Rising
<1>7. loop = "publish" /\ k \in todo =>
        /\ InFront(k, published)' /\ frame'[k] < published
        /\ \A m \in 1..Len(buf'[k]) : buf'[k][m] < published
  BY <1>1, <1>2, <1>5 DEF OrderInv, Due, InFront
<1> QED BY <1>3, <1>4, <1>6, <1>7, OneKeeps DEF OrderInv, Shapes

\* From the frame into the socket.
LEMMA WrittenKeeps ==
  ASSUME OrderInv, NEW k \in Subscribers, Written(k)
  PROVE  OrderInv'
<1> USE DEF Written, Job, Write, subjectVars, runVars
<1>1. /\ buf[k] \in Seq(Nat) /\ wire[k] \in Seq(Nat) /\ frame[k] \in Nat /\ since[k] \in Nat
      /\ published \in Nat /\ Ordered(k) /\ frame[k] # 0
  BY DEF OrderInv, Shapes, Lives
<1>2. Shapes'
  BY <1>1 DEF OrderInv, Shapes
<1>3. Lives'
  BY DEF OrderInv, Shapes, Lives
<1>4. /\ buf'[k] = buf[k] /\ since'[k] = since[k] /\ frame'[k] = 0
      /\ wire'[k] = Append(wire[k], frame[k])
  BY DEF OrderInv, Shapes
<1>5. Ordered(k)'
  <2> DEFINE w == Append(wire[k], frame[k])
  <2>1. /\ w \in Seq(Nat) /\ Len(w) = Len(wire[k]) + 1 /\ w[Len(w)] = frame[k]
        /\ \A m \in 1..Len(wire[k]) : w[m] = wire[k][m]
    BY <1>1
  <2> HIDE DEF w
  <2>2. \A m \in 1..Len(w) : \/ m \in 1..Len(wire[k]) /\ w[m] = wire[k][m]
                             \/ m = Len(w) /\ w[m] = frame[k]
    BY <1>1, <2>1
  <2>3. /\ InFront(k, frame[k]) /\ frame[k] <= published /\ Rising(wire[k])
        /\ \A m \in 1..Len(wire[k]) : since[k] < wire[k][m] /\ wire[k][m] <= published
        /\ \A m \in 1..Len(buf[k]) : InFront(k, buf[k][m]) /\ frame[k] < buf[k][m]
    BY <1>1 DEF Ordered
  <2>4. Rising(w)
    <3>1. ASSUME NEW m \in 1..Len(w), NEW n \in 1..Len(w), m < n PROVE w[m] < w[n]
      <4>1. m \in 1..Len(wire[k]) /\ w[m] = wire[k][m]
        BY <1>1, <2>2, <3>1
      <4> QED BY <1>1, <2>2, <2>3, <3>1, <4>1 DEF Rising, InFront
    <3> QED BY <3>1 DEF Rising
  <2>5. \A m \in 1..Len(w) : since[k] < w[m] /\ w[m] <= published
    BY <2>2, <2>3 DEF InFront
  <2>6. \A m \in 1..Len(buf[k]) : \A n \in 1..Len(w) : w[n] < buf[k][m]
    BY <2>2, <2>3 DEF InFront
  <2>7. UNCHANGED published /\ wire'[k] = w
    BY <1>4 DEF w
  <2> QED BY <1>1, <1>4, <2>4, <2>5, <2>6, <2>7 DEF Ordered, InFront, Rising
<1>6. loop = "publish" /\ k \in todo =>
        /\ InFront(k, published)' /\ frame'[k] < published
        /\ \A m \in 1..Len(buf'[k]) : buf'[k][m] < published
  BY <1>1, <1>4 DEF OrderInv, Due, InFront
<1> QED BY <1>2, <1>3, <1>5, <1>6, OneKeeps DEF OrderInv, Shapes

\* A client that stalls or goes loses what is under way; one that reads moves on.
LEMMA ClientKeeps ==
  ASSUME OrderInv, NEW k \in Subscribers,
         WriteFails(k) \/ Deliver(k) \/ DialEnds(k)
  PROVE  OrderInv'
<1> USE DEF WriteFails, Deliver, DialEnds, Job, Write, Unsubscribe,
            subjectVars, runVars, serverVars
<1>1. /\ buf[k] \in Seq(Nat) /\ wire[k] \in Seq(Nat) /\ frame[k] \in Nat /\ since[k] \in Nat
      /\ published \in Nat /\ Ordered(k)
  BY DEF OrderInv, Shapes
<1>2. CASE WriteFails(k)
  <2>1. Shapes' /\ Lives'
    BY <1>2 DEF OrderInv, Shapes, Lives
  <2>2. /\ buf'[k] = buf[k] /\ wire'[k] = wire[k] /\ since'[k] = since[k] /\ frame'[k] = 0
    BY <1>2 DEF OrderInv, Shapes
  <2>3. Ordered(k)'
    BY <1>1, <1>2, <2>2 DEF Ordered, InFront, Rising
  <2>4. loop = "publish" /\ k \in todo =>
          /\ InFront(k, published)' /\ frame'[k] < published
          /\ \A m \in 1..Len(buf'[k]) : buf'[k][m] < published
    BY <1>1, <1>2, <2>2 DEF OrderInv, Due, InFront
  <2> QED BY <1>2, <2>1, <2>3, <2>4, OneKeeps DEF OrderInv, Shapes
<1>3. CASE DialEnds(k)
  <2>1. Shapes' /\ Lives'
    BY <1>3 DEF OrderInv, Shapes, Lives
  <2>2. /\ buf'[k] = buf[k] /\ wire'[k] = <<>> /\ since'[k] = since[k] /\ frame'[k] = frame[k]
    BY <1>3 DEF OrderInv, Shapes
  <2>3. Ordered(k)'
    BY <1>1, <1>3, <2>2 DEF Ordered, InFront, Rising
  <2>4. loop = "publish" /\ k \in todo =>
          /\ InFront(k, published)' /\ frame'[k] < published
          /\ \A m \in 1..Len(buf'[k]) : buf'[k][m] < published
    BY <1>1, <1>3, <2>2 DEF OrderInv, Due, InFront
  <2> QED BY <1>3, <2>1, <2>3, <2>4, OneKeeps DEF OrderInv, Shapes
<1>4. CASE Deliver(k)
  <2> DEFINE rest == Tail(wire[k])
  <2>1. /\ rest \in Seq(Nat) /\ Len(rest) = Len(wire[k]) - 1
        /\ \A m \in 1..Len(rest) : rest[m] = wire[k][m + 1]
        /\ Head(wire[k]) = wire[k][1] /\ Head(wire[k]) \in Nat /\ Len(wire[k]) >= 1
    BY <1>1, <1>4
  <2>2. Shapes'
    BY <1>4, <2>1 DEF OrderInv, Shapes
  <2>3. Lives'
    BY <1>4, <2>1 DEF OrderInv, Shapes, Lives
  <2>4. /\ buf'[k] = buf[k] /\ wire'[k] = rest /\ since'[k] = wire[k][1] /\ frame'[k] = frame[k]
    BY <1>4, <2>1 DEF OrderInv, Shapes
  <2> HIDE DEF rest
  <2>a. \A m \in 1..Len(rest) : m + 1 \in 1..Len(wire[k]) /\ rest[m] = wire[k][m + 1]
    BY <1>1, <2>1
  <2>b. 1 \in 1..Len(wire[k])
    BY <1>1, <2>1
  <2>5. Rising(rest) /\ \A m \in 1..Len(rest) : wire[k][1] < rest[m] /\ rest[m] <= published
    <3>1. ASSUME NEW m \in 1..Len(rest), NEW n \in 1..Len(rest), m < n PROVE rest[m] < rest[n]
      <4>1. Rising(wire[k])
        BY <1>1 DEF Ordered
      <4>2. m + 1 \in 1..Len(wire[k]) /\ n + 1 \in 1..Len(wire[k]) /\ m + 1 < n + 1
        BY <2>a, <3>1
      <4> QED BY <2>a, <4>1, <4>2 DEF Rising
    <3>2. ASSUME NEW m \in 1..Len(rest) PROVE wire[k][1] < rest[m] /\ rest[m] <= published
      <4>1. m + 1 \in 1..Len(wire[k]) /\ rest[m] = wire[k][m + 1] /\ 1 < m + 1
        BY <2>a
      <4>2. wire[k][1] < wire[k][m + 1]
        BY <1>1, <2>b, <4>1 DEF Ordered, Rising
      <4>3. wire[k][m + 1] <= published
        BY <1>1, <4>1 DEF Ordered
      <4> QED BY <4>1, <4>2, <4>3
    <3> QED BY <3>1, <3>2 DEF Rising
  <2>6. ASSUME NEW v \in Nat, InFront(k, v) PROVE wire[k][1] < v /\ \A m \in 1..Len(rest) : rest[m] < v
    BY <1>1, <2>a, <2>b, <2>6 DEF InFront
  <2>7. Ordered(k)'
    <3>1. wire[k][1] <= published /\ Rising(buf[k])
          /\ (frame[k] # 0 => InFront(k, frame[k]) /\ frame[k] <= published)
      BY <1>1, <2>b DEF Ordered
    <3>2. \A m \in 1..Len(buf[k]) :
            buf[k][m] \in Nat /\ InFront(k, buf[k][m]) /\ frame[k] < buf[k][m] /\ buf[k][m] <= published
      BY <1>1 DEF Ordered
    <3>3. UNCHANGED published
      BY <1>4
    <3>4. frame[k] # 0 => wire[k][1] < frame[k] /\ \A m \in 1..Len(rest) : rest[m] < frame[k]
      BY <1>1, <2>6, <3>1
    <3>5. \A n \in 1..Len(buf[k]) :
            wire[k][1] < buf[k][n] /\ \A m \in 1..Len(rest) : rest[m] < buf[k][n]
      BY <2>6, <3>2
    <3> QED BY <2>4, <2>5, <3>1, <3>2, <3>3, <3>4, <3>5 DEF Ordered, InFront
  <2>8. loop = "publish" /\ k \in todo =>
          /\ InFront(k, published)' /\ frame'[k] < published
          /\ \A m \in 1..Len(buf'[k]) : buf'[k][m] < published
    BY <1>1, <1>4, <2>4, <2>6 DEF OrderInv, Due, InFront
  <2> QED BY <1>4, <2>2, <2>3, <2>7, <2>8, OneKeeps DEF OrderInv, Shapes
<1> QED BY <1>2, <1>3, <1>4

LEMMA OrderStep == OrderInv /\ [Next]_vars => OrderInv'
<1> SUFFICES ASSUME OrderInv, [Next]_vars PROVE OrderInv'
  OBVIOUS
<1>1. CASE UNCHANGED vars
  BY <1>1 DEF vars, subjectVars, runVars, serverVars, OrderInv, Shapes, Lives, Due,
     Ordered, InFront, Rising
<1>2. CASE SubjectStep
  BY <1>2, RunKeeps, CallsKeep DEF SubjectStep
<1>3. CASE Cancel \/ CloseListener \/ Return \/ FreeSlot
  BY <1>3, ServerKeeps
<1>4. ASSUME NEW k \in Subscribers,
             \/ Accept(k) \/ Refuse(k) \/ Take(k) \/ Written(k) \/ WriteFails(k)
             \/ Leave(k) \/ HangUp(k) \/ Dial(k) \/ Deliver(k) \/ DialEnds(k)
      PROVE  OrderInv'
  BY <1>4, ServerKeeps, TakeKeeps, WrittenKeeps, ClientKeeps
<1> QED BY <1>1, <1>2, <1>3, <1>4 DEF Next

\* A concatenation, by its elements.
LEMMA Joined ==
  ASSUME NEW s \in Seq(Nat), NEW t \in Seq(Nat), NEW top \in Nat,
         Rising(s), Rising(t),
         \A m \in 1..Len(s), n \in 1..Len(t) : s[m] < t[n],
         \A m \in 1..Len(s) : s[m] <= top, \A m \in 1..Len(t) : t[m] <= top
  PROVE  /\ s \o t \in Seq(Nat) /\ Len(s \o t) = Len(s) + Len(t) /\ Rising(s \o t)
         /\ \A m \in 1..Len(s \o t) : \/ \E n \in 1..Len(s) : (s \o t)[m] = s[n]
                                      \/ \E n \in 1..Len(t) : (s \o t)[m] = t[n]
         /\ \A m \in 1..Len(s \o t) : (s \o t)[m] <= top
<1>1. /\ s \o t \in Seq(Nat) /\ Len(s \o t) = Len(s) + Len(t) /\ Len(s) \in Nat /\ Len(t) \in Nat
      /\ \A m \in 1..Len(s \o t) : (s \o t)[m] = IF m <= Len(s) THEN s[m] ELSE t[m - Len(s)]
  OBVIOUS
<1>2. ASSUME NEW m \in 1..Len(s \o t) PROVE (s \o t)[m] <= top
  BY <1>1
<1>3. ASSUME NEW m \in 1..Len(s \o t), NEW n \in 1..Len(s \o t), m < n
      PROVE  (s \o t)[m] < (s \o t)[n]
  <2>1. CASE n <= Len(s)
    BY <1>1, <1>3, <2>1 DEF Rising
  <2>2. CASE m > Len(s)
    <3>1. m - Len(s) \in 1..Len(t) /\ n - Len(s) \in 1..Len(t) /\ m - Len(s) < n - Len(s)
      BY <1>1, <1>3, <2>2
    <3>2. (s \o t)[m] = t[m - Len(s)] /\ (s \o t)[n] = t[n - Len(s)]
      BY <1>1, <1>3, <2>2
    <3> QED BY <3>1, <3>2 DEF Rising
  <2>3. CASE m <= Len(s) /\ n > Len(s)
    <3>1. m \in 1..Len(s) /\ n - Len(s) \in 1..Len(t)
      BY <1>1, <1>3, <2>3
    <3> QED BY <1>1, <1>3, <2>3, <3>1
  <2> QED BY <1>1, <2>1, <2>2, <2>3
<1>4. ASSUME NEW m \in 1..Len(s \o t)
      PROVE  \/ \E n \in 1..Len(s) : (s \o t)[m] = s[n]
             \/ \E n \in 1..Len(t) : (s \o t)[m] = t[n]
  <2>1. CASE m <= Len(s)
    BY <1>1, <2>1
  <2>2. CASE m > Len(s)
    <3>1. m - Len(s) \in 1..Len(t) /\ (s \o t)[m] = t[m - Len(s)]
      BY <1>1, <2>2
    <3> QED BY <3>1
  <2> QED BY <1>1, <2>1, <2>2
<1> QED BY <1>1, <1>2, <1>3, <1>4 DEF Rising

LEMMA OrderHolds == Spec => []OrderInv
<1>1. Init => OrderInv
  BY DEF Init, SubjectInit, OrderInv, Shapes, Lives, Due, Ordered, InFront, Rising
<1> QED BY <1>1, OrderStep, PTL DEF Spec

\* OrderInv says of each place what InOrder says of their concatenation.
LEMMA OrderIs == OrderInv => InOrder
<1> SUFFICES ASSUME OrderInv, NEW k \in Subscribers
             PROVE  LET one(v) == IF v = 0 THEN <<>> ELSE <<v>>
                        path == <<since[k]>> \o wire[k] \o one(frame[k]) \o buf[k]
                    IN  /\ \A i \in 2..Len(path) : path[i - 1] < path[i]
                        /\ path[Len(path)] <= published
  BY DEF InOrder
<1> DEFINE one == IF frame[k] = 0 THEN <<>> ELSE <<frame[k]>>
           a == <<since[k]>> \o wire[k]
           b == a \o one
           path == b \o buf[k]
<1>1. /\ buf[k] \in Seq(Nat) /\ wire[k] \in Seq(Nat) /\ frame[k] \in Nat /\ since[k] \in Nat
      /\ published \in Nat /\ Ordered(k) /\ one \in Seq(Nat) /\ <<since[k]>> \in Seq(Nat)
  BY DEF OrderInv, Shapes
<1>2. /\ a \in Seq(Nat) /\ Rising(a) /\ \A m \in 1..Len(a) : a[m] <= published
      /\ Len(a) >= 1
      /\ \A m \in 1..Len(a) : a[m] = since[k] \/ \E n \in 1..Len(wire[k]) : a[m] = wire[k][n]
  <2> DEFINE first == <<since[k]>>
  <2>1. first \in Seq(Nat) /\ Len(first) = 1 /\ first[1] = since[k]
    BY <1>1
  <2> HIDE DEF first
  <2>2. Rising(first) /\ \A m \in 1..Len(first) : first[m] = since[k]
    BY <2>1 DEF Rising
  <2>3. /\ Rising(wire[k]) /\ since[k] <= published
        /\ \A n \in 1..Len(wire[k]) : since[k] < wire[k][n] /\ wire[k][n] <= published
    BY <1>1 DEF Ordered
  <2>4. a = first \o wire[k]
    BY DEF first
  <2> HIDE DEF a
  <2>5. /\ a \in Seq(Nat) /\ Rising(a) /\ Len(a) = Len(first) + Len(wire[k])
        /\ \A m \in 1..Len(a) : a[m] <= published
        /\ \A m \in 1..Len(a) : \/ \E n \in 1..Len(first) : a[m] = first[n]
                                \/ \E n \in 1..Len(wire[k]) : a[m] = wire[k][n]
    <3>1. /\ \A m \in 1..Len(first), n \in 1..Len(wire[k]) : first[m] < wire[k][n]
          /\ \A m \in 1..Len(first) : first[m] <= published
          /\ \A n \in 1..Len(wire[k]) : wire[k][n] <= published
          /\ Rising(first) /\ Rising(wire[k])
      BY <2>2, <2>3
    <3>2. first \in Seq(Nat) /\ wire[k] \in Seq(Nat) /\ published \in Nat
      BY <1>1, <2>1
    <3> DEFINE w == wire[k]
    <3>3. /\ first \in Seq(Nat) /\ w \in Seq(Nat) /\ published \in Nat /\ Rising(first) /\ Rising(w)
          /\ \A m \in 1..Len(first), n \in 1..Len(w) : first[m] < w[n]
          /\ \A m \in 1..Len(first) : first[m] <= published
          /\ \A m \in 1..Len(w) : w[m] <= published
      BY <3>1, <3>2
    <3>4. a = first \o w
      BY <2>4
    <3> HIDE DEF w
    <3> DEFINE c == first \o w
    <3>5. /\ c \in Seq(Nat) /\ Rising(c) /\ Len(c) = Len(first) + Len(w)
          /\ \A m \in 1..Len(c) : c[m] <= published
          /\ \A m \in 1..Len(c) : \/ \E n \in 1..Len(first) : c[m] = first[n]
                                  \/ \E n \in 1..Len(w) : c[m] = w[n]
      BY <3>3, Joined
    <3>6. a = c
      BY <3>4
    <3> HIDE DEF c
    <3> QED BY <3>5, <3>6 DEF w
  <2> QED BY <1>1, <2>1, <2>2, <2>5
<1> HIDE DEF a
<1>3. \A v \in Nat : InFront(k, v) => \A m \in 1..Len(a) : a[m] < v
  BY <1>2 DEF InFront
<1>4. /\ b \in Seq(Nat) /\ Rising(b) /\ \A m \in 1..Len(b) : b[m] <= published
      /\ Len(b) >= 1
      /\ \A m \in 1..Len(b) : (\E n \in 1..Len(a) : b[m] = a[n]) \/ b[m] = frame[k]
  <2>1. CASE frame[k] = 0
    BY <1>1, <1>2, <2>1
  <2>2. CASE frame[k] # 0
    <3>1. one = <<frame[k]>> /\ Rising(one) /\ Len(one) = 1 /\ one[1] = frame[k] /\ frame[k] <= published
      BY <1>1, <2>2 DEF Ordered, Rising
    <3>2. \A m \in 1..Len(a) : a[m] < frame[k]
      BY <1>1, <1>3, <2>2 DEF Ordered
    <3> HIDE DEF one
    <3>3. \A m \in 1..Len(a), n \in 1..Len(one) : a[m] < one[n]
      BY <3>1, <3>2
    <3>4. \A m \in 1..Len(one) : one[m] <= published
      BY <3>1
    <3>5. /\ b \in Seq(Nat) /\ Rising(b) /\ Len(b) = Len(a) + Len(one)
          /\ \A m \in 1..Len(b) : b[m] <= published
          /\ \A m \in 1..Len(b) : \/ \E n \in 1..Len(a) : b[m] = a[n]
                                  \/ \E n \in 1..Len(one) : b[m] = one[n]
      <4>1. /\ a \in Seq(Nat) /\ one \in Seq(Nat) /\ published \in Nat /\ Rising(a) /\ Rising(one)
            /\ \A m \in 1..Len(a) : a[m] <= published
        BY <1>1, <1>2, <3>1
      <4> QED BY <3>3, <3>4, <4>1, Joined
    <3> QED BY <1>1, <1>2, <3>1, <3>5
  <2> QED BY <2>1, <2>2
<1> HIDE DEF b
<1>5. \A m \in 1..Len(b), n \in 1..Len(buf[k]) : b[m] < buf[k][n]
  <2>1. ASSUME NEW n \in 1..Len(buf[k])
        PROVE  buf[k][n] \in Nat /\ InFront(k, buf[k][n]) /\ frame[k] < buf[k][n]
    BY <1>1 DEF Ordered
  <2> QED BY <1>3, <1>4, <2>1
<1>6. /\ path \in Seq(Nat) /\ Rising(path) /\ Len(path) >= 1
      /\ \A m \in 1..Len(path) : path[m] <= published
  <2>1. Rising(buf[k]) /\ \A n \in 1..Len(buf[k]) : buf[k][n] <= published
    BY <1>1 DEF Ordered
  <2>2. /\ path \in Seq(Nat) /\ Rising(path) /\ Len(path) = Len(b) + Len(buf[k])
        /\ \A m \in 1..Len(path) : path[m] <= published
    BY <1>1, <1>4, <1>5, <2>1, Joined
  <2> QED BY <1>1, <1>4, <2>2
<1> HIDE DEF path
<1>7. /\ \A i \in 2..Len(path) : path[i - 1] < path[i]
      /\ path[Len(path)] <= published
  BY <1>6 DEF Rising
<1> QED BY <1>7 DEF path, b, a

\* InOrder: dropped values, stalled clients and departures leave gaps, and neither
\* the channel nor the frame in hand nor the socket reorders or repeats a value;
\* and who subscribes while values are on their way gets newer ones only.
THEOREM InOrderHolds == Spec => []InOrder
BY OrderHolds, OrderIs, PTL

-----------------------------------------------------------------------------
(* Broadcast: slots and types *)

\* The connections that have a goroutine.
Served == {k \in Subscribers : job[k] \in {"serve", "write", "leave"}}

\* SlotInv: types, lengths, the slots and the room that Next counts on.
Flags ==
  /\ {cancelled, ln, accepting, stop} \subseteq BOOLEAN
  /\ loop \in {"select", "publish", "close", "done"}
  /\ shut \subseteq Subscribers /\ dialled \in [Subscribers -> BOOLEAN]

Rooms == \A k \in Subscribers : Len(buf[k]) <= Buffer /\ Len(wire[k]) <= Wire

Slots ==
  /\ ending \in Nat /\ slots \in 0..MaxConns
  /\ IsFiniteSet(Served) /\ slots = ending + Cardinality(Served)

Quota ==
  /\ next \subseteq Publishers /\ IsFiniteSet(next)
  /\ published + Cardinality(next) <= MaxPublished

SlotInv == Flags /\ Rooms /\ Slots /\ Quota

\* A sequence of numbers is a sequence of what its elements are.
LEMMA Narrower ==
  ASSUME NEW s \in Seq(Nat), NEW T, \A m \in 1..Len(s) : s[m] \in T
  PROVE  s \in Seq(T)
<1>1. s \in [1..Len(s) -> T] /\ Len(s) \in Nat
  OBVIOUS
<1> QED BY <1>1, SeqDef

\* Values on their way are numbers of published ones, since OrderInv bounds them.
LEMMA TypesAre == OrderInv /\ SlotInv => TypeOK
<1> SUFFICES ASSUME OrderInv, SlotInv PROVE TypeOK
  OBVIOUS
<1> USE BufferAssumption, BroadcastAssumption
<1>1. published \in 0..MaxPublished
  <2>1. Cardinality(next) \in Nat
    BY FS_CardinalityType DEF SlotInv, Quota
  <2> QED BY <2>1 DEF OrderInv, Shapes, SlotInv, Quota
<1>2. ASSUME NEW k \in Subscribers
      PROVE  /\ buf[k] \in Seq(1..MaxPublished) /\ wire[k] \in Seq(1..MaxPublished)
             /\ frame[k] \in 0..MaxPublished /\ since[k] \in 0..MaxPublished
  <2>1. /\ buf[k] \in Seq(Nat) /\ wire[k] \in Seq(Nat) /\ frame[k] \in Nat /\ since[k] \in Nat
        /\ published \in Nat /\ Ordered(k)
    BY DEF OrderInv, Shapes
  <2>2. \A m \in 1..Len(buf[k]) : buf[k][m] \in 1..MaxPublished
    BY <1>1, <2>1 DEF Ordered, InFront
  <2>3. \A m \in 1..Len(wire[k]) : wire[k][m] \in 1..MaxPublished
    BY <1>1, <2>1 DEF Ordered
  <2>4. frame[k] \in 0..MaxPublished /\ since[k] \in 0..MaxPublished
    BY <1>1, <2>1 DEF Ordered
  <2> QED BY <2>1, <2>2, <2>3, <2>4, Narrower
<1>3. SubjectTypeOK
  BY <1>1, <1>2 DEF SubjectTypeOK, OrderInv, Shapes, SlotInv, Flags, Rooms, Quota
<1> QED BY <1>1, <1>2, <1>3 DEF TypeOK, OrderInv, Shapes, Lives, SlotInv, Flags, Rooms,
       Slots, Served

\* Flags and sets.
LEMMA FlagsKeep ==
  ASSUME OrderInv, Flags, [Next]_vars
  PROVE  Flags'
<1> USE DEF Flags, subjectVars, runVars, serverVars
<1>1. CASE SubjectStep
  BY <1>1 DEF OrderInv, Shapes, SubjectStep, Run, TakeStop, LoopEnds, Offer, CloseChannel,
     Close, Publish, Published, Subscribed, Unsubscribed
<1>2. CASE Cancel \/ CloseListener \/ Return \/ FreeSlot \/ UNCHANGED vars
  BY <1>2 DEF Cancel, CloseListener, Return, FreeSlot, vars
<1>3. ASSUME NEW k \in Subscribers,
             \/ Accept(k) \/ Refuse(k) \/ Take(k) \/ Written(k) \/ WriteFails(k)
             \/ Leave(k) \/ HangUp(k) \/ Deliver(k)
      PROVE  Flags'
  BY <1>3 DEF Accept, Refuse, Take, Written, WriteFails, Leave, HangUp, Deliver,
     Subscribe, Unsubscribe, Receive
<1>4. ASSUME NEW k \in Subscribers, Dial(k) \/ DialEnds(k) PROVE Flags'
  BY <1>4 DEF Dial, DialEnds
<1> QED BY <1>1, <1>2, <1>3, <1>4 DEF Next

\* Next counts those who wait before it joins them.
LEMMA QuotaKeeps ==
  ASSUME OrderInv, Quota, [Next]_vars
  PROVE  Quota'
<1> USE BufferAssumption, BroadcastAssumption DEF subjectVars, runVars
<1>1. Cardinality(next) \in Nat /\ published \in Nat
  BY FS_CardinalityType DEF Quota, OrderInv, Shapes
<1>2. ASSUME NEW q \in Publishers, Publish(q) PROVE Quota'
  <2>1. q \notin next /\ next' = next \cup {q} /\ published' = published
        /\ published + Cardinality(next) < MaxPublished
    BY <1>2 DEF Publish
  <2>2. IsFiniteSet(next') /\ Cardinality(next') = Cardinality(next) + 1
    BY <2>1, FS_AddElement DEF Quota
  <2> QED BY <1>1, <2>1, <2>2 DEF Quota
<1>3. ASSUME NEW q \in Publishers, Published(q) PROVE Quota'
  <2>1. q \in next /\ next' = next \ {q} /\ published' \in {published, published + 1}
    BY <1>3 DEF Published
  <2>2. IsFiniteSet(next') /\ Cardinality(next') = Cardinality(next) - 1
    BY <2>1, FS_RemoveElement DEF Quota
  <2> QED BY <1>1, <2>1, <2>2 DEF Quota
<1>4. CASE UNCHANGED <<next, published>>
  BY <1>4 DEF Quota
<1>5. CASE Run \/ Close \/ \E k \in Subscribers : Subscribed(k) \/ Unsubscribed(k)
  BY <1>4, <1>5 DEF Run, TakeStop, LoopEnds, Offer, CloseChannel, Close, Subscribed,
     Unsubscribed
<1>6. CASE Cancel \/ CloseListener \/ Return \/ FreeSlot \/ UNCHANGED vars
  BY <1>4, <1>6 DEF Cancel, CloseListener, Return, FreeSlot, vars
<1>7. ASSUME NEW k \in Subscribers,
             \/ Accept(k) \/ Refuse(k) \/ Take(k) \/ Written(k) \/ WriteFails(k)
             \/ Leave(k) \/ HangUp(k) \/ Dial(k) \/ Deliver(k) \/ DialEnds(k)
      PROVE  Quota'
  BY <1>4, <1>7 DEF Accept, Refuse, Take, Written, WriteFails, Leave, HangUp, Deliver,
     Dial, DialEnds, Subscribe, Unsubscribe, Receive
<1> QED BY <1>2, <1>3, <1>5, <1>6, <1>7 DEF Next, SubjectStep

\* Accept takes a slot with the connection, FreeSlot gives it back after HangUp.
LEMMA SlotsKeep ==
  ASSUME OrderInv, Slots, [Next]_vars
  PROVE  Slots'
<1> USE BufferAssumption, BroadcastAssumption DEF subjectVars, runVars, serverVars, Job
<1>1. Cardinality(Served) \in Nat
  BY FS_CardinalityType DEF Slots
<1>2. CASE Served' = Served /\ UNCHANGED <<slots, ending>>
  BY <1>2 DEF Slots
<1>3. CASE FreeSlot
  <2>1. Served' = Served /\ ending > 0 /\ ending' = ending - 1 /\ slots' = slots - 1
    BY <1>3 DEF FreeSlot, Served
  <2> QED BY <1>1, <2>1 DEF Slots
<1>4. ASSUME NEW k \in Subscribers, Accept(k) PROVE Slots'
  <2>1. k \notin Served /\ Served' = Served \cup {k}
    BY <1>4 DEF Accept, Served, OrderInv, Shapes
  <2>2. IsFiniteSet(Served') /\ Cardinality(Served') = Cardinality(Served) + 1
    BY <2>1, FS_AddElement DEF Slots
  <2>3. slots < MaxConns /\ slots' = slots + 1 /\ ending' = ending
    BY <1>4 DEF Accept
  <2> QED BY <1>1, <2>2, <2>3 DEF Slots
<1>5. ASSUME NEW k \in Subscribers, HangUp(k) PROVE Slots'
  <2>1. k \in Served /\ Served' = Served \ {k}
    BY <1>5 DEF HangUp, Served, OrderInv, Shapes
  <2>2. IsFiniteSet(Served') /\ Cardinality(Served') = Cardinality(Served) - 1
    BY <2>1, FS_RemoveElement DEF Slots
  <2>3. ending' = ending + 1 /\ slots' = slots
    BY <1>5 DEF HangUp
  <2> QED BY <1>1, <2>2, <2>3 DEF Slots
<1>6. CASE SubjectStep \/ Cancel \/ Return \/ UNCHANGED vars
  BY <1>2, <1>6 DEF SubjectStep, Cancel, Return, vars, Served
<1>7. CASE CloseListener
  BY <1>2, <1>7 DEF CloseListener, Served
<1>8. ASSUME NEW k \in Subscribers,
             Refuse(k) \/ Take(k) \/ Written(k) \/ WriteFails(k) \/ Leave(k)
      PROVE  Slots'
  BY <1>2, <1>8 DEF Refuse, Take, Written, WriteFails, Leave, OrderInv, Shapes, Served
<1>9. ASSUME NEW k \in Subscribers, Dial(k) \/ Deliver(k) \/ DialEnds(k)
      PROVE  Slots'
  BY <1>2, <1>9 DEF Dial, Deliver, DialEnds, OrderInv, Shapes, Served
<1> QED BY <1>3, <1>4, <1>5, <1>6, <1>7, <1>8, <1>9 DEF Next

\* Nothing is put where there is no room.
LEMMA RoomsKeep ==
  ASSUME OrderInv, Rooms, [Next]_vars
  PROVE  Rooms'
<1> USE BufferAssumption, BroadcastAssumption DEF subjectVars, runVars
<1>1. \A k \in Subscribers : buf[k] \in Seq(Nat) /\ wire[k] \in Seq(Nat)
  BY DEF OrderInv, Shapes
<1>2. ASSUME NEW k \in Subscribers,
             \A c \in Subscribers \ {k} : buf'[c] = buf[c] /\ wire'[c] = wire[c],
             Len(buf'[k]) <= Buffer, Len(wire'[k]) <= Wire
      PROVE  Rooms'
  BY <1>2 DEF Rooms
<1>3. CASE UNCHANGED <<buf, wire>>
  BY <1>3 DEF Rooms
<1>4. ASSUME NEW k \in Subscribers, Offer(k), UNCHANGED wire PROVE Rooms'
  <2>1. /\ Len(buf'[k]) <= Buffer /\ Len(wire'[k]) <= Wire
        /\ \A c \in Subscribers \ {k} : buf'[c] = buf[c] /\ wire'[c] = wire[c]
    BY <1>1, <1>4 DEF Offer, Rooms, OrderInv, Shapes
  <2> QED BY <1>2, <2>1
<1>5. ASSUME NEW k \in Subscribers, Subscribed(k), UNCHANGED wire PROVE Rooms'
  <2>1. /\ Len(buf'[k]) <= Buffer /\ Len(wire'[k]) <= Wire
        /\ \A c \in Subscribers \ {k} : buf'[c] = buf[c] /\ wire'[c] = wire[c]
    BY <1>1, <1>5 DEF Subscribed, Rooms, OrderInv, Shapes
  <2> QED BY <1>2, <2>1
<1>6. ASSUME NEW k \in Subscribers, Take(k) PROVE Rooms'
  <2>1. Len(Tail(buf[k])) <= Len(buf[k]) /\ Len(buf[k]) \in Nat
    BY <1>1, <1>6 DEF Take, Receive
  <2>2. /\ Len(buf'[k]) <= Buffer /\ Len(wire'[k]) <= Wire
        /\ \A c \in Subscribers \ {k} : buf'[c] = buf[c] /\ wire'[c] = wire[c]
    BY <1>1, <1>6, <2>1 DEF Take, Receive, Rooms, OrderInv, Shapes
  <2> QED BY <1>2, <2>2
<1>7. ASSUME NEW k \in Subscribers, Written(k) \/ DialEnds(k) PROVE Rooms'
  <2>1. /\ Len(buf'[k]) <= Buffer /\ Len(wire'[k]) <= Wire
        /\ \A c \in Subscribers \ {k} : buf'[c] = buf[c] /\ wire'[c] = wire[c]
    BY <1>1, <1>7 DEF Written, DialEnds, Rooms, OrderInv, Shapes
  <2> QED BY <1>2, <2>1
<1>8. ASSUME NEW k \in Subscribers, Deliver(k) PROVE Rooms'
  <2>1. Len(Tail(wire[k])) <= Len(wire[k]) /\ Len(wire[k]) \in Nat
    BY <1>1, <1>8 DEF Deliver
  <2>2. /\ Len(buf'[k]) <= Buffer /\ Len(wire'[k]) <= Wire
        /\ \A c \in Subscribers \ {k} : buf'[c] = buf[c] /\ wire'[c] = wire[c]
    BY <1>1, <1>8, <2>1 DEF Deliver, Rooms, OrderInv, Shapes
  <2> QED BY <1>2, <2>2
<1>9. CASE SubjectStep
  <2>1. CASE TakeStop \/ LoopEnds \/ Close \/ \E q \in Publishers : Publish(q) \/ Published(q)
    BY <1>3, <1>9, <2>1 DEF SubjectStep, TakeStop, LoopEnds, Close, Publish, Published
  <2>2. CASE \E k \in Subscribers : CloseChannel(k) \/ Unsubscribed(k)
    BY <1>3, <1>9, <2>2 DEF SubjectStep, CloseChannel, Unsubscribed
  <2> QED BY <1>4, <1>5, <1>9, <2>1, <2>2 DEF SubjectStep, Run
<1>10. CASE Cancel \/ CloseListener \/ Return \/ FreeSlot \/ UNCHANGED vars
  BY <1>3, <1>10 DEF Cancel, CloseListener, Return, FreeSlot, vars
<1>11. ASSUME NEW k \in Subscribers,
              Accept(k) \/ Refuse(k) \/ WriteFails(k) \/ Leave(k) \/ HangUp(k) \/ Dial(k)
       PROVE  Rooms'
  BY <1>3, <1>11 DEF Accept, Refuse, WriteFails, Leave, HangUp, Dial,
     Subscribe, Unsubscribe
<1> QED BY <1>6, <1>7, <1>8, <1>9, <1>10, <1>11 DEF Next

\* TypeOK of Broadcast: a slot is taken exactly for each connection that has a
\* goroutine, the one that has closed its connection and not yet returned included,
\* and never more than maxBroadcastConns.
THEOREM SlotsHold == Spec => []TypeOK
<1> USE BufferAssumption, BroadcastAssumption
<1>1. Init => SlotInv
  <2> SUFFICES ASSUME Init PROVE SlotInv
    OBVIOUS
  <2>1. Served = {} /\ next = {}
    BY DEF Init, SubjectInit, Served
  <2>2. IsFiniteSet({}) /\ Cardinality({}) = 0
    BY FS_EmptySet
  <2>3. Slots /\ Quota
    BY <2>1, <2>2 DEF Init, SubjectInit, Slots, Quota
  <2>4. Flags
    BY DEF Init, SubjectInit, Flags
  <2>5. \A k \in Subscribers : Len(buf[k]) = 0 /\ Len(wire[k]) = 0
    BY DEF Init, SubjectInit
  <2>6. Rooms
    BY <2>5 DEF Rooms
  <2> QED BY <2>3, <2>4, <2>6 DEF SlotInv
<1>2. OrderInv /\ SlotInv /\ [Next]_vars => SlotInv'
  BY FlagsKeep, QuotaKeeps, SlotsKeep, RoomsKeep DEF SlotInv
<1>3. OrderInv /\ SlotInv => TypeOK
  BY TypesAre
<1> QED BY <1>1, <1>2, <1>3, OrderHolds, PTL DEF Spec
=============================================================================
