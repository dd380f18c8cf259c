-------------------------- MODULE ZoneStreamProofs --------------------------
(***************************************************************************)
(* Theorems about ZoneStream, for any number of listeners, every capacity  *)
(* of the channel and every number of events.  OrderedSpec needs an        *)
(* invariant of its own: what lies between the consumer and the thread is  *)
(* in the channel, in the thread's hand, or undecodable.                   *)
(***************************************************************************)
EXTENDS ZoneStream, SequenceTheorems, TLAPS

USE ZoneAssumption

Events == [payload : Payloads, height : Nat, run : Nat]

----------------------------------------------------------------------------
(* Types. *)

LEMMA EmitType ==
  ASSUME TypeOK, NEW p \in Payloads, NEW h \in Nat, Emit(p, h)
  PROVE  log' \in Seq(Events)
<1>1. Run \in Nat
  <2>1. log \in Seq(Events)
    BY DEF TypeOK, Events
  <2>2. ASSUME log # <<>> PROVE log[Len(log)] \in Events
    BY <2>1, <2>2
  <2>. QED
    BY <2>2 DEF Run, Events
<1>2. [payload |-> p, height |-> h,
       run |-> IF last[Processed] = 0 THEN Run + 1 ELSE Run] \in Events
  BY <1>1 DEF Events
<1>. QED
  BY <1>2 DEF Emit, TypeOK, Events

\* The types do not depend on the module's side.
LEMMA TypeStep ==
  ASSUME TypeOK, [Next]_vars
  PROVE  TypeOK'
<1>1. CASE Module \/ LinkDown
  <2>1. log' \in Seq(Events) /\ link' \in {"up", "down"}
    <3>1. CASE FeedItem
      <4>1. PICK p \in Payloads \ {"null"}, h \in 1 .. MaxHeight : Emit(p, h)
        BY <3>1 DEF FeedItem
      <4>2. p \in Payloads /\ h \in Nat
        OBVIOUS
      <4>. QED
        BY <4>1, <4>2, EmitType DEF Emit, TypeOK
    <3>2. CASE FeedEnd
      <4>1. Emit("null", 0)
        BY <3>2 DEF FeedEnd
      <4>. QED
        BY <4>1, EmitType DEF Emit, TypeOK, Payloads
    <3>3. CASE FeedOpen \/ FeedCut \/ LinkDown
      BY <3>3 DEF FeedOpen, FeedCut, LinkDown, TypeOK, Events
    <3>. QED
      BY <1>1, <3>1, <3>2, <3>3 DEF Module
  <2>2. UNCHANGED <<thread, next, chan, stream, at>>
    BY <1>1 DEF Module, FeedOpen, FeedItem, FeedEnd, FeedCut, LinkDown, Emit
  <2>. QED
    BY <2>1, <2>2 DEF TypeOK, Events
<1>2. ASSUME NEW l \in Listeners, Send(l)
      PROVE  TypeOK'
  <2>1. CASE chan' = chan
    BY <1>2, <2>1 DEF Send, goto, feedVars, TypeOK
  <2>2. CASE Len(chan[l]) < Capacity /\ chan' = [chan EXCEPT ![l] = Append(@, next[l])]
    <3>1. /\ Append(chan[l], next[l]) \in Seq(Nat)
          /\ Len(Append(chan[l], next[l])) <= Capacity
      BY <2>2 DEF TypeOK
    <3>. QED
      BY <1>2, <2>2, <3>1 DEF Send, goto, feedVars, TypeOK
  <2>. QED
    BY <1>2, <2>1, <2>2 DEF Send
<1>3. ASSUME NEW l \in Listeners, Poll(l)
      PROVE  TypeOK'
  <2>1. /\ Head(chan[l]) \in Nat
        /\ Tail(chan[l]) \in Seq(Nat)
        /\ Len(Tail(chan[l])) <= Capacity
    BY <1>3 DEF Poll, TypeOK
  <2>. QED
    BY <1>3, <2>1 DEF Poll, feedVars, TypeOK
<1>4. ASSUME NEW l \in Listeners, RecvEvent(l)
      PROVE  TypeOK'
  <2>1. AfterItem(block_item(log[next[l] + 1].payload)) \in {"send", "done", "check"}
    BY DEF AfterItem
  <2>. QED
    BY <1>4, <2>1 DEF RecvEvent, goto, feedVars, TypeOK
<1>5. ASSUME NEW l \in Listeners,
             Subscribe(l) \/ SubscribeFails(l) \/ Check(l) \/ RecvNothing(l)
               \/ PollNone(l)
      PROVE  TypeOK'
  <2>1. Len(log) \in Nat
    BY DEF TypeOK
  <2>2. CASE Subscribe(l)
    BY <2>1, <2>2 DEF Subscribe, feedVars, TypeOK
  <2>3. CASE SubscribeFails(l) \/ PollNone(l)
    BY <2>3 DEF SubscribeFails, PollNone, feedVars, TypeOK
  <2>4. CASE Check(l)
    BY <2>4 DEF Check, goto, feedVars, TypeOK
  <2>5. CASE RecvNothing(l)
    BY <2>5 DEF RecvNothing, goto, feedVars, TypeOK
  <2>. QED
    BY <1>5, <2>2, <2>3, <2>4, <2>5
<1>6. ASSUME NEW l \in Listeners, Drop(l)
      PROVE  TypeOK'
  <2>1. <<>> \in Seq(Nat) /\ Len(<<>>) <= Capacity
    OBVIOUS
  <2>. QED
    BY <1>6, <2>1 DEF Drop, feedVars, TypeOK
<1>7. CASE UNCHANGED vars
  BY <1>7 DEF vars, feedVars, TypeOK
<1>. QED
  BY <1>1, <1>2, <1>3, <1>4, <1>5, <1>6, <1>7 DEF Next, Listen, Consume

LEMMA TypeInit == Init => TypeOK
<1>1. <<>> \in Seq(Nat) /\ Len(<<>>) = 0 /\ <<>> \in Seq(Events)
  OBVIOUS
<1>. QED
  BY <1>1 DEF Init, TypeOK, Events

\* Every behaviour of the module, the listeners and the consumers stays within
\* its types; in particular no channel ever holds more than its capacity, so
\* that a slow consumer stops the thread and not the items.
THEOREM TypeCorrect == Spec => []TypeOK
<1>. QED
  BY TypeInit, TypeStep, PTL DEF Spec

----------------------------------------------------------------------------
(* What lies between the consumer and the thread. *)

\* The event at p, which the thread has read, is still on its way: it is in the
\* channel, or in the thread's hand, or the end at which the thread stopped.
Pending(l, p) ==
  \/ \E k \in 1 .. Len(chan[l]) : chan[l][k] = p
  \/ thread[l] = "send" /\ p = next[l]
  \/ thread[l] = "done" /\ p = next[l] /\ Kind(p) = "end"

\* The channel of an open stream: items, in order, not yet received.
InOrder(l) ==
  /\ \A k \in 1 .. Len(chan[l]) :
       at[l] < chan[l][k] /\ chan[l][k] <= next[l] /\ Kind(chan[l][k]) = "item"
  /\ \A j, k \in 1 .. Len(chan[l]) : j < k => chan[l][j] < chan[l][k]

NothingLost(l) ==
  \A p \in at[l] + 1 .. next[l] : Kind(p) # "bad" => Pending(l, p)

\* The thread holds an item that is after the channel's, or has stopped for a
\* reason.
InHand(l) ==
  /\ thread[l] = "send" =>
       /\ at[l] < next[l] /\ Kind(next[l]) = "item"
       /\ \A k \in 1 .. Len(chan[l]) : chan[l][k] < next[l]
  /\ thread[l] = "done" =>
       \/ at[l] < next[l] /\ Kind(next[l]) = "end"
       \/ link = "down" /\ next[l] = Len(log)

OpenInv(l) ==
  /\ at[l] <= next[l] /\ next[l] <= Len(log)
  /\ InOrder(l) /\ NothingLost(l) /\ InHand(l)

ListenerInv(l) ==
  /\ stream[l] \in {"none", "failed"} => chan[l] = <<>> /\ thread[l] = "none"
  /\ stream[l] = "open" => OpenInv(l)

Inv == \A l \in Listeners : ListenerInv(l)

\* Events stay what they are.
LEMMA KindStays ==
  ASSUME TypeOK, NEW e, log' = Append(log, e), NEW p \in 1 .. Len(log)
  PROVE  Kind(p)' = Kind(p)
<1>1. log'[p] = log[p]
  BY DEF TypeOK
<1>. QED
  BY <1>1 DEF Kind

\* A step of the module or the host.
LEMMA ModuleStep ==
  ASSUME TypeOK, Inv, Module \/ LinkDown
  PROVE  Inv'
<1>1. UNCHANGED <<thread, next, chan, stream, at>>
  BY DEF Module, FeedOpen, FeedItem, FeedEnd, FeedCut, LinkDown, Emit
<1>2. CASE UNCHANGED log
  <2>1. link = "down" => link' = "down"
    BY DEF Module, FeedOpen, FeedItem, FeedEnd, FeedCut, LinkDown, Emit
  <2>. QED
    BY <1>1, <1>2, <2>1 DEF Inv, ListenerInv, OpenInv, InOrder, NothingLost, Pending,
                            InHand, Kind
<1>3. ASSUME link = "up", NEW e, log' = Append(log, e)
      PROVE  Inv'
  <2>. SUFFICES ASSUME NEW l \in Listeners, stream[l] = "open"
                PROVE  OpenInv(l)'
    BY <1>1 DEF Inv, ListenerInv
  <2>1. OpenInv(l)
    BY DEF Inv, ListenerInv
  <2>2. /\ at[l] \in Nat /\ next[l] \in Nat /\ chan[l] \in Seq(Nat)
        /\ Len(log) \in Nat /\ Len(log') = Len(log) + 1
    BY <1>3 DEF TypeOK
  <2>3. \A p \in 1 .. next[l] : Kind(p)' = Kind(p)
    <3>1. \A p \in 1 .. Len(log) : Kind(p)' = Kind(p)
      BY <1>3, KindStays
    <3>. QED
      BY <2>1, <2>2, <3>1 DEF OpenInv
  <2>4. InOrder(l)'
    <3>1. \A k \in 1 .. Len(chan[l]) : chan[l][k] \in 1 .. next[l]
      BY <2>1, <2>2 DEF OpenInv, InOrder
    <3>. QED
      BY <1>1, <2>1, <2>3, <3>1 DEF OpenInv, InOrder
  <2>5. NothingLost(l)'
    <3>1. \A p \in at[l] + 1 .. next[l] : p \in 1 .. next[l]
      BY <2>2
    <3>2. \A p \in at[l] + 1 .. next[l] : Pending(l, p) => Pending(l, p)'
      BY <1>1, <2>3, <3>1 DEF Pending
    <3>. QED
      BY <1>1, <2>1, <2>3, <3>1, <3>2 DEF OpenInv, NothingLost
  <2>6. InHand(l)'
    <3>1. at[l] < next[l] => next[l] \in 1 .. next[l]
      BY <2>2
    <3>. QED
      BY <1>1, <1>3, <2>1, <2>3, <3>1 DEF OpenInv, InHand
  <2>. QED
    BY <1>1, <2>1, <2>2, <2>4, <2>5, <2>6 DEF OpenInv
<1>4. CASE FeedItem \/ FeedEnd
  <2>1. PICK p, h : Emit(p, h)
    BY <1>4 DEF FeedItem, FeedEnd
  <2>. QED
    BY <1>3, <2>1 DEF Emit
<1>. QED
  BY <1>2, <1>4 DEF Module, FeedOpen, FeedCut, LinkDown

\* A listener's invariant depends on its own variables, the log and the link.
LEMMA OthersStay ==
  ASSUME Inv, NEW l \in Listeners, UNCHANGED feedVars,
         ListenerInv(l)',
         \A m \in Listeners \ {l} :
           /\ thread'[m] = thread[m] /\ next'[m] = next[m] /\ chan'[m] = chan[m]
           /\ stream'[m] = stream[m] /\ at'[m] = at[m]
  PROVE  Inv'
<1>. SUFFICES ASSUME NEW m \in Listeners, m # l
              PROVE  ListenerInv(m)'
  BY DEF Inv
<1>1. ListenerInv(m)
  BY DEF Inv
<1>. QED
  BY <1>1 DEF feedVars, ListenerInv, OpenInv, InOrder, NothingLost, Pending, InHand,
              Kind

LEMMA RecvEventStep ==
  ASSUME TypeOK, Inv, NEW l \in Listeners, RecvEvent(l)
  PROVE  Inv'
<1>1. /\ at[l] \in Nat /\ next[l] \in Nat /\ next'[l] = next[l] + 1
      /\ thread'[l] = AfterItem(Kind(next'[l]))
      /\ UNCHANGED <<log, link, chan, stream, at>>
      /\ Len(log) \in Nat /\ chan[l] \in Seq(Nat) /\ next[l] < Len(log)
      /\ thread[l] = "recv"
  BY DEF TypeOK, RecvEvent, goto, feedVars, Kind
<1>2. ASSUME stream[l] = "open"
      PROVE  ListenerInv(l)'
  <2>1. OpenInv(l)
    BY <1>2 DEF Inv, ListenerInv
  <2>2. InOrder(l)'
    <3>1. \A k \in 1 .. Len(chan[l]) : chan[l][k] \in Nat
      BY <1>1
    <3>. QED
      BY <1>1, <2>1, <3>1 DEF OpenInv, InOrder, Kind
  <2>3. NothingLost(l)'
    <3>. SUFFICES ASSUME NEW p \in at[l] + 1 .. next[l] + 1, Kind(p) # "bad"
                  PROVE  Pending(l, p)'
      BY <1>1 DEF NothingLost, Kind
    <3>1. CASE p = next[l] + 1
      <4>1. Kind(p) \in {"item", "end"}
        BY DEF Kind, block_item
      <4>2. thread'[l] = "send" \/ (thread'[l] = "done" /\ Kind(p) = "end")
        BY <1>1, <3>1, <4>1 DEF AfterItem
      <4>. QED
        BY <1>1, <3>1, <4>2 DEF Pending, Kind
    <3>2. CASE p # next[l] + 1
      <4>1. p \in at[l] + 1 .. next[l]
        BY <1>1, <2>1, <3>2 DEF OpenInv
      <4>2. Pending(l, p)
        BY <2>1, <4>1 DEF OpenInv, NothingLost
      <4>. QED
        BY <1>1, <4>2 DEF Pending
    <3>. QED
      BY <3>1, <3>2
  <2>4. InHand(l)'
    <3>1. at[l] < next'[l] /\ \A k \in 1 .. Len(chan[l]) : chan[l][k] < next'[l]
      BY <1>1, <2>1 DEF OpenInv, InOrder
    <3>2. /\ thread'[l] = "send" => Kind(next'[l]) = "item"
          /\ thread'[l] = "done" => Kind(next'[l]) = "end"
      BY <1>1 DEF AfterItem
    <3>. QED
      BY <1>1, <3>1, <3>2 DEF InHand, Kind
  <2>5. at[l] <= next'[l] /\ next'[l] <= Len(log)
    BY <1>1, <2>1 DEF OpenInv
  <2>. QED
    BY <1>1, <1>2, <2>2, <2>3, <2>4, <2>5 DEF ListenerInv, OpenInv
<1>3. ASSUME stream[l] # "open"
      PROVE  ListenerInv(l)'
  BY <1>1, <1>3 DEF Inv, ListenerInv
<1>. QED
  BY <1>1, <1>2, <1>3, OthersStay DEF RecvEvent, goto, TypeOK

LEMMA SendStep ==
  ASSUME TypeOK, Inv, NEW l \in Listeners, Send(l)
  PROVE  Inv'
<1>1. /\ at[l] \in Nat /\ next[l] \in Nat /\ chan[l] \in Seq(Nat)
      /\ UNCHANGED <<log, link, next, stream, at>>
      /\ thread[l] = "send"
  BY DEF TypeOK, Send, feedVars
<1>2. ASSUME stream[l] = "open"
      PROVE  ListenerInv(l)'
  <2>1. OpenInv(l)
    BY <1>2 DEF Inv, ListenerInv
  <2>2. thread'[l] = "check" /\ chan'[l] = Append(chan[l], next[l])
    BY <1>2 DEF Send, goto, TypeOK
  <2>3. /\ Len(chan'[l]) = Len(chan[l]) + 1
        /\ \A k \in 1 .. Len(chan[l]) : chan'[l][k] = chan[l][k]
        /\ chan'[l][Len(chan[l]) + 1] = next[l]
        /\ Len(chan[l]) \in Nat
    BY <1>1, <2>2
  <2>4. InOrder(l)'
    <3>1. ASSUME NEW k \in 1 .. Len(chan'[l])
          PROVE  /\ at[l] < chan'[l][k] /\ chan'[l][k] <= next[l]
                 /\ Kind(chan'[l][k]) = "item"
      <4>1. CASE k = Len(chan[l]) + 1
        BY <1>1, <2>1, <2>3, <4>1 DEF OpenInv, InHand
      <4>2. CASE k \in 1 .. Len(chan[l])
        BY <2>1, <2>3, <4>2 DEF OpenInv, InOrder
      <4>. QED
        BY <2>3, <4>1, <4>2
    <3>2. ASSUME NEW j \in 1 .. Len(chan'[l]), NEW k \in 1 .. Len(chan'[l]), j < k
          PROVE  chan'[l][j] < chan'[l][k]
      <4>1. j \in 1 .. Len(chan[l])
        BY <2>3, <3>2
      <4>2. CASE k = Len(chan[l]) + 1
        BY <1>1, <2>1, <2>3, <4>1, <4>2 DEF OpenInv, InHand
      <4>3. CASE k \in 1 .. Len(chan[l])
        BY <2>1, <2>3, <3>2, <4>1, <4>3 DEF OpenInv, InOrder
      <4>. QED
        BY <2>3, <4>2, <4>3
    <3>. QED
      BY <1>1, <3>1, <3>2 DEF InOrder, Kind
  <2>5. NothingLost(l)'
    <3>1. ASSUME NEW p \in at[l] + 1 .. next[l], Pending(l, p)
          PROVE  \E k \in 1 .. Len(chan'[l]) : chan'[l][k] = p
      <4>1. CASE p = next[l]
        <5>1. Len(chan[l]) + 1 \in 1 .. Len(chan'[l])
          BY <2>3
        <5>. QED
          BY <2>3, <4>1, <5>1
      <4>2. CASE p # next[l]
        <5>1. PICK k \in 1 .. Len(chan[l]) : chan[l][k] = p
          BY <3>1, <4>2 DEF Pending
        <5>2. k \in 1 .. Len(chan'[l]) /\ chan'[l][k] = p
          BY <2>3, <5>1
        <5>. QED
          BY <5>2
      <4>. QED
        BY <4>1, <4>2
    <3>. QED
      BY <1>1, <2>1, <3>1 DEF OpenInv, NothingLost, Pending, Kind
  <2>. QED
    BY <1>1, <1>2, <2>1, <2>2, <2>4, <2>5 DEF ListenerInv, OpenInv, InHand
<1>3. ASSUME stream[l] = "dropped" \/ stream[l] = "over"
      PROVE  ListenerInv(l)'
  BY <1>1, <1>3 DEF ListenerInv
<1>4. ASSUME stream[l] \in {"none", "failed"}
      PROVE  ListenerInv(l)'
  BY <1>1, <1>4 DEF Inv, ListenerInv
<1>. QED
  BY <1>2, <1>3, <1>4, OthersStay DEF Send, goto, TypeOK

LEMMA PollStep ==
  ASSUME TypeOK, Inv, NEW l \in Listeners, Poll(l)
  PROVE  Inv'
<1>1. /\ next[l] \in Nat /\ chan[l] \in Seq(Nat) /\ chan[l] # <<>>
      /\ at'[l] = chan[l][1] /\ chan'[l] = Tail(chan[l])
      /\ UNCHANGED <<log, link, next, stream, thread>>
      /\ stream[l] = "open"
  BY DEF TypeOK, Poll, feedVars
<1>2. OpenInv(l)
  BY <1>1 DEF Inv, ListenerInv
<1>3. /\ Len(chan[l]) \in Nat /\ Len(chan[l]) >= 1
      /\ Len(chan'[l]) = Len(chan[l]) - 1
      /\ \A k \in 1 .. Len(chan'[l]) : chan'[l][k] = chan[l][k + 1]
      /\ \A k \in 1 .. Len(chan[l]) : chan[l][k] \in Nat
  BY <1>1
<1>4. /\ at[l] < at'[l] /\ at'[l] <= next[l] /\ Kind(at'[l]) = "item"
      /\ at[l] \in Nat /\ at'[l] \in Nat
  BY <1>1, <1>2, <1>3 DEF OpenInv, InOrder, TypeOK
<1>5. InOrder(l)'
  <2>1. ASSUME NEW k \in 1 .. Len(chan'[l])
        PROVE  /\ at'[l] < chan'[l][k] /\ chan'[l][k] <= next[l]
               /\ Kind(chan'[l][k]) = "item"
    <3>1. k + 1 \in 1 .. Len(chan[l]) /\ 1 \in 1 .. Len(chan[l]) /\ 1 < k + 1
      BY <1>3
    <3>. QED
      BY <1>1, <1>2, <1>3, <3>1 DEF OpenInv, InOrder
  <2>2. ASSUME NEW j \in 1 .. Len(chan'[l]), NEW k \in 1 .. Len(chan'[l]), j < k
        PROVE  chan'[l][j] < chan'[l][k]
    <3>1. j + 1 \in 1 .. Len(chan[l]) /\ k + 1 \in 1 .. Len(chan[l]) /\ j + 1 < k + 1
      BY <1>3, <2>2
    <3>. QED
      BY <1>2, <1>3, <3>1 DEF OpenInv, InOrder
  <2>. QED
    BY <1>1, <2>1, <2>2 DEF InOrder, Kind
<1>6. NothingLost(l)'
  <2>. SUFFICES ASSUME NEW p \in at'[l] + 1 .. next[l], Kind(p) # "bad"
                PROVE  Pending(l, p)'
    BY <1>1 DEF NothingLost, Kind
  <2>1. p \in at[l] + 1 .. next[l]
    BY <1>1, <1>4
  <2>2. Pending(l, p)
    BY <1>2, <2>1 DEF OpenInv, NothingLost
  <2>3. CASE \E k \in 1 .. Len(chan[l]) : chan[l][k] = p
    <3>1. PICK k \in 1 .. Len(chan[l]) : chan[l][k] = p
      BY <2>3
    <3>2. k # 1
      BY <1>1, <1>4, <3>1
    <3>3. k - 1 \in 1 .. Len(chan'[l]) /\ chan'[l][k - 1] = p
      BY <1>3, <3>1, <3>2
    <3>. QED
      BY <3>3 DEF Pending
  <2>. QED
    BY <1>1, <2>2, <2>3 DEF Pending, Kind
<1>7. InHand(l)'
  <2>1. 1 \in 1 .. Len(chan[l])
    BY <1>3
  <2>2. ASSUME thread[l] = "send"
        PROVE  /\ at'[l] < next[l]
               /\ \A k \in 1 .. Len(chan'[l]) : chan'[l][k] < next[l]
    <3>1. \A k \in 1 .. Len(chan[l]) : chan[l][k] < next[l]
      BY <1>2, <2>2 DEF OpenInv, InHand
    <3>2. ASSUME NEW k \in 1 .. Len(chan'[l])
          PROVE  chan'[l][k] < next[l]
      <4>1. k + 1 \in 1 .. Len(chan[l]) /\ chan'[l][k] = chan[l][k + 1]
        BY <1>3
      <4>. QED
        BY <3>1, <4>1
    <3>. QED
      BY <1>1, <2>1, <3>1, <3>2
  <2>3. ASSUME Kind(next[l]) = "end"
        PROVE  at'[l] < next[l]
    BY <1>1, <1>4, <2>3
  <2>. QED
    BY <1>1, <1>2, <2>2, <2>3 DEF OpenInv, InHand, Kind
<1>8. ListenerInv(l)'
  BY <1>1, <1>2, <1>4, <1>5, <1>6, <1>7 DEF ListenerInv, OpenInv
<1>. QED
  BY <1>8, OthersStay DEF Poll, TypeOK

\* The steps that move no item.
LEMMA QuietStep ==
  ASSUME TypeOK, Inv, NEW l \in Listeners,
         Subscribe(l) \/ SubscribeFails(l) \/ Check(l) \/ RecvNothing(l)
           \/ PollNone(l) \/ Drop(l)
  PROVE  Inv'
<1>1. ListenerInv(l)
  BY DEF Inv
<1>2. /\ at[l] \in Nat /\ next[l] \in Nat /\ Len(log) \in Nat
      /\ chan[l] \in Seq(Nat)
  BY DEF TypeOK
<1>3. ASSUME Subscribe(l)
      PROVE  ListenerInv(l)'
  <2>1. /\ stream'[l] = "open" /\ thread'[l] = "check" /\ chan'[l] = <<>>
        /\ next'[l] = Len(log) /\ at'[l] = Len(log) /\ UNCHANGED <<log, link>>
    BY <1>1, <1>3 DEF Subscribe, feedVars, ListenerInv, TypeOK
  <2>2. Len(chan'[l]) = 0 /\ Len(log) + 1 .. Len(log) = {}
    BY <1>2, <2>1
  <2>. QED
    BY <1>2, <2>1, <2>2 DEF ListenerInv, OpenInv, InOrder, NothingLost, InHand
<1>4. ASSUME SubscribeFails(l) \/ PollNone(l)
      PROVE  ListenerInv(l)'
  BY <1>1, <1>4 DEF SubscribeFails, PollNone, ListenerInv, TypeOK
<1>5. ASSUME Drop(l)
      PROVE  ListenerInv(l)'
  BY <1>5 DEF Drop, ListenerInv, TypeOK
<1>6. ASSUME Check(l) \/ RecvNothing(l)
      PROVE  ListenerInv(l)'
  <2>1. /\ UNCHANGED <<log, link, next, chan, stream, at>>
        /\ thread[l] \in {"check", "recv"}
        /\ \/ thread'[l] \in {"check", "recv"}
           \/ thread'[l] = "done" /\ stream[l] = "dropped"
           \/ thread'[l] = "done" /\ next[l] = Len(log) /\ link = "down"
    BY <1>6 DEF Check, RecvNothing, goto, feedVars, TypeOK
  <2>2. ASSUME NEW p, Pending(l, p)
        PROVE  Pending(l, p)'
    BY <2>1, <2>2 DEF Pending
  <2>. QED
    BY <1>1, <2>1, <2>2 DEF ListenerInv, OpenInv, InOrder, NothingLost, InHand, Kind
<1>7. ListenerInv(l)'
  BY <1>3, <1>4, <1>5, <1>6
<1>. QED
  BY <1>7, OthersStay DEF Subscribe, SubscribeFails, PollNone, Drop, Check,
     RecvNothing, goto, TypeOK

LEMMA InvStep ==
  ASSUME TypeOK, Inv, [Next]_vars
  PROVE  Inv'
<1>1. CASE UNCHANGED vars
  BY <1>1 DEF vars, feedVars, Inv, ListenerInv, OpenInv, InOrder, NothingLost, Pending,
              InHand, Kind
<1>. QED
  BY <1>1, ModuleStep, QuietStep, RecvEventStep, SendStep, PollStep
     DEF Next, Listen, Consume

LEMMA InvInit == Init => Inv
BY DEF Init, Inv, ListenerInv

\* Every item that the thread of an open stream has read and the consumer has
\* not received is on its way, in order, and the thread stops only at an end or
\* at the end of an inbox whose sender is gone.
THEOREM InvCorrect == Spec => []Inv
<1>. QED
  BY TypeInit, TypeStep, InvInit, InvStep, PTL DEF Spec

----------------------------------------------------------------------------
(* The refinement. *)

AbsLog == [k \in 1 .. Len(log) |-> Kind(k)]
AbsState == [l \in Listeners |-> IF stream[l] = "failed" THEN "none" ELSE stream[l]]

LEMMA AbsLogLen ==
  ASSUME TypeOK
  PROVE  /\ Len(log) \in Nat /\ Len(AbsLog) = Len(log)
         /\ \A k \in 1 .. Len(log) : AbsLog[k] = Kind(k)
<1>1. Len(log) \in Nat
  BY DEF TypeOK
<1>. QED
  BY <1>1 DEF AbsLog

LEMMA RefineInit == Init => Ordered!Init
BY DEF Init, Ordered!Init

\* The steps that do not touch the log leave its image alone.
LEMMA AbsLogSame == UNCHANGED log => UNCHANGED AbsLog
BY DEF AbsLog, Kind

LEMMA RefineEmit ==
  ASSUME TypeOK, TypeOK', NEW p, NEW h, Emit(p, h)
  PROVE  Ordered!Emit
<1>1. Len(log') = Len(log) + 1 /\ \A k \in 1 .. Len(log) : Kind(k)' = Kind(k)
  <2>1. Len(log') = Len(log) + 1
    BY DEF Emit, TypeOK
  <2>. QED
    BY <2>1, KindStays DEF Emit
<1>2. /\ Len(AbsLog') = Len(AbsLog) + 1
      /\ \A k \in 1 .. Len(AbsLog) : AbsLog'[k] = AbsLog[k]
  <2>1. /\ Len(log)' \in Nat /\ Len(AbsLog)' = Len(log)'
        /\ \A k \in 1 .. Len(log)' : AbsLog'[k] = Kind(k)'
    BY <1>1, AbsLogLen DEF AbsLog
  <2>. QED
    BY <1>1, <2>1, AbsLogLen
<1>. QED
  BY <1>2 DEF Emit, Ordered!Emit, AbsLog

\* Nothing that means something lies before the first item of the channel.
LEMMA FirstIsNext ==
  ASSUME TypeOK, Inv, NEW l \in Listeners, Poll(l)
  PROVE  /\ at'[l] \in at[l] + 1 .. Len(log) /\ Kind(at'[l]) = "item"
         /\ \A p \in at[l] + 1 .. at'[l] - 1 : Kind(p) = "bad"
<1>1. /\ OpenInv(l) /\ at[l] \in Nat /\ next[l] \in Nat /\ Len(log) \in Nat
      /\ chan[l] \in Seq(Nat) /\ chan[l] # <<>> /\ at'[l] = chan[l][1]
  BY DEF Inv, ListenerInv, Poll, TypeOK
<1>2. 1 \in 1 .. Len(chan[l]) /\ at'[l] \in Nat
  BY <1>1
<1>3. /\ at[l] < at'[l] /\ at'[l] <= next[l] /\ Kind(at'[l]) = "item"
      /\ next[l] <= Len(log)
  BY <1>1, <1>2 DEF OpenInv, InOrder
<1>4. ASSUME NEW p \in at[l] + 1 .. at'[l] - 1, Kind(p) # "bad"
      PROVE  FALSE
  <2>1. p \in at[l] + 1 .. next[l] /\ p < at'[l] /\ p < next[l]
    BY <1>1, <1>2, <1>3
  <2>2. PICK k \in 1 .. Len(chan[l]) : chan[l][k] = p
    <3>1. Pending(l, p)
      BY <1>1, <1>4, <2>1 DEF OpenInv, NothingLost
    <3>. QED
      BY <2>1, <3>1 DEF Pending
  <2>3. chan[l][1] <= chan[l][k]
    BY <1>1, <1>2, <2>2 DEF OpenInv, InOrder
  <2>. QED
    BY <1>1, <1>2, <2>1, <2>2, <2>3
<1>. QED
  BY <1>1, <1>2, <1>3, <1>4

\* A stream that yields None has nothing left.
LEMMA NothingLeft ==
  ASSUME TypeOK, Inv, NEW l \in Listeners, PollNone(l)
  PROVE  \/ \E i \in at[l] + 1 .. Len(log) :
              Kind(i) = "end" /\ \A p \in at[l] + 1 .. i - 1 : Kind(p) = "bad"
         \/ /\ link = "down"
            /\ \A p \in at[l] + 1 .. Len(log) + 1 - 1 : Kind(p) = "bad"
<1>1. /\ OpenInv(l) /\ at[l] \in Nat /\ next[l] \in Nat /\ Len(log) \in Nat
      /\ chan[l] = <<>> /\ thread[l] = "done"
  BY DEF Inv, ListenerInv, PollNone, TypeOK
<1>2. \A p \in at[l] + 1 .. next[l] :
        Kind(p) = "bad" \/ (p = next[l] /\ Kind(p) = "end")
  BY <1>1 DEF OpenInv, NothingLost, Pending
<1>3. CASE at[l] < next[l] /\ Kind(next[l]) = "end"
  <2>1. next[l] \in at[l] + 1 .. Len(log)
    BY <1>1, <1>3 DEF OpenInv
  <2>2. \A p \in at[l] + 1 .. next[l] - 1 : Kind(p) = "bad"
    BY <1>1, <1>2
  <2>. QED
    BY <1>3, <2>1, <2>2
<1>4. CASE link = "down" /\ next[l] = Len(log) /\ ~(at[l] < next[l] /\ Kind(next[l]) = "end")
  BY <1>1, <1>2, <1>4
<1>. QED
  BY <1>1, <1>3, <1>4 DEF OpenInv, InHand

LEMMA RefineConsumer ==
  ASSUME TypeOK, Inv, NEW l \in Listeners,
         Subscribe(l) \/ Poll(l) \/ PollNone(l) \/ Drop(l)
  PROVE  Ordered!Open(l) \/ Ordered!Receive(l) \/ Ordered!Over(l) \/ Ordered!Drop(l)
<1>1. UNCHANGED <<AbsLog, link>>
  BY AbsLogSame DEF Subscribe, Poll, PollNone, Drop, feedVars
<1>2. CASE Subscribe(l)
  <2>1. /\ AbsState[l] = "none" /\ AbsState' = [AbsState EXCEPT ![l] = "open"]
        /\ at' = [at EXCEPT ![l] = Len(AbsLog)]
    BY <1>2, AbsLogLen DEF Subscribe, AbsState, TypeOK
  <2>. QED
    BY <1>1, <2>1 DEF Ordered!Open, AbsLog, AbsState
<1>3. CASE Poll(l)
  <2>1. AbsState[l] = "open" /\ UNCHANGED AbsState
    BY <1>3 DEF Poll, AbsState
  <2>2. \E i \in at[l] + 1 .. Len(AbsLog) :
          /\ AbsLog[i] = "item"
          /\ \A k \in at[l] + 1 .. i - 1 : AbsLog[k] = "bad"
          /\ at' = [at EXCEPT ![l] = i]
    <3>1. at[l] \in Nat /\ Len(log) \in Nat
      BY DEF TypeOK
    <3>2. at' = [at EXCEPT ![l] = at'[l]]
      BY <1>3 DEF Poll, TypeOK
    <3>. QED
      BY <1>3, <3>1, <3>2, FirstIsNext, AbsLogLen
  <2>. QED
    BY <1>1, <2>1, <2>2 DEF Ordered!Receive, Ordered!Skipped, AbsLog, AbsState
<1>4. CASE PollNone(l)
  <2>1. /\ AbsState[l] = "open" /\ AbsState' = [AbsState EXCEPT ![l] = "over"]
        /\ UNCHANGED at
    BY <1>4 DEF PollNone, AbsState, TypeOK
  <2>2. \/ \E i \in at[l] + 1 .. Len(AbsLog) :
            AbsLog[i] = "end" /\ \A k \in at[l] + 1 .. i - 1 : AbsLog[k] = "bad"
        \/ /\ link = "down"
           /\ \A k \in at[l] + 1 .. Len(AbsLog) + 1 - 1 : AbsLog[k] = "bad"
    <3>1. at[l] \in Nat
      BY DEF TypeOK
    <3>. QED
      BY <1>4, <3>1, NothingLeft, AbsLogLen
  <2>. QED
    BY <1>1, <2>1, <2>2 DEF Ordered!Over, Ordered!Skipped, AbsLog, AbsState
<1>5. CASE Drop(l)
  <2>1. /\ AbsState[l] = "open" /\ AbsState' = [AbsState EXCEPT ![l] = "dropped"]
        /\ UNCHANGED at
    BY <1>5 DEF Drop, AbsState, TypeOK
  <2>. QED
    BY <1>1, <2>1 DEF Ordered!Drop, AbsLog, AbsState
<1>. QED
  BY <1>2, <1>3, <1>4, <1>5

LEMMA RefineStep ==
  ASSUME TypeOK, TypeOK', Inv, [Next]_vars
  PROVE  [Ordered!Next]_Ordered!vars
<1>1. CASE FeedItem \/ FeedEnd
  <2>1. PICK p, h : Emit(p, h)
    BY <1>1 DEF FeedItem, FeedEnd
  <2>. QED
    BY <2>1, RefineEmit DEF Ordered!Next
<1>2. CASE LinkDown
  BY <1>2, AbsLogSame DEF LinkDown, Ordered!Next, Ordered!Vanish, AbsLog
<1>3. ASSUME NEW l \in Listeners, Subscribe(l) \/ Poll(l) \/ PollNone(l) \/ Drop(l)
      PROVE  [Ordered!Next]_Ordered!vars
  BY <1>3, RefineConsumer DEF Ordered!Next
<1>4. CASE \/ FeedOpen \/ FeedCut \/ UNCHANGED vars
           \/ \E l \in Listeners : SubscribeFails(l) \/ Listen(l)
  <2>1. UNCHANGED <<log, link, at, AbsState>>
    BY <1>4 DEF FeedOpen, FeedCut, SubscribeFails, Listen, Check, RecvEvent,
                RecvNothing, Send, vars, feedVars, AbsState, TypeOK
  <2>. QED
    BY <2>1, AbsLogSame DEF Ordered!vars, AbsLog, AbsState
<1>. QED
  BY <1>1, <1>2, <1>3, <1>4 DEF Next, Module, Consume

\* The adapter implements OrderedFeed, for every capacity of the channel: no
\* item is lost, doubled or moved between the module's event and the consumer,
\* and a stream is over only when nothing of it is left.
THEOREM OrderedCorrect == Spec => OrderedSpec
<1>. QED
  BY TypeInit, TypeStep, InvInit, InvStep, RefineInit, RefineStep, PTL
     DEF Spec, OrderedSpec, Ordered!Spec

----------------------------------------------------------------------------
(* The heights of the items. *)

\* Two events in a row are one block and the next, unless one is an end or a
\* run of the node lies between; and an open feed goes on from the last event.
InARow ==
  /\ feed \in [{Processed} -> {"open", "closed"}] /\ last \in [{Processed} -> Nat]
  /\ feed[Processed] = "open" /\ last[Processed] # 0 =>
       log # <<>> /\ log[Len(log)].height = last[Processed]
  /\ \A k \in 1 .. Len(log) - 1 :
       \/ log[k].payload = "null" \/ log[k + 1].payload = "null"
       \/ log[k + 1].run # log[k].run
       \/ log[k + 1].height = log[k].height + 1

LEMMA InARowInit == Init => InARow
BY DEF Init, Feed!Init, InARow

LEMMA InARowStep ==
  ASSUME TypeOK, InARow, [Next]_vars
  PROVE  InARow'
<1>0. /\ log \in Seq(Events) /\ Len(log) \in Nat /\ last[Processed] \in Nat
      /\ \A k \in 1 .. Len(log) : log[k].run \in Nat
  <2>1. log \in Seq(Events) /\ Len(log) \in Nat /\ last[Processed] \in Nat
    BY DEF TypeOK, InARow, Events
  <2>2. \A k \in 1 .. Len(log) : log[k] \in Events
    BY <2>1
  <2>. QED
    BY <2>1, <2>2 DEF Events
<1>1. ASSUME NEW p, NEW h, Emit(p, h),
             feed' \in [{Processed} -> {"open", "closed"}], last' \in [{Processed} -> Nat],
             feed'[Processed] = "open" => last'[Processed] = h,
             p = "null" \/ last[Processed] = 0 \/
               (feed[Processed] = "open" /\ h = last[Processed] + 1)
      PROVE  InARow'
  <2> DEFINE e == [payload |-> p, height |-> h,
                   run |-> IF last[Processed] = 0 THEN Run + 1 ELSE Run]
  <2>1. log' = Append(log, e) /\ e.payload = p /\ e.height = h
    BY <1>1 DEF Emit
  <2>2. log # <<>> /\ last[Processed] = 0 => e.run # log[Len(log)].run
    BY <1>0 DEF Run
  <2> HIDE DEF e
  <2>3. /\ Len(log') = Len(log) + 1 /\ log' # <<>> /\ log'[Len(log) + 1] = e
        /\ \A k \in 1 .. Len(log) : log'[k] = log[k]
    BY <1>0, <2>1
  <2>4. ASSUME NEW k \in 1 .. Len(log') - 1
        PROVE  \/ log'[k].payload = "null" \/ log'[k + 1].payload = "null"
               \/ log'[k + 1].run # log'[k].run
               \/ log'[k + 1].height = log'[k].height + 1
    <3>1. CASE k = Len(log)
      <4>1. log # <<>> /\ log'[k] = log[k] /\ log'[k + 1] = e
        BY <1>0, <2>3, <3>1
      <4>. QED
        BY <1>1, <2>1, <2>2, <3>1, <4>1 DEF InARow
    <3>2. CASE k \in 1 .. Len(log) - 1
      <4>1. k + 1 \in 1 .. Len(log) /\ log'[k] = log[k] /\ log'[k + 1] = log[k + 1]
        BY <1>0, <2>3, <3>2
      <4>. QED
        BY <3>2, <4>1 DEF InARow
    <3>. QED
      BY <1>0, <2>3, <3>1, <3>2
  <2>5. log'[Len(log')].height = h
    BY <2>1, <2>3
  <2>. QED
    BY <1>1, <2>3, <2>4, <2>5 DEF InARow
<1>2. CASE FeedOpen
  BY <1>2 DEF FeedOpen, Feed!Open, InARow
<1>3. CASE FeedItem
  <2>1. PICK p \in Payloads \ {"null"}, h \in 1 .. MaxHeight :
          last' = [last EXCEPT ![Processed] = h] /\ Feed!Item(Processed) /\ Emit(p, h)
    BY <1>3 DEF FeedItem
  <2>2. /\ feed' \in [{Processed} -> {"open", "closed"}]
        /\ last' \in [{Processed} -> Nat] /\ last'[Processed] = h
    BY <2>1 DEF Feed!Item, InARow
  <2>3. feed[Processed] = "open" /\ (last[Processed] # 0 => h = last[Processed] + 1)
    BY <2>1, <2>2 DEF Feed!Item
  <2>. QED
    BY <1>1, <2>1, <2>2, <2>3
<1>4. CASE FeedEnd
  <2>1. /\ feed' \in [{Processed} -> {"open", "closed"}] /\ feed'[Processed] = "closed"
        /\ last' = last /\ Emit("null", 0)
    BY <1>4 DEF FeedEnd, Feed!End, InARow
  <2>. QED
    BY <1>1, <2>1 DEF InARow
<1>5. CASE FeedCut
  BY <1>5 DEF FeedCut, Feed!Cut, InARow
<1>6. CASE \/ LinkDown \/ UNCHANGED vars
           \/ \E l \in Listeners :
                Subscribe(l) \/ SubscribeFails(l) \/ Listen(l) \/ Consume(l) \/ Drop(l)
  <2>1. UNCHANGED <<feed, last, log>>
    BY <1>6 DEF LinkDown, Subscribe, SubscribeFails, Listen, Check, RecvEvent, RecvNothing,
                Send, Consume, Poll, PollNone, Drop, vars, feedVars
  <2>. QED
    BY <2>1 DEF InARow
<1>. QED
  BY <1>2, <1>3, <1>4, <1>5, <1>6 DEF Next, Module

LEMMA NoGapStep ==
  ASSUME TypeOK, Inv, InARow, [Next]_vars, NEW l \in Listeners,
         stream[l] = "open", 0 < at[l], at[l] # at'[l]
  PROVE  \/ log[at'[l]].run # log[at[l]].run
         \/ \E k \in at[l] .. at'[l] : Kind(k) # "item"
         \/ log[at'[l]].height = log[at[l]].height + 1
<1>0. at[l] \in Nat /\ Len(log) \in Nat /\ at \in [Listeners -> Nat] /\ stream[l] # "none"
  BY DEF TypeOK
<1>1. Poll(l)
  BY <1>0 DEF Next, Module, FeedOpen, FeedItem, FeedEnd, FeedCut, Emit, LinkDown, Subscribe,
              SubscribeFails, Listen, Check, RecvEvent, RecvNothing, Send, Consume, Poll,
              PollNone, Drop, vars
<1>2. /\ at'[l] \in at[l] + 1 .. Len(log) /\ Kind(at'[l]) = "item"
      /\ \A p \in at[l] + 1 .. at'[l] - 1 : Kind(p) = "bad"
  BY <1>1, FirstIsNext
<1>3. CASE \E k \in at[l] .. at'[l] : Kind(k) # "item"
  BY <1>3
<1>4. CASE \A k \in at[l] .. at'[l] : Kind(k) = "item"
  <2>1. at'[l] = at[l] + 1
    <3>1. at'[l] \in Nat /\ at[l] + 1 \in at[l] .. at'[l]
      BY <1>0, <1>2
    <3>2. Kind(at[l] + 1) # "bad"
      BY <1>4, <3>1
    <3>. QED
      BY <1>0, <1>2, <3>1, <3>2
  <2>2. at[l] \in 1 .. Len(log) - 1 /\ at[l] \in at[l] .. at'[l] /\ at'[l] \in at[l] .. at'[l]
    BY <1>0, <1>2, <2>1
  <2>3. log[at[l]].payload # "null" /\ log[at'[l]].payload # "null"
    BY <1>4, <2>2 DEF Kind, block_item
  <2>. QED
    BY <2>1, <2>2, <2>3 DEF InARow
<1>. QED
  BY <1>3, <1>4

\* Between two items that a consumer receives one after the other, from one run
\* of the node, no height is missing, unless an event could not be decoded.
THEOREM NoSilentGapCorrect == Spec => NoSilentGap
<1>1. TypeOK /\ Inv /\ InARow /\ [Next]_vars =>
        \A l \in Listeners :
          (stream[l] = "open" /\ 0 < at[l] /\ at[l] # at'[l]) =>
            \/ log[at'[l]].run # log[at[l]].run
            \/ \E k \in at[l] .. at'[l] : Kind(k) # "item"
            \/ log[at'[l]].height = log[at[l]].height + 1
  BY NoGapStep
<1>2. TypeOK /\ InARow /\ [Next]_vars => InARow'
  BY InARowStep
<1>. QED
  BY <1>1, <1>2, InARowInit, TypeInit, TypeStep, InvInit, InvStep, PTL DEF Spec, NoSilentGap

=============================================================================
