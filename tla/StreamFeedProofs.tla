-------------------------- MODULE StreamFeedProofs --------------------------
(***************************************************************************)
(* Theorems about the streams of BlockStreams.  Where one caller at a time *)
(* is inside the module, as a host that dispatches calls one by one sees   *)
(* to, the flags say which streams the node delivers, and what the         *)
(* consumer gets are the feeds of StreamFeed.  With a second caller        *)
(* neither holds, but no stream of a single node is subscribed twice.      *)
(***************************************************************************)
EXTENDS BlockStreamsProofs

USE StreamsAssumption DEF Callers, Streams

-----------------------------------------------------------------------------
(* The queue of events. *)

Events(q) == {q[i] : i \in DOMAIN q}

\* The events of a stream are in the order of their heights, and an end is
\* there once.
Increasing(q) ==
  \A i, j \in DOMAIN q : i < j /\ q[i].stream = q[j].stream => q[i].h < q[j].h

\* No event is above what its stream has reached.
Top(s) == IF s = "lib" THEN lib ELSE tip

\* A node that has not failed has no ends in its queue, and events only of the
\* streams it has a callback for; a failed one has only ends.
Queue ==
  /\ Increasing(out)
  /\ cbpc # "check" => out # <<>> /\ thread = "dispatch"
  /\ cbpc = "flag" => Head(out).h = 0
  /\ thread = "ticking" => health # "failed"
  /\ IF health = "failed"
     THEN cbs = {} /\ \A e \in Events(out) : e.h = 0
     ELSE \A e \in Events(out) : e.h # 0 /\ e.stream \in cbs /\ e.h <= Top(e.stream)
  /\ alive = 0 => cbs = {} /\ health # "failed"
  /\ lib <= LibAt(tip)

\* A stream that the node delivers, or whose end it has yet to report.
Live(s) == s \in cbs \/ EndPending(s)

\* The flags, along the calls of Owner.  Between the claim of a flag and the
\* answer of the node the flag is ahead of the node.
Flags ==
  /\ pc[Owner] \in {"idle", "publish", "check", "claim"} =>
       \A s \in Streams : s \in subscribed <=> Live(s)
  /\ pc[Owner] \in {"read", "call", "undo"} =>
       /\ node # 0 /\ arg[Owner] \in subscribed
       /\ \A s \in Streams : s \in subscribed \ {arg[Owner]} <=> Live(s)
  /\ pc[Owner] = "publish" => cbs = {} /\ out = <<>>
  /\ pc[Owner] = "claim" => node # 0
  /\ pc[Owner] = "flags" => node = 0
  /\ node # 0 /\ pc[Owner] \in {"idle", "check", "claim", "read", "call", "undo"} => instance = "this"

\* The heights of stream s that are in the queue.
Heights(q, s) == {e.h : e \in {x \in Events(q) : x.stream = s}}

\* The queue goes on where the consumer is.
Gapless == {"new", "processed"}
Continues ==
  instance = "this" =>
    /\ \A s \in cbs \cap Gapless :
         \E a \in 1 .. tip + 1 : Heights(out, s) = a .. tip /\ (last[s] # 0 => a = last[s] + 1)
    /\ "lib" \in cbs => last["lib"] <= lib /\ \A h \in Heights(out, "lib") : last["lib"] < h

-----------------------------------------------------------------------------
(* Lemmas on queues. *)

LEMMA EventsAppend ==
  ASSUME NEW q \in Seq(Event), NEW e \in Event
  PROVE  /\ Append(q, e) \in Seq(Event) /\ Events(Append(q, e)) = Events(q) \cup {e}
         /\ Increasing(q) /\ (\A x \in Events(q) : x.stream = e.stream => x.h < e.h)
              => Increasing(Append(q, e))
<1> DEFINE r == Append(q, e)
<1>1. /\ r \in Seq(Event) /\ Len(q) \in Nat /\ Len(r) = Len(q) + 1
      /\ DOMAIN q = 1 .. Len(q) /\ DOMAIN r = 1 .. Len(q) + 1
      /\ r[Len(q) + 1] = e /\ \A i \in 1 .. Len(q) : r[i] = q[i]
  OBVIOUS
<1> HIDE DEF r
<1>2. Events(r) = Events(q) \cup {e}
  BY <1>1 DEF Events
<1>3. ASSUME Increasing(q), \A x \in Events(q) : x.stream = e.stream => x.h < e.h
      PROVE  Increasing(r)
  <2>1. \A i \in 1 .. Len(q) : q[i].stream = e.stream => q[i].h < e.h
    BY <1>1, <1>3 DEF Events
  <2> SUFFICES ASSUME NEW i \in 1 .. Len(q) + 1, NEW j \in 1 .. Len(q) + 1,
                      i < j, r[i].stream = r[j].stream
               PROVE  r[i].h < r[j].h
    BY <1>1 DEF Increasing
  <2>2. i \in 1 .. Len(q)
    BY <1>1
  <2>3. CASE j = Len(q) + 1
    BY <1>1, <2>1, <2>2, <2>3
  <2>4. CASE j \in 1 .. Len(q)
    BY <1>1, <1>3, <2>2, <2>4 DEF Increasing
  <2>. QED
    BY <1>1, <2>3, <2>4
<1>. QED
  BY <1>1, <1>2, <1>3 DEF r

LEMMA EventsTail ==
  ASSUME NEW q \in Seq(Event), q # <<>>
  PROVE  /\ Head(q) \in Event /\ Tail(q) \in Seq(Event)
         /\ Events(q) = Events(Tail(q)) \cup {Head(q)}
         /\ Increasing(q) =>
              /\ Increasing(Tail(q))
              /\ \A x \in Events(Tail(q)) : x.stream = Head(q).stream => Head(q).h < x.h
<1> DEFINE r == Tail(q)
<1>1. /\ r \in Seq(Event) /\ Len(q) \in Nat /\ Len(q) > 0 /\ Len(r) = Len(q) - 1
      /\ DOMAIN q = 1 .. Len(q) /\ DOMAIN r = 1 .. Len(q) - 1
      /\ Head(q) = q[1] /\ Head(q) \in Event /\ \A i \in 1 .. Len(q) - 1 : r[i] = q[i + 1]
  BY HeadTailProperties
<1> HIDE DEF r
<1>2. Events(q) = Events(r) \cup {Head(q)}
  <2>1. \A i \in 1 .. Len(q) : i = 1 \/ (i - 1 \in 1 .. Len(q) - 1 /\ r[i - 1] = q[i])
    BY <1>1
  <2>2. Events(q) \subseteq Events(r) \cup {Head(q)}
    BY <1>1, <2>1 DEF Events
  <2>3. \A i \in 1 .. Len(q) - 1 : i + 1 \in 1 .. Len(q)
    BY <1>1
  <2>4. Events(r) \cup {Head(q)} \subseteq Events(q)
    BY <1>1, <2>3 DEF Events
  <2>. QED
    BY <2>2, <2>4
<1>3. ASSUME Increasing(q)
      PROVE  /\ Increasing(r)
             /\ \A x \in Events(r) : x.stream = Head(q).stream => Head(q).h < x.h
  <2>1. \A i \in 1 .. Len(q) - 1 : i + 1 \in 1 .. Len(q) /\ 1 < i + 1
    BY <1>1
  <2>2. Increasing(r)
    <3> SUFFICES ASSUME NEW i \in 1 .. Len(q) - 1, NEW j \in 1 .. Len(q) - 1,
                        i < j, r[i].stream = r[j].stream
                 PROVE  r[i].h < r[j].h
      BY <1>1 DEF Increasing
    <3>1. i + 1 < j + 1 /\ i + 1 \in DOMAIN q /\ j + 1 \in DOMAIN q
      BY <1>1, <2>1
    <3>. QED
      BY <1>1, <1>3, <3>1 DEF Increasing
  <2>3. ASSUME NEW i \in 1 .. Len(q) - 1, r[i].stream = Head(q).stream
        PROVE  Head(q).h < r[i].h
    <3>1. 1 \in DOMAIN q /\ i + 1 \in DOMAIN q /\ 1 < i + 1
      BY <1>1, <2>1
    <3>. QED
      BY <1>1, <1>3, <2>3, <3>1 DEF Increasing
  <2>. QED
    BY <1>1, <2>2, <2>3 DEF Events
<1>. QED
  BY <1>1, <1>2, <1>3 DEF r

LEMMA EventsEmpty == Events(<<>>) = {} /\ Increasing(<<>>) /\ <<>> \in Seq(Event)
BY DEF Events, Increasing

LEMMA EventsType ==
  ASSUME NEW q \in Seq(Event)
  PROVE  /\ \A e \in Events(q) : e \in Event /\ e.stream \in Streams /\ e.h \in Nat
         /\ \A s : (\E i \in DOMAIN q : q[i].stream = s) <=> \E e \in Events(q) : e.stream = s
<1>1. \A i \in DOMAIN q : q[i] \in Event
  BY ElementOfSeq
<1>. QED
  BY <1>1 DEF Events, Event

\* Emitting an event of a stream that has a callback.
LEMMA EmitEvents ==
  ASSUME NEW q \in Seq(Event), NEW s \in Streams, NEW h \in Nat
  PROVE  LET r == q \o Emit(s, h) IN
         /\ r \in Seq(Event)
         /\ Events(r) = Events(q) \cup (IF s \in cbs THEN {[stream |-> s, h |-> h]} ELSE {})
         /\ Increasing(q) /\ (\A x \in Events(q) : x.stream = s => x.h < h) => Increasing(r)
<1> DEFINE e == [stream |-> s, h |-> h]
<1>1. e \in Event /\ e.stream = s /\ e.h = h
  BY DEF Event
<1>2. CASE s \in cbs
  <2>1. Emit(s, h) = <<e>>
    BY <1>2 DEF Emit
  <2> HIDE DEF e
  <2>2. q \o <<e>> = Append(q, e)
    BY <1>1
  <2>3. /\ Append(q, e) \in Seq(Event) /\ Events(Append(q, e)) = Events(q) \cup {e}
        /\ Increasing(q) /\ (\A x \in Events(q) : x.stream = s => x.h < h)
             => Increasing(Append(q, e))
    BY <1>1, EventsAppend
  <2>. QED
    BY <1>2, <2>1, <2>2, <2>3 DEF e
<1>3. CASE s \notin cbs
  <2>1. q \o Emit(s, h) = q
    BY <1>3, ConcatEmptySeq DEF Emit
  <2>. QED
    BY <1>3, <2>1
<1>. QED
  BY <1>2, <1>3

\* The streams whose end is still to be reported, with queue q and the callback
\* at p.
Ends(q, p) == {s \in Streams : [stream |-> s, h |-> 0] \in Events(IF p = "emit" THEN Tail(q) ELSE q)}

LEMMA EndPendingEvents ==
  ASSUME NEW s \in Streams, NEW q \in Seq(Event), NEW p, p # "check" => q # <<>>
  PROVE  (\E i \in DOMAIN q : q[i] = [stream |-> s, h |-> 0] /\ ~(i = 1 /\ p = "emit"))
           <=> s \in Ends(q, p)
<1> DEFINE e == [stream |-> s, h |-> 0]
<1>1. CASE p # "emit"
  BY <1>1 DEF Ends, Events
<1>2. CASE p = "emit"
  <2>1. /\ Len(q) \in Nat /\ Len(q) > 0 /\ DOMAIN q = 1 .. Len(q)
        /\ DOMAIN Tail(q) = 1 .. Len(q) - 1 /\ \A i \in 1 .. Len(q) - 1 : Tail(q)[i] = q[i + 1]
    BY <1>2, HeadTailProperties
  <2> HIDE DEF e
  <2>2. (\E i \in 1 .. Len(q) : q[i] = e /\ i # 1) <=> \E i \in 1 .. Len(q) - 1 : q[i + 1] = e
    <3>1. ASSUME NEW i \in 1 .. Len(q), q[i] = e, i # 1
          PROVE  \E j \in 1 .. Len(q) - 1 : q[j + 1] = e
      <4>1. i - 1 \in 1 .. Len(q) - 1 /\ i - 1 + 1 = i
        BY <2>1, <3>1
      <4>. QED
        BY <3>1, <4>1
    <3>2. ASSUME NEW i \in 1 .. Len(q) - 1, q[i + 1] = e
          PROVE  \E j \in 1 .. Len(q) : q[j] = e /\ j # 1
      <4>1. i + 1 \in 1 .. Len(q) /\ i + 1 # 1
        BY <2>1
      <4>. QED
        BY <3>2, <4>1
    <3>. QED
      BY <3>1, <3>2
  <2>. QED
    BY <1>2, <2>1, <2>2 DEF Ends, Events, e
<1>. QED
  BY <1>1, <1>2

\* In a state and in the next one.
LEMMA LiveNow ==
  ASSUME TypeOK, Queue, NEW s \in Streams
  PROVE  Live(s) <=> s \in cbs \/ s \in Ends(out, cbpc)
<1>1. out \in Seq(Event) /\ (cbpc # "check" => out # <<>>)
  BY DEF TypeOK, Queue
<1>. QED
  BY <1>1, EndPendingEvents DEF Live, EndPending

LEMMA LiveNext ==
  ASSUME TypeOK', Queue', NEW s \in Streams
  PROVE  Live(s)' <=> s \in cbs' \/ s \in Ends(out', cbpc')
<1>1. out' \in Seq(Event) /\ (cbpc' # "check" => out' # <<>>)
  BY DEF TypeOK, Queue
<1>. QED
  BY <1>1, EndPendingEvents DEF Live, EndPending

LEMMA NoEvents ==
  ASSUME NEW q \in Seq(Event), Events(q) = {}
  PROVE  q = <<>>
<1>1. ASSUME q # <<>> PROVE FALSE
  <2>1. 1 \in DOMAIN q
    BY <1>1, EmptySeq
  <2>. QED
    BY <2>1 DEF Events
<1>. QED
  BY <1>1

-----------------------------------------------------------------------------
(* What a tick adds to the queue. *)

LEMMA SetLibEvents ==
  ASSUME NEW q \in Seq(Event), NEW h \in Nat, SetLib(q, h), lib \in Nat, lib <= h,
         Increasing(q), \A x \in Events(q) : x.stream = "lib" => x.h <= lib
  PROVE  /\ lib' = h /\ Increasing(out')
         /\ Events(out') = Events(q) \cup
              (IF "lib" \in cbs /\ h # lib THEN {[stream |-> "lib", h |-> h]} ELSE {})
<1>1. CASE h = lib
  <2>1. lib' = h /\ out' = q
    BY <1>1, ConcatEmptySeq DEF SetLib
  <2>. QED
    BY <1>1, <2>1
<1>2. CASE h # lib
  <2>1. lib' = h /\ out' = q \o Emit("lib", h)
    BY <1>2 DEF SetLib
  <2>2. \A x \in Events(q) : x.stream = "lib" => x.h < h
    BY <1>2, EventsType
  <2>. QED
    BY <1>2, <2>1, <2>2, EmitEvents
<1>. QED
  BY <1>1, <1>2

\* The events of a tick that takes the node to tip t and LIB l.
Ticked(t, l) ==
  {e \in Event : e.stream \in cbs /\ IF e.stream = "lib" THEN l # lib /\ e.h = l
                                                         ELSE t # tip /\ e.h = t}

LEMMA BlockEvents ==
  ASSUME TypeOK, Queue, ProcessBlock
  PROVE  /\ Increasing(out') /\ Events(out') = Events(out) \cup Ticked(tip', lib')
         /\ tip' = tip + 1 /\ lib <= lib' /\ lib' <= LibAt(tip')
<1> DEFINE t == tip + 1
           h == IF mode = "Online" THEN LibAt(t) ELSE lib
           q1 == out \o Emit("new", t)
           q2 == q1 \o Emit("processed", t)
<1>1. /\ out \in Seq(Event) /\ tip \in Nat /\ lib \in Nat /\ K \in Nat /\ t \in Nat /\ tip' = t
      /\ t # tip
  BY DEF TypeOK, ProcessBlock
<1>2. /\ health # "failed" /\ Increasing(out) /\ lib <= LibAt(tip)
      /\ \A e \in Events(out) : e.stream \in cbs /\ e.h <= Top(e.stream)
  BY DEF Queue, ProcessBlock
<1>3. h \in Nat /\ lib <= h /\ h <= LibAt(t)
  BY <1>1, <1>2 DEF LibAt
<1>4. SetLib(q2, h)
  BY DEF ProcessBlock
<1> HIDE DEF t, h
<1>5. /\ q1 \in Seq(Event) /\ Increasing(q1)
      /\ Events(q1) = Events(out) \cup (IF "new" \in cbs THEN {[stream |-> "new", h |-> t]} ELSE {})
  <2>1. \A x \in Events(out) : x.stream = "new" => x.h < t
    BY <1>1, <1>2, EventsType DEF Top, t
  <2>. QED
    BY <1>1, <1>2, <2>1, EmitEvents
<1> HIDE DEF q1
<1>6. /\ q2 \in Seq(Event) /\ Increasing(q2)
      /\ Events(q2) = Events(q1) \cup (IF "processed" \in cbs THEN {[stream |-> "processed", h |-> t]} ELSE {})
  <2>1. \A x \in Events(q1) : x.stream = "processed" => x.h < t
    <3>1. \A x \in Events(out) : x.stream = "processed" => x.h < t
      BY <1>1, <1>2, EventsType DEF Top, t
    <3>. QED
      BY <1>5, <3>1
  <2>. QED
    BY <1>1, <1>5, <2>1, EmitEvents
<1> HIDE DEF q2
<1>7. /\ lib' = h /\ Increasing(out')
      /\ Events(out') = Events(q2) \cup
           (IF "lib" \in cbs /\ h # lib THEN {[stream |-> "lib", h |-> h]} ELSE {})
  <2>1. \A x \in Events(q2) : x.stream = "lib" => x.h <= lib
    <3>1. \A x \in Events(out) : x.stream = "lib" => x.h <= lib
      BY <1>2 DEF Top
    <3>. QED
      BY <1>5, <1>6, <3>1
  <2>. QED
    BY <1>1, <1>3, <1>4, <1>6, <2>1, SetLibEvents
<1>8. Ticked(t, h) = (IF "new" \in cbs THEN {[stream |-> "new", h |-> t]} ELSE {})
                \cup (IF "processed" \in cbs THEN {[stream |-> "processed", h |-> t]} ELSE {})
                \cup (IF "lib" \in cbs /\ h # lib THEN {[stream |-> "lib", h |-> h]} ELSE {})
  BY <1>1, <1>3 DEF Ticked, Event
<1>. QED
  BY <1>1, <1>3, <1>5, <1>6, <1>7, <1>8 DEF t

LEMMA TickEndEvents ==
  ASSUME TypeOK, Queue, TickEnd
  PROVE  /\ Increasing(out') /\ Events(out') = Events(out) \cup Ticked(tip', lib')
         /\ tip' = tip /\ lib <= lib' /\ lib' <= LibAt(tip')
<1>1. /\ out \in Seq(Event) /\ tip \in Nat /\ lib \in Nat /\ K \in Nat /\ tip' = tip
  BY DEF TypeOK, TickEnd
<1>2. /\ health # "failed" /\ Increasing(out) /\ lib <= LibAt(tip)
      /\ \A e \in Events(out) : e.stream \in cbs /\ e.h <= Top(e.stream)
  BY DEF Queue, TickEnd
<1>3. CASE UNCHANGED <<lib, out>>
  <2>1. Ticked(tip', lib') = {}
    BY <1>1, <1>3 DEF Ticked
  <2>. QED
    BY <1>1, <1>2, <1>3, <2>1
<1>4. CASE SetLib(out, LibAt(tip))
  <2>1. LibAt(tip) \in Nat
    BY <1>1 DEF LibAt
  <2>2. \A x \in Events(out) : x.stream = "lib" => x.h <= lib
    BY <1>2 DEF Top
  <2>3. /\ lib' = LibAt(tip) /\ Increasing(out')
        /\ Events(out') = Events(out) \cup
             (IF "lib" \in cbs /\ LibAt(tip) # lib THEN {[stream |-> "lib", h |-> LibAt(tip)]} ELSE {})
    BY <1>1, <1>2, <1>4, <2>1, <2>2, SetLibEvents
  <2>4. Ticked(tip', lib') =
          IF "lib" \in cbs /\ LibAt(tip) # lib THEN {[stream |-> "lib", h |-> LibAt(tip)]} ELSE {}
    BY <1>1, <2>1, <2>3 DEF Ticked, Event
  <2>5. LibAt(tip)' = LibAt(tip) /\ LibAt(tip) <= LibAt(tip)
    BY <1>1, <2>1 DEF LibAt
  <2>. QED
    BY <1>1, <1>2, <2>3, <2>4, <2>5
<1>. QED
  BY <1>3, <1>4 DEF TickEnd

\* A failing tick ends every stream that is set.
LEMMA FailEvents ==
  ASSUME TypeOK, TickFail
  PROVE  Increasing(out') /\ Events(out') = {[stream |-> s, h |-> 0] : s \in cbs}
<1>0. PICK q0 : q0 = <<>>
  OBVIOUS
<1> DEFINE q1 == q0 \o Emit("new", 0)
           q2 == q1 \o Emit("processed", 0)
           q3 == q2 \o Emit("lib", 0)
           ended(s) == IF s \in cbs THEN {[stream |-> s, h |-> 0]} ELSE {}
<1>1. q1 \in Seq(Event) /\ Increasing(q1) /\ Events(q1) = ended("new")
  <2>1. q0 \in Seq(Event) /\ Increasing(q0) /\ Events(q0) = {}
    BY <1>0, EventsEmpty
  <2>2. \A x \in Events(q0) : x.stream = "new" => x.h < 0
    BY <2>1
  <2>3. q1 \in Seq(Event) /\ Increasing(q1) /\ Events(q1) = Events(q0) \cup ended("new")
    BY <2>1, <2>2, EmitEvents
  <2>. QED
    BY <2>1, <2>3
<1>2. out' = q3
  <2>1. Emit("new", 0) \in Seq(Event)
    BY EmitType
  <2>. QED
    BY <1>0, <2>1, ConcatEmptySeq DEF TickFail
<1> HIDE DEF q1
<1>3. q2 \in Seq(Event) /\ Increasing(q2) /\ Events(q2) = ended("new") \cup ended("processed")
  <2>1. \A x \in Events(q1) : x.stream # "processed"
    BY <1>1
  <2>. QED
    BY <1>1, <2>1, EmitEvents
<1> HIDE DEF q2
<1>4. Increasing(q3) /\ Events(q3) = ended("new") \cup ended("processed") \cup ended("lib")
  <2>1. \A x \in Events(q2) : x.stream # "lib"
    BY <1>3
  <2>. QED
    BY <1>3, <2>1, EmitEvents
<1>5. {[stream |-> s, h |-> 0] : s \in cbs} = ended("new") \cup ended("processed") \cup ended("lib")
  BY DEF TypeOK
<1> HIDE DEF q3
<1>. QED
  BY <1>2, <1>4, <1>5

-----------------------------------------------------------------------------
(* The queue is one of a healthy or of a failed node. *)

\* A step of a caller that leaves the node alone.
Quiet == UNCHANGED <<alive, cbs, health, tip, lib, thread, out, cbpc, last>>

LEMMA StepCases ==
  ASSUME [Next]_vars
  PROVE  Quiet \/ StartCreate \/ (\E c \in Callers : SubscribeCall(c)) \/ StopJoin \/ ThreadStep
<1>1. CASE \/ \E c \in Callers : Refused(c) \/ \E s \in Streams : Subscribe(c, s)
           \/ StartFails \/ StopBegin
  BY <1>1 DEF Refused, Subscribe, StartFails, StopBegin, Quiet, nodeVars, threadVars
<1>2. CASE \/ \E c \in Callers : SubscribeCheck(c) \/ SubscribeClaim(c) \/ SubscribeRead(c) \/ SubscribeUndo(c)
           \/ StartPublish \/ StopSignal \/ StopClear \/ StopFlags
  BY <1>2 DEF SubscribeCheck, SubscribeClaim, SubscribeRead, SubscribeUndo, StartPublish, StopSignal,
              StopClear, StopFlags, Quiet, nodeVars, threadVars
<1>3. CASE UNCHANGED vars
  BY <1>3 DEF vars, Quiet, nodeVars, threadVars
<1>. QED
  BY <1>1, <1>2, <1>3 DEF Next, NewCall, CallStep, SubscribeStep, OwnerStep, Crashed

LEMMA TickedType ==
  ASSUME TypeOK, TypeOK', tip' # tip => tip' # 0, lib <= lib', NEW e \in Ticked(tip', lib')
  PROVE  e \in Event /\ e.stream \in cbs /\ e.h # 0 /\ e.h = Top(e.stream)'
<1>1. lib \in Nat /\ lib' \in Nat /\ tip \in Nat /\ tip' \in Nat
  BY DEF TypeOK
<1>2. e \in Event /\ e.stream \in cbs /\ IF e.stream = "lib" THEN lib' # lib /\ e.h = lib'
                                                             ELSE tip' # tip /\ e.h = tip'
  BY DEF Ticked
<1>3. CASE e.stream = "lib"
  BY <1>1, <1>2, <1>3 DEF Top
<1>4. CASE e.stream # "lib"
  BY <1>1, <1>2, <1>4 DEF Top
<1>. QED
  BY <1>2, <1>3, <1>4

\* A caller has a handle of a node when it makes the FFI call.
Handles == \A c \in Callers : pc[c] = "call" => handle[c] # 0

LEMMA HandlesStep == TypeOK /\ Handles /\ [Next]_vars => Handles'
<1> SUFFICES ASSUME TypeOK, Handles, [Next]_vars, NEW d \in Callers, pc'[d] = "call"
             PROVE  handle'[d] # 0
  BY DEF Handles
<1>0. /\ handle \in [Callers -> 0 .. MaxRuns]
      /\ pc \in [Callers -> {"idle", "publish", "check", "claim", "read", "call", "undo",
                             "signal", "join", "clear", "flags"}]
  BY DEF TypeOK
<1>1. CASE pc[d] = "call" /\ handle' = handle
  BY <1>1 DEF Handles
<1>2. ASSUME NEW c \in Callers, SubscribeRead(c) PROVE handle'[d] # 0
  BY <1>0, <1>1, <1>2 DEF SubscribeRead, Go, Handles
<1>3. ASSUME NEW c \in Callers, SubscribeCall(c) PROVE handle'[d] # 0
  <2>1. CASE UNCHANGED callVars
    BY <1>1, <2>1 DEF callVars
  <2>2. CASE handle' = [handle EXCEPT ![c] = 0] /\ pc'[c] # "call" /\ (c # d => pc'[d] = pc[d])
    BY <1>0, <2>2 DEF Handles
  <2>3. CASE handle[c] = alive /\ health = "failed"
    BY <1>0, <1>3, <2>2, <2>3 DEF SubscribeCall, Go
  <2>4. CASE handle[c] = alive /\ health # "failed"
    BY <1>0, <1>3, <2>2, <2>4 DEF SubscribeCall, Finish, Return, Go
  <2>. QED
    BY <1>3, <2>1, <2>3, <2>4 DEF SubscribeCall
<1>4. ASSUME NEW c \in Callers, SubscribeCheck(c) \/ SubscribeClaim(c) \/ SubscribeUndo(c)
      PROVE  handle'[d] # 0
  <2>1. handle' = handle /\ pc[d] = "call"
    BY <1>0, <1>4 DEF SubscribeCheck, SubscribeClaim, SubscribeUndo, Finish, Return, Go
  <2>. QED
    BY <1>1, <2>1
<1>5. CASE \/ \E c \in Callers : Refused(c) \/ \E s \in Streams : Subscribe(c, s)
           \/ StartFails \/ StartCreate \/ StopBegin
           \/ StartPublish \/ StopSignal \/ StopJoin \/ StopClear \/ StopFlags
  <2>1. handle' = handle /\ pc[d] = "call"
    BY <1>0, <1>5 DEF Refused, Subscribe, StartFails, StartCreate, StopBegin, StartPublish, StopSignal,
                      StopJoin, StopClear, StopFlags, Return, Go
  <2>. QED
    BY <1>1, <2>1
<1>6. CASE ThreadStep \/ UNCHANGED vars
  <2>1. UNCHANGED callVars
    BY <1>6 DEF ThreadStep, ThreadExit, TickFail, TickBegin, ProcessBlock, TickEnd, DispatchEnd,
                CallbackCheck, CallbackFlag, CallbackEmit, threadFrame, vars
  <2>. QED
    BY <1>1, <2>1 DEF callVars
<1>. QED
  BY <1>2, <1>3, <1>4, <1>5, <1>6 DEF Next, NewCall, CallStep, SubscribeStep, OwnerStep, Crashed

\* Whoever calls, the queue stays one of a healthy or of a failed node.
LEMMA QueueStep ==
  ASSUME TypeOK, TypeOK', Lifecycle, Queue, Handles, [Next]_vars
  PROVE  Queue'
<1>0. /\ out \in Seq(Event) /\ tip \in Nat /\ lib \in Nat /\ K \in Nat /\ tip' \in Nat /\ lib' \in Nat
      /\ Owner \in Callers /\ arg[Owner] \in Streams
  BY DEF TypeOK
<1>1. CASE Quiet
  BY <1>1 DEF Quiet, Queue, Top, LibAt
<1>2. CASE StartCreate
  <2>1. /\ alive' # 0 /\ health' = "untried" /\ cbs' = {} /\ out' = <<>> /\ cbpc' = "check"
        /\ thread' = "loop" /\ (UNCHANGED <<tip, lib>> \/ (tip' = 0 /\ lib' = 0))
    BY <1>2 DEF StartCreate, TypeOK
  <2>2. Events(out') = {} /\ Increasing(out')
    BY <2>1, EventsEmpty
  <2>3. lib' <= LibAt(tip')
    <3>1. LibAt(0) = 0 /\ lib <= LibAt(tip)
      BY <1>0 DEF Queue, LibAt
    <3>2. CASE UNCHANGED <<tip, lib>>
      BY <3>1, <3>2
    <3>3. CASE tip' = 0 /\ lib' = 0
      BY <3>1, <3>3
    <3>. QED
      BY <2>1, <3>2, <3>3
  <2>. QED
    BY <2>1, <2>2, <2>3 DEF Queue, LibAt
<1>3. ASSUME NEW c \in Callers, SubscribeCall(c) PROVE Queue'
  <2>1. /\ UNCHANGED <<alive, health, tip, lib, thread, out, cbpc>>
        /\ cbs' = cbs \/ (health # "failed" /\ alive # 0 /\ cbs' = cbs \cup {arg[c]})
    <3>1. handle[c] # 0
      BY <1>3 DEF SubscribeCall, Handles
    <3>. QED
      BY <1>3, <3>1 DEF SubscribeCall, threadVars, Finish, callVars
  <2>. QED
    BY <2>1 DEF Queue, Top, LibAt
<1>4. CASE StopJoin
  <2>1. /\ thread = "off" /\ out = <<>> /\ cbpc = "check"
        /\ cbs' = {} /\ health' = "untried" /\ UNCHANGED <<tip, lib, thread, out, cbpc>>
    BY <1>4 DEF StopJoin, Lifecycle, Queue, threadVars
  <2>2. Events(out') = {} /\ Increasing(out')
    BY <2>1, EventsEmpty
  <2>. QED
    BY <2>1, <2>2 DEF Queue, LibAt
<1>5. CASE ThreadExit \/ TickBegin \/ DispatchEnd
  BY <1>5 DEF ThreadExit, TickBegin, DispatchEnd, Queue, Top, LibAt, threadFrame
<1>6. CASE TickFail
  <2>1. /\ thread = "loop" /\ health' = "failed" /\ cbs' = {} /\ thread' = "dispatch"
        /\ cbpc = "check" /\ UNCHANGED <<tip, lib, cbpc, alive>>
    BY <1>6 DEF TickFail, Queue, threadFrame
  <2>2. Increasing(out') /\ \A e \in Events(out') : e.h = 0
    BY <1>6, FailEvents
  <2>3. alive # 0
    BY <2>1 DEF Lifecycle
  <2>. QED
    BY <2>1, <2>2, <2>3 DEF Queue, LibAt
<1>7. CASE ProcessBlock \/ TickEnd
  <2>1. /\ thread = "ticking" /\ health # "failed" /\ alive # 0
        /\ UNCHANGED <<health, cbs, alive, cbpc>> /\ thread' \in {"ticking", "dispatch"}
    BY <1>7 DEF ProcessBlock, TickEnd, Queue, Lifecycle, threadFrame
  <2>2. /\ Increasing(out') /\ Events(out') = Events(out) \cup Ticked(tip', lib')
        /\ tip' \in {tip, tip + 1} /\ lib <= lib' /\ lib' <= LibAt(tip')
    BY <1>7, BlockEvents, TickEndEvents
  <2>3. tip' # tip => tip' # 0
    BY <1>0, <2>2
  <2>4. ASSUME NEW e \in Events(out')
        PROVE  e.h # 0 /\ e.stream \in cbs' /\ e.h <= Top(e.stream)'
    <3>1. CASE e \in Events(out)
      <4>1. e.h # 0 /\ e.stream \in cbs /\ e.h <= Top(e.stream) /\ e.h \in Nat
        BY <1>0, <2>1, <3>1, EventsType DEF Queue
      <4>2. tip <= tip'
        BY <1>0, <2>2
      <4>. QED
        BY <1>0, <2>1, <2>2, <4>1, <4>2 DEF Top
    <3>2. CASE e \in Ticked(tip', lib')
      <4>1. e \in Event /\ e.stream \in cbs /\ e.h # 0 /\ e.h = Top(e.stream)'
        BY <2>2, <2>3, <3>2, TickedType
      <4>2. e.h \in Nat
        BY <4>1 DEF Event
      <4>. QED
        BY <2>1, <4>1, <4>2
    <3>. QED
      BY <2>2, <3>1, <3>2
  <2>5. cbpc' = "check"
    BY <2>1 DEF Queue
  <2>6. LibAt(tip') = LibAt(tip)'
    BY DEF LibAt
  <2>. QED
    BY <2>1, <2>2, <2>4, <2>5, <2>6 DEF Queue
<1>8. CASE CallbackCheck \/ CallbackFlag \/ CallbackEmit
  <2>1. /\ out # <<>> /\ thread = "dispatch" /\ alive # 0
        /\ UNCHANGED <<alive, cbs, health, tip, lib, thread>>
    BY <1>8 DEF CallbackCheck, CallbackFlag, CallbackEmit, threadFrame, nodeVars, Lifecycle
  <2>2. CASE out' = Tail(out) /\ cbpc' = "check"
    <3>1. Increasing(out') /\ Events(out') \subseteq Events(out)
      BY <1>0, <2>1, <2>2, EventsTail DEF Queue
    <3>. QED
      BY <2>1, <2>2, <3>1 DEF Queue, Top, LibAt
  <2>3. CASE out' = out /\ cbpc' = "flag" /\ Head(out).h = 0
    BY <2>1, <2>3 DEF Queue, Top, LibAt
  <2>4. CASE out' = out /\ cbpc' = "emit"
    BY <2>1, <2>4 DEF Queue, Top, LibAt
  <2>5. CASE out' = out /\ cbpc' = cbpc
    BY <2>1, <2>5 DEF Queue, Top, LibAt
  <2>. QED
    BY <1>8, <2>2, <2>3, <2>4, <2>5 DEF CallbackCheck, CallbackFlag, CallbackEmit, nodeVars
<1>. QED
  BY <1>1, <1>2, <1>3, <1>4, <1>5, <1>6, <1>7, <1>8, StepCases DEF ThreadStep

-----------------------------------------------------------------------------
(* The flags follow the node. *)

\* What the node's thread does to the streams that are live: only a callback
\* changes them, and one that finds the instance takes its stream's flag along.
LEMMA ThreadLive ==
  ASSUME TypeOK, TypeOK', Lifecycle, Queue, Queue', ThreadStep
  PROVE  /\ UNCHANGED <<node, instance, pc, arg>>
         /\ \/ /\ instance = "null" /\ subscribed' = subscribed /\ out # <<>>
               /\ \A s \in Streams : Live(s)' => Live(s)
            \/ subscribed' = subscribed /\ \A s \in Streams : Live(s)' <=> Live(s)
            \/ \E z \in Streams :
                 /\ subscribed' = subscribed \ {z} /\ Live(z)
                 /\ \A s \in Streams : Live(s)' <=> Live(s) /\ s # z
<1>0. UNCHANGED <<node, instance, pc, arg>> /\ out \in Seq(Event)
  BY DEF ThreadStep, ThreadExit, TickFail, TickBegin, ProcessBlock, TickEnd, DispatchEnd,
         CallbackCheck, CallbackFlag, CallbackEmit, threadFrame, moduleVars, callVars, TypeOK
<1>1. /\ \A s \in Streams : Live(s) <=> s \in cbs \/ s \in Ends(out, cbpc)
      /\ \A s \in Streams : Live(s)' <=> s \in cbs' \/ s \in Ends(out', cbpc')
  BY LiveNow, LiveNext
<1>2. CASE ThreadExit \/ TickBegin \/ DispatchEnd
  BY <1>0, <1>1, <1>2 DEF ThreadExit, TickBegin, DispatchEnd, threadFrame, moduleVars
<1>3. CASE TickFail
  <2>1. out = <<>> /\ cbpc = "check" /\ cbs' = {} /\ cbpc' = cbpc /\ subscribed' = subscribed
    BY <1>3 DEF TickFail, Lifecycle, Queue, threadFrame, moduleVars
  <2>2. Ends(out, cbpc) = {}
    BY <2>1, EventsEmpty DEF Ends
  <2>3. Events(out') = {[stream |-> s, h |-> 0] : s \in cbs}
    BY <1>3, FailEvents
  <2>4. ASSUME NEW s \in Streams PROVE s \in Ends(out', cbpc') <=> s \in cbs
    <3>1. s \in Ends(out', cbpc') <=> [stream |-> s, h |-> 0] \in Events(out')
      BY <2>1 DEF Ends
    <3>2. \A z : [stream |-> s, h |-> 0] = [stream |-> z, h |-> 0] => s = z
      OBVIOUS
    <3>. QED
      BY <2>3, <3>1, <3>2
  <2>. QED
    BY <1>0, <1>1, <2>1, <2>2, <2>4
<1>4. CASE ProcessBlock \/ TickEnd
  <2>1. cbpc = "check" /\ UNCHANGED <<cbs, cbpc, subscribed>>
    BY <1>4 DEF ProcessBlock, TickEnd, Queue, threadFrame, moduleVars
  <2>2. health # "failed" /\ health' # "failed"
    BY <1>4 DEF ProcessBlock, TickEnd, Queue
  <2>3. Ends(out, cbpc) = {} /\ Ends(out', cbpc') = {}
    <3>1. \A e \in Events(out) \cup Events(out') : e.h # 0
      BY <2>2 DEF Queue
    <3>2. \A s : [stream |-> s, h |-> 0].h = 0
      OBVIOUS
    <3>. QED
      BY <2>1, <3>1, <3>2 DEF Ends
  <2>. QED
    BY <1>0, <1>1, <2>1, <2>3
<1>5. CASE CallbackCheck
  <2>1. /\ out # <<>> /\ cbpc = "check" /\ UNCHANGED <<cbs, subscribed>>
    BY <1>5 DEF CallbackCheck, threadFrame, moduleVars
  <2>2. CASE instance # "this"
    <3>1. out' = Tail(out) /\ cbpc' = cbpc
      BY <1>5, <2>2 DEF CallbackCheck
    <3>2. Ends(out', cbpc') \subseteq Ends(out, cbpc)
      BY <1>0, <2>1, <3>1, EventsTail DEF Ends, Queue
    <3>. QED
      BY <1>0, <1>1, <2>1, <2>2, <3>2 DEF TypeOK
  <2>3. CASE instance = "this"
    <3>1. out' = out /\ cbpc' = IF Head(out).h = 0 THEN "flag" ELSE "emit"
      BY <1>5, <2>3 DEF CallbackCheck
    <3>2. Ends(out', cbpc') = Ends(out, cbpc)
      <4>1. CASE Head(out).h = 0
        BY <2>1, <3>1, <4>1 DEF Ends
      <4>2. CASE Head(out).h # 0
        <5>1. Events(out) = Events(Tail(out)) \cup {Head(out)}
          BY <1>0, <2>1, EventsTail
        <5>2. \A s : [stream |-> s, h |-> 0] # Head(out)
          BY <4>2
        <5>. QED
          BY <2>1, <3>1, <4>2, <5>1, <5>2 DEF Ends
      <4>. QED
        BY <4>1, <4>2
    <3>. QED
      BY <1>0, <1>1, <2>1, <3>2
  <2>. QED
    BY <2>2, <2>3
<1>6. CASE CallbackFlag
  <2>1. out # <<>> /\ cbpc = "flag" /\ UNCHANGED <<cbs, out>>
    BY <1>6 DEF CallbackFlag, nodeVars
  <2>2. CASE instance # "this"
    BY <1>0, <1>1, <1>6, <2>1, <2>2 DEF CallbackFlag
  <2>3. CASE instance = "this"
    <3> DEFINE z == Head(out).stream
    <3>1. subscribed' = subscribed \ {z} /\ cbpc' = "emit"
      BY <1>6, <2>3 DEF CallbackFlag
    <3>2. /\ Head(out) \in Event /\ Events(out) = Events(Tail(out)) \cup {Head(out)}
          /\ \A x \in Events(Tail(out)) : x.stream = z => Head(out).h < x.h
      BY <1>0, <2>1, EventsTail DEF Queue
    <3>3. Head(out).h = 0 /\ z \in Streams /\ Head(out) = [stream |-> z, h |-> 0]
      BY <2>1, <3>2 DEF Queue, Event
    <3>4. [stream |-> z, h |-> 0] \notin Events(Tail(out))
      BY <3>2, <3>3
    <3>5. cbs = {}
      BY <3>2, <3>3 DEF Queue
    <3> HIDE DEF z
    <3>6. Ends(out, cbpc) = Ends(out', cbpc') \cup {z} /\ z \notin Ends(out', cbpc')
      <4>1. \A s : [stream |-> s, h |-> 0] = [stream |-> z, h |-> 0] <=> s = z
        OBVIOUS
      <4>. QED
        BY <2>1, <3>1, <3>2, <3>3, <3>4, <4>1 DEF Ends
    <3>7. Live(z) /\ \A s \in Streams : Live(s)' <=> Live(s) /\ s # z
      BY <1>1, <2>1, <3>3, <3>5, <3>6
    <3>. QED
      BY <1>0, <3>1, <3>3, <3>7
  <2>. QED
    BY <2>2, <2>3
<1>7. CASE CallbackEmit
  <2>1. out # <<>> /\ cbpc = "emit" /\ UNCHANGED <<cbs, subscribed>>
    BY <1>7 DEF CallbackEmit, threadFrame, moduleVars
  <2>2. (out' = Tail(out) /\ cbpc' = "check") \/ (out' = out /\ cbpc' = cbpc)
    BY <1>7 DEF CallbackEmit
  <2>3. Ends(out', cbpc') = Ends(out, cbpc)
    BY <2>1, <2>2 DEF Ends
  <2>. QED
    BY <1>0, <1>1, <2>1, <2>3
<1>. QED
  BY <1>2, <1>3, <1>4, <1>5, <1>6, <1>7 DEF ThreadStep

\* No stream is live while there is no node.
LEMMA NoNodeNoStream ==
  ASSUME TypeOK, Lifecycle, Queue, alive = 0
  PROVE  \A s \in Streams : ~Live(s)
<1>1. out = <<>> /\ cbs = {} /\ cbpc = "check"
  BY DEF Lifecycle, Queue
<1>. QED
  BY <1>1 DEF Live, EndPending

LEMMA FlagsStep ==
  ASSUME Subscribers = {}, TypeOK, TypeOK', Lifecycle, Queue, Queue', Flags, [Next]_vars
  PROVE  Flags'
<1> DEFINE p == pc[Owner]
           a == arg[Owner]
<1>0. /\ Owner \in Callers /\ a \in Streams
      /\ pc \in [Callers -> {"idle", "publish", "check", "claim", "read", "call", "undo",
                             "signal", "join", "clear", "flags"}]
      /\ arg \in [Callers -> Streams]
  BY DEF TypeOK
<1>1. UNCHANGED <<cbs, out, cbpc>> => \A s \in Streams : Live(s)' <=> Live(s)
  BY DEF Live, EndPending
<1>2. CASE Refused(Owner) \/ StartFails \/ UNCHANGED vars
  <2>1. UNCHANGED <<node, instance, subscribed, arg, cbs, out, cbpc>>
    BY <1>2 DEF Refused, StartFails, vars, moduleVars, callVars, nodeVars, threadVars
  <2>2. p' = p
    BY <1>0, <1>2 DEF Refused, StartFails, Return, vars, callVars
  <2>. QED
    BY <1>1, <2>1, <2>2 DEF Flags
<1>3. CASE \E s \in Streams : Subscribe(Owner, s)
  <2>1. p = "idle" /\ p' = "check" /\ UNCHANGED <<node, instance, subscribed, cbs, out, cbpc>>
    BY <1>0, <1>3 DEF Subscribe, Go, moduleVars, nodeVars, threadVars
  <2>. QED
    BY <1>1, <2>1 DEF Flags
<1>4. CASE StartCreate
  <2>1. /\ p = "idle" /\ node = 0 /\ p' = "publish" /\ cbs' = {} /\ out' = <<>>
        /\ subscribed' = subscribed
    BY <1>0, <1>4 DEF StartCreate, Go
  <2>2. alive = 0
    BY <2>1 DEF Lifecycle
  <2>3. \A s \in Streams : ~Live(s)'
    BY <2>1 DEF Live, EndPending
  <2>. QED
    BY <2>1, <2>2, <2>3, NoNodeNoStream DEF Flags
<1>5. CASE StartPublish
  <2>1. p = "publish" /\ p' = "check" /\ instance' = "this" /\ UNCHANGED <<node, subscribed, cbs, out, cbpc>>
    BY <1>0, <1>5 DEF StartPublish, Go, nodeVars, threadVars
  <2>. QED
    BY <1>1, <2>1 DEF Flags
<1>6. CASE StopBegin \/ StopSignal \/ StopJoin \/ StopClear
  <2>1. p' \in {"signal", "join", "clear"} \/ (p' = "flags" /\ node' = 0)
    BY <1>0, <1>6 DEF StopBegin, StopSignal, StopJoin, StopClear, Go
  <2>. QED
    BY <2>1 DEF Flags
<1>7. CASE StopFlags
  <2>1. p = "flags" /\ p' = "idle" /\ subscribed' = {} /\ UNCHANGED <<node, cbs, out, cbpc>>
    BY <1>0, <1>7 DEF StopFlags, Return, nodeVars, threadVars
  <2>2. node = 0 /\ alive = 0
    BY <2>1 DEF Flags, Lifecycle
  <2>. QED
    BY <1>1, <2>1, <2>2, NoNodeNoStream DEF Flags
<1>8. CASE SubscribeCheck(Owner)
  <2>1. /\ p = "check" /\ UNCHANGED <<node, instance, subscribed, cbs, out, cbpc>>
        /\ p' = IF node = 0 THEN "idle" ELSE "claim"
    BY <1>0, <1>8 DEF SubscribeCheck, Finish, Return, Go, moduleVars, nodeVars, threadVars
  <2>. QED
    BY <1>1, <2>1 DEF Flags
<1>9. CASE SubscribeClaim(Owner)
  <2>1. p = "claim" /\ UNCHANGED <<node, instance, cbs, out, cbpc>>
    BY <1>9 DEF SubscribeClaim, nodeVars, threadVars
  <2>2. CASE a \in subscribed
    <3>1. p' = "idle" /\ subscribed' = subscribed
      BY <1>0, <1>9, <2>2 DEF SubscribeClaim, Finish, Return
    <3>. QED
      BY <1>1, <2>1, <3>1 DEF Flags
  <2>3. CASE a \notin subscribed
    <3>1. p' = "read" /\ subscribed' = subscribed \cup {a} /\ a' = a
      BY <1>0, <1>9, <2>3 DEF SubscribeClaim, Go
    <3>. QED
      BY <1>0, <1>1, <2>1, <2>3, <3>1 DEF Flags
  <2>. QED
    BY <2>2, <2>3
<1>10. CASE SubscribeRead(Owner)
  <2>1. /\ p = "read" /\ p' \in {"undo", "call"} /\ a' = a
        /\ UNCHANGED <<node, instance, subscribed, cbs, out, cbpc>>
    BY <1>0, <1>10 DEF SubscribeRead, Go, moduleVars, nodeVars, threadVars
  <2>. QED
    BY <1>1, <2>1 DEF Flags
<1>11. CASE SubscribeUndo(Owner)
  <2>1. /\ p = "undo" /\ p' = "idle" /\ subscribed' = subscribed \ {a}
        /\ UNCHANGED <<node, instance, cbs, out, cbpc>>
    BY <1>0, <1>11 DEF SubscribeUndo, Finish, Return, nodeVars, threadVars
  <2>. QED
    BY <1>1, <2>1 DEF Flags
<1>12. CASE SubscribeCall(Owner)
  <2>1. p = "call" /\ UNCHANGED <<node, instance, subscribed, out, cbpc>>
    BY <1>12 DEF SubscribeCall, moduleVars, threadVars
  <2>2. CASE cbs' = cbs /\ p' \in {"call", "undo"} /\ a' = a
    BY <1>1, <2>1, <2>2 DEF Flags
  <2>3. CASE cbs' = cbs \cup {a} /\ p' \in {"idle", "check"}
    <3>1. \A s \in Streams : Live(s)' <=> Live(s) \/ s = a
      BY <2>1, <2>3 DEF Live, EndPending
    <3>. QED
      BY <2>1, <2>3, <3>1 DEF Flags
  <2>4. \/ cbs' = cbs /\ p' \in {"call", "undo"} /\ a' = a
        \/ cbs' = cbs \cup {a} /\ p' \in {"idle", "check"}
    <3>1. CASE handle[Owner] # alive
      BY <1>12, <2>1, <3>1 DEF SubscribeCall, callVars
    <3>2. CASE handle[Owner] = alive /\ health = "failed"
      BY <1>0, <1>12, <3>2 DEF SubscribeCall, Go
    <3>3. CASE handle[Owner] = alive /\ health # "failed"
      <4>1. cbs' = cbs \cup {a} /\ Finish(Owner, "ok")
        BY <1>12, <3>3 DEF SubscribeCall
      <4>. QED
        BY <1>0, <4>1 DEF Finish, Return, Go
    <3>. QED
      BY <3>1, <3>2, <3>3
  <2>. QED
    BY <2>2, <2>3, <2>4
<1>13. CASE ThreadStep
  <2>1. /\ UNCHANGED <<node, instance, pc, arg>>
        /\ \/ /\ instance = "null" /\ subscribed' = subscribed /\ out # <<>>
              /\ \A s \in Streams : Live(s)' => Live(s)
           \/ subscribed' = subscribed /\ \A s \in Streams : Live(s)' <=> Live(s)
           \/ \E z \in Streams :
                /\ subscribed' = subscribed \ {z} /\ Live(z)
                /\ \A s \in Streams : Live(s)' <=> Live(s) /\ s # z
    BY <1>13, ThreadLive
  <2>2. p = "publish" => cbs' = {} /\ out' = <<>>
    <3> SUFFICES ASSUME p = "publish" PROVE cbs' = {} /\ out' = <<>>
      OBVIOUS
    <3>1. cbs = {} /\ out = <<>> /\ out' \in Seq(Event) /\ Events(out) = {}
      BY EventsEmpty DEF Flags, TypeOK
    <3>2. CASE ThreadExit \/ TickBegin \/ DispatchEnd
      BY <3>1, <3>2 DEF ThreadExit, TickBegin, DispatchEnd
    <3>3. CASE TickFail
      <4>1. cbs' = {} /\ Events(out') = {}
        BY <3>1, <3>3, FailEvents DEF TickFail
      <4>. QED
        BY <3>1, <4>1, NoEvents
    <3>4. CASE ProcessBlock \/ TickEnd
      <4>1. cbs' = {} /\ Events(out') = Ticked(tip', lib')
        BY <3>1, <3>4, BlockEvents, TickEndEvents DEF ProcessBlock, TickEnd
      <4>2. Events(out') = {}
        BY <3>1, <4>1 DEF Ticked
      <4>. QED
        BY <3>1, <4>1, <4>2, NoEvents
    <3>5. ~(CallbackCheck \/ CallbackFlag \/ CallbackEmit)
      BY <3>1 DEF CallbackCheck, CallbackFlag, CallbackEmit
    <3>. QED
      BY <1>13, <3>2, <3>3, <3>4, <3>5 DEF ThreadStep
  <2>3. alive # 0
    BY <1>13 DEF Lifecycle, ThreadStep, ThreadExit, TickFail, TickBegin, ProcessBlock, TickEnd,
                 DispatchEnd, CallbackCheck, CallbackFlag, CallbackEmit
  <2>4. p \in {"signal", "join", "clear", "flags"} \/ node # 0
    BY <1>0, <2>3 DEF Lifecycle
  <2>5. CASE p \in {"signal", "join", "clear", "flags"}
    BY <2>1, <2>5 DEF Flags
  <2>6. CASE p \notin {"signal", "join", "clear", "flags"} /\ instance = "null"
    BY <1>0, <2>1, <2>2, <2>4, <2>6 DEF Flags
  <2>7. CASE /\ p \notin {"signal", "join", "clear", "flags"} /\ subscribed' = subscribed
             /\ \A s \in Streams : Live(s)' <=> Live(s)
    BY <1>0, <2>1, <2>2, <2>7 DEF Flags
  <2>8. ASSUME p \notin {"signal", "join", "clear", "flags"},
               NEW z \in Streams, subscribed' = subscribed \ {z}, Live(z),
               \A s \in Streams : Live(s)' <=> Live(s) /\ s # z
        PROVE  Flags'
    BY <1>0, <2>1, <2>2, <2>8 DEF Flags
  <2>. QED
    BY <2>1, <2>5, <2>6, <2>7, <2>8
<1>. QED
  BY <1>2, <1>3, <1>4, <1>5, <1>6, <1>7, <1>8, <1>9, <1>10, <1>11, <1>12, <1>13
  DEF Next, NewCall, CallStep, SubscribeStep, OwnerStep, Crashed

LEMMA FlagsInit == Init => Queue /\ Flags /\ Handles
<1> SUFFICES ASSUME Init PROVE Queue /\ Flags /\ Handles
  OBVIOUS
<1>1. /\ out = <<>> /\ cbs = {} /\ subscribed = {} /\ cbpc = "check" /\ thread = "off"
      /\ health = "untried" /\ alive = 0 /\ node = 0 /\ tip = 0 /\ lib = 0 /\ pc[Owner] = "idle"
  BY DEF Init
<1>2. Queue
  BY <1>1, EventsEmpty DEF Queue, LibAt
<1>3. \A s \in Streams : ~Live(s)
  BY <1>1 DEF Live, EndPending
<1>4. Handles
  BY DEF Init, Handles
<1>. QED
  BY <1>1, <1>2, <1>3, <1>4 DEF Flags

(* With calls one at a time a stream is flagged as subscribed exactly when  *)
(* the node still delivers it or has yet to report its end (FlagAccurate),  *)
(* for any number of runs and blocks.  A second caller breaks this: it can  *)
(* subscribe before start() sets s_instance, and the null of a node that    *)
(* fails at once is then ignored with the flag still set.                   *)
THEOREM FlagAccurateCorrect ==
  ASSUME Subscribers = {}
  PROVE  Spec => []FlagAccurate
<1>1. Init => Lifecycle
  BY DEF Init, Lifecycle
<1>2. TypeOK /\ TypeOK' /\ Lifecycle /\ Queue /\ Flags /\ Handles /\ [Next]_vars
      => Queue' /\ Flags' /\ Handles'
  BY QueueStep, FlagsStep, HandlesStep
<1>3. Flags => FlagAccurate
  BY DEF Flags, FlagAccurate, Live
<1>. QED
  BY <1>1, <1>2, <1>3, FlagsInit, TypeCorrect, LifecycleStep, PTL DEF Spec

-----------------------------------------------------------------------------
(* The claims on a single node. *)

\* c has claimed the flag of s and not yet heard of the node.
Holds(c, s) == pc[c] \in {"read", "call", "undo"} /\ arg[c] = s

\* Before the first start nobody has got past the check of the pointer.
Fresh ==
  runs = 0 => node = 0 /\ alive = 0 /\ subscribed = {} /\ \A c \in Callers : pc[c] \in {"idle", "check"}

\* While the node exists, the flag of a stream is set for one claim or for the
\* stream that is live, and for one of the two.
Claimed ==
  alive # 0 =>
    \A s \in Streams :
      /\ Live(s) => s \in subscribed
      /\ \A c \in Callers : Holds(c, s) =>
           s \in subscribed /\ ~Live(s) /\ \A d \in Callers : Holds(d, s) => c = d

\* The flags are reset after the node is gone.
Exclusive == Fresh /\ Claimed /\ (pc[Owner] = "flags" => alive = 0)

LEMMA ExclusiveInit == Init => Exclusive
<1> SUFFICES ASSUME Init PROVE Exclusive
  OBVIOUS
<1>1. Owner \in Callers
  OBVIOUS
<1>. QED
  BY <1>1 DEF Init, Exclusive, Fresh, Claimed

\* What a step of c does to its claim, and to nobody else's.
LEMMA ExclusiveStep ==
  ASSUME MaxRuns = 1, TypeOK, TypeOK', Lifecycle, Queue, Queue', Handles, Exclusive, [Next]_vars
  PROVE  Exclusive'
<1>0. /\ Owner \in Callers /\ arg \in [Callers -> Streams] /\ subscribed \in SUBSET Streams
      /\ pc \in [Callers -> {"idle", "publish", "check", "claim", "read", "call", "undo",
                             "signal", "join", "clear", "flags"}]
      /\ runs \in {0, 1} /\ runs' \in {0, 1}
  BY DEF TypeOK
<1>1. ASSUME UNCHANGED <<out, cbpc>>
      PROVE  \A s \in Streams : (cbs' = cbs => (Live(s)' <=> Live(s)))
               /\ \A t \in Streams : cbs' = cbs \cup {t} => (Live(s)' <=> Live(s) \/ s = t)
  BY <1>1, LiveNow, LiveNext
\* Steps that leave the node and the flags as they are.
<1>2. ASSUME UNCHANGED <<alive, runs, node, subscribed>>, \A s \in Streams : Live(s)' <=> Live(s),
             \A c \in Callers : /\ pc'[c] \in {"read", "call", "undo"} =>
                                     pc[c] \in {"read", "call", "undo"} /\ arg'[c] = arg[c]
                                /\ runs = 0 => pc'[c] \in {"idle", "check"},
             pc'[Owner] = "flags" => alive = 0
      PROVE  Exclusive'
  <2>1. Fresh'
    BY <1>2 DEF Exclusive, Fresh
  <2>2. Claimed'
    BY <1>2 DEF Exclusive, Claimed, Holds
  <2>. QED
    BY <1>2, <2>1, <2>2 DEF Exclusive
<1>3. CASE \/ \E c \in Callers : Refused(c) \/ \E s \in Streams : Subscribe(c, s)
           \/ StartFails \/ StopBegin
  <2>1. UNCHANGED <<alive, runs, node, subscribed, cbs, out, cbpc>>
    BY <1>3 DEF Refused, Subscribe, StartFails, StopBegin, moduleVars, nodeVars, threadVars
  <2>2. \A c \in Callers : (pc'[c] = pc[c] /\ arg'[c] = arg[c]) \/ pc'[c] \in {"idle", "check"}
                           \/ (c = Owner /\ node # 0 /\ pc'[c] = "signal")
    BY <1>0, <1>3 DEF Refused, Subscribe, StartFails, StopBegin, Return, Go
  <2>. QED
    BY <1>1, <1>2, <2>1, <2>2 DEF Exclusive, Fresh
<1>4. CASE StartPublish \/ StopSignal \/ StopClear
  <2>1. UNCHANGED <<alive, runs, subscribed, cbs, out, cbpc>>
    BY <1>4 DEF StartPublish, StopSignal, StopClear, moduleVars, nodeVars, threadVars
  <2>2. /\ pc[Owner] \in {"publish", "signal", "clear"} /\ pc'[Owner] \in {"check", "join", "flags"}
        /\ pc'[Owner] = "flags" => alive = 0
        /\ \A c \in Callers : c # Owner => pc'[c] = pc[c] /\ arg'[c] = arg[c]
    BY <1>0, <1>4 DEF StartPublish, StopSignal, StopClear, Go, Lifecycle
  <2>3. runs' # 0
    BY <1>0, <2>1, <2>2 DEF Exclusive, Fresh
  <2>4. Claimed'
    BY <1>1, <2>1, <2>2 DEF Exclusive, Claimed, Holds
  <2>. QED
    BY <2>1, <2>2, <2>3, <2>4 DEF Exclusive, Fresh
<1>5. CASE StartCreate
  <2>1. runs = 0 /\ runs' = 1
    BY <1>0, <1>5 DEF StartCreate
  <2>2. /\ cbs' = {} /\ out' = <<>> /\ pc'[Owner] = "publish"
        /\ \A c \in Callers : pc'[c] \in {"idle", "check", "publish"}
    BY <1>0, <1>5, <2>1 DEF StartCreate, Go, Exclusive, Fresh
  <2>3. \A s \in Streams : ~Live(s)'
    BY <2>2 DEF Live, EndPending
  <2>. QED
    BY <2>1, <2>2, <2>3 DEF Exclusive, Fresh, Claimed, Holds
<1>6. CASE StopJoin
  <2>1. alive' = 0 /\ runs' = runs /\ runs # 0
    BY <1>0, <1>6 DEF StopJoin, Exclusive, Fresh
  <2>. QED
    BY <2>1 DEF Exclusive, Fresh, Claimed
<1>7. CASE StopFlags
  <2>1. alive = 0 /\ alive' = 0 /\ runs' = runs /\ runs # 0
    BY <1>0, <1>7 DEF StopFlags, nodeVars, Exclusive, Fresh
  <2>. QED
    BY <2>1 DEF Exclusive, Fresh, Claimed
<1>8. ASSUME NEW c \in Callers, SubscribeStep(c) PROVE Exclusive'
  <2>0. /\ UNCHANGED <<alive, runs, node, out, cbpc>>
        /\ \A d \in Callers \ {c} : pc'[d] = pc[d] /\ arg'[d] = arg[d]
        /\ pc[c] \in {"check", "claim", "read", "call", "undo"}
        /\ pc'[c] \in {"idle", "check", "claim", "read", "call", "undo"}
    BY <1>0, <1>8 DEF SubscribeStep, SubscribeCheck, SubscribeClaim, SubscribeRead, SubscribeCall,
                      SubscribeUndo, Finish, Return, Go, nodeVars, moduleVars, threadVars, callVars
  <2>1. pc'[Owner] = "flags" => alive = 0
    BY <2>0 DEF Exclusive
  <2>2. CASE SubscribeCheck(c)
    <3>1. UNCHANGED <<subscribed, cbs>> /\ (runs = 0 => pc'[c] \in {"idle", "check"})
          /\ pc'[c] \notin {"read", "call", "undo"}
      BY <1>0, <2>2 DEF SubscribeCheck, Finish, Return, Go, nodeVars, moduleVars, Exclusive, Fresh
    <3>. QED
      BY <1>1, <1>2, <2>0, <2>1, <3>1 DEF Exclusive, Fresh
  <2>3. CASE ~SubscribeCheck(c)
    <3>1. pc[c] # "check"
      BY <1>8, <2>3 DEF SubscribeStep, SubscribeClaim, SubscribeRead, SubscribeCall, SubscribeUndo
    <3>2. runs' # 0
      BY <2>0, <3>1 DEF Exclusive, Fresh
    <3>3. SUFFICES Claimed'
      BY <2>0, <2>1, <3>2 DEF Exclusive, Fresh
    <3>4. CASE SubscribeClaim(c) /\ arg[c] \notin subscribed
      <4>1. subscribed' = subscribed \cup {arg[c]} /\ UNCHANGED <<cbs, arg>>
        BY <3>4 DEF SubscribeClaim, nodeVars
      <4>. QED
        BY <1>0, <1>1, <2>0, <3>4, <4>1 DEF Exclusive, Claimed, Holds
    <3>5. CASE SubscribeClaim(c) /\ arg[c] \in subscribed
      <4>1. UNCHANGED <<cbs, subscribed>> /\ pc'[c] \notin {"read", "call", "undo"}
        BY <1>0, <3>5 DEF SubscribeClaim, nodeVars, Finish, Return, Go
      <4>. QED
        BY <1>1, <2>0, <4>1 DEF Exclusive, Claimed, Holds
    <3>6. CASE SubscribeRead(c)
      <4>1. UNCHANGED <<cbs, subscribed, arg>> /\ pc[c] = "read"
        BY <3>6 DEF SubscribeRead, nodeVars, moduleVars
      <4>. QED
        BY <1>1, <2>0, <4>1 DEF Exclusive, Claimed, Holds
    <3>7. CASE SubscribeUndo(c)
      <4>1. /\ subscribed' = subscribed \ {arg[c]} /\ UNCHANGED cbs /\ pc[c] = "undo"
            /\ pc'[c] \notin {"read", "call", "undo"}
        BY <1>0, <3>7 DEF SubscribeUndo, nodeVars, Finish, Return, Go
      <4>. QED
        BY <1>0, <1>1, <2>0, <4>1 DEF Exclusive, Claimed, Holds
    <3>8. CASE SubscribeCall(c)
      <4>1. UNCHANGED subscribed /\ pc[c] = "call"
        BY <3>8 DEF SubscribeCall, moduleVars
      <4>2. CASE UNCHANGED <<cbs, arg>>
        BY <1>1, <2>0, <4>1, <4>2 DEF Exclusive, Claimed, Holds
      <4>3. CASE cbs' = cbs \cup {arg[c]} /\ Finish(c, "ok")
        <5>1. pc'[c] \notin {"read", "call", "undo"}
          BY <1>0, <4>3 DEF Finish, Return, Go
        <5>. QED
          BY <1>0, <1>1, <2>0, <4>1, <4>3, <5>1 DEF Exclusive, Claimed, Holds
      <4>. QED
        BY <3>8, <4>2, <4>3 DEF SubscribeCall, callVars
    <3>. QED
      BY <1>8, <2>3, <3>4, <3>5, <3>6, <3>7, <3>8 DEF SubscribeStep
  <2>. QED
    BY <2>2, <2>3
<1>9. CASE ThreadStep
  <2>1. /\ UNCHANGED <<node, alive, runs, pc, arg>>
        /\ \/ subscribed' = subscribed /\ \A s \in Streams : Live(s)' => Live(s)
           \/ \E z \in Streams :
                /\ subscribed' = subscribed \ {z} /\ Live(z)
                /\ \A s \in Streams : Live(s)' <=> Live(s) /\ s # z
    <3>1. UNCHANGED <<alive, runs>>
      BY <1>9 DEF ThreadStep, ThreadExit, TickFail, TickBegin, ProcessBlock, TickEnd, DispatchEnd,
                  CallbackCheck, CallbackFlag, CallbackEmit, threadFrame, nodeVars
    <3>. QED
      BY <1>9, <3>1, ThreadLive
  <2>2. Fresh'
    BY <2>1 DEF Exclusive, Fresh
  <2>3. Claimed'
    BY <1>0, <2>1 DEF Exclusive, Claimed, Holds
  <2>. QED
    BY <2>1, <2>2, <2>3 DEF Exclusive
<1>10. CASE UNCHANGED vars
  <2>1. UNCHANGED <<alive, runs, node, subscribed, pc, arg, cbs, out, cbpc>>
    BY <1>10 DEF vars, moduleVars, callVars, nodeVars, threadVars
  <2>. QED
    BY <1>1, <1>2, <2>1 DEF Exclusive, Fresh
<1>. QED
  BY <1>3, <1>4, <1>5, <1>6, <1>7, <1>8, <1>9, <1>10 DEF Next, NewCall, CallStep, OwnerStep, Crashed

(* "The flag is set first so two callers can't both subscribe"              *)
(* (OneSubscriber): a subscription that is granted is always of a stream    *)
(* without a callback.  True of any number of callers that share one node,  *)
(* and of one caller over any number of nodes; with a second caller and a   *)
(* second node it is not, for a claim survives the stop() that resets the   *)
(* flags.                                                                   *)
THEOREM OneSubscriberCorrect ==
  ASSUME Subscribers = {} \/ MaxRuns = 1
  PROVE  Spec => OneSubscriber
<1>1. Init => Lifecycle
  BY DEF Init, Lifecycle
<1>2. CASE Subscribers = {}
  <2>1. TypeOK /\ TypeOK' /\ Lifecycle /\ Queue /\ Flags /\ Handles /\ [Next]_vars
        => Queue' /\ Flags' /\ Handles'
    BY <1>2, QueueStep, FlagsStep, HandlesStep
  <2>2. TypeOK /\ Flags => \A c \in Callers : Granted(c) => arg[c] \notin cbs
    BY <1>2 DEF TypeOK, Flags, Granted, Live
  <2>. QED
    BY <1>1, <2>1, <2>2, FlagsInit, TypeCorrect, LifecycleStep, PTL DEF Spec, OneSubscriber
<1>3. CASE MaxRuns = 1
  <2>1. TypeOK /\ TypeOK' /\ Lifecycle /\ Queue /\ Handles /\ Exclusive /\ [Next]_vars
        => Queue' /\ Handles' /\ Exclusive'
    BY <1>3, QueueStep, HandlesStep, ExclusiveStep
  <2>2. TypeOK /\ Queue /\ Exclusive => \A c \in Callers : Granted(c) => arg[c] \notin cbs
    <3> SUFFICES ASSUME TypeOK, Queue, Exclusive, NEW c \in Callers, Granted(c)
                 PROVE  arg[c] \notin cbs
      OBVIOUS
    <3>1. pc[c] = "call" /\ arg[c] \in Streams
      BY DEF Granted, TypeOK
    <3>2. CASE alive = 0
      BY <3>2 DEF Queue
    <3>3. CASE alive # 0
      BY <3>1, <3>3 DEF Exclusive, Claimed, Holds, Live
    <3>. QED
      BY <3>2, <3>3
  <2>. QED
    BY <1>1, <2>1, <2>2, FlagsInit, ExclusiveInit, TypeCorrect, LifecycleStep, PTL DEF Spec, OneSubscriber
<1>. QED
  BY <1>2, <1>3

-----------------------------------------------------------------------------
(* The heights of a stream. *)

LEMMA HeightsIn ==
  ASSUME NEW q \in Seq(Event), NEW s
  PROVE  /\ Heights(q, s) \subseteq Nat
         /\ \A h : h \in Heights(q, s) <=> \E e \in Events(q) : e.stream = s /\ e.h = h
BY EventsType DEF Heights

\* A tick that reaches height t: the block streams go on to it.
LEMMA ContinuesTick ==
  ASSUME TypeOK, TypeOK', Queue, Continues, instance = "this",
         ProcessBlock \/ TickEnd
  PROVE  Continues'
<1>1. /\ UNCHANGED <<cbs, instance, last>> /\ out \in Seq(Event) /\ out' \in Seq(Event)
      /\ tip \in Nat /\ lib \in Nat /\ tip' \in Nat /\ lib' \in Nat /\ last \in [Streams -> Nat]
      /\ K \in Nat
  BY DEF ProcessBlock, TickEnd, threadFrame, moduleVars, TypeOK
<1>2. /\ Events(out') = Events(out) \cup Ticked(tip', lib')
      /\ tip' \in {tip, tip + 1} /\ lib <= lib'
  BY BlockEvents, TickEndEvents
<1>3. ASSUME NEW s \in cbs, s \in Gapless
      PROVE  Heights(out', s) = Heights(out, s) \cup (IF tip' = tip THEN {} ELSE {tip'})
  <2>1. s \in Streams /\ s # "lib"
    BY <1>3 DEF Gapless
  <2>2. \A h : (\E e \in Ticked(tip', lib') : e.stream = s /\ e.h = h) <=> tip' # tip /\ h = tip'
    <3>1. ASSUME tip' # tip
          PROVE  [stream |-> s, h |-> tip'] \in Ticked(tip', lib')
      BY <1>1, <1>3, <2>1, <3>1 DEF Ticked, Event
    <3>2. \A e \in Ticked(tip', lib') : e.stream = s => tip' # tip /\ e.h = tip'
      BY <2>1 DEF Ticked
    <3>. QED
      BY <3>1, <3>2
  <2>. QED
    BY <1>1, <1>2, <2>2, HeightsIn
<1>4. ASSUME NEW s \in cbs, s \in Gapless
      PROVE  \E a \in 1 .. tip' + 1 : Heights(out', s) = a .. tip' /\ (last'[s] # 0 => a = last'[s] + 1)
  <2>1. PICK a \in 1 .. tip + 1 : Heights(out, s) = a .. tip /\ (last[s] # 0 => a = last[s] + 1)
    BY <1>4 DEF Continues
  <2>2. a \in 1 .. tip' + 1 /\ Heights(out', s) = a .. tip'
    <3>1. CASE tip' = tip
      BY <1>3, <1>4, <2>1, <3>1
    <3>2. CASE tip' = tip + 1
      <4>1. Heights(out', s) = (a .. tip) \cup {tip + 1}
        BY <1>1, <1>3, <1>4, <2>1, <3>2
      <4>2. a \in Nat /\ a <= tip + 1
        BY <1>1, <2>1
      <4>3. (a .. tip) \cup {tip + 1} = a .. tip + 1
        BY <1>1, <4>2
      <4>. QED
        BY <1>1, <2>1, <3>2, <4>1, <4>3
    <3>. QED
      BY <1>2, <3>1, <3>2
  <2>. QED
    BY <1>1, <2>1, <2>2
<1>5. ASSUME "lib" \in cbs
      PROVE  last'["lib"] <= lib' /\ \A h \in Heights(out', "lib") : last'["lib"] < h
  <2>1. last["lib"] <= lib /\ last["lib"] \in Nat /\ \A h \in Heights(out, "lib") : last["lib"] < h
    BY <1>1, <1>5 DEF Continues
  <2>2. ASSUME NEW e \in Ticked(tip', lib'), e.stream = "lib" PROVE e.h = lib' /\ lib < lib'
    BY <1>1, <1>2, <2>2 DEF Ticked
  <2>. QED
    BY <1>1, <1>2, <2>1, <2>2, HeightsIn
<1>. QED
  BY <1>1, <1>4, <1>5 DEF Continues

\* The event at the head of the queue is the one the stream goes on with.
LEMMA HeadIsNext ==
  ASSUME TypeOK, Queue, Continues, instance = "this", out # <<>>, Head(out).h # 0
  PROVE  LET s == Head(out).stream
             h == Head(out).h
         IN  /\ s \in cbs /\ h \in Nat /\ last[s] < h
             /\ s \in Gapless => Heights(out, s) = h .. tip /\ (last[s] # 0 => h = last[s] + 1)
             /\ Heights(Tail(out), s) = Heights(out, s) \ {h}
             /\ \A x \in Heights(Tail(out), s) : h < x
             /\ \A z : z # s => Heights(Tail(out), z) = Heights(out, z)
<1> DEFINE s == Head(out).stream
           h == Head(out).h
<1>1. /\ out \in Seq(Event) /\ tip \in Nat /\ lib \in Nat /\ last \in [Streams -> Nat]
  BY DEF TypeOK
<1>2. /\ Head(out) \in Event /\ Tail(out) \in Seq(Event)
      /\ Events(out) = Events(Tail(out)) \cup {Head(out)}
      /\ \A x \in Events(Tail(out)) : x.stream = s => h < x.h
  BY <1>1, EventsTail DEF Queue
<1>3. s \in Streams /\ h \in Nat /\ s \in cbs
  BY <1>2 DEF Event, Queue
<1> HIDE DEF s, h
<1>4. /\ h \in Heights(out, s) /\ \A x \in Heights(Tail(out), s) : h < x
      /\ Heights(out, s) = Heights(Tail(out), s) \cup {h}
  <2>1. Head(out).stream = s /\ Head(out).h = h
    BY DEF s, h
  <2>2. \A x \in Heights(Tail(out), s) : h < x
    <3> SUFFICES ASSUME NEW x \in Heights(Tail(out), s) PROVE h < x
      OBVIOUS
    <3>1. PICK e \in Events(Tail(out)) : e.stream = s /\ e.h = x
      BY DEF Heights
    <3>. QED
      BY <1>2, <2>1, <3>1
  <2>3. {x \in Events(out) : x.stream = s} = {x \in Events(Tail(out)) : x.stream = s} \cup {Head(out)}
    BY <1>2, <2>1
  <2>4. Heights(out, s) = Heights(Tail(out), s) \cup {h}
    BY <2>1, <2>3 DEF Heights
  <2>. QED
    BY <2>2, <2>4
<1>5. Heights(Tail(out), s) = Heights(out, s) \ {h}
  <2>1. h \notin Heights(Tail(out), s)
    BY <1>3, <1>4
  <2>. QED
    BY <1>4, <2>1
<1>6. \A z : z # s => Heights(Tail(out), z) = Heights(out, z)
  <2> SUFFICES ASSUME NEW z, z # s PROVE Heights(Tail(out), z) = Heights(out, z)
    OBVIOUS
  <2>1. {x \in Events(out) : x.stream = z} = {x \in Events(Tail(out)) : x.stream = z}
    BY <1>2 DEF s
  <2>. QED
    BY <2>1 DEF Heights
<1>7. CASE s \in Gapless
  <2>1. PICK a \in 1 .. tip + 1 : Heights(out, s) = a .. tip /\ (last[s] # 0 => a = last[s] + 1)
    BY <1>3, <1>7 DEF Continues
  <2>2. a = h
    <3>1. h \in a .. tip
      BY <1>4, <2>1
    <3>2. a \in Heights(out, s)
      BY <1>1, <2>1, <3>1
    <3>3. a = h \/ h < a
      BY <1>4, <3>2
    <3>. QED
      BY <1>1, <3>1, <3>3
  <2>3. last[s] < h
    BY <1>1, <1>3, <2>1, <2>2
  <2>. QED
    BY <1>3, <1>4, <1>5, <1>6, <2>1, <2>2, <2>3 DEF s, h
<1>8. CASE s \notin Gapless
  <2>1. s = "lib"
    BY <1>3, <1>8 DEF Gapless
  <2>2. last[s] < h
    BY <1>3, <1>4, <2>1 DEF Continues
  <2>. QED
    BY <1>3, <1>4, <1>5, <1>6, <1>8, <2>2 DEF s, h
<1>. QED
  BY <1>7, <1>8

\* s_instance is written by start() and stop() alone.
LEMMA ThreadFrame == ThreadStep => UNCHANGED <<node, instance>>
BY DEF ThreadStep, ThreadExit, TickFail, TickBegin, ProcessBlock, TickEnd, DispatchEnd,
       CallbackCheck, CallbackFlag, CallbackEmit, threadFrame, moduleVars

LEMMA ModuleFrame ==
  ASSUME Subscribers = {}, [Next]_vars
  PROVE  UNCHANGED instance \/ StartPublish \/ instance' = "null"
<1>1. CASE NewCall
  BY <1>1 DEF NewCall, Refused, Subscribe, StartFails, StartCreate, StopBegin, moduleVars
<1>2. CASE SubscribeStep(Owner)
  BY <1>2 DEF SubscribeStep, SubscribeCheck, SubscribeClaim, SubscribeRead, SubscribeCall,
              SubscribeUndo, moduleVars
<1>3. CASE OwnerStep
  BY <1>3 DEF OwnerStep, StopSignal, StopJoin, StopClear, StopFlags, moduleVars
<1>4. CASE UNCHANGED vars
  BY <1>4 DEF vars, moduleVars
<1>. QED
  BY <1>1, <1>2, <1>3, <1>4, ThreadFrame DEF Next, CallStep, Crashed

LEMMA ContinuesStep ==
  ASSUME Subscribers = {}, TypeOK, TypeOK', Lifecycle, Queue, Flags, Continues, [Next]_vars
  PROVE  Continues'
<1>0. /\ Owner \in Callers /\ out \in Seq(Event) /\ tip \in Nat /\ lib \in Nat
      /\ last \in [Streams -> Nat]
      /\ pc \in [Callers -> {"idle", "publish", "check", "claim", "read", "call", "undo",
                             "signal", "join", "clear", "flags"}]
      /\ arg[Owner] \in Streams
  BY DEF TypeOK
<1>1. CASE UNCHANGED <<instance, cbs, tip, lib, out, last>>
  BY <1>1 DEF Continues
<1>2. CASE cbs' = {}
  BY <1>2 DEF Continues
<1>3. CASE instance' # "this"
  BY <1>3 DEF Continues
<1>4. CASE StartPublish
  <2>1. cbs' = {}
    BY <1>4 DEF StartPublish, Flags, nodeVars
  <2>. QED
    BY <1>2, <2>1
<1>5. CASE SubscribeCall(Owner)
  <2> DEFINE a == arg[Owner]
  <2>1. pc[Owner] = "call" /\ UNCHANGED <<instance, tip, lib, out>>
    BY <1>5 DEF SubscribeCall, moduleVars, threadVars
  <2>2. CASE UNCHANGED <<cbs, last>>
    BY <1>1, <2>1, <2>2
  <2>3. CASE health # "failed" /\ cbs' = cbs \cup {a} /\ last' = [last EXCEPT ![a] = 0]
    <3>1. a \notin cbs
      BY <1>0, <2>1 DEF Flags, Live
    <3>2. Heights(out, a) = {}
      BY <2>3, <3>1 DEF Queue, Heights
    <3>3. last'[a] = 0 /\ \A s \in cbs : s \in Streams /\ last'[s] = last[s]
      BY <1>0, <2>3, <3>1 DEF TypeOK
    <3>4. tip + 1 \in 1 .. tip + 1 /\ tip + 1 .. tip = {}
      BY <1>0
    <3> HIDE DEF a
    <3>5. ASSUME NEW s \in cbs' \cap Gapless, instance = "this"
          PROVE  \E b \in 1 .. tip + 1 : Heights(out, s) = b .. tip /\ (last'[s] # 0 => b = last'[s] + 1)
      <4>1. CASE s = a
        BY <3>2, <3>3, <3>4, <4>1
      <4>2. CASE s # a
        BY <2>3, <3>3, <3>5, <4>2 DEF Continues
      <4>. QED
        BY <4>1, <4>2
    <3>6. ASSUME "lib" \in cbs', instance = "this"
          PROVE  last'["lib"] <= lib /\ \A h \in Heights(out, "lib") : last'["lib"] < h
      <4>1. CASE a = "lib"
        BY <1>0, <3>2, <3>3, <4>1
      <4>2. CASE a # "lib"
        BY <2>3, <3>3, <3>6, <4>2 DEF Continues
      <4>. QED
        BY <4>1, <4>2
    <3>. QED
      BY <2>1, <3>5, <3>6 DEF Continues
  <2>4. \/ UNCHANGED <<cbs, last>>
        \/ health # "failed" /\ cbs' = cbs \cup {a} /\ last' = [last EXCEPT ![a] = 0]
    BY <1>5 DEF SubscribeCall
  <2>. QED
    BY <2>2, <2>3, <2>4
<1>6. CASE ThreadStep /\ instance = "this" /\ instance' = "this"
  <2>1. CASE ThreadExit \/ TickBegin \/ DispatchEnd \/ CallbackCheck \/ CallbackFlag
    <3>1. UNCHANGED <<cbs, tip, lib, out, last>>
      BY <1>6, <2>1 DEF ThreadExit, TickBegin, DispatchEnd, CallbackCheck, CallbackFlag, nodeVars
    <3>. QED
      BY <1>1, <1>6, <3>1
  <2>2. CASE TickFail
    BY <1>2, <2>2 DEF TickFail
  <2>3. CASE ProcessBlock \/ TickEnd
    BY <1>6, <2>3, ContinuesTick
  <2>4. CASE CallbackEmit
    <3> DEFINE z == Head(out).stream
               h == Head(out).h
    <3>1. /\ out # <<>> /\ UNCHANGED <<instance, cbs, tip, lib, health>> /\ out' = Tail(out)
          /\ last' = IF h = 0 THEN last ELSE [last EXCEPT ![z] = h]
      BY <1>6, <2>4 DEF CallbackEmit, threadFrame, moduleVars
    <3>2. CASE h = 0
      <4>1. Head(out) \in Events(out)
        BY <1>0, <3>1, EventsTail
      <4>2. cbs = {}
        BY <3>2, <4>1 DEF Queue
      <4>. QED
        BY <1>2, <3>1, <4>2
    <3>3. CASE h # 0
      <4>1. /\ z \in cbs /\ h \in Nat /\ last[z] < h
            /\ z \in Gapless => Heights(out, z) = h .. tip /\ (last[z] # 0 => h = last[z] + 1)
            /\ Heights(Tail(out), z) = Heights(out, z) \ {h}
            /\ \A x \in Heights(Tail(out), z) : h < x
            /\ \A s : s # z => Heights(Tail(out), s) = Heights(out, s)
        BY <1>6, <3>1, <3>3, HeadIsNext
      <4>2. h <= Top(z)
        <5>1. Head(out) \in Events(out)
          BY <1>0, <3>1, EventsTail
        <5>. QED
          BY <3>3, <5>1 DEF Queue
      <4>3. /\ z \in Streams /\ last'[z] = h
            /\ \A s \in cbs : s # z => last'[s] = last[s]
        BY <1>0, <3>1, <3>3, <4>1 DEF TypeOK
      <4> HIDE DEF z, h
      <4>4. ASSUME NEW s \in cbs \cap Gapless
            PROVE  \E a \in 1 .. tip + 1 : Heights(Tail(out), s) = a .. tip /\ (last'[s] # 0 => a = last'[s] + 1)
        <5>1. CASE s = z
          <6>1. h + 1 \in 1 .. tip + 1
            BY <1>0, <4>1, <4>2, <4>4, <5>1 DEF Top, Gapless
          <6>2. Heights(Tail(out), z) = (h + 1) .. tip
            <7>1. (h .. tip) \ {h} = (h + 1) .. tip
              BY <1>0, <4>1
            <7>. QED
              BY <4>1, <4>4, <5>1, <7>1
          <6>. QED
            BY <4>3, <5>1, <6>1, <6>2
        <5>2. CASE s # z
          BY <1>6, <4>1, <4>3, <4>4, <5>2 DEF Continues
        <5>. QED
          BY <5>1, <5>2
      <4>5. ASSUME "lib" \in cbs
            PROVE  last'["lib"] <= lib /\ \A x \in Heights(Tail(out), "lib") : last'["lib"] < x
        <5>1. CASE z = "lib"
          BY <4>1, <4>2, <4>3, <5>1 DEF Top
        <5>2. CASE z # "lib"
          BY <1>6, <4>1, <4>3, <4>5, <5>2 DEF Continues
        <5>. QED
          BY <5>1, <5>2
      <4>. QED
        BY <3>1, <4>4, <4>5 DEF Continues
    <3>. QED
      BY <3>2, <3>3
  <2>. QED
    BY <1>6, <2>1, <2>2, <2>3, <2>4 DEF ThreadStep
<1>7. CASE ThreadStep /\ instance # "this"
  <2>1. UNCHANGED instance
    BY <1>7, ThreadFrame
  <2>. QED
    BY <1>3, <1>7, <2>1
<1>8. CASE StartCreate
  BY <1>8 DEF StartCreate, Continues
<1>9. CASE StopJoin
  BY <1>9 DEF StopJoin, Continues
<1>10. CASE Quiet
  <2>1. instance' = instance \/ StartPublish \/ instance' # "this"
    BY ModuleFrame
  <2>. QED
    BY <1>1, <1>3, <1>4, <1>10, <2>1 DEF Quiet
<1>. QED
  BY <1>5, <1>6, <1>7, <1>8, <1>9, <1>10, ThreadFrame, StepCases

-----------------------------------------------------------------------------
(* The feeds of the consumer. *)

\* A stream has a feed while the instance is there and the node delivers it or
\* has events of it queued.
HasFeed(s) == instance = "this" /\ (s \in cbs \/ \E e \in Events(out) : e.stream = s)
Feeds == [s \in Streams |-> IF HasFeed(s) THEN "open" ELSE "closed"]

LEMMA FeedsMapped ==
  ASSUME TypeOK
  PROVE  Feeds = [s \in Streams |-> IF instance = "this" /\ (s \in cbs \/ Pending(s)) THEN "open" ELSE "closed"]
<1>1. \A s : Pending(s) <=> \E e \in Events(out) : e.stream = s
  BY EventsType DEF TypeOK, Pending
<1>. QED
  BY <1>1 DEF Feeds, HasFeed

LEMMA FeedsMappedNext ==
  ASSUME TypeOK'
  PROVE  Feeds' = [s \in Streams |-> IF instance' = "this" /\ (s \in cbs' \/ Pending(s)') THEN "open" ELSE "closed"]
<1>1. \A s : Pending(s)' <=> \E e \in Events(out') : e.stream = s
  BY EventsType DEF TypeOK, Pending
<1>. QED
  BY <1>1 DEF Feeds, HasFeed

\* The four moves of the feeds, and none.
OpenFeed(s) == Feeds[s] = "closed" /\ Feeds' = [Feeds EXCEPT ![s] = "open"] /\ last' = [last EXCEPT ![s] = 0]
Goes(s, h) ==
  /\ Feeds[s] = "open" /\ h \in Nat /\ last[s] < h /\ (s \in Gapless /\ last[s] # 0 => h = last[s] + 1)
  /\ last' = [last EXCEPT ![s] = h] /\ UNCHANGED Feeds
EndFeed(s) == Feeds[s] = "open" /\ Feeds' = [Feeds EXCEPT ![s] = "closed"] /\ UNCHANGED last
CutFeeds == (\E s \in Streams : Feeds[s] = "open") /\ Feeds' = [s \in Streams |-> "closed"] /\ UNCHANGED last
Moves ==
  \/ \E s \in Streams : OpenFeed(s) \/ EndFeed(s) \/ \E h \in Nat : Goes(s, h)
  \/ CutFeeds
  \/ UNCHANGED <<Feeds, last>>

LEMMA FeedsSame ==
  ASSUME \A s \in Streams : HasFeed(s)' <=> HasFeed(s)
  PROVE  UNCHANGED Feeds
BY DEF Feeds

LEMMA SubscribeMoves ==
  ASSUME Subscribers = {}, TypeOK, TypeOK', Queue, Flags, SubscribeCall(Owner)
  PROVE  Moves
<1>0. PICK a : a = arg[Owner]
  OBVIOUS
<1>1. pc[Owner] = "call" /\ UNCHANGED <<node, instance, out>> /\ a \in Streams /\ last \in [Streams -> Nat]
  BY <1>0 DEF SubscribeCall, moduleVars, threadVars, TypeOK
<1>2. CASE UNCHANGED <<cbs, last>>
  BY <1>1, <1>2, FeedsSame DEF HasFeed, Moves
<1>3. CASE health # "failed" /\ cbs' = cbs \cup {a} /\ last' = [last EXCEPT ![a] = 0]
  <2>1. instance = "this" /\ a \notin cbs /\ \A e \in Events(out) : e.stream # a
    BY <1>0, <1>1, <1>3 DEF Flags, Live, Queue
  <2>2. /\ ~HasFeed(a) /\ HasFeed(a)'
        /\ \A s \in Streams : s # a => (HasFeed(s)' <=> HasFeed(s))
    BY <1>1, <1>3, <2>1 DEF HasFeed
  <2>3. OpenFeed(a)
    BY <1>1, <1>3, <2>2 DEF OpenFeed, Feeds
  <2>. QED
    BY <1>1, <2>3 DEF Moves
<1>4. \/ UNCHANGED <<cbs, last>>
      \/ health # "failed" /\ cbs' = cbs \cup {a} /\ last' = [last EXCEPT ![a] = 0]
  BY <1>0 DEF SubscribeCall
<1>. QED
  BY <1>2, <1>3, <1>4

LEMMA EmitMoves ==
  ASSUME TypeOK, TypeOK', Queue, Continues, CallbackEmit
  PROVE  Moves
<1>0. PICK z, h : z = Head(out).stream /\ h = Head(out).h
  OBVIOUS
<1>1. out # <<>> /\ UNCHANGED <<instance, cbs>> /\ last \in [Streams -> Nat]
  BY DEF CallbackEmit, threadFrame, moduleVars, TypeOK
<1>2. CASE instance # "this"
  <2>1. UNCHANGED last
    BY <1>2 DEF CallbackEmit
  <2>. QED
    BY <1>1, <1>2, <2>1, FeedsSame DEF HasFeed, Moves
<1>3. CASE instance = "this"
  <2>1. out' = Tail(out) /\ last' = IF h = 0 THEN last ELSE [last EXCEPT ![z] = h]
    BY <1>0, <1>3 DEF CallbackEmit
  <2>2. /\ Events(out) = Events(Tail(out)) \cup {Head(out)} /\ Head(out) \in Event
        /\ \A x \in Events(Tail(out)) : x.stream = z => h < x.h
    BY <1>0, <1>1, EventsTail DEF TypeOK, Queue
  <2>3. z \in Streams /\ h \in Nat /\ Head(out) \in Events(out)
    BY <1>0, <2>2 DEF Event
  <2>4. HasFeed(z)
    BY <1>0, <1>3, <2>3 DEF HasFeed
  <2>5. CASE h = 0
    <3>1. cbs = {} /\ \A e \in Events(out) : e.h = 0
      BY <1>0, <2>3, <2>5 DEF Queue
    <3>2. \A e \in Events(Tail(out)) : e.stream # z
      BY <2>2, <2>5, <3>1
    <3>3. ~HasFeed(z)'
      BY <1>1, <2>1, <3>1, <3>2 DEF HasFeed
    <3>4. ASSUME NEW s \in Streams, s # z PROVE HasFeed(s)' <=> HasFeed(s)
      <4>1. (\E e \in Events(out) : e.stream = s) <=> \E e \in Events(Tail(out)) : e.stream = s
        BY <1>0, <2>2, <3>4
      <4>. QED
        BY <1>1, <2>1, <4>1 DEF HasFeed
    <3>5. EndFeed(z)
      BY <2>1, <2>3, <2>4, <2>5, <3>3, <3>4 DEF EndFeed, Feeds
    <3>. QED
      BY <2>3, <3>5 DEF Moves
  <2>6. CASE h # 0
    <3>1. z \in cbs /\ last[z] < h /\ (z \in Gapless => (last[z] # 0 => h = last[z] + 1))
      BY <1>0, <1>1, <1>3, <2>6, HeadIsNext
    <3>2. \A e \in Events(out) : e.stream \in cbs
      BY <1>0, <2>3, <2>6 DEF Queue
    <3>3. UNCHANGED Feeds
      BY <1>1, <2>1, <2>2, <3>2, FeedsSame DEF HasFeed
    <3>4. Goes(z, h)
      BY <2>1, <2>3, <2>4, <2>6, <3>1, <3>3 DEF Goes, Feeds
    <3>. QED
      BY <2>3, <3>4 DEF Moves
  <2>. QED
    BY <2>5, <2>6
<1>. QED
  BY <1>2, <1>3

LEMMA ThreadMoves ==
  ASSUME TypeOK, TypeOK', Lifecycle, Queue, Continues, ThreadStep
  PROVE  Moves
<1>1. UNCHANGED instance /\ out \in Seq(Event)
  BY ThreadFrame DEF TypeOK
<1>2. CASE ThreadExit \/ TickBegin \/ DispatchEnd \/ CallbackFlag
  <2>1. UNCHANGED <<cbs, out, last>>
    BY <1>2 DEF ThreadExit, TickBegin, DispatchEnd, CallbackFlag, nodeVars
  <2>. QED
    BY <1>1, <2>1, FeedsSame DEF HasFeed, Moves
<1>3. CASE TickFail
  <2>1. UNCHANGED last /\ cbs' = {} /\ Events(out) = {}
    BY <1>3, EventsEmpty DEF TickFail, Lifecycle
  <2>2. Events(out') = {[stream |-> s, h |-> 0] : s \in cbs}
    BY <1>3, FailEvents
  <2>3. ASSUME NEW s \in Streams PROVE (\E e \in Events(out') : e.stream = s) <=> s \in cbs
    <3>1. [stream |-> s, h |-> 0].stream = s
      OBVIOUS
    <3>2. \A z \in cbs : [stream |-> z, h |-> 0].stream = z
      OBVIOUS
    <3>. QED
      BY <2>2, <3>1, <3>2
  <2>. QED
    BY <1>1, <2>1, <2>3, FeedsSame DEF HasFeed, Moves
<1>4. CASE ProcessBlock \/ TickEnd
  <2>1. UNCHANGED <<cbs, last>> /\ Events(out') = Events(out) \cup Ticked(tip', lib')
    BY <1>4, BlockEvents, TickEndEvents DEF ProcessBlock, TickEnd
  <2>2. \A e \in Ticked(tip', lib') : e.stream \in cbs
    BY DEF Ticked
  <2>. QED
    BY <1>1, <2>1, <2>2, FeedsSame DEF HasFeed, Moves
<1>5. CASE CallbackCheck
  <2>1. UNCHANGED <<cbs, last>> /\ (instance = "this" => UNCHANGED out)
    BY <1>5 DEF CallbackCheck
  <2>. QED
    BY <1>1, <2>1, FeedsSame DEF HasFeed, Moves
<1>6. CASE CallbackEmit
  BY <1>6, EmitMoves
<1>. QED
  BY <1>2, <1>3, <1>4, <1>5, <1>6 DEF ThreadStep

LEMMA FeedMoves ==
  ASSUME Subscribers = {}, TypeOK, TypeOK', Lifecycle, Queue, Flags, Continues, [Next]_vars
  PROVE  Moves
<1>1. CASE Quiet
  <2>1. UNCHANGED <<cbs, out, last>>
    BY <1>1 DEF Quiet
  <2>2. CASE UNCHANGED instance
    BY <2>1, <2>2, FeedsSame DEF HasFeed, Moves
  <2>3. CASE StartPublish
    <3>1. cbs = {} /\ Events(out) = {}
      BY <2>3, EventsEmpty DEF StartPublish, Flags
    <3>. QED
      BY <2>1, <3>1, FeedsSame DEF HasFeed, Moves
  <2>4. CASE instance' = "null"
    <3>1. Feeds' = [s \in Streams |-> "closed"]
      BY <2>4 DEF Feeds, HasFeed
    <3>2. CASE \E s \in Streams : Feeds[s] = "open"
      BY <2>1, <3>1, <3>2 DEF CutFeeds, Moves
    <3>3. CASE ~\E s \in Streams : Feeds[s] = "open"
      <4>1. UNCHANGED Feeds
        BY <3>1, <3>3 DEF Feeds
      <4>. QED
        BY <2>1, <4>1 DEF Moves
    <3>. QED
      BY <3>2, <3>3
  <2>. QED
    BY <2>2, <2>3, <2>4, ModuleFrame
<1>2. CASE StartCreate \/ StopJoin
  <2>1. instance = "null" /\ UNCHANGED <<instance, last>>
    BY <1>2 DEF StartCreate, StopJoin, moduleVars, Lifecycle
  <2>. QED
    BY <2>1, FeedsSame DEF HasFeed, Moves
<1>. QED
  BY <1>1, <1>2, SubscribeMoves, ThreadMoves, StepCases

LEMMA RefineFeed ==
  ASSUME TypeOK, TypeOK', Moves
  PROVE  [Feed!Next]_Feed!vars
<1> DEFINE F == [s \in Streams |-> IF instance = "this" /\ (s \in cbs \/ Pending(s)) THEN "open" ELSE "closed"]
<1>1. Feeds = F /\ Feeds' = F'
  BY FeedsMapped, FeedsMappedNext
<1> HIDE DEF F
<1>2. last \in [Streams -> Nat]
  BY DEF TypeOK
<1>3. ASSUME NEW s \in Streams, OpenFeed(s) PROVE Feed!Next
  BY <1>1, <1>3 DEF OpenFeed, F, Feed!Next, Feed!Open
<1>4. ASSUME NEW s \in Streams, EndFeed(s) PROVE Feed!Next
  BY <1>1, <1>4 DEF EndFeed, F, Feed!Next, Feed!End
<1>5. ASSUME NEW s \in Streams, NEW h \in Nat, Goes(s, h) PROVE Feed!Next
  <2>1. /\ F[s] = "open" /\ F' = F /\ last'[s] = h /\ last' = [last EXCEPT ![s] = last'[s]]
        /\ last[s] < h /\ (s \in Gapless /\ last[s] # 0 => h = last[s] + 1)
    BY <1>1, <1>2, <1>5 DEF Goes
  <2>. QED
    BY <1>2, <2>1 DEF F, Feed!Next, Feed!Item, Gapless
<1>6. CASE CutFeeds
  BY <1>1, <1>6 DEF CutFeeds, F, Feed!Next, Feed!Cut
<1>7. CASE UNCHANGED <<Feeds, last>>
  BY <1>1, <1>7 DEF F, Feed!vars
<1>. QED
  BY <1>3, <1>4, <1>5, <1>6, <1>7 DEF Moves

(* What the consumer gets are the feeds of StreamFeed (FeedSpec), for any   *)
(* number of runs and blocks and any security parameter: no block of a      *)
(* stream is skipped, repeated or delivered before its predecessor, a null  *)
(* is the last event of its subscription, and stop() ends every feed.  The  *)
(* assumption is that of one call at a time.                                *)
THEOREM FeedCorrect ==
  ASSUME Subscribers = {}
  PROVE  Spec => FeedSpec
<1>1. Init => Lifecycle /\ Continues /\ Feed!Init
  <2> SUFFICES ASSUME Init PROVE Lifecycle /\ Continues /\ Feed!Init
    OBVIOUS
  <2>. QED
    BY DEF Init, Lifecycle, Continues, Feed!Init
<1>2. /\ TypeOK /\ TypeOK' /\ Lifecycle /\ Queue /\ Flags /\ Handles /\ Continues /\ [Next]_vars
      => Lifecycle' /\ Queue' /\ Flags' /\ Handles' /\ Continues' /\ [Feed!Next]_Feed!vars
  BY LifecycleStep, QueueStep, FlagsStep, HandlesStep, ContinuesStep, FeedMoves, RefineFeed
<1>. QED
  BY <1>1, <1>2, FlagsInit, TypeCorrect, PTL DEF Spec, FeedSpec, Feed!Spec

=============================================================================
