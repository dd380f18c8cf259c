------------------------- MODULE BlockStreamsProofs -------------------------
(***************************************************************************)
(* Theorems about BlockStreams, for every number of subscribers, runs and  *)
(* blocks and every security parameter.                                    *)
(***************************************************************************)
EXTENDS BlockStreams, SequenceTheorems, TLAPS

USE StreamsAssumption DEF Callers, Streams

LEMMA EmitType ==
  ASSUME TypeOK, NEW s \in Streams, NEW h \in Nat
  PROVE  Emit(s, h) \in Seq(Event)
<1>1. [stream |-> s, h |-> h] \in Event
  BY DEF Event
<1>. QED
  BY <1>1 DEF Emit

LEMMA LibAtType ==
  ASSUME NEW h \in 0 .. MaxHeight
  PROVE  LibAt(h) \in 0 .. MaxHeight
BY DEF LibAt

\* The types of what Finish changes.
CallTypes ==
  /\ pc \in [Callers -> {"idle", "publish", "check", "claim", "read", "call", "undo",
                         "signal", "join", "clear", "flags"}]
  /\ arg \in [Callers -> Streams]
  /\ via \in {"start", "call"}
  /\ ret \in [Callers -> {"none", "ok", "err"}]

LEMMA FinishType ==
  ASSUME TypeOK, NEW c \in Callers, NEW r \in {"ok", "err"}, Finish(c, r)
  PROVE  CallTypes'
<1>1. CASE c = Owner /\ via = "start" /\ r = "ok" /\ arg[c] \in DOMAIN NextStream
  <2>1. NextStream[arg[c]] \in Streams
    BY <1>1 DEF NextStream
  <2>2. /\ arg' = [arg EXCEPT ![c] = NextStream[arg[c]]]
        /\ pc' = [pc EXCEPT ![c] = "check"]
        /\ UNCHANGED <<via, ret>>
    BY <1>1 DEF Finish, Go
  <2>. QED
    BY <2>1, <2>2 DEF TypeOK, CallTypes
<1>2. CASE ~(c = Owner /\ via = "start" /\ r = "ok" /\ arg[c] \in DOMAIN NextStream)
  <2>1. /\ pc' = [pc EXCEPT ![c] = "idle"]
        /\ ret' = [ret EXCEPT ![c] = r]
        /\ via' = (IF c = Owner THEN "call" ELSE via)
        /\ UNCHANGED arg
    BY <1>2 DEF Finish, Return
  <2>. QED
    BY <2>1 DEF TypeOK, CallTypes
<1>. QED
  BY <1>1, <1>2

LEMMA SetLibType ==
  ASSUME TypeOK, NEW events \in Seq(Event), NEW h \in 0 .. MaxHeight, SetLib(events, h)
  PROVE  lib' \in 0 .. MaxHeight /\ out' \in Seq(Event)
<1>1. Emit("lib", h) \in Seq(Event)
  BY EmitType
<1>. QED
  BY <1>1 DEF SetLib

(* The values of the variables: the flags, handles and counters keep their  *)
(* ranges and the node's queue holds only events (TypeOK).                  *)
THEOREM TypeCorrect == Spec => []TypeOK
<1>1. Init => TypeOK
  BY DEF Init, TypeOK, First, Event
<1>2. TypeOK /\ [Next]_vars => TypeOK'
  <2> SUFFICES ASSUME TypeOK, [Next]_vars PROVE TypeOK'
    OBVIOUS
  <2>1. ASSUME NEW c \in Callers, Refused(c), UNCHANGED fault PROVE TypeOK'
    BY <2>1 DEF TypeOK, Refused, Return, moduleVars, nodeVars, threadVars
  <2>2. ASSUME StartFails, UNCHANGED fault PROVE TypeOK'
    BY <2>2 DEF TypeOK, StartFails, Return, moduleVars, nodeVars, threadVars
  <2>3. ASSUME StartCreate, UNCHANGED fault PROVE TypeOK'
    BY <2>3 DEF TypeOK, StartCreate, Go
  <2>4. ASSUME NEW c \in Callers, NEW s \in Streams, Subscribe(c, s), UNCHANGED fault PROVE TypeOK'
    BY <2>4 DEF TypeOK, Subscribe, Go, moduleVars, nodeVars, threadVars
  <2>5. ASSUME StopBegin, UNCHANGED fault PROVE TypeOK'
    BY <2>5 DEF TypeOK, StopBegin, Go, nodeVars, threadVars
  <2>6. ASSUME NEW c \in Callers, SubscribeCheck(c), UNCHANGED fault PROVE TypeOK'
    <3>1. CASE node = 0
      BY <2>6, <3>1, FinishType DEF TypeOK, CallTypes, SubscribeCheck, moduleVars, nodeVars, threadVars
    <3>2. CASE node # 0
      BY <2>6, <3>2 DEF TypeOK, SubscribeCheck, Go, moduleVars, nodeVars, threadVars
    <3>. QED
      BY <3>1, <3>2
  <2>7. ASSUME NEW c \in Callers, SubscribeClaim(c), UNCHANGED fault PROVE TypeOK'
    <3>1. CASE arg[c] \in subscribed
      <4>1. CallTypes'
        BY <2>7, <3>1, FinishType DEF SubscribeClaim
      <4>2. UNCHANGED <<moduleVars, handle, nodeVars, threadVars, last, fault>>
        BY <2>7, <3>1 DEF SubscribeClaim, moduleVars
      <4>. QED
        BY <4>1, <4>2 DEF TypeOK, CallTypes, moduleVars, nodeVars, threadVars
    <3>2. CASE arg[c] \notin subscribed
      <4>1. /\ subscribed' = subscribed \cup {arg[c]} /\ Go(c, "read")
            /\ UNCHANGED <<node, instance, arg, handle, via, ret, nodeVars, threadVars, last, fault>>
        BY <2>7, <3>2 DEF SubscribeClaim
      <4>2. subscribed' \in SUBSET Streams
        BY <4>1 DEF TypeOK
      <4>. QED
        BY <4>1, <4>2 DEF TypeOK, Go, nodeVars, threadVars
    <3>. QED
      BY <3>1, <3>2
  <2>8. ASSUME NEW c \in Callers, SubscribeRead(c), UNCHANGED fault PROVE TypeOK'
    BY <2>8 DEF TypeOK, SubscribeRead, Go, moduleVars, nodeVars, threadVars
  <2>9. ASSUME NEW c \in Callers, SubscribeCall(c) PROVE TypeOK'
    <3>1. CASE handle[c] # alive
      <4>1. fault' = "dangling_node" /\ UNCHANGED <<callVars, cbs, last>>
        BY <2>9, <3>1 DEF SubscribeCall
      <4>2. UNCHANGED <<moduleVars, alive, runs, health, command, mode, tip, lib, threadVars>>
        BY <2>9 DEF SubscribeCall
      <4>. QED
        BY <4>1, <4>2 DEF TypeOK, moduleVars, callVars, threadVars
    <3>2. ASSUME handle[c] = alive
          PROVE  /\ handle' \in [Callers -> 0 .. MaxRuns]
                 /\ UNCHANGED <<moduleVars, alive, runs, health, command, mode, tip, lib, threadVars, fault>>
      <4>1. handle' = [handle EXCEPT ![c] = 0]
        BY <2>9, <3>2 DEF SubscribeCall
      <4>2. handle' \in [Callers -> 0 .. MaxRuns]
        BY <4>1 DEF TypeOK
      <4>3. UNCHANGED fault
        BY <2>9, <3>2 DEF SubscribeCall
      <4>4. UNCHANGED <<moduleVars, alive, runs, health, command, mode, tip, lib, threadVars>>
        BY <2>9 DEF SubscribeCall
      <4>. QED
        BY <4>2, <4>3, <4>4
    <3>3. CASE handle[c] = alive /\ health = "failed"
      <4>1. Go(c, "undo") /\ UNCHANGED <<arg, via, ret, cbs, last>>
        BY <2>9, <3>3 DEF SubscribeCall
      <4>2. pc' = [pc EXCEPT ![c] = "undo"]
        BY <4>1 DEF Go
      <4>3. /\ handle' \in [Callers -> 0 .. MaxRuns]
            /\ UNCHANGED <<node, instance, subscribed>>
            /\ UNCHANGED <<alive, runs, health, command, mode, tip, lib>>
            /\ UNCHANGED <<thread, out, cbpc, fault>>
        BY <3>2, <3>3 DEF moduleVars, threadVars
      <4>. QED
        BY <4>1, <4>2, <4>3 DEF TypeOK
    <3>4. CASE handle[c] = alive /\ health # "failed"
      <4>1. /\ cbs' = cbs \cup {arg[c]}
            /\ last' = [last EXCEPT ![arg[c]] = 0]
            /\ Finish(c, "ok")
        BY <2>9, <3>4 DEF SubscribeCall
      <4>2. arg[c] \in Streams
        BY DEF TypeOK
      <4>3. cbs' \in SUBSET Streams
        BY <4>1, <4>2 DEF TypeOK
      <4>4. last' \in [Streams -> Nat]
        BY <4>1 DEF TypeOK
      <4>5. CallTypes'
        BY <4>1, FinishType
      <4>6. /\ handle' \in [Callers -> 0 .. MaxRuns]
            /\ UNCHANGED <<node, instance, subscribed>>
            /\ UNCHANGED <<alive, runs, health, command, mode, tip, lib>>
            /\ UNCHANGED <<thread, out, cbpc, fault>>
        BY <3>2, <3>4 DEF moduleVars, threadVars
      <4>. QED
        BY <4>3, <4>4, <4>5, <4>6 DEF TypeOK, CallTypes
    <3>. QED
      BY <3>1, <3>3, <3>4
  <2>10. ASSUME NEW c \in Callers, SubscribeUndo(c), UNCHANGED fault PROVE TypeOK'
    <3>1. CallTypes'
      BY <2>10, FinishType DEF SubscribeUndo
    <3>2. subscribed' = subscribed \ {arg[c]}
      BY <2>10 DEF SubscribeUndo
    <3>3. /\ UNCHANGED <<node, instance, handle, alive, runs, cbs, health, command, mode, tip, lib>>
          /\ UNCHANGED <<thread, out, cbpc, last, fault>>
      BY <2>10 DEF SubscribeUndo, nodeVars, threadVars
    <3>4. subscribed' \in SUBSET Streams
      BY <3>2 DEF TypeOK
    <3>. QED
      BY <3>1, <3>3, <3>4 DEF TypeOK, CallTypes
  <2>11. ASSUME OwnerStep PROVE TypeOK'
    <3> UNCHANGED fault
      BY <2>11 DEF OwnerStep
    <3>1. CASE StartPublish
      BY <3>1 DEF TypeOK, StartPublish, Go, First, nodeVars, threadVars
    <3>2. CASE StopSignal
      BY <3>2 DEF TypeOK, StopSignal, Go, moduleVars, threadVars
    <3>3. CASE StopJoin
      BY <3>3 DEF TypeOK, StopJoin, Go, moduleVars, threadVars
    <3>4. CASE StopClear
      BY <3>4 DEF TypeOK, StopClear, Go, nodeVars, threadVars
    <3>5. CASE StopFlags
      BY <3>5 DEF TypeOK, StopFlags, Return, nodeVars, threadVars
    <3>. QED
      BY <2>11, <3>1, <3>2, <3>3, <3>4, <3>5 DEF OwnerStep
  <2>12. ASSUME ThreadExit \/ TickBegin \/ DispatchEnd PROVE TypeOK'
    <3>1. CASE ThreadExit
      BY <3>1 DEF TypeOK, ThreadExit, threadFrame, moduleVars, callVars
    <3>2. CASE TickBegin
      BY <3>2 DEF TypeOK, TickBegin, threadFrame, moduleVars, callVars
    <3>3. CASE DispatchEnd
      BY <3>3 DEF TypeOK, DispatchEnd, threadFrame, moduleVars, callVars
    <3>. QED
      BY <2>12, <3>1, <3>2, <3>3
  <2>13. ASSUME TickFail PROVE TypeOK'
    <3>1. out' \in Seq(Event)
      BY <2>13, EmitType DEF TickFail
    <3>. QED
      BY <2>13, <3>1 DEF TypeOK, TickFail, threadFrame, moduleVars, callVars
  <2>14. ASSUME ProcessBlock PROVE TypeOK'
    <3>1. tip + 1 \in 0 .. MaxHeight /\ tip + 1 \in Nat
      BY <2>14 DEF ProcessBlock, TypeOK
    <3>2. out \o Emit("new", tip + 1) \o Emit("processed", tip + 1) \in Seq(Event)
      <4>1. out \in Seq(Event)
        BY DEF TypeOK
      <4>2. Emit("new", tip + 1) \in Seq(Event) /\ Emit("processed", tip + 1) \in Seq(Event)
        BY <3>1, EmitType
      <4>. QED
        BY <4>1, <4>2
    <3>3. (IF mode = "Online" THEN LibAt(tip + 1) ELSE lib) \in 0 .. MaxHeight
      BY <3>1, LibAtType DEF TypeOK
    <3>4. lib' \in 0 .. MaxHeight /\ out' \in Seq(Event)
      BY <2>14, <3>2, <3>3, SetLibType DEF ProcessBlock
    <3>. QED
      BY <2>14, <3>1, <3>4 DEF TypeOK, ProcessBlock, threadFrame, moduleVars, callVars
  <2>15. ASSUME TickEnd PROVE TypeOK'
    <3>1. lib' \in 0 .. MaxHeight /\ out' \in Seq(Event)
      BY <2>15, LibAtType, SetLibType DEF TickEnd, TypeOK
    <3>. QED
      BY <2>15, <3>1 DEF TypeOK, TickEnd, threadFrame, moduleVars, callVars
  <2>16. ASSUME CallbackCheck \/ CallbackFlag \/ CallbackEmit PROVE TypeOK'
    <3>1. out # <<>> /\ out \in Seq(Event)
      BY <2>16 DEF CallbackCheck, CallbackFlag, CallbackEmit, TypeOK
    <3>2. Head(out) \in Event /\ Tail(out) \in Seq(Event)
      BY <3>1
    <3>3. Head(out).stream \in Streams /\ Head(out).h \in Nat
      BY <3>2 DEF Event
    <3>4. CASE CallbackCheck
      BY <3>2, <3>4 DEF TypeOK, CallbackCheck, threadFrame, moduleVars, callVars
    <3>5. CASE CallbackFlag
      BY <3>3, <3>5 DEF TypeOK, CallbackFlag, callVars, nodeVars
    <3>6. CASE CallbackEmit
      <4>1. UNCHANGED <<threadFrame, cbs, health, mode, tip, lib, thread>>
        BY <3>6 DEF CallbackEmit
      <4>2. out' \in Seq(Event) /\ cbpc' \in {"check", "flag", "emit"} /\ fault' \in {"none", "null_instance", "dangling_node"}
        BY <3>1, <3>2, <3>6 DEF TypeOK, CallbackEmit
      <4>3. last' \in [Streams -> Nat]
        <5>1. \/ last' = last
              \/ last' = [last EXCEPT ![Head(out).stream] = Head(out).h]
          BY <3>6 DEF CallbackEmit
        <5>. QED
          BY <3>3, <5>1 DEF TypeOK
      <4>. QED
        BY <4>1, <4>2, <4>3 DEF TypeOK, threadFrame, moduleVars, callVars
    <3>. QED
      BY <2>16, <3>4, <3>5, <3>6
  <2>17. CASE UNCHANGED vars
    BY <2>17 DEF TypeOK, vars, moduleVars, callVars, nodeVars, threadVars
  <2>. QED
    BY <2>1, <2>2, <2>3, <2>4, <2>5, <2>6, <2>7, <2>8, <2>9, <2>10, <2>11, <2>12, <2>13,
       <2>14, <2>15, <2>16, <2>17
    DEF Next, NewCall, CallStep, SubscribeStep, ThreadStep, Crashed
<1>. QED
  BY <1>1, <1>2, PTL DEF Spec

(* Once stop() has returned nothing is left of the node: no thread, no      *)
(* queued event, no s_instance for a callback to use (StopIsFinal), by the  *)
(* inductive invariant Lifecycle.                                           *)
LEMMA LifecycleStep == TypeOK /\ Lifecycle /\ [Next]_vars => Lifecycle'
<1> SUFFICES ASSUME TypeOK, Lifecycle, [Next]_vars PROVE Lifecycle'
  OBVIOUS
<1>0. Owner \in Callers /\ pc \in [Callers -> {"idle", "publish", "check", "claim", "read", "call",
                                       "undo", "signal", "join", "clear", "flags"}]
  BY DEF TypeOK
<1>1. ASSUME NEW c \in Callers, Refused(c) PROVE Lifecycle'
  BY <1>0, <1>1 DEF Lifecycle, Refused, Return, moduleVars, nodeVars, threadVars
<1>2. ASSUME StartFails PROVE Lifecycle'
  BY <1>0, <1>2 DEF Lifecycle, StartFails, Return, moduleVars, nodeVars, threadVars
<1>3. ASSUME StartCreate PROVE Lifecycle'
  BY <1>0, <1>3 DEF Lifecycle, StartCreate, Go, TypeOK
<1>4. ASSUME NEW c \in Callers, NEW s \in Streams, Subscribe(c, s) PROVE Lifecycle'
  BY <1>0, <1>4 DEF Lifecycle, Subscribe, Go, moduleVars, nodeVars, threadVars
<1>5. ASSUME StopBegin PROVE Lifecycle'
  BY <1>0, <1>5 DEF Lifecycle, StopBegin, Go, nodeVars, threadVars
<1>6. ASSUME NEW c \in Callers, SubscribeStep(c) PROVE Lifecycle'
  <2>1. pc[c] \in {"check", "claim", "read", "call", "undo"}
    BY <1>6 DEF SubscribeStep, SubscribeCheck, SubscribeClaim, SubscribeRead, SubscribeCall, SubscribeUndo
  <2>2. UNCHANGED <<node, instance, alive, thread, out>>
    <3>1. CASE SubscribeCheck(c)
      BY <3>1 DEF SubscribeCheck, moduleVars, nodeVars, threadVars
    <3>2. CASE SubscribeClaim(c)
      BY <3>2 DEF SubscribeClaim, nodeVars, threadVars
    <3>3. CASE SubscribeRead(c)
      BY <3>3 DEF SubscribeRead, moduleVars, nodeVars, threadVars
    <3>4. CASE SubscribeCall(c)
      BY <3>4 DEF SubscribeCall, moduleVars, threadVars
    <3>5. CASE SubscribeUndo(c)
      BY <3>5 DEF SubscribeUndo, nodeVars, threadVars
    <3>. QED
      BY <1>6, <3>1, <3>2, <3>3, <3>4, <3>5 DEF SubscribeStep
  <2>3. /\ pc[Owner] = "clear" <=> pc'[Owner] = "clear"
        /\ pc'[Owner] \in {"publish", "signal", "join", "clear", "flags"} => pc'[Owner] = pc[Owner]
    <3>1. pc' = pc \/ \E step \in {"idle", "check", "claim", "read", "call", "undo"} : Go(c, step)
      BY <1>6 DEF SubscribeStep, SubscribeCheck, SubscribeClaim, SubscribeRead, SubscribeCall,
                  SubscribeUndo, Finish, Return, Go, callVars
    <3>. QED
      BY <1>0, <2>1, <3>1 DEF Go
  <2>. QED
    BY <2>2, <2>3 DEF Lifecycle
<1>7. ASSUME OwnerStep PROVE Lifecycle'
  <2>1. CASE StartPublish
    BY <1>0, <2>1 DEF Lifecycle, StartPublish, Go, nodeVars, threadVars
  <2>2. CASE StopSignal
    BY <1>0, <2>2 DEF Lifecycle, StopSignal, Go, moduleVars, threadVars
  <2>3. CASE StopJoin
    BY <1>0, <2>3 DEF Lifecycle, StopJoin, Go, moduleVars, threadVars
  <2>4. CASE StopClear
    BY <1>0, <2>4 DEF Lifecycle, StopClear, Go, nodeVars, threadVars
  <2>5. CASE StopFlags
    BY <1>0, <2>5 DEF Lifecycle, StopFlags, Return, nodeVars, threadVars
  <2>. QED
    BY <1>7, <2>1, <2>2, <2>3, <2>4, <2>5 DEF OwnerStep
<1>8. ASSUME ThreadStep PROVE Lifecycle'
  <2>1. UNCHANGED <<node, instance, pc, alive>> /\ thread # "off"
    BY <1>8 DEF ThreadStep, ThreadExit, TickFail, TickBegin, ProcessBlock, TickEnd, DispatchEnd,
                CallbackCheck, CallbackFlag, CallbackEmit, threadFrame, moduleVars, callVars, nodeVars
  <2>2. thread' \in {"off", "loop"} => out' = <<>>
    BY <1>8 DEF Lifecycle, ThreadStep, ThreadExit, TickFail, TickBegin, ProcessBlock, TickEnd,
                DispatchEnd, CallbackCheck, CallbackFlag, CallbackEmit
  <2>. QED
    BY <2>1, <2>2 DEF Lifecycle
<1>9. CASE UNCHANGED vars
  BY <1>9 DEF Lifecycle, vars, moduleVars, callVars, nodeVars, threadVars
<1>. QED
  BY <1>1, <1>2, <1>3, <1>4, <1>5, <1>6, <1>7, <1>8, <1>9
  DEF Next, NewCall, CallStep, Crashed

(* After stop() nothing of the node is left, its thread and queue included, *)
(* and no callback finds the module, until the next start (StopIsFinal).    *)
THEOREM StopIsFinalCorrect == Spec => []StopIsFinal
<1>1. Init => Lifecycle
  BY DEF Init, Lifecycle
<1>2. TypeOK /\ Lifecycle => StopIsFinal
  BY DEF TypeOK, Lifecycle, StopIsFinal
<1>. QED
  BY <1>1, <1>2, TypeCorrect, LifecycleStep, PTL DEF Spec

-----------------------------------------------------------------------------
(* start() and its subscriptions. *)

\* The streams start() subscribes before s.
Before(s) == CASE s = "new" -> {} [] s = "processed" -> {"new"} [] s = "lib" -> {"new", "processed"}

\* While start() subscribes, the streams it is done with are set, or the node
\* has failed and dropped them.
Starting ==
  via = "start" =>
    /\ pc[Owner] \in {"publish", "check", "claim", "read", "call", "undo"}
    /\ pc[Owner] # "publish" => health = "failed" \/ Before(arg[Owner]) \subseteq cbs

\* What one subscription step of c does to start()'s own.
SubscribeKeeps(c) ==
  \/ /\ via' = via /\ cbs \subseteq cbs' /\ health' = health
     /\ c # Owner => pc'[Owner] = pc[Owner] /\ arg'[Owner] = arg[Owner]
     /\ c = Owner => pc'[Owner] \in {"idle", "check", "claim", "read", "call", "undo"}
                     /\ arg'[Owner] = arg[Owner] /\ (via = "start" => pc'[Owner] # "idle")
  \/ c = Owner /\ via' = "call" /\ ret'[Owner] = "err"
  \/ /\ c = Owner /\ health' = health /\ health # "failed" /\ cbs' = cbs \cup {arg[Owner]}
     /\ \/ via' = "call" /\ (via = "start" => arg[Owner] \notin DOMAIN NextStream)
        \/ /\ via' = via /\ via = "start" /\ arg[Owner] \in DOMAIN NextStream
           /\ pc'[Owner] = "check" /\ arg'[Owner] = NextStream[arg[Owner]]

LEMMA FinishKeeps ==
  ASSUME TypeOK, NEW c \in Callers, NEW r \in {"ok", "err"}, Finish(c, r)
  PROVE  /\ c # Owner => via' = via /\ pc'[Owner] = pc[Owner] /\ arg'[Owner] = arg[Owner]
         /\ c = Owner =>
              \/ /\ via' = "call" /\ ret'[Owner] = r
                 /\ r = "ok" /\ via = "start" => arg[Owner] \notin DOMAIN NextStream
              \/ /\ r = "ok" /\ via = "start" /\ via' = via /\ arg[Owner] \in DOMAIN NextStream
                 /\ pc'[Owner] = "check" /\ arg'[Owner] = NextStream[arg[Owner]]
<1>1. CASE c = Owner /\ via = "start" /\ r = "ok" /\ arg[c] \in DOMAIN NextStream
  BY <1>1 DEF Finish, Go, TypeOK
<1>2. CASE ~(c = Owner /\ via = "start" /\ r = "ok" /\ arg[c] \in DOMAIN NextStream)
  BY <1>2 DEF Finish, Return, TypeOK
<1>. QED
  BY <1>1, <1>2

LEMMA SubscribeStepKeeps ==
  ASSUME TypeOK, NEW c \in Callers, SubscribeStep(c)
  PROVE  SubscribeKeeps(c)
<1>0. /\ Owner \in Callers /\ arg \in [Callers -> Streams]
      /\ pc \in [Callers -> {"idle", "publish", "check", "claim", "read", "call", "undo",
                             "signal", "join", "clear", "flags"}]
  BY DEF TypeOK
<1>1. ASSUME Finish(c, "err"), UNCHANGED <<cbs, health>> PROVE SubscribeKeeps(c)
  BY <1>1, FinishKeeps DEF SubscribeKeeps
<1>2. ASSUME NEW p \in {"claim", "read", "call", "undo"}, Go(c, p), UNCHANGED <<arg, via, cbs, health>>
      PROVE  SubscribeKeeps(c)
  BY <1>0, <1>2 DEF Go, SubscribeKeeps
<1>3. CASE SubscribeCheck(c)
  BY <1>1, <1>2, <1>3 DEF SubscribeCheck, nodeVars
<1>4. CASE SubscribeClaim(c)
  BY <1>1, <1>2, <1>4 DEF SubscribeClaim, nodeVars
<1>5. CASE SubscribeRead(c)
  BY <1>2, <1>5 DEF SubscribeRead, nodeVars
<1>6. CASE SubscribeUndo(c)
  BY <1>1, <1>6 DEF SubscribeUndo, nodeVars
<1>7. CASE SubscribeCall(c)
  <2>1. UNCHANGED health
    BY <1>7 DEF SubscribeCall
  <2>2. CASE handle[c] # alive
    <3>1. pc[c] = "call" /\ UNCHANGED <<pc, arg, via, cbs>>
      BY <1>7, <2>2 DEF SubscribeCall, callVars
    <3>. QED
      BY <2>1, <3>1 DEF SubscribeKeeps
  <2>3. CASE handle[c] = alive /\ health = "failed"
    <3>1. Go(c, "undo") /\ UNCHANGED <<arg, via, cbs>>
      BY <1>7, <2>3 DEF SubscribeCall
    <3>. QED
      BY <1>2, <2>1, <3>1
  <2>4. CASE handle[c] = alive /\ health # "failed"
    <3>1. cbs' = cbs \cup {arg[c]} /\ Finish(c, "ok")
      BY <1>7, <2>4 DEF SubscribeCall
    <3>. QED
      BY <2>1, <2>4, <3>1, FinishKeeps DEF SubscribeKeeps
  <2>. QED
    BY <2>2, <2>3, <2>4
<1>. QED
  BY <1>3, <1>4, <1>5, <1>6, <1>7 DEF SubscribeStep

LEMMA StartingStep ==
  ASSUME TypeOK, TypeOK', Starting, [Next]_vars
  PROVE  /\ Starting'
         /\ via = "start" /\ via' = "call" /\ ret'[Owner] = "ok" => cbs' = Streams \/ health' = "failed"
<1>0. /\ Owner \in Callers /\ arg \in [Callers -> Streams] /\ via \in {"start", "call"}
      /\ pc \in [Callers -> {"idle", "publish", "check", "claim", "read", "call", "undo",
                             "signal", "join", "clear", "flags"}]
  BY DEF TypeOK
<1>1. CASE \/ UNCHANGED vars \/ StartFails \/ StopBegin
           \/ \E c \in Callers : Refused(c) \/ \E s \in Streams : Subscribe(c, s)
  <2>1. UNCHANGED <<via, cbs, health>>
    BY <1>1 DEF vars, callVars, nodeVars, StartFails, StopBegin, Refused, Subscribe
  <2>2. pc[Owner] = "idle" \/ (pc'[Owner] = pc[Owner] /\ arg'[Owner] = arg[Owner])
    BY <1>0, <1>1 DEF vars, callVars, StartFails, StopBegin, Refused, Subscribe, Return, Go
  <2>. QED
    BY <2>1, <2>2 DEF Starting
<1>2. CASE StartCreate
  BY <1>0, <1>2 DEF StartCreate, Go, Starting
<1>3. CASE StartPublish
  BY <1>0, <1>3 DEF StartPublish, Go, Starting, Before, First, nodeVars
<1>4. CASE StopSignal \/ StopJoin \/ StopClear \/ StopFlags
  BY <1>4 DEF StopSignal, StopJoin, StopClear, StopFlags, Starting
<1>5. ASSUME NEW c \in Callers, SubscribeStep(c)
      PROVE  /\ Starting'
             /\ via = "start" /\ via' = "call" /\ ret'[Owner] = "ok" => cbs' = Streams \/ health' = "failed"
  <2>1. SubscribeKeeps(c) /\ pc[c] \in {"check", "claim", "read", "call", "undo"}
    BY <1>5, SubscribeStepKeeps DEF SubscribeStep, SubscribeCheck, SubscribeClaim, SubscribeRead,
                                    SubscribeCall, SubscribeUndo
  <2>2. /\ DOMAIN NextStream = {"new", "processed"}
        /\ \A s \in {"new", "processed"} : Before(NextStream[s]) = Before(s) \cup {s}
        /\ Before("lib") = {"new", "processed"} /\ arg[Owner] \in Streams
    BY <1>0 DEF NextStream, Before
  <2>3. CASE via # "start"
    BY <2>1, <2>3 DEF SubscribeKeeps, Starting
  <2>4. CASE via = "start"
    <3>1. cbs \in SUBSET Streams
      BY DEF TypeOK
    <3> HIDE DEF Before, NextStream
    <3>. QED
      BY <2>1, <2>2, <2>4, <3>1 DEF SubscribeKeeps, Starting
  <2>. QED
    BY <2>3, <2>4
<1>6. CASE ThreadStep
  <2>1. /\ UNCHANGED callVars /\ (cbs' = cbs \/ health' = "failed")
        /\ health = "failed" => health' = "failed"
    BY <1>6 DEF ThreadStep, ThreadExit, TickFail, TickBegin, ProcessBlock, TickEnd, DispatchEnd,
                CallbackCheck, CallbackFlag, CallbackEmit, threadFrame, nodeVars
  <2>. QED
    BY <2>1 DEF callVars, Starting
<1>. QED
  BY <1>1, <1>2, <1>3, <1>4, <1>5, <1>6 DEF Next, NewCall, CallStep, OwnerStep, Crashed

(* A start() that succeeds leaves all three streams set, or a node that     *)
(* failed while it subscribed them (StartSubscribesAll), whoever else       *)
(* subscribes meanwhile.                                                    *)
THEOREM StartSubscribesAllCorrect == Spec => StartSubscribesAll
<1>1. Init => Starting
  BY DEF Init, Starting
<1>. QED
  BY <1>1, TypeCorrect, StartingStep, PTL DEF Spec, StartSubscribesAll

=============================================================================
