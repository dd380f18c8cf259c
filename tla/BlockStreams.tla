---------------------------- MODULE BlockStreams ----------------------------
(***************************************************************************)
(* The module's node lifecycle (start, stop, the destructor), its three    *)
(* stream subscriptions and the C callbacks, run against the simulated     *)
(* node: the thread that ticks, its mutex, the callbacks it invokes with   *)
(* the mutex released, and its shutdown.                                   *)
(*                                                                         *)
(* Lifecycle calls come from one caller, Owner, as from a host that        *)
(* dispatches them one at a time.  Subscribers are further threads that    *)
(* only subscribe: stream::subscribe is written for concurrent callers.    *)
(* A step is one access to state that another thread can touch.            *)
(***************************************************************************)
EXTENDS Integers, Sequences

CONSTANTS
  Owner,        \* the caller of start, stop, ~LogosBlockchainModule
  Subscribers,  \* concurrent callers of subscribe_to_*
  K,            \* securityParam: LIB is K blocks behind the tip
  MaxRuns,      \* bound: nodes created
  MaxHeight     \* bound: the chain's last block

ASSUME StreamsAssumption ==
  /\ Owner \notin Subscribers
  /\ K \in Nat
  /\ MaxRuns \in Nat
  /\ MaxHeight \in Nat

Callers == Subscribers \cup {Owner}

\* The streams in the order start() subscribes them.
Streams == {"new", "processed", "lib"}
First == "new"
\* Mutant: start() forgets the last stream.
NextStreamMissing == [s \in {"new"} |-> "processed"]

NextStream == [s \in {"new", "processed"} |-> IF s = "new" THEN "processed" ELSE "lib"]

VARIABLES
  \* The module object.
  node,        \* the handle it holds: a run number, 0 for nullptr
  instance,    \* s_instance: "this" or "null"
  subscribed,  \* the streams whose is_*_subscribed is set
  \* Calls in progress.
  pc,          \* pc[c]: the next step of c's call
  arg,         \* arg[c]: the stream c is subscribing to
  handle,      \* handle[c]: the node pointer c passed to the FFI
  via,         \* whether Owner subscribes on behalf of start() ("start")
  ret,         \* ret[c]: the result of c's last call
  \* The node object that exists, if any.
  alive,       \* its run number, 0 when there is none
  runs,        \* nodes created so far
  cbs,         \* the streams with a callback in m_streams
  health,      \* "untried" before its first tick (m_lastTickMs = 0), then
               \* "ok", or "failed" (m_failed)
  command,     \* "stop" once m_stopping is set, "run" before
  mode,        \* m_mode; NotStarted is left out
  tip, lib,    \* m_tip, m_lib, which saveState and loadState carry over
  thread,      \* where m_thread is
  out,         \* the events of the tick still to dispatch
  cbpc,        \* the next step of the callback for Head(out)
  \* What happened.
  last,        \* last[s]: the last height emitted since the subscription
  fault        \* the undefined behaviour reached, "none" before it

moduleVars == <<node, instance, subscribed>>
callVars == <<pc, arg, handle, via, ret>>
nodeVars == <<alive, runs, cbs, health, command, mode, tip, lib>>
threadVars == <<thread, out, cbpc>>
vars == <<moduleVars, callVars, nodeVars, threadVars, last, fault>>

\* An element of out: a block at height h, or the end of the stream (h = 0).
Event == [stream : Streams, h : Nat]

Emit(s, h) == IF s \in cbs THEN <<[stream |-> s, h |-> h]>> ELSE <<>>

\* The mutex of the node is held from TickBegin to TickEnd.
Unlocked == thread # "ticking"

Init ==
  /\ node = 0 /\ instance = "null" /\ subscribed = {}
  /\ pc = [c \in Callers |-> "idle"]
  /\ arg = [c \in Callers |-> First]
  /\ handle = [c \in Callers |-> 0]
  /\ via = "call"
  /\ ret = [c \in Callers |-> "none"]
  /\ alive = 0 /\ runs = 0 /\ cbs = {}
  /\ health = "untried" /\ command = "run" /\ mode = "Bootstrapping"
  /\ tip = 0 /\ lib = 0
  /\ thread = "off" /\ out = <<>> /\ cbpc = "check"
  /\ last = [s \in Streams |-> 0]
  /\ fault = "none"

-----------------------------------------------------------------------------
(* Calls. *)

Go(c, step) == pc' = [pc EXCEPT ![c] = step]

Return(c, result) ==
  /\ pc' = [pc EXCEPT ![c] = "idle"]
  /\ ret' = [ret EXCEPT ![c] = result]

\* A call that finds the node in the wrong state: start while it runs, stop
\* and the subscriptions while it does not.
Refused(c) ==
  /\ pc[c] = "idle"
  /\ c = Owner \/ node = 0
  /\ Return(c, "err")
  /\ UNCHANGED <<moduleVars, arg, handle, via, nodeVars, threadVars, last>>

\* start(): the FFI could not create the node (or no config path was given).
StartFails ==
  /\ pc[Owner] = "idle" /\ node = 0
  /\ Return(Owner, "err")
  /\ UNCHANGED <<moduleVars, arg, handle, via, nodeVars, threadVars, last>>

\* start(): start_lb_node returns a node whose thread already runs.  It resumes
\* the chain it saved, Online at once if that was recent and has a LIB, or
\* starts from genesis when the state was purged.
StartCreate ==
  /\ pc[Owner] = "idle" /\ node = 0
  /\ runs < MaxRuns
  /\ runs' = runs + 1
  /\ alive' = runs' /\ node' = runs'
  /\ health' = "untried" /\ command' = "run" /\ cbs' = {}
  /\ \/ UNCHANGED <<tip, lib>> /\ mode' = "Bootstrapping"
     \/ UNCHANGED <<tip, lib>> /\ lib > 0 /\ mode' = "Online"
     \/ tip' = 0 /\ lib' = 0 /\ mode' = "Bootstrapping"
  /\ thread' = "loop" /\ out' = <<>> /\ cbpc' = "check"
  /\ via' = "start"
  /\ Go(Owner, "publish")
  /\ UNCHANGED <<instance, subscribed, arg, handle, ret, last>>

\* start(): s_instance = this.
StartPublish ==
  /\ pc[Owner] = "publish"
  /\ instance' = "this"
  /\ arg' = [arg EXCEPT ![Owner] = First]
  /\ Go(Owner, "check")
  /\ UNCHANGED <<node, subscribed, handle, via, ret, nodeVars, threadVars, last>>

\* A subscribe_to_* call of its own, not from start().
Subscribe(c, s) ==
  /\ pc[c] = "idle"
  /\ arg' = [arg EXCEPT ![c] = s]
  /\ Go(c, "check")
  /\ UNCHANGED <<moduleVars, handle, via, ret, nodeVars, threadVars, last>>

\* The end of one subscription: start() goes on to the next stream after a
\* success and returns the first failure with the node left running.
Finish(c, result) ==
  IF c = Owner /\ via = "start" /\ result = "ok" /\ arg[c] \in DOMAIN NextStream
  THEN /\ arg' = [arg EXCEPT ![c] = NextStream[arg[c]]]
       /\ Go(c, "check")
       /\ UNCHANGED <<via, ret>>
  ELSE /\ Return(c, result)
       /\ via' = (IF c = Owner THEN "call" ELSE via)
       /\ UNCHANGED arg

\* if (!node) return err
SubscribeCheck(c) ==
  /\ pc[c] = "check"
  /\ IF node = 0
     THEN Finish(c, "err")
     ELSE Go(c, "claim") /\ UNCHANGED <<arg, via, ret>>
  /\ UNCHANGED <<moduleVars, handle, nodeVars, threadVars, last>>

\* Mutant: the flag is set without being tested.
SubscribeClaimUntested(c) ==
  /\ pc[c] = "claim"
  /\ subscribed' = subscribed \cup {arg[c]}
  /\ Go(c, "read")
  /\ UNCHANGED <<node, instance, arg, handle, via, ret, nodeVars, threadVars, last>>

\* The compare-and-exchange on the flag.
SubscribeClaim(c) ==
  /\ pc[c] = "claim"
  /\ IF arg[c] \in subscribed
     THEN Finish(c, "err") /\ UNCHANGED subscribed
     ELSE /\ subscribed' = subscribed \cup {arg[c]}
          /\ Go(c, "read")
          /\ UNCHANGED <<arg, via, ret>>
  /\ UNCHANGED <<node, instance, handle, nodeVars, threadVars, last>>

\* The lambda reads this->node; a null pointer makes the FFI return an error.
SubscribeRead(c) ==
  /\ pc[c] = "read"
  /\ handle' = [handle EXCEPT ![c] = node]
  /\ Go(c, IF node = 0 THEN "undo" ELSE "call")
  /\ UNCHANGED <<moduleVars, arg, via, ret, nodeVars, threadVars, last>>

\* The FFI call: it uses the node it was given, under its mutex.
SubscribeCall(c) ==
  /\ pc[c] = "call"
  /\ IF handle[c] # alive
     THEN /\ fault' = "dangling_node"
          /\ UNCHANGED <<callVars, cbs, last>>
     ELSE /\ Unlocked
          /\ handle' = [handle EXCEPT ![c] = 0]
          /\ IF health = "failed"
             THEN Go(c, "undo") /\ UNCHANGED <<arg, via, ret, cbs, last>>
             ELSE /\ cbs' = cbs \cup {arg[c]}
                  /\ last' = [last EXCEPT ![arg[c]] = 0]
                  /\ Finish(c, "ok")
          /\ UNCHANGED fault
  /\ UNCHANGED <<moduleVars, alive, runs, health, command, mode, tip, lib, threadVars>>

\* The FFI failed: the flag is released.
SubscribeUndo(c) ==
  /\ pc[c] = "undo"
  /\ subscribed' = subscribed \ {arg[c]}
  /\ Finish(c, "err")
  /\ UNCHANGED <<node, instance, handle, nodeVars, threadVars, last>>

\* stop(), and the destructor of a module whose node runs, which waits for no
\* other caller to be inside the object.
StopBegin ==
  /\ pc[Owner] = "idle" /\ node # 0
  /\ instance' = "null"
  /\ Go(Owner, "signal")
  /\ UNCHANGED <<node, subscribed, arg, handle, via, ret, nodeVars, threadVars, last>>

\* shutdown_node: m_stopping is set under the mutex.
StopSignal ==
  /\ pc[Owner] = "signal" /\ Unlocked
  /\ command' = "stop"
  /\ Go(Owner, "join")
  /\ UNCHANGED <<moduleVars, arg, handle, via, ret, alive, runs, cbs, health,
                 mode, tip, lib, threadVars, last>>

\* Mutant: the node is deleted without joining its thread.
StopJoinDetached ==
  /\ pc[Owner] = "join"
  /\ alive' = 0 /\ cbs' = {}
  /\ health' = "untried" /\ command' = "run" /\ mode' = "Bootstrapping"
  /\ Go(Owner, "clear")
  /\ UNCHANGED <<moduleVars, arg, handle, via, ret, runs, tip, lib, threadVars, last>>

\* shutdown_node: the thread has ended, the state is saved, the node deleted.
StopJoin ==
  /\ pc[Owner] = "join" /\ thread = "off"
  /\ alive' = 0 /\ cbs' = {}
  /\ health' = "untried" /\ command' = "run" /\ mode' = "Bootstrapping"
  /\ Go(Owner, "clear")
  /\ UNCHANGED <<moduleVars, arg, handle, via, ret, runs, tip, lib, threadVars, last>>

\* node = nullptr (and node_config_path.clear()).
StopClear ==
  /\ pc[Owner] = "clear"
  /\ node' = 0
  /\ Go(Owner, "flags")
  /\ UNCHANGED <<instance, subscribed, arg, handle, via, ret, nodeVars, threadVars, last>>

\* Mutant: one flag is not reset.
StopFlagsMissing ==
  /\ pc[Owner] = "flags"
  /\ subscribed' = subscribed \cap {"lib"}
  /\ Return(Owner, "ok")
  /\ UNCHANGED <<node, instance, arg, handle, via, nodeVars, threadVars, last>>

\* The three flags, one store each in the code; nothing here reads two of them.
StopFlags ==
  /\ pc[Owner] = "flags"
  /\ subscribed' = {}
  /\ Return(Owner, "ok")
  /\ UNCHANGED <<node, instance, arg, handle, via, nodeVars, threadVars, last>>

SubscribeStep(c) ==
  \/ (SubscribeCheck(c) \/ SubscribeClaim(c) \/ SubscribeRead(c) \/ SubscribeUndo(c)) /\ UNCHANGED fault
  \/ SubscribeCall(c)

OwnerStep ==
  (StartPublish \/ StopSignal \/ StopJoin \/ StopClear \/ StopFlags) /\ UNCHANGED fault

-----------------------------------------------------------------------------
(* The node's thread. *)

threadFrame == <<moduleVars, callVars, alive, runs, command>>

\* Mutant: a failed node's thread no longer looks at m_stopping.
ThreadExitHealthy ==
  /\ thread = "loop" /\ command = "stop" /\ health # "failed"
  /\ thread' = "off"
  /\ UNCHANGED <<threadFrame, cbs, health, mode, tip, lib, out, cbpc, last, fault>>

\* run() leaves its loop once the node is stopping.
ThreadExit ==
  /\ thread = "loop" /\ command = "stop"
  /\ thread' = "off"
  /\ UNCHANGED <<threadFrame, cbs, health, mode, tip, lib, out, cbpc, last, fault>>

\* The first tick finds a PoW target that is no wallet key: the node fails and
\* every stream that is set ends.
TickFail ==
  /\ thread = "loop" /\ command = "run" /\ health = "untried"
  /\ health' = "failed"
  /\ out' = Emit("new", 0) \o Emit("processed", 0) \o Emit("lib", 0)
  /\ cbs' = {}
  /\ thread' = "dispatch"
  /\ UNCHANGED <<threadFrame, mode, tip, lib, cbpc, last, fault>>

\* A tick takes the mutex.  A failed node's ticks do nothing and are left out.
TickBegin ==
  /\ thread = "loop" /\ command = "run" /\ health # "failed"
  /\ thread' = "ticking" /\ health' = "ok"
  /\ UNCHANGED <<threadFrame, cbs, mode, tip, lib, out, cbpc, last, fault>>

\* Mutant: no lower bound.
LibAtUnbounded(h) == h - K

LibAt(h) == IF h > K THEN h - K ELSE 0

\* setLib: a LIB that moves is announced.
SetLib(events, h) ==
  /\ lib' = h
  /\ out' = events \o (IF h # lib THEN Emit("lib", h) ELSE <<>>)

\* The tick processes its next block.
ProcessBlock ==
  /\ thread = "ticking"
  /\ tip < MaxHeight
  /\ tip' = tip + 1
  /\ SetLib(out \o Emit("new", tip + 1) \o Emit("processed", tip + 1),
            IF mode = "Online" THEN LibAt(tip + 1) ELSE lib)
  /\ UNCHANGED <<threadFrame, cbs, health, mode, thread, cbpc, last, fault>>

\* The tick releases the mutex and hands its events to dispatch().  Clock and
\* sync decide whether it is the one that ends Bootstrapping.
TickEnd ==
  /\ thread = "ticking"
  /\ thread' = "dispatch"
  /\ \/ UNCHANGED <<mode, lib, out>>
     \/ mode = "Bootstrapping" /\ mode' = "Online" /\ SetLib(out, LibAt(tip))
  /\ UNCHANGED <<threadFrame, cbs, health, tip, cbpc, last, fault>>

\* Everything is dispatched; the thread waits for the next tick or m_stopping.
DispatchEnd ==
  /\ thread = "dispatch" /\ out = <<>>
  /\ thread' = "loop"
  /\ UNCHANGED <<threadFrame, cbs, health, mode, tip, lib, out, cbpc, last, fault>>

\* Callback: if (!s_instance) return.
CallbackCheck ==
  /\ thread = "dispatch" /\ out # <<>> /\ cbpc = "check"
  /\ IF instance = "this"
     THEN cbpc' = (IF Head(out).h = 0 THEN "flag" ELSE "emit") /\ UNCHANGED out
     ELSE out' = Tail(out) /\ UNCHANGED cbpc
  /\ UNCHANGED <<threadFrame, cbs, health, mode, tip, lib, thread, last, fault>>

\* Mutant: the end of a stream leaves its flag set.
CallbackFlagKept ==
  /\ thread = "dispatch" /\ out # <<>> /\ cbpc = "flag"
  /\ IF instance = "this"
     THEN cbpc' = "emit" /\ UNCHANGED fault
     ELSE fault' = "null_instance" /\ UNCHANGED cbpc
  /\ UNCHANGED <<moduleVars, callVars, nodeVars, thread, out, last>>

\* Callback of an ended stream: s_instance->is_*_subscribed = false.
CallbackFlag ==
  /\ thread = "dispatch" /\ out # <<>> /\ cbpc = "flag"
  /\ IF instance = "this"
     THEN /\ subscribed' = subscribed \ {Head(out).stream}
          /\ cbpc' = "emit"
          /\ UNCHANGED fault
     ELSE fault' = "null_instance" /\ UNCHANGED <<subscribed, cbpc>>
  /\ UNCHANGED <<node, instance, callVars, nodeVars, thread, out, last>>

\* Callback: the event, on s_instance read again.
CallbackEmit ==
  /\ thread = "dispatch" /\ out # <<>> /\ cbpc = "emit"
  /\ IF instance = "this"
     THEN /\ out' = Tail(out) /\ cbpc' = "check"
          /\ last' = IF Head(out).h = 0 THEN last ELSE [last EXCEPT ![Head(out).stream] = Head(out).h]
          /\ UNCHANGED fault
     ELSE fault' = "null_instance" /\ UNCHANGED <<out, cbpc, last>>
  /\ UNCHANGED <<threadFrame, cbs, health, mode, tip, lib, thread>>

ThreadStep ==
  \/ ThreadExit \/ TickFail \/ TickBegin \/ TickEnd \/ DispatchEnd
  \/ ProcessBlock \/ CallbackCheck \/ CallbackFlag \/ CallbackEmit

-----------------------------------------------------------------------------

\* A call in progress goes on.
CallStep(c) == SubscribeStep(c) \/ (c = Owner /\ OwnerStep)

\* A caller makes a call.
NewCall ==
  /\ \/ \E c \in Callers : Refused(c) \/ \E s \in Streams : Subscribe(c, s)
     \/ StartFails \/ StartCreate \/ StopBegin
  /\ UNCHANGED fault

\* Undefined behaviour ends the process.
Crashed == fault # "none" /\ UNCHANGED vars

Next ==
  \/ fault = "none" /\ (NewCall \/ (\E c \in Callers : CallStep(c)) \/ ThreadStep)
  \/ Crashed

Spec == Init /\ [][Next]_vars

\* The node's thread and a call that has begun are scheduled; nobody has to
\* make a call.  Between two ticks the thread waits 100 ms with the mutex
\* released, so a caller that needs the mutex gets it: strong fairness.
Fairness ==
  /\ WF_vars(fault = "none" /\ ThreadStep)
  /\ \A c \in Callers : SF_vars(fault = "none" /\ CallStep(c))

FairSpec == Spec /\ Fairness

-----------------------------------------------------------------------------
(* Properties. *)

TypeOK ==
  /\ node \in 0 .. MaxRuns /\ alive \in 0 .. MaxRuns /\ runs \in 0 .. MaxRuns
  /\ instance \in {"this", "null"}
  /\ subscribed \in SUBSET Streams
  /\ pc \in [Callers -> {"idle", "publish", "check", "claim", "read", "call", "undo",
                         "signal", "join", "clear", "flags"}]
  /\ arg \in [Callers -> Streams]
  /\ handle \in [Callers -> 0 .. MaxRuns]
  /\ via \in {"start", "call"}
  /\ ret \in [Callers -> {"none", "ok", "err"}]
  /\ cbs \in SUBSET Streams
  /\ health \in {"untried", "ok", "failed"}
  /\ command \in {"run", "stop"}
  /\ mode \in {"Bootstrapping", "Online"}
  /\ tip \in 0 .. MaxHeight /\ lib \in 0 .. MaxHeight
  /\ thread \in {"off", "loop", "ticking", "dispatch"}
  /\ out \in Seq(Event)
  /\ cbpc \in {"check", "flag", "emit"}
  /\ last \in [Streams -> Nat]
  /\ fault \in {"none", "null_instance", "dangling_node"}

\* s has events the consumer has not seen.
Pending(s) == \E i \in DOMAIN out : out[i].stream = s

\* The null of s is still to clear the flag.
EndPending(s) ==
  \E i \in DOMAIN out : out[i] = [stream |-> s, h |-> 0] /\ ~(i = 1 /\ cbpc = "emit")

\* Once stop() has returned, and whenever no node runs, the node's thread is
\* gone with every event it had queued and s_instance is null: nothing is
\* delivered before the next start.  (stop joins the thread before it forgets
\* the node.)
StopIsFinal ==
  node = 0 /\ pc[Owner] \notin {"clear", "flags"} =>
    alive = 0 /\ thread = "off" /\ out = <<>> /\ instance = "null"

\* What makes stop() final: the node that exists is the one the module holds,
\* but for the moment between its deletion and the reset of the pointer; a
\* node that is gone has no thread, a thread between ticks no events; and
\* s_instance is null from the beginning of a stop to the next start.
Lifecycle ==
  /\ IF pc[Owner] = "clear" THEN alive = 0 ELSE alive = node
  /\ alive = 0 => thread = "off"
  /\ thread \in {"off", "loop"} => out = <<>>
  /\ pc[Owner] \in {"publish", "signal", "join"} => node # 0
  /\ node = 0 \/ pc[Owner] \in {"signal", "join", "clear", "flags"} => instance = "null"

\* Between calls a stream is flagged as subscribed exactly when the node still
\* delivers it or has yet to report its end: the flag never locks a caller out
\* of a stream that ended, nor lets it subscribe a second time to a live one.
FlagAccurate ==
  (\A c \in Callers : pc[c] = "idle") /\ fault = "none" =>
    \A s \in Streams : s \in subscribed <=> s \in cbs \/ EndPending(s)

\* A start that succeeds has subscribed all three streams: each one is live or
\* has been ended by a node that failed meanwhile.
StartSubscribesAll ==
  [][via = "start" /\ via' = "call" /\ ret'[Owner] = "ok" => cbs' = Streams \/ health' = "failed"]_vars

\* The caller that just got its subscription.
Granted(c) == pc[c] = "call" /\ pc'[c] \notin {"call", "undo"}

\* stream::subscribe: "The flag is set first so two callers can't both
\* subscribe": no call succeeds for a stream that is already live.
OneSubscriber == [][\A c \in Callers : Granted(c) => arg[c] \notin cbs]_vars

\* "The module clears s_instance before shutdown, so it ignores late callbacks
\* anyway": no callback uses a null s_instance.
LateCallbackIgnored == fault # "null_instance"

\* stop() returns: its join waits for a thread that is itself not waiting for
\* anything.
StopReturns == pc[Owner] = "signal" ~> pc[Owner] = "idle" \/ fault # "none"

\* The end of a stream reaches the module: after the node failed no flag stays
\* set for good.
EndClearsFlag == \A s \in Streams : health = "failed" /\ s \in subscribed ~> s \notin subscribed \/ fault # "none"

\* The events a consumer gets are those of the abstract feed.
Feed == INSTANCE StreamFeed WITH
  Gapless <- {"new", "processed"},
  feed <- [s \in Streams |-> IF instance = "this" /\ (s \in cbs \/ Pending(s)) THEN "open" ELSE "closed"],
  last <- last

FeedSpec == Feed!Spec
=============================================================================
