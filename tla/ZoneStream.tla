----------------------------- MODULE ZoneStream -----------------------------
(***************************************************************************)
(* The zone SDK's view of one of the module's streams: event_stream of the *)
(* zone-sdk adapter.  A listener thread takes events from an unbounded     *)
(* inbox, decodes them and puts the items into a bounded channel, from     *)
(* which an async consumer takes them.  The module's side is StreamFeed,   *)
(* which BlockStreams implements.                                          *)
(*                                                                         *)
(* The inbox of a listener is what the log holds after the place up to     *)
(* which the listener has read.  A channel holds places of the log.        *)
(***************************************************************************)
EXTENDS Naturals, Sequences, ClientReply

CONSTANTS
  Listeners, \* the streams that consumers may open
  Capacity,  \* of a channel, STREAM_CAPACITY
  MaxEvents, \* bound: the events of a behaviour
  MaxHeight  \* bound: the height of a block

ASSUME ZoneAssumption ==
  Capacity \in Nat \ {0} /\ MaxEvents \in Nat /\ MaxHeight \in Nat

VARIABLES
  feed, last, \* the module's side, see StreamFeed
  log,    \* the events so far: payload, height, and the run of the feed
  link,   \* "up", or "down" once the host's side of the subscriptions is gone
  thread, \* thread[l]: "none", "check", "recv", "send" or "done"
  next,   \* next[l]: how far the thread has read; in "send" it holds log[next]
  chan,   \* chan[l]: the items in the channel, as places of the log
  stream, \* stream[l]: "none", "failed", "open", "over" or "dropped"
  at      \* at[l]: the place of the last item received, or of the subscription

feedVars == <<feed, last, log, link>>
vars == <<feedVars, thread, next, chan, stream, at>>

Processed == "processedBlock"

Feed == INSTANCE StreamFeed WITH Streams <- {Processed}, Gapless <- {Processed}

Payloads == {"block", "other", "null"}

\* The type invariant.  A channel holds at most Capacity items.
TypeOK ==
  /\ log \in Seq([payload : Payloads, height : Nat, run : Nat])
  /\ link \in {"up", "down"}
  /\ thread \in [Listeners -> {"none", "check", "recv", "send", "done"}]
  /\ next \in [Listeners -> Nat]
  /\ chan \in [Listeners -> Seq(Nat)]
  /\ \A l \in Listeners : Len(chan[l]) <= Capacity
  /\ stream \in [Listeners -> {"none", "failed", "open", "over", "dropped"}]
  /\ at \in [Listeners -> Nat]

Init ==
  /\ Feed!Init
  /\ log = <<>> /\ link = "up"
  /\ thread = [l \in Listeners |-> "none"]
  /\ next = [l \in Listeners |-> 0]
  /\ chan = [l \in Listeners |-> <<>>]
  /\ stream = [l \in Listeners |-> "none"]
  /\ at = [l \in Listeners |-> 0]

----------------------------------------------------------------------------
(* The module and the host. *)

\* The run an event belongs to: one more after every null and every cut.
Run == IF log = <<>> THEN 0 ELSE log[Len(log)].run

Emit(payload, height) ==
  /\ link = "up" /\ Len(log) < MaxEvents
  /\ log' = Append(log, [payload |-> payload, height |-> height,
                         run |-> IF last[Processed] = 0 THEN Run + 1 ELSE Run])
  /\ UNCHANGED <<link, thread, next, chan, stream, at>>

FeedOpen ==
  /\ Feed!Open(Processed)
  /\ UNCHANGED <<log, link, thread, next, chan, stream, at>>

\* One block.  A node whose JSON the client does not know sends "other".
FeedItem ==
  \E payload \in Payloads \ {"null"}, h \in 1 .. MaxHeight :
    /\ last' = [last EXCEPT ![Processed] = h]
    /\ Feed!Item(Processed)
    /\ Emit(payload, h)

FeedEnd == Feed!End(Processed) /\ Emit("null", 0)

\* stop(): the feed is cut and no null is sent.
FeedCut ==
  /\ Feed!Cut
  /\ UNCHANGED <<log, link, thread, next, chan, stream, at>>

\* The host lets go of the subscriptions.
LinkDown ==
  /\ link = "up" /\ link' = "down"
  /\ UNCHANGED <<feed, last, log, thread, next, chan, stream, at>>

----------------------------------------------------------------------------
(* The listener thread. *)

\* event_stream: a subscription of its own, a channel, a thread.
Subscribe(l) ==
  /\ stream[l] = "none" /\ link = "up"
  /\ stream' = [stream EXCEPT ![l] = "open"]
  /\ thread' = [thread EXCEPT ![l] = "check"]
  /\ next' = [next EXCEPT ![l] = Len(log)]
  /\ at' = [at EXCEPT ![l] = Len(log)]
  /\ UNCHANGED <<feedVars, chan>>

\* The subscription or the thread cannot be had: an error, and no stream.
SubscribeFails(l) ==
  /\ stream[l] = "none"
  /\ stream' = [stream EXCEPT ![l] = "failed"]
  /\ UNCHANGED <<feedVars, thread, next, chan, at>>

goto(l, step) == thread' = [thread EXCEPT ![l] = step]

\* Mutant: the loop does not ask whether the stream was dropped.
CheckNothing(l) ==
  /\ thread[l] = "check" /\ goto(l, "recv")
  /\ UNCHANGED <<feedVars, next, chan, stream, at>>

\* while !tx.is_closed()
Check(l) ==
  /\ thread[l] = "check"
  /\ goto(l, IF stream[l] = "dropped" THEN "done" ELSE "recv")
  /\ UNCHANGED <<feedVars, next, chan, stream, at>>

\* Mutants: an end does not leave the loop; an undecodable event does.
EndGoesOn(kind) == IF kind = "item" THEN "send" ELSE "check"
BadStops(kind) == IF kind = "item" THEN "send" ELSE "done"

AfterItem(kind) ==
  CASE kind = "item" -> "send" [] kind = "end" -> "done" [] OTHER -> "check"

\* recv_timeout returns an event, and the thread decodes it.
RecvEvent(l) ==
  /\ thread[l] = "recv" /\ next[l] < Len(log)
  /\ next' = [next EXCEPT ![l] = @ + 1]
  /\ goto(l, AfterItem(block_item(log[next[l] + 1].payload)))
  /\ UNCHANGED <<feedVars, chan, stream, at>>

\* Mutant: the loss of the sender is noticed before the queued events.
DownFirst(l) ==
  /\ thread[l] = "recv" /\ (next[l] = Len(log) \/ link = "down")
  /\ goto(l, IF link = "up" THEN "check" ELSE "done")
  /\ UNCHANGED <<feedVars, next, chan, stream, at>>

\* recv_timeout finds the inbox empty: a timeout, or a sender that is gone.
RecvNothing(l) ==
  /\ thread[l] = "recv" /\ next[l] = Len(log)
  /\ goto(l, IF link = "up" THEN "check" ELSE "done")
  /\ UNCHANGED <<feedVars, next, chan, stream, at>>

\* Mutants: try_send, which drops the item if there is no room; a channel
\* without a capacity.
TrySend(l) ==
  /\ thread[l] = "send" /\ goto(l, IF stream[l] = "dropped" THEN "done" ELSE "check")
  /\ chan' = IF stream[l] # "dropped" /\ Len(chan[l]) < Capacity
             THEN [chan EXCEPT ![l] = Append(@, next[l])] ELSE chan
  /\ UNCHANGED <<feedVars, next, stream, at>>
SendUnbounded(l) ==
  /\ thread[l] = "send" /\ goto(l, IF stream[l] = "dropped" THEN "done" ELSE "check")
  /\ chan' = IF stream[l] # "dropped"
             THEN [chan EXCEPT ![l] = Append(@, next[l])] ELSE chan
  /\ UNCHANGED <<feedVars, next, stream, at>>

\* blocking_send waits for room and fails once the stream is dropped.
Send(l) ==
  /\ thread[l] = "send"
  /\ \/ /\ stream[l] = "dropped"
        /\ goto(l, "done") /\ UNCHANGED chan
     \/ /\ stream[l] # "dropped" /\ Len(chan[l]) < Capacity
        /\ chan' = [chan EXCEPT ![l] = Append(@, next[l])]
        /\ goto(l, "check")
  /\ UNCHANGED <<feedVars, next, stream, at>>

----------------------------------------------------------------------------
(* The consumer. *)

\* The stream yields an item.
Poll(l) ==
  /\ stream[l] = "open" /\ chan[l] # <<>>
  /\ at' = [at EXCEPT ![l] = Head(chan[l])]
  /\ chan' = [chan EXCEPT ![l] = Tail(@)]
  /\ UNCHANGED <<feedVars, thread, next, stream>>

\* The channel is empty and its sender gone: the stream yields None.
PollNone(l) ==
  /\ stream[l] = "open" /\ chan[l] = <<>> /\ thread[l] = "done"
  /\ stream' = [stream EXCEPT ![l] = "over"]
  /\ UNCHANGED <<feedVars, thread, next, chan, at>>

Drop(l) ==
  /\ stream[l] = "open"
  /\ stream' = [stream EXCEPT ![l] = "dropped"]
  /\ chan' = [chan EXCEPT ![l] = <<>>]
  /\ UNCHANGED <<feedVars, thread, next, at>>

----------------------------------------------------------------------------

Module == FeedOpen \/ FeedItem \/ FeedEnd \/ FeedCut

Listen(l) == Check(l) \/ RecvEvent(l) \/ RecvNothing(l) \/ Send(l)

Consume(l) == Poll(l) \/ PollNone(l)

Next ==
  \/ Module \/ LinkDown
  \/ \E l \in Listeners :
       Subscribe(l) \/ SubscribeFails(l) \/ Listen(l) \/ Consume(l) \/ Drop(l)

\* The scheduler runs the thread, and the consumer goes on polling until it
\* drops its stream.  Nothing is assumed of the module.
Fairness ==
  \A l \in Listeners : WF_vars(Listen(l)) /\ WF_vars(Consume(l))

Spec == Init /\ [][Next]_vars /\ Fairness

----------------------------------------------------------------------------
(* Properties. *)

Kind(k) == block_item(log[k].payload)

\* The adapter implements OrderedFeed: between the module's event and the
\* consumer no item is lost, doubled or moved, although the thread stops
\* reading while the channel is full; and the stream is over only after its
\* last item, also when the sender is gone while events are still queued.
Ordered ==
  INSTANCE OrderedFeed WITH
    Readers <- Listeners,
    log <- [k \in 1 .. Len(log) |-> Kind(k)],
    source <- link,
    state <- [l \in Listeners |-> IF stream[l] = "failed" THEN "none" ELSE stream[l]]

OrderedSpec == Ordered!Spec

\* Between two items that a consumer receives one after the other, from one run
\* of the node, no height is missing, unless an event could not be decoded.
NoSilentGap ==
  [][\A l \in Listeners :
       (stream[l] = "open" /\ 0 < at[l] /\ at[l] # at'[l]) =>
         \/ log[at'[l]].run # log[at[l]].run
         \/ \E k \in at[l] .. at'[l] : Kind(k) # "item"
         \/ log[at'[l]].height = log[at[l]].height + 1]_vars

\* A stream that is dropped ends its thread, whether that is waiting for an
\* event or for room, and with it the subscription.
ListenerEnds ==
  \A l \in Listeners : stream[l] = "dropped" ~> thread[l] = "done"

\* An end that the module sends, and the loss of the sender, reach the consumer
\* of an open stream as the end of its stream.
EndReaches ==
  \A l \in Listeners :
    /\ (stream[l] = "open" /\ \E k \in at[l] + 1 .. Len(log) : Kind(k) = "end")
         ~> stream[l] \in {"over", "dropped"}
    /\ (stream[l] = "open" /\ link = "down") ~> stream[l] \in {"over", "dropped"}

\* Every item that the module emits while a stream is open reaches its consumer,
\* unless an end comes first: also behind an event that cannot be decoded, and
\* also one of the next run after a stop, for which no end was sent.
ItemReaches ==
  \A l \in Listeners, k \in 1 .. MaxEvents :
    (/\ stream[l] = "open" /\ k \in at[l] + 1 .. Len(log) /\ Kind(k) = "item"
     /\ \A j \in at[l] + 1 .. k : Kind(j) # "end")
      ~> (at[l] >= k \/ stream[l] = "dropped")
=============================================================================
