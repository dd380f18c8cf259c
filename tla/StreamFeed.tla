----------------------------- MODULE StreamFeed -----------------------------
(***************************************************************************)
(* What the module promises the consumer of its block events: per stream,  *)
(* a feed that a subscription opens and that either ends, with one null as *)
(* its last event, or is cut when the node is stopped.  While a feed is    *)
(* open its items carry increasing heights, and on the two block streams   *)
(* no height is skipped.  A feed that is open cannot be opened again, so   *)
(* nobody receives a block twice.                                          *)
(***************************************************************************)
EXTENDS Naturals

CONSTANTS
  Streams,  \* the streams a node offers
  Gapless   \* those of Streams whose items are consecutive heights

VARIABLES
  feed,     \* feed[s]: "open" from the subscription to the end of the stream
  last      \* last[s]: the last height delivered on the feed, 0 before any

vars == <<feed, last>>

TypeOK ==
  /\ feed \in [Streams -> {"open", "closed"}]
  /\ last \in [Streams -> Nat]

Init ==
  /\ feed = [s \in Streams |-> "closed"]
  /\ last = [s \in Streams |-> 0]

\* A subscribe call that succeeds: only a closed feed can be opened.
Open(s) ==
  /\ feed[s] = "closed"
  /\ feed' = [feed EXCEPT ![s] = "open"]
  /\ last' = [last EXCEPT ![s] = 0]

\* One event with a payload: the block at height last'[s].
Item(s) ==
  /\ feed[s] = "open"
  /\ last'[s] \in Nat
  /\ last'[s] > last[s]
  /\ s \in Gapless /\ last[s] # 0 => last'[s] = last[s] + 1
  /\ last' = [last EXCEPT ![s] = last'[s]]
  /\ UNCHANGED feed

\* The null event: the last one of this feed.
End(s) ==
  /\ feed[s] = "open"
  /\ feed' = [feed EXCEPT ![s] = "closed"]
  /\ UNCHANGED last

\* The node is stopped: every open feed ends without a null.
Cut ==
  /\ \E s \in Streams : feed[s] = "open"
  /\ feed' = [s \in Streams |-> "closed"]
  /\ UNCHANGED last

Next ==
  \/ \E s \in Streams : Open(s) \/ Item(s) \/ End(s)
  \/ Cut

Spec == Init /\ [][Next]_vars
=============================================================================
