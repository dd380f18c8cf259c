----------------------------- MODULE OrderedFeed -----------------------------
(***************************************************************************)
(* What a reader of one of the module's event streams is promised: from    *)
(* its subscription on it receives every event that it can decode, once    *)
(* and in the order of the log, and nothing after an end.  It is told that *)
(* the stream is over only when nothing it should have received is left.   *)
(***************************************************************************)
EXTENDS Naturals, Sequences

CONSTANT Readers

VARIABLES
  log,    \* the events so far, each one "item", "end" or "bad"
  source, \* "up" as long as more events can come
  state,  \* state[r]: "none", "open", "over" or "dropped"
  at      \* at[r]: where in the log r last received an item, or subscribed

vars == <<log, source, state, at>>

Init ==
  /\ log = <<>> /\ source = "up"
  /\ state = [r \in Readers |-> "none"]
  /\ at = [r \in Readers |-> 0]

\* The events strictly between two places of the log mean nothing to a reader.
Skipped(i, j) == \A k \in i + 1 .. j - 1 : log[k] = "bad"

Emit ==
  /\ source = "up"
  /\ Len(log') = Len(log) + 1
  /\ \A i \in 1 .. Len(log) : log'[i] = log[i]
  /\ UNCHANGED <<source, state, at>>

\* The source goes away; what it has emitted can still be read.
Vanish ==
  /\ source = "up" /\ source' = "down"
  /\ UNCHANGED <<log, state, at>>

Open(r) ==
  /\ state[r] = "none"
  /\ state' = [state EXCEPT ![r] = "open"]
  /\ at' = [at EXCEPT ![r] = Len(log)]
  /\ UNCHANGED <<log, source>>

Receive(r) ==
  /\ state[r] = "open"
  /\ \E i \in at[r] + 1 .. Len(log) :
       /\ log[i] = "item" /\ Skipped(at[r], i)
       /\ at' = [at EXCEPT ![r] = i]
  /\ UNCHANGED <<log, source, state>>

\* The reader is told that the stream is over: the next event is an end, or
\* there is none and none can come.
Over(r) ==
  /\ state[r] = "open"
  /\ \/ \E i \in at[r] + 1 .. Len(log) : log[i] = "end" /\ Skipped(at[r], i)
     \/ source = "down" /\ Skipped(at[r], Len(log) + 1)
  /\ state' = [state EXCEPT ![r] = "over"]
  /\ UNCHANGED <<log, source, at>>

\* The reader drops its stream.
Drop(r) ==
  /\ state[r] = "open"
  /\ state' = [state EXCEPT ![r] = "dropped"]
  /\ UNCHANGED <<log, source, at>>

Next ==
  \/ Emit \/ Vanish
  \/ \E r \in Readers : Open(r) \/ Receive(r) \/ Over(r) \/ Drop(r)

Spec == Init /\ [][Next]_vars
=============================================================================
