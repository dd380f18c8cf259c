----------------------------- MODULE ChainNode -----------------------------
(***************************************************************************)
(* The chain of the simulated node: the clock, the network's blocks and    *)
(* the ones the node leads, the download, the modes and the LIB; the state *)
(* file that carries it over a stop or a crash; and the callers of         *)
(* pow_status, pow_claimable_rewards, pow_claim and leader_claim, which    *)
(* wait on a condition variable until the node is Online.                  *)
(*                                                                         *)
(* A block is its slot and a chain the set of its slots, genesis being 0;  *)
(* m_tip and m_lib are slots too, where the code keeps indices into the    *)
(* sorted vector.  What a tick does under the mutex is one step.           *)
(***************************************************************************)
EXTENDS Integers, FiniteSets, FiniteSetsExt

CONSTANTS
  NetSlots,   \* the slots in which the network has a block
  K,          \* securityParam
  PeerKinds,  \* the configs a start may find: "none" is an isolated node,
              \* "gossip" one without IBD peers, "ibd" one with them
  Stake,      \* whether the wallet has aged notes to lead with
  Waiters,    \* callers that wait for Online
  MaxSlot,    \* bound: the last slot of the clock
  MaxRuns,    \* bound: starts
  MaxCrashes  \* bound: kills of the process

ASSUME ChainAssumption ==
  /\ MaxSlot \in Nat /\ NetSlots \subseteq 1 .. MaxSlot
  /\ K \in Nat
  /\ PeerKinds \subseteq {"none", "gossip", "ibd"}
  /\ Stake \in {"none", "aged"}
  /\ MaxRuns \in Nat /\ MaxCrashes \in Nat

Slots == 0 .. MaxSlot

VARIABLES
  file,       \* mock_node_state.json
  clock,      \* clockSlot at the last tick, -1 before genesis
  node,       \* "up" from start to the deletion of the Node
  peers,      \* the peers its config names
  chain,      \* m_chain
  scanned,    \* m_networkScanned
  own,        \* m_ourSlots, and the slots of m_vouchers
  tip, lib,   \* m_tip, m_lib
  mode,       \* m_mode
  ibd,        \* m_ibdDone: "done" or "todo"
  health,     \* "untried" before the first tick, then "ok" or "failed"
  command,    \* "stop" once m_stopping is set
  thread,     \* "on" until run() returns
  wpc, held,  \* a waiter's state, and the run whose node it is inside
  \* Bounds and history.
  runs, crashes,
  final,      \* the blocks that have been at or below the LIB since the purge
  fault       \* "freed_node" once a waiter uses a deleted node

chainVars == <<peers, chain, scanned, own, tip, lib, mode, ibd>>
lifeVars == <<node, health, command, thread>>
waitVars == <<wpc, held>>
vars == <<file, clock, chainVars, lifeVars, waitVars, runs, crashes, final, fault>>

\* A state file that is missing reads as one with these defaults.
EmptyFile == [tip |-> 0, lib |-> 0, last |-> "Bootstrapping", own |-> {}]

\* Mutants: the mode as it is; the LIB is forgotten.
SnapshotRawMode(t, l, m, o) == [tip |-> t, lib |-> l, last |-> m, own |-> o]

SnapshotNoLib(t, l, m, o) ==
  [tip |-> t, lib |-> 0, last |-> IF m = "Online" THEN "Online" ELSE "Bootstrapping", own |-> o]

\* saveState, of a tip, a LIB, a mode and the slots led.
Snapshot(t, l, m, o) ==
  [tip |-> t, lib |-> l, last |-> IF m = "Online" THEN "Online" ELSE "Bootstrapping", own |-> o]

Init ==
  /\ file = EmptyFile /\ clock \in {-1, 0}
  /\ node = "down" /\ peers \in PeerKinds
  /\ chain = {0} /\ scanned = 0 /\ own = {} /\ tip = 0 /\ lib = 0
  /\ mode = "Bootstrapping" /\ ibd = "todo"
  /\ health = "untried" /\ command = "run" /\ thread = "off"
  /\ wpc = [w \in Waiters |-> "idle"] /\ held = [w \in Waiters |-> 0]
  /\ runs = 0 /\ crashes = 0 /\ final = {0} /\ fault = "none"

\* The LIB is K blocks behind t, or genesis.
LibFor(c, t) ==
  IF Cardinality(c \cap 1 .. t) > K
  THEN CHOOSE s \in c : s <= t /\ Cardinality(c \cap (s + 1) .. t) = K
  ELSE 0

-----------------------------------------------------------------------------
(* Persistence. *)

\* Mutant: the slots that passed while the node was down are not scanned.
StartSkippingGap(kind) ==
  /\ node = "down" /\ runs < MaxRuns
  /\ runs' = runs + 1
  /\ node' = "up" /\ thread' = "on" /\ command' = "run" /\ health' = "untried"
  /\ peers' = kind
  /\ chain' = {0} \cup ((NetSlots \cup file.own) \cap 1 .. file.tip)
  /\ scanned' = Max({file.tip, clock}) /\ own' = file.own
  /\ tip' = file.tip /\ lib' = file.lib
  /\ \/ mode' = "Bootstrapping" /\ ibd' = "todo"
     \/ file.last = "Online" /\ file.lib > 0 /\ mode' = "Online" /\ ibd' = "done"
  /\ UNCHANGED <<file, clock, waitVars, crashes, final, fault>>

\* Node::start and loadState: the chain is rebuilt up to the saved tip from
\* what the network has and what the node led.  A node that was Online within
\* the grace period and has a LIB is Online at once, unless forced to bootstrap.
Start(kind) ==
  /\ node = "down" /\ runs < MaxRuns
  /\ runs' = runs + 1
  /\ node' = "up" /\ thread' = "on" /\ command' = "run" /\ health' = "untried"
  /\ peers' = kind
  /\ chain' = {0} \cup ((NetSlots \cup file.own) \cap 1 .. file.tip)
  /\ scanned' = file.tip /\ own' = file.own
  /\ tip' = file.tip /\ lib' = file.lib
  /\ \/ mode' = "Bootstrapping" /\ ibd' = "todo"
     \/ file.last = "Online" /\ file.lib > 0 /\ mode' = "Online" /\ ibd' = "done"
  /\ UNCHANGED <<file, clock, waitVars, crashes, final, fault>>

\* purge_state, which is refused while the node runs.
Purge ==
  /\ node = "down"
  /\ file' = EmptyFile /\ final' = {0}
  /\ UNCHANGED <<clock, chainVars, lifeVars, waitVars, runs, crashes, fault>>

\* The process is killed.  saveState replaces the file by a rename, so there is
\* always a whole one.
Crash ==
  /\ node = "up" /\ crashes < MaxCrashes
  /\ crashes' = crashes + 1
  /\ node' = "down" /\ thread' = "off"
  /\ wpc' = [w \in Waiters |-> "idle"]
  /\ UNCHANGED <<file, clock, chainVars, health, command, held, runs, final, fault>>

-----------------------------------------------------------------------------
(* Waiting for Online. *)

\* Mutant: m_stopping is not looked at.
ReadyUnlessStopping == mode = "Online" \/ health = "failed"

\* The predicate of blockUntilOnline.
Ready == mode = "Online" \/ command = "stop" \/ health = "failed"

\* Mutant: notify_one.
WakeOne ==
  IF \E w \in Waiters : wpc[w] = "waiting"
  THEN \E w \in Waiters : wpc[w] = "waiting" /\ wpc' = [wpc EXCEPT ![w] = "woken"]
  ELSE UNCHANGED wpc

WakeAll == wpc' = [w \in Waiters |-> IF wpc[w] = "waiting" THEN "woken" ELSE wpc[w]]

\* blockUntilOnline; a call that finds the predicate true changes nothing here.
Wait(w) ==
  /\ wpc[w] = "idle" /\ node = "up" /\ ~Ready
  /\ wpc' = [wpc EXCEPT ![w] = "waiting"]
  /\ held' = [held EXCEPT ![w] = runs]
  /\ UNCHANGED <<file, clock, chainVars, lifeVars, runs, crashes, final, fault>>

\* A woken waiter takes the mutex back and looks at the predicate again.
Resume(w) ==
  /\ wpc[w] = "woken"
  /\ IF node = "up" /\ held[w] = runs
     THEN /\ wpc' = [wpc EXCEPT ![w] = IF Ready THEN "idle" ELSE "waiting"]
          /\ UNCHANGED fault
     ELSE fault' = "freed_node" /\ UNCHANGED wpc
  /\ UNCHANGED <<file, clock, chainVars, lifeVars, held, runs, crashes, final>>

\* A condition variable may also wake a waiter for no reason.
WakeSpuriously(w) ==
  /\ wpc[w] = "waiting"
  /\ wpc' = [wpc EXCEPT ![w] = "woken"]
  /\ UNCHANGED <<file, clock, chainVars, lifeVars, held, runs, crashes, final, fault>>

-----------------------------------------------------------------------------
(* The node's thread. *)

Ticking == node = "up" /\ thread = "on" /\ command = "run"

\* The first tick finds a PoW target that is no wallet key.
TickFail ==
  /\ Ticking /\ health = "untried"
  /\ health' = "failed"
  /\ UNCHANGED <<file, clock, chainVars, node, command, thread, waitVars, runs, crashes, final, fault>>

\* A tick before genesis.
TickEarly ==
  /\ Ticking /\ health # "failed" /\ clock = -1
  /\ mode' = "NotStarted" /\ health' = "ok"
  /\ UNCHANGED <<file, clock, peers, chain, scanned, own, tip, lib, ibd, node, command, thread,
                 waitVars, runs, crashes, final, fault>>

\* extendNetworkChain: only a node that is Online and synced leads.
Wins(now) ==
  IF Stake = "aged" /\ mode = "Online" /\ tip = Max(chain)
  THEN SUBSET ((scanned + 1) .. now)
  ELSE {{}}

Extended(now, won) ==
  chain \cup won \cup (IF peers = "none" THEN {} ELSE NetSlots \cap (scanned + 1) .. now)

\* The tips a tick can reach: up to two blocks at once, further ones as the
\* download rate allows.
Reachable(c) ==
  LET ahead == {s \in c : s > tip} IN
  IF Cardinality(ahead) <= 2 THEN {Max(c)} ELSE {tip} \cup ahead

\* Mutant: the LIB does not jump on going Online.
NewLibNoJump(c, t, m) == IF m = "Online" /\ t # tip THEN LibFor(c, t) ELSE lib

\* The LIB after a tick: it follows every block of an Online node, and catches
\* up when the node goes Online.
NewLib(c, t, m) == IF m = "Online" /\ (mode # "Online" \/ t # tip) THEN LibFor(c, t) ELSE lib

\* A tick: the network's chain grows, the node downloads up to t, and a node
\* whose bootstrap is over goes Online.  The state is saved every 5 s.
Tick(now, won, t) ==
  /\ Ticking /\ health # "failed"
  /\ now >= clock /\ won \in Wins(now)
  /\ clock' = now /\ health' = "ok"
  /\ chain' = Extended(now, won) /\ own' = own \cup won
  /\ scanned' = (IF now > scanned THEN now ELSE scanned)
  /\ t \in Reachable(chain') /\ tip' = t
  /\ IF mode = "Online"
     THEN UNCHANGED <<mode, ibd, wpc>>
     ELSE /\ ibd' = (IF ibd = "done" \/ t = Max(chain') \/ peers # "ibd" THEN "done" ELSE "todo")
          /\ \/ mode' = "Bootstrapping" /\ UNCHANGED wpc
             \/ ibd' = "done" /\ mode' = "Online" /\ WakeAll
  /\ lib' = NewLib(chain', t, mode')
  /\ final' = final \cup (chain' \cap 0 .. lib')
  /\ file' \in {file, Snapshot(tip', lib', mode', own')}
  /\ UNCHANGED <<peers, node, command, thread, held, runs, crashes, fault>>

\* run() leaves its loop.
ThreadExit ==
  /\ node = "up" /\ thread = "on" /\ command = "stop"
  /\ thread' = "off"
  /\ UNCHANGED <<file, clock, chainVars, node, health, command, waitVars, runs, crashes, final, fault>>

\* shutdown(): m_stopping, then notify_all.
StopSignal ==
  /\ node = "up" /\ command = "run"
  /\ command' = "stop"
  /\ WakeAll
  /\ UNCHANGED <<file, clock, chainVars, node, health, thread, held, runs, crashes, final, fault>>

\* shutdown() once the thread is joined, and the delete of shutdown_node.
StopDelete ==
  /\ node = "up" /\ command = "stop" /\ thread = "off"
  /\ file' = Snapshot(tip, lib, mode, own)
  /\ node' = "down"
  /\ UNCHANGED <<clock, chainVars, health, command, thread, waitVars, runs, crashes, final, fault>>

-----------------------------------------------------------------------------

ThreadStep ==
  \/ TickFail \/ TickEarly \/ ThreadExit
  \/ \E now \in Slots : \E won \in Wins(now) : \E t \in Slots : Tick(now, won, t)

WaiterStep(w) == Wait(w) \/ WakeSpuriously(w)

Next ==
  \/ fault = "none" /\ (ThreadStep \/ StopSignal \/ StopDelete \/ Purge \/ Crash
                        \/ (\E kind \in PeerKinds : Start(kind))
                        \/ (\E w \in Waiters : WaiterStep(w) \/ Resume(w)))
  \/ fault # "none" /\ UNCHANGED vars

Spec == Init /\ [][Next]_vars

\* The thread runs, shutdown() goes on once the thread is joined, and a woken
\* waiter is scheduled.  Nothing makes a caller stop the node.
Fairness ==
  /\ WF_vars(fault = "none" /\ ThreadExit)
  /\ WF_vars(fault = "none" /\ StopDelete)
  /\ \A w \in Waiters : WF_vars(fault = "none" /\ Resume(w))

FairSpec == Spec /\ Fairness

-----------------------------------------------------------------------------
(* Properties. *)

TypeOK ==
  /\ file \in [tip : Slots, lib : Slots, last : {"Bootstrapping", "Online"}, own : SUBSET Slots]
  /\ clock \in -1 .. MaxSlot
  /\ node \in {"down", "up"} /\ peers \in PeerKinds
  /\ chain \in SUBSET Slots /\ own \in SUBSET Slots
  /\ scanned \in Slots /\ tip \in Slots /\ lib \in Slots
  /\ mode \in {"NotStarted", "Bootstrapping", "Online"} /\ ibd \in {"todo", "done"}
  /\ health \in {"untried", "ok", "failed"} /\ command \in {"run", "stop"} /\ thread \in {"off", "on"}
  /\ wpc \in [Waiters -> {"idle", "waiting", "woken"}] /\ held \in [Waiters -> 0 .. MaxRuns]
  /\ runs \in 0 .. MaxRuns /\ crashes \in 0 .. MaxCrashes
  /\ final \in SUBSET Slots /\ fault \in {"none", "freed_node"}

\* "Rebuild the chain this node had stored": a block that was final, and the
\* absence of one below it, survive every later stop, crash and restart.
FinalityKept ==
  node = "up" =>
    LET m == Min({Max(chain), Max(final)}) IN chain \cap 0 .. m = final \cap 0 .. m

\* The LIB never goes back, not even over a restart that may come up in any
\* mode, unless the process was killed before it saved.
LibDurable == node = "up" /\ crashes = 0 => lib = Max(final)

\* Whichever way it got there (a bootstrap, a resume, a block), an Online node
\* has its LIB exactly K blocks behind its tip.
OnlineLib == node = "up" /\ mode = "Online" => lib = LibFor(chain, tip)

\* blockUntilOnline returns when the node is Online: no wakeup is lost.
OnlineWakes == \A w \in Waiters : wpc[w] # "idle" /\ mode = "Online" ~> wpc[w] = "idle" \/ fault # "none"

\* It returns when the node is stopped.
StopWakes == \A w \in Waiters : wpc[w] # "idle" /\ command = "stop" ~> wpc[w] = "idle" \/ fault # "none"

=============================================================================
