---------------------------- MODULE BlendEpochs ----------------------------
(***************************************************************************)
(* The simulated node as a Blend provider: its declaration, the activity   *)
(* it posts when an epoch starts, the ledger's verdict, the rewards two    *)
(* epochs later, and what stops, kills and replays of the chain do to them.*)
(*                                                                         *)
(* The chain is that of the network, which every start finds again; the    *)
(* node has peers and does not lead.  Funding is in Wallet: here a post    *)
(* that nobody can pay is one that is not made, and a verdict may be that  *)
(* an input is gone.  Of the amounts only this is kept, whether an epoch   *)
(* had fees to share.                                                      *)
(***************************************************************************)
EXTENDS Naturals, Sequences, FiniteSets, SequencesExt

CONSTANTS
  EpochSlots,       \* m_params.epochSlots
  InactivityPeriod, \* m_params.inactivityPeriod
  Providers,        \* m_params.genesisProviders.size()
  MinimumNetworkSize, \* m_params.minimumNetworkSize
  ZkKnown,          \* m_cfg.knownKeys has the key that m_cfg.blendZkKey names
  Busy,             \* bound: epochs whose blocks all carry transactions of the network
  LastSlot,         \* bound: the slots of the clock
  MaxEmpty,         \* bound: slots without a block
  MaxJoins,         \* bound: calls of blend_join_as_core_node
  MaxStarts,        \* bound: starts of the node
  MaxSaves          \* bound: saves of a node that goes on running, before its last start

ASSUME BlendAssumption ==
  /\ EpochSlots \in Nat \ {0} /\ InactivityPeriod \in Nat
  /\ LastSlot \in Nat /\ MaxEmpty \in Nat /\ MaxJoins \in Nat /\ MaxStarts \in Nat
  /\ MaxSaves \in Nat
  /\ Providers \in Nat /\ MinimumNetworkSize \in Nat /\ ZkKnown \in BOOLEAN /\ Busy \subseteq Nat

VARIABLES
  clock,  \* the current slot
  chain,  \* the slots up to the clock for which the network has a block
  fees,   \* the epochs with a block that carries transactions of the network
  phase,  \* "down", "rest" between two ticks, "tick", or "block" in processBlock
  node,   \* what the node keeps; while it is down, what a start will find
  disk,   \* what the state file holds
  \* Not saved.
  pool,   \* m_mempool
  keep,   \* keep, in processBlock
  todo,   \* the blocks that this tick has yet to process
  slot,   \* the slot of the block that is processed, else that of the tip
  epoch,  \* the last epoch that has started
  joins, starts, saves  \* counters, for the bounds

blockVars == <<pool, keep, todo, slot, epoch>>
bounds == <<joins, starts, saves>>
vars == <<clock, chain, fees, phase, node, disk, blockVars, bounds>>

epochOf(s) == s \div EpochSlots

\* The slot of m_tip, m_mode, m_declaration (active = 0 where there is none, for
\* one that is there is active until two epochs after its own), m_onlineEpochs
\* and m_activityAccepted, and the epochs of the slots of m_includedTxs; then the
\* epochs whose reward has come and the nonces that have landed, each in its order.
Ledger ==
  [tip : Nat, mode : {"Bootstrapping", "Online"}, created : Nat, active : Nat, nonce : Nat,
   online : SUBSET Nat, accepted : SUBSET Nat, included : SUBSET Nat, credited : Seq(Nat), nonces : Seq(Nat)]

Declared(s) == s.active # 0

Tx == [kind : {"declare", "active"}, epoch : Nat, nonce : Nat, since : Nat]

Genesis ==
  [tip |-> 0, mode |-> "Bootstrapping", created |-> 0, active |-> 0, nonce |-> 0,
   online |-> {}, accepted |-> {}, included |-> {}, credited |-> <<>>, nonces |-> <<>>]

Init ==
  /\ clock = 0 /\ chain = {0} /\ fees = {}
  /\ phase = "down" /\ node = Genesis /\ disk = Genesis
  /\ pool = <<>> /\ keep = <<>> /\ todo = 0 /\ slot = 0 /\ epoch = 0
  /\ joins = 0 /\ starts = 0 /\ saves = 0

----------------------------------------------------------------------------
(* The clock, and a tick up to its blocks. *)

\* A slot passes, with a block or without; the block has transactions or none.
Slot ==
  /\ clock < LastSlot
  /\ clock' = clock + 1
  /\ \/ /\ chain' = chain \cup {clock + 1}
        /\ \/ fees' = fees \cup {epochOf(clock + 1)}
           \/ fees' = fees /\ epochOf(clock + 1) \notin Busy
     \/ chain' = chain /\ fees' = fees /\ clock + 1 - Cardinality(chain) < MaxEmpty

\* Without a node.
SlotDown ==
  /\ phase = "down" /\ Slot
  /\ UNCHANGED <<phase, node, disk, blockVars, bounds>>

\* The first tick in a slot, of ten.  A node that is more than two blocks behind
\* downloads as many as its credit allows.
TickBegin ==
  /\ phase = "rest" /\ Slot
  /\ LET behind == Cardinality({b \in chain' : b > node.tip})
     IN todo' \in IF behind <= 2 THEN {behind} ELSE 0 .. behind
  /\ phase' = "tick"
  /\ UNCHANGED <<node, disk, pool, keep, slot, epoch, bounds>>

\* The rest of a tick: the mode, the epoch that the node is Online in, and where
\* five seconds have passed the state file.  When a node may go Online is in
\* ChainNode; here it may at any tick.
TickRest(mode) ==
  [node EXCEPT !.mode = mode,
               !.online = IF mode = "Online" THEN @ \cup {epochOf(clock)} ELSE @]

\* Mutant: the declaration is saved without its nonce.
saveStateNoNonce(s) == disk' = [s EXCEPT !.nonce = 0]

saveState(s) == disk' = s

TickEnd ==
  /\ phase = "tick" /\ todo = 0
  /\ \E mode \in {node.mode, "Online"} : node' = TickRest(mode)
  /\ \/ UNCHANGED <<disk, saves>>
     \/ saves < MaxSaves /\ starts < MaxStarts /\ saveState(node') /\ saves' = saves + 1
  /\ phase' = "rest"
  /\ UNCHANGED <<clock, chain, fees, blockVars, joins, starts>>

----------------------------------------------------------------------------
(* A block. *)

memberOf(s, e) ==
  Declared(s) /\ s.created + 2 <= e /\ s.active + InactivityPeriod >= e

\* Mutant: the epoch that is running starts again with every block.
startedAgain(prev) == IF epochOf(prev) = 0 THEN 0 ELSE epochOf(prev) - 1

\* The last epoch that has started when a block follows that of slot prev.
started(prev) == epochOf(prev)

\* processBlock(m_tip + 1).
BlockBegin ==
  /\ phase = "tick" /\ todo > 0
  /\ \E b \in chain :
       /\ b > node.tip /\ \A c \in chain : c > node.tip => b <= c
       /\ slot' = b
  /\ epoch' = started(node.tip)
  /\ todo' = todo - 1
  /\ phase' = "block"
  /\ UNCHANGED <<clock, chain, fees, node, disk, pool, keep, bounds>>

\* Mutant: the activity keeps the date that enqueue gives it, the clock's.
ActivityNow(served) ==
  [kind |-> "active", epoch |-> served, nonce |-> node.nonce + 1, since |-> clock]

\* The activity for an epoch is dated to the block that starts the next one.
Activity(served) ==
  [kind |-> "active", epoch |-> served, nonce |-> node.nonce + 1, since |-> slot]

\* epochBlendIncome(e) > 0: a block of the epoch carries a transaction, of the
\* network or the node's own, and so a fee.
Income(s, e) == e \in fees \/ e \in s.included

\* The rewards of epoch e are shared out, and one to the declaration's key is
\* taken into the wallet.
Shared(s, e) ==
  /\ Providers + (IF memberOf(s, e) THEN 1 ELSE 0) >= MinimumNetworkSize
  /\ Income(s, e)
  /\ ZkKnown

\* What onEpochStart(e) pays: the rewards of two epochs before, to the providers
\* whose activity was accepted.  An epoch that is not shared out then never is.
Credit(e) ==
  IF e >= 2 /\ Declared(node) /\ e - 2 \in node.accepted /\ Shared(node, e - 2)
  THEN Append(node.credited, e - 2)
  ELSE node.credited

\* onEpochStart, for each epoch up to that of the block.  Activity is posted for
\* the epoch that ends, where the node served as a core node and was Online, its
\* proof was drawn and it can pay.
EpochStart ==
  /\ phase = "block" /\ epoch < epochOf(slot)
  /\ epoch' = epoch + 1
  /\ \/ /\ memberOf(node, epoch) /\ epoch \in node.online
        /\ pool' = Append(pool, Activity(epoch))
        /\ node' = [node EXCEPT !.nonce = @ + 1, !.credited = Credit(epoch + 1)]
     \/ /\ node' = [node EXCEPT !.credited = Credit(epoch + 1)]
        /\ UNCHANGED pool
  /\ UNCHANGED <<clock, chain, fees, phase, disk, keep, todo, slot, bounds>>

\* The next transaction of the mempool, once every epoch has started.
InBlock == phase = "block" /\ epoch = epochOf(slot) /\ pool # <<>>

Due(tx) == tx.since < slot

\* A transaction is in the first block after it was submitted.
Keep ==
  /\ InBlock /\ ~Due(Head(pool))
  /\ pool' = Tail(pool) /\ keep' = Append(keep, Head(pool))
  /\ UNCHANGED <<clock, chain, fees, phase, node, disk, todo, slot, epoch, bounds>>

\* The ledger accepts a declaration: one is in force at most.
Declare ==
  /\ ~Declared(node)
  /\ node' = [node EXCEPT !.created = epochOf(slot), !.active = epochOf(slot) + 2, !.nonce = 0,
                          !.included = @ \cup {epochOf(slot)}]

\* Mutant: an activity counts for the epoch that it proves.
AcceptOwnEpoch(tx) ==
  /\ Declared(node)
  /\ node' = [node EXCEPT !.active = IF @ < tx.epoch THEN tx.epoch ELSE @,
                          !.accepted = @ \cup {tx.epoch}, !.nonces = Append(@, tx.nonce),
                          !.included = @ \cup {epochOf(slot)}]

\* The ledger accepts an activity: it counts for the epoch that it lands in.
Accept(tx) ==
  /\ Declared(node)
  /\ node' = [node EXCEPT !.active = IF @ < epochOf(slot) THEN epochOf(slot) ELSE @,
                          !.accepted = @ \cup {tx.epoch}, !.nonces = Append(@, tx.nonce),
                          !.included = @ \cup {epochOf(slot)}]

\* applyTx on the next transaction that is due.  It is dropped where the ledger
\* rejects it, for one of the above or because an input is gone.
Verdict ==
  /\ InBlock /\ Due(Head(pool))
  /\ pool' = Tail(pool)
  /\ \/ Head(pool).kind = "declare" /\ Declare
     \/ Head(pool).kind = "active" /\ Accept(Head(pool))
     \/ UNCHANGED node
  /\ UNCHANGED <<clock, chain, fees, phase, disk, keep, todo, slot, epoch, bounds>>

BlockEnd ==
  /\ phase = "block" /\ epoch = epochOf(slot) /\ pool = <<>>
  /\ pool' = keep /\ keep' = <<>>
  /\ node' = [node EXCEPT !.tip = slot]
  /\ phase' = "tick"
  /\ UNCHANGED <<clock, chain, fees, disk, todo, slot, epoch, bounds>>

----------------------------------------------------------------------------
(* Calls, starts and stops. *)

\* blend_join_as_core_node, where the note and the funds are there.
Join ==
  /\ phase = "rest" /\ joins < MaxJoins
  /\ pool' = Append(pool, [kind |-> "declare", epoch |-> 0, nonce |-> 0, since |-> clock])
  /\ joins' = joins + 1
  /\ UNCHANGED <<clock, chain, fees, phase, node, disk, keep, todo, slot, epoch, starts, saves>>

\* A node that was Online a moment ago is at once.
Start ==
  /\ phase = "down" /\ starts < MaxStarts
  /\ \E mode \in {"Bootstrapping", disk.mode} : node' = [node EXCEPT !.mode = mode]
  /\ phase' = "rest" /\ starts' = starts + 1
  /\ UNCHANGED <<clock, chain, fees, disk, blockVars, joins, saves>>

\* What is not in the state file is gone.
Forget == phase' = "down" /\ pool' = <<>> /\ keep' = <<>> /\ todo' = 0

\* A stop lets the tick end and saves.
Stop ==
  /\ phase = "rest"
  /\ saveState(node) /\ node' = disk'
  /\ Forget
  /\ UNCHANGED <<clock, chain, fees, slot, epoch, bounds>>

Kill ==
  /\ phase # "down"
  /\ node' = disk /\ slot' = disk.tip /\ epoch' = epochOf(disk.tip)
  /\ Forget
  /\ UNCHANGED <<clock, chain, fees, disk, bounds>>

Next ==
  \/ SlotDown \/ Start \/ Join \/ Stop \/ Kill
  \/ TickBegin \/ BlockBegin \/ EpochStart \/ Keep \/ Verdict \/ BlockEnd \/ TickEnd

Spec == Init /\ [][Next]_vars

----------------------------------------------------------------------------
(* Properties. *)

\* The types of what the node and the state file keep.
TypeOK ==
  /\ clock \in Nat /\ chain \in SUBSET Nat /\ IsFiniteSet(chain) /\ fees \in SUBSET Nat
  /\ phase \in {"down", "rest", "tick", "block"}
  /\ node \in Ledger /\ disk \in Ledger
  /\ pool \in Seq(Tx) /\ keep \in Seq(Tx)
  /\ todo \in Nat /\ slot \in Nat /\ epoch \in Nat
  /\ joins \in Nat /\ starts \in Nat /\ saves \in Nat

\* The states with every block taken in full, and those of a block as well.
Settled == {disk} \cup (IF phase = "block" THEN {} ELSE {node})
States == {disk, node}

\* Blocks of epoch e that are processed in state s.
Blocks(s, e) ==
  Cardinality({b \in chain : b <= s.tip /\ epochOf(b) = e})

\* The epochs that s has the node's service in, in the ledger's eyes; the
\* declaration counts for the one before it takes force.
Served(s) == s.accepted \cup {s.created + 1}

\* A provider is in the core set from two epochs after its declaration, for as
\* long as it has not missed more than InactivityPeriod epochs in a row -- and
\* no longer, but for chains so thin that an activity lands an epoch late.
CoreSetRule ==
  \A s \in Settled :
    Declared(s) =>
      LET now == epochOf(s.tip)
          Kept == \E e \in Served(s) : e + InactivityPeriod + 1 >= now
          Thin == \E e \in s.created + 2 .. now - 1 : Blocks(s, e) < 2
      IN /\ now >= s.created + 2 /\ Kept => memberOf(s, now)
         /\ memberOf(s, now) => now >= s.created + 2 /\ (Kept \/ Thin)

\* Epoch e has rewards for a provider that served it: with that provider the
\* network is large enough, its blocks have brought fees, and its key is known.
HasRewards(s, e) == Providers + 1 >= MinimumNetworkSize /\ Income(s, e) /\ ZkKnown

\* Rewards for epoch N arrive in the first block of N + 2, also when that is
\* replayed long after: an activity that is accepted is paid for where the epoch
\* has rewards, but for an epoch N + 1 too thin to take it.
RewardOnTime ==
  \A s \in Settled : \A e \in s.accepted :
    epochOf(s.tip) >= e + 2 /\ Blocks(s, e + 1) >= 2 /\ HasRewards(s, e) =>
      e \in ToSet(s.credited)

\* Nothing is paid twice, nor for an epoch before the declaration was in force
\* or in which the node was never Online, over all stops, kills and replays.
EarnedOnly ==
  \A s \in States :
    /\ IsInjective(s.credited)
    /\ \A e \in ToSet(s.credited) : e \in s.online /\ e >= s.created + 2

\* The nonces that land grow, as a ledger that checks them asks, also when a
\* restart has lost some.
NoncesGrow ==
  \A s \in States : \A i, j \in DOMAIN s.nonces : i < j => s.nonces[i] < s.nonces[j]
=============================================================================
