------------------------- MODULE BlendEpochsProofs -------------------------
(***************************************************************************)
(* Theorems about the Blend provider of BlendEpochs: the rule of the core  *)
(* set, the date of a reward, that only what was earned is paid, and that  *)
(* the nonces that land grow, for every length of an epoch and of the      *)
(* period of inactivity, over any stops, kills and replays.                *)
(***************************************************************************)
EXTENDS BlendEpochs, FiniteSetTheorems, SequenceTheorems, TLAPS

LEMMA Lengths ==
  EpochSlots \in Nat \ {0} /\ InactivityPeriod \in Nat
BY BlendAssumption

USE Lengths

-----------------------------------------------------------------------------
(* The inductive invariant. *)

\* The activities of a queue of transactions.
Actives(q) == {tx \in ToSet(q) : tx.kind = "active"}

\* No two blocks of epoch e among those of c up to slot last.
Few(c, e, last) ==
  \A x, y \in c : x <= last /\ y <= last /\ epochOf(x) = e /\ epochOf(y) = e => x = y

Increasing(q) == \A i, j \in DOMAIN q : i < j => q[i] < q[j]

\* The clock, the tip and the block that is processed.
Position ==
  /\ chain \subseteq 0 .. clock
  /\ node.tip \in chain /\ slot \in chain /\ disk.tip \in chain
  /\ node.tip <= slot /\ \A b \in chain : b > node.tip => b >= slot
  /\ epochOf(node.tip) <= epoch /\ epoch <= epochOf(slot)
  /\ epoch < epochOf(slot) => keep = <<>>
  /\ IF phase = "block" THEN node.tip < slot
                        ELSE slot = node.tip /\ epoch = epochOf(slot) /\ keep = <<>>

\* Of a state s, along the epochs up to e and the blocks of c up to slot last.
\* A declaration is active until two epochs after its own or because of an
\* activity, which landed in the epoch after the one it proves or, where that has
\* too few blocks, later.
Standing(c, s, last) ==
  \/ s.active - 1 \in s.accepted
  \/ \E f \in s.created + 2 .. s.active - 1 : Few(c, f, last)

InForce(c, s, e, last) ==
  IF Declared(s)
  THEN s.active >= s.created + 2 /\ (s.active > s.created + 2 => s.active <= e /\ Standing(c, s, last))
  ELSE s.accepted = {} /\ s.nonces = <<>> /\ s.nonce = 0

\* HasRewards(s, f), where b are the epochs with transactions of the network.
Owed(b, s, f) ==
  Providers + 1 >= MinimumNetworkSize /\ (f \in b \/ f \in s.included) /\ ZkKnown

\* What is accepted is paid two epochs later, where there are rewards and the
\* epoch between has blocks enough, and what is paid was accepted.
Paid(c, b, s, e, last) ==
  /\ \A f \in s.accepted :
       /\ f \in s.online /\ f >= s.created + 2 /\ f < s.active
       /\ f + 2 <= e => f \in ToSet(s.credited) \/ Few(c, f + 1, last) \/ ~Owed(b, s, f)
  /\ \A f \in ToSet(s.credited) : f \in s.accepted /\ f + 2 <= e
  /\ IsInjective(s.credited)

Numbered(s) == Increasing(s.nonces) /\ \A n \in ToSet(s.nonces) : n <= s.nonce

Sound(c, b, s, e, last) == InForce(c, s, e, last) /\ Paid(c, b, s, e, last) /\ Numbered(s)

\* An activity that is not yet in a block was posted by the first block after the
\* epoch that it proves, which is the last block or the one that is processed.
Posted(tx) ==
  /\ Declared(node) /\ tx.epoch >= node.created + 2 /\ tx.epoch \in node.online /\ tx.epoch < epoch
  /\ tx.nonce <= node.nonce /\ \A n \in ToSet(node.nonces) : n < tx.nonce
  /\ tx.since \in {node.tip, slot}
  /\ \A b \in chain : b < tx.since => epochOf(b) <= tx.epoch

Ordered(q) ==
  \A i, j \in DOMAIN q : i < j /\ q[i].kind = "active" /\ q[j].kind = "active" =>
    q[i].nonce < q[j].nonce /\ q[i].since <= q[j].since

Queues ==
  /\ \A tx \in Actives(pool) \cup Actives(keep) : Posted(tx)
  /\ Ordered(pool) /\ Ordered(keep)
  /\ \A k \in Actives(keep) :
       k.since = slot /\ \A p \in Actives(pool) : k.nonce < p.nonce /\ p.since = slot

\* Of the node along its epochs, and of the state file along those of its tip.
Ledgers == Sound(chain, fees, node, epoch, slot) /\ Sound(chain, fees, disk, epochOf(disk.tip), disk.tip)

Inv == TypeOK /\ Position /\ Queues /\ Ledgers

-----------------------------------------------------------------------------
(* Lemmas on epochs. *)

LEMMA EpochNat ==
  \A x \in Nat : epochOf(x) \in Nat
BY DEF epochOf

LEMMA EpochGrows ==
  ASSUME NEW x \in Nat, NEW y \in Nat, x <= y
  PROVE  epochOf(x) <= epochOf(y)
BY DEF epochOf

LEMMA EpochZero == epochOf(0) = 0
BY DEF epochOf

-----------------------------------------------------------------------------
(* Lemmas on sequences. *)

LEMMA AppendFacts ==
  ASSUME NEW S, NEW q \in Seq(S), NEW x \in S
  PROVE  LET r == Append(q, x) IN
         /\ r \in Seq(S) /\ Len(q) \in Nat
         /\ DOMAIN q = 1 .. Len(q) /\ DOMAIN r = 1 .. Len(q) + 1
         /\ r[Len(q) + 1] = x /\ \A i \in 1 .. Len(q) : r[i] = q[i]
         /\ ToSet(r) = ToSet(q) \cup {x}
<1> DEFINE r == Append(q, x)
<1>1. /\ r \in Seq(S) /\ Len(q) \in Nat
      /\ DOMAIN q = 1 .. Len(q) /\ DOMAIN r = 1 .. Len(q) + 1
      /\ r[Len(q) + 1] = x /\ \A i \in 1 .. Len(q) : r[i] = q[i]
  OBVIOUS
<1> HIDE DEF r
<1>2. ToSet(r) = ToSet(q) \cup {x}
  BY <1>1 DEF ToSet
<1>. QED
  BY <1>1, <1>2 DEF r

LEMMA TailFacts ==
  ASSUME NEW S, NEW q \in Seq(S), q # <<>>
  PROVE  /\ Head(q) \in S /\ Tail(q) \in Seq(S) /\ Len(q) \in Nat /\ Len(q) > 0
         /\ DOMAIN q = 1 .. Len(q) /\ DOMAIN Tail(q) = 1 .. Len(q) - 1
         /\ Head(q) = q[1] /\ \A i \in 1 .. Len(q) - 1 : Tail(q)[i] = q[i + 1]
         /\ ToSet(q) = ToSet(Tail(q)) \cup {Head(q)}
<1> DEFINE r == Tail(q)
<1>1. /\ r \in Seq(S) /\ Len(q) \in Nat /\ Len(q) > 0 /\ Head(q) \in S
      /\ DOMAIN q = 1 .. Len(q) /\ DOMAIN r = 1 .. Len(q) - 1
      /\ Head(q) = q[1] /\ \A i \in 1 .. Len(q) - 1 : r[i] = q[i + 1]
  BY HeadTailProperties
<1> HIDE DEF r
<1>2. \A i \in 1 .. Len(q) : i = 1 \/ (i - 1 \in 1 .. Len(q) - 1 /\ r[i - 1] = q[i])
  BY <1>1
<1>3. ToSet(q) \subseteq ToSet(r) \cup {Head(q)}
  BY <1>1, <1>2 DEF ToSet
<1>4. \A i \in 1 .. Len(q) - 1 : i + 1 \in 1 .. Len(q)
  BY <1>1
<1>5. ToSet(r) \cup {Head(q)} \subseteq ToSet(q)
  BY <1>1, <1>4 DEF ToSet
<1>. QED
  BY <1>1, <1>3, <1>5 DEF r

LEMMA EmptyFacts ==
  /\ ToSet(<<>>) = {} /\ Actives(<<>>) = {} /\ \A S : <<>> \in Seq(S)
  /\ Increasing(<<>>) /\ IsInjective(<<>>) /\ Ordered(<<>>)
BY DEF ToSet, Actives, Increasing, IsInjective, Ordered

LEMMA ToSetType ==
  ASSUME NEW S, NEW q \in Seq(S)
  PROVE  ToSet(q) \subseteq S
BY ElementOfSeq DEF ToSet

\* A number above all the others, or that is not there yet.
LEMMA NumbersAppend ==
  ASSUME NEW q \in Seq(Nat), NEW n \in Nat
  PROVE  /\ Increasing(q) /\ (\A m \in ToSet(q) : m < n) => Increasing(Append(q, n))
         /\ IsInjective(q) /\ n \notin ToSet(q) => IsInjective(Append(q, n))
<1> DEFINE r == Append(q, n)
<1>1. /\ Len(q) \in Nat /\ DOMAIN q = 1 .. Len(q) /\ DOMAIN r = 1 .. Len(q) + 1
      /\ r[Len(q) + 1] = n /\ \A i \in 1 .. Len(q) : r[i] = q[i]
  BY AppendFacts
<1> HIDE DEF r
<1>2. \A i \in 1 .. Len(q) + 1 : i = Len(q) + 1 \/ i \in 1 .. Len(q)
  BY <1>1
<1>3. \A i \in 1 .. Len(q) : q[i] \in ToSet(q)
  BY <1>1 DEF ToSet
<1>4. ASSUME Increasing(q), \A m \in ToSet(q) : m < n
      PROVE  Increasing(r)
  <2> SUFFICES ASSUME NEW i \in 1 .. Len(q) + 1, NEW j \in 1 .. Len(q) + 1, i < j
               PROVE  r[i] < r[j]
    BY <1>1 DEF Increasing
  <2>1. i \in 1 .. Len(q)
    BY <1>1
  <2>2. CASE j = Len(q) + 1
    BY <1>1, <1>3, <1>4, <2>1, <2>2
  <2>3. CASE j \in 1 .. Len(q)
    BY <1>1, <1>4, <2>1, <2>3 DEF Increasing
  <2>. QED
    BY <1>2, <2>2, <2>3
<1>5. ASSUME IsInjective(q), n \notin ToSet(q)
      PROVE  IsInjective(r)
  <2>1. \A i \in 1 .. Len(q) : q[i] # n
    BY <1>3, <1>5
  <2>. QED
    BY <1>1, <1>2, <1>5, <2>1 DEF IsInjective
<1>. QED
  BY <1>4, <1>5 DEF r

\* A transaction at the end of a queue.
LEMMA QueueAppend ==
  ASSUME NEW q \in Seq(Tx), NEW tx \in Tx
  PROVE  /\ Append(q, tx) \in Seq(Tx)
         /\ Actives(Append(q, tx)) = Actives(q) \cup (IF tx.kind = "active" THEN {tx} ELSE {})
         /\ Ordered(q) /\ (tx.kind = "active" =>
                             \A p \in Actives(q) : p.nonce < tx.nonce /\ p.since <= tx.since)
              => Ordered(Append(q, tx))
<1> DEFINE r == Append(q, tx)
<1>1. /\ r \in Seq(Tx) /\ Len(q) \in Nat /\ DOMAIN q = 1 .. Len(q) /\ DOMAIN r = 1 .. Len(q) + 1
      /\ r[Len(q) + 1] = tx /\ (\A i \in 1 .. Len(q) : r[i] = q[i])
      /\ ToSet(r) = ToSet(q) \cup {tx}
  BY AppendFacts
<1> HIDE DEF r
<1>2. Actives(r) = Actives(q) \cup (IF tx.kind = "active" THEN {tx} ELSE {})
  BY <1>1 DEF Actives
<1>3. \A i \in 1 .. Len(q) : q[i].kind = "active" => q[i] \in Actives(q)
  BY <1>1 DEF Actives, ToSet
<1>4. ASSUME Ordered(q), tx.kind = "active" =>
               \A p \in Actives(q) : p.nonce < tx.nonce /\ p.since <= tx.since
      PROVE  Ordered(r)
  <2> SUFFICES ASSUME NEW i \in 1 .. Len(q) + 1, NEW j \in 1 .. Len(q) + 1, i < j,
                      r[i].kind = "active", r[j].kind = "active"
               PROVE  r[i].nonce < r[j].nonce /\ r[i].since <= r[j].since
    BY <1>1 DEF Ordered
  <2>1. i \in 1 .. Len(q) /\ (j = Len(q) + 1 \/ j \in 1 .. Len(q))
    BY <1>1
  <2>2. CASE j = Len(q) + 1
    BY <1>1, <1>3, <1>4, <2>1, <2>2
  <2>3. CASE j \in 1 .. Len(q)
    BY <1>1, <1>4, <2>1, <2>3 DEF Ordered
  <2>. QED
    BY <2>1, <2>2, <2>3
<1>. QED
  BY <1>1, <1>2, <1>4 DEF r

\* A queue without its head, which comes before all the others.
LEMMA QueueTail ==
  ASSUME NEW q \in Seq(Tx), q # <<>>, Ordered(q)
  PROVE  /\ Head(q) \in Tx /\ Tail(q) \in Seq(Tx) /\ Ordered(Tail(q))
         /\ Actives(q) = Actives(Tail(q)) \cup (IF Head(q).kind = "active" THEN {Head(q)} ELSE {})
         /\ Head(q).kind = "active" => \A p \in Actives(Tail(q)) :
              Head(q).nonce < p.nonce /\ Head(q).since <= p.since
<1> DEFINE r == Tail(q)
<1>1. /\ Head(q) \in Tx /\ r \in Seq(Tx) /\ Len(q) \in Nat /\ Len(q) > 0
      /\ DOMAIN q = 1 .. Len(q) /\ DOMAIN r = 1 .. Len(q) - 1
      /\ Head(q) = q[1] /\ (\A i \in 1 .. Len(q) - 1 : r[i] = q[i + 1])
      /\ ToSet(q) = ToSet(r) \cup {Head(q)}
  BY TailFacts
<1> HIDE DEF r
<1>2. Actives(q) = Actives(r) \cup (IF Head(q).kind = "active" THEN {Head(q)} ELSE {})
  BY <1>1 DEF Actives
<1>3. \A i \in 1 .. Len(q) - 1 : i + 1 \in 1 .. Len(q) /\ 1 < i + 1
  BY <1>1
<1>4. Ordered(r)
  <2> SUFFICES ASSUME NEW i \in 1 .. Len(q) - 1, NEW j \in 1 .. Len(q) - 1, i < j,
                      r[i].kind = "active", r[j].kind = "active"
               PROVE  r[i].nonce < r[j].nonce /\ r[i].since <= r[j].since
    BY <1>1 DEF Ordered
  <2>1. i + 1 < j + 1 /\ i + 1 \in 1 .. Len(q) /\ j + 1 \in 1 .. Len(q)
    BY <1>1, <1>3
  <2>. QED
    BY <1>1, <2>1 DEF Ordered
<1>5. ASSUME Head(q).kind = "active", NEW p \in Actives(r)
      PROVE  Head(q).nonce < p.nonce /\ Head(q).since <= p.since
  <2>1. PICK i \in 1 .. Len(q) - 1 : p = r[i]
    BY <1>1, <1>5 DEF Actives, ToSet
  <2>2. 1 \in 1 .. Len(q) /\ i + 1 \in 1 .. Len(q) /\ 1 < i + 1 /\ q[i + 1] = p /\ p.kind = "active"
    BY <1>1, <1>3, <1>5, <2>1 DEF Actives
  <2>. QED
    BY <1>1, <1>5, <2>2 DEF Ordered
<1>. QED
  BY <1>1, <1>2, <1>4, <1>5 DEF r

-----------------------------------------------------------------------------
(* Lemmas on blocks. *)

LEMMA FewFrame ==
  ASSUME NEW c, NEW d, NEW f, NEW last, NEW next, Few(c, f, last),
         \A b \in d : b <= next /\ epochOf(b) = f => b \in c /\ b <= last
  PROVE  Few(d, f, next)
BY DEF Few

LEMMA FewBlocks ==
  ASSUME TypeOK, NEW s \in Ledger, NEW e \in Nat, Few(chain, e, s.tip)
  PROVE  Blocks(s, e) \in Nat /\ Blocks(s, e) < 2
<1> DEFINE B == {b \in chain : b <= s.tip /\ epochOf(b) = e}
<1>1. \A x, y \in B : x = y
  BY DEF Few
<1>2. CASE B = {}
  BY <1>2, FS_EmptySet DEF Blocks
<1>3. ASSUME NEW x \in B
      PROVE  Blocks(s, e) \in Nat /\ Blocks(s, e) < 2
  <2>1. B = {x}
    BY <1>1, <1>3
  <2>2. Cardinality(B) = 1
    BY <2>1, FS_Singleton
  <2>. QED
    BY <2>2 DEF Blocks
<1>. QED
  BY <1>2, <1>3

-----------------------------------------------------------------------------
(* Lemmas on what a node keeps. *)

LEMMA LedgerFields ==
  ASSUME NEW s \in Ledger
  PROVE  /\ s.tip \in Nat /\ s.created \in Nat /\ s.active \in Nat /\ s.nonce \in Nat
         /\ s.online \in SUBSET Nat /\ s.accepted \in SUBSET Nat /\ s.included \in SUBSET Nat
         /\ s.credited \in Seq(Nat) /\ s.nonces \in Seq(Nat)
         /\ ToSet(s.credited) \subseteq Nat /\ ToSet(s.nonces) \subseteq Nat
BY ToSetType DEF Ledger

\* A state that differs in its tip, its mode and the epochs that it was Online
\* in, with more blocks of the last epoch and of later ones.
LEMMA SoundFrame ==
  ASSUME NEW c, NEW d, NEW b, NEW h, NEW s \in Ledger, NEW t \in Ledger, NEW e \in Nat,
         NEW last, NEW next,
         t.created = s.created, t.active = s.active, t.nonce = s.nonce,
         t.accepted = s.accepted, t.credited = s.credited, t.nonces = s.nonces,
         t.included = s.included, s.online \subseteq t.online,
         Sound(c, b, s, e, last), \A f \in Nat : f < e /\ Few(c, f, last) => Few(d, f, next),
         \A f \in Nat : f + 2 <= e /\ f \in h => f \in b
  PROVE  Sound(d, h, t, e, next)
<1>1. /\ s.created \in Nat /\ s.active \in Nat
      /\ s.accepted \subseteq Nat
  BY LedgerFields
<1>2. InForce(d, t, e, next)
  <2>1. ASSUME s.active > s.created + 2, s.active <= e, Standing(c, s, last)
        PROVE  Standing(d, t, next)
    <3>1. ASSUME NEW f \in s.created + 2 .. s.active - 1, Few(c, f, last)
          PROVE  Few(d, f, next)
      BY <1>1, <2>1, <3>1
    <3>. QED
      BY <2>1, <3>1 DEF Standing
  <2>. QED
    BY <2>1 DEF Sound, InForce, Declared
<1>3. Paid(d, h, t, e, next)
  <2>1. ASSUME NEW f \in s.accepted, f + 2 <= e, Few(c, f + 1, last)
        PROVE  Few(d, f + 1, next)
    BY <1>1, <2>1
  <2>2. ASSUME NEW f \in s.accepted, f + 2 <= e, ~Owed(b, s, f)
        PROVE  ~Owed(h, t, f)
    BY <1>1, <2>2 DEF Owed
  <2>. QED
    BY <2>1, <2>2 DEF Sound, Paid
<1>. QED
  BY <1>2, <1>3 DEF Sound, Numbered

-----------------------------------------------------------------------------
(* Types. *)

LEMMA TypeEpochs ==
  ASSUME TypeOK
  PROVE  /\ epochOf(slot) \in Nat /\ epochOf(clock) \in Nat
         /\ epochOf(node.tip) \in Nat /\ epochOf(disk.tip) \in Nat
BY EpochNat, LedgerFields DEF TypeOK

LEMMA TypeSlot ==
  ASSUME TypeOK, Slot
  PROVE  clock' \in Nat /\ chain' \in SUBSET Nat /\ IsFiniteSet(chain') /\ fees' \in SUBSET Nat
<1> DEFINE c == chain \cup {clock + 1}
           b == fees \cup {epochOf(clock + 1)}
<1>1. IsFiniteSet(c)
  BY FS_AddElement DEF TypeOK
<1>2. clock + 1 \in Nat /\ c \in SUBSET Nat
  BY DEF TypeOK
<1>4. b \in SUBSET Nat
  BY <1>2, EpochNat DEF TypeOK
<1>3. clock' = clock + 1 /\ (chain' = c \/ chain' = chain) /\ (fees' = b \/ fees' = fees)
  BY Zenon DEF Slot
<1> HIDE DEF b, c
<1>. QED
  BY <1>1, <1>2, <1>3, <1>4 DEF TypeOK

LEMMA TypeCredit ==
  ASSUME TypeOK, NEW e \in Nat
  PROVE  Credit(e) \in Seq(Nat)
<1>1. node.credited \in Seq(Nat)
  BY LedgerFields DEF TypeOK
<1>2. ASSUME e >= 2
      PROVE  Append(node.credited, e - 2) \in Seq(Nat)
  <2>1. e - 2 \in Nat
    BY <1>2
  <2>. QED
    BY <1>1, <2>1, AppendFacts
<1>. QED
  BY <1>1, <1>2 DEF Credit

LEMMA TypeStep ==
  ASSUME TypeOK, Next
  PROVE  TypeOK'
<1>1. CASE SlotDown
  BY <1>1, TypeSlot DEF TypeOK, SlotDown, blockVars, bounds
<1>2. CASE TickBegin
  <2>1. clock' \in Nat /\ chain' \in SUBSET Nat /\ IsFiniteSet(chain') /\ fees' \in SUBSET Nat
    BY <1>2, TypeSlot DEF TickBegin
  <2>2. Cardinality({b \in chain' : b > node.tip}) \in Nat
    BY <2>1, FS_Subset, FS_CardinalityType
  <2>3. todo' \in Nat
    BY <1>2, <2>2 DEF TickBegin
  <2>. QED
    BY <1>2, <2>1, <2>3 DEF TypeOK, TickBegin, bounds
<1>3. CASE TickEnd
  <2>2. \A mode \in {node.mode, "Online"} : TickRest(mode) \in Ledger
    BY TypeEpochs DEF TypeOK, TickRest, Ledger
  <2>3. node' \in Ledger
    BY <1>3, <2>2 DEF TickEnd
  <2>4. disk' \in Ledger /\ saves' \in Nat
    BY <1>3, <2>3 DEF TypeOK, TickEnd, saveState
  <2>. QED
    BY <1>3, <2>3, <2>4 DEF TypeOK, TickEnd, blockVars
<1>4. CASE BlockBegin
  <2>1. slot' \in Nat /\ epoch' \in Nat
    BY <1>4, TypeEpochs DEF TypeOK, BlockBegin, started
  <2>. QED
    BY <1>4, <2>1 DEF TypeOK, BlockBegin, bounds
<1>5. CASE EpochStart
  <2>1. Credit(epoch + 1) \in Seq(Nat)
    BY TypeCredit DEF TypeOK
  <2>2. node.nonce + 1 \in Nat
    BY LedgerFields DEF TypeOK
  <2>3. [node EXCEPT !.nonce = @ + 1, !.credited = Credit(epoch + 1)] \in Ledger
    BY <2>1, <2>2 DEF TypeOK, Ledger
  <2>4. [node EXCEPT !.credited = Credit(epoch + 1)] \in Ledger
    BY <2>1 DEF TypeOK, Ledger
  <2>5. Activity(epoch) \in Tx
    BY <2>2 DEF TypeOK, Activity, Tx
  <2>6. Append(pool, Activity(epoch)) \in Seq(Tx)
    BY <2>5, AppendFacts DEF TypeOK
  <2>7. node' \in Ledger /\ pool' \in Seq(Tx)
    BY <1>5, <2>3, <2>4, <2>6 DEF TypeOK, EpochStart
  <2>8. /\ epoch' = epoch + 1
        /\ UNCHANGED <<clock, chain, fees, phase, disk, keep, todo, slot, bounds>>
    BY <1>5, Zenon DEF EpochStart
  <2>. QED
    BY <2>7, <2>8 DEF TypeOK, bounds
<1>6. CASE Keep
  <2>1. Head(pool) \in Tx /\ Tail(pool) \in Seq(Tx)
    BY <1>6, TailFacts DEF TypeOK, Keep, InBlock
  <2>2. pool' \in Seq(Tx) /\ keep' \in Seq(Tx)
    BY <1>6, <2>1, AppendFacts DEF TypeOK, Keep
  <2>. QED
    BY <1>6, <2>2 DEF TypeOK, Keep, bounds
<1>7. CASE Verdict
  <2>1. Head(pool) \in Tx /\ Tail(pool) \in Seq(Tx)
    BY <1>7, TailFacts DEF TypeOK, Verdict, InBlock
  <2>2. ASSUME Declare
        PROVE  node' \in Ledger
    <3>1. epochOf(slot) \in Nat /\ epochOf(slot) + 2 \in Nat
      BY TypeEpochs
    <3>. QED
      BY <2>2, <3>1 DEF TypeOK, Declare, Ledger
  <2>3. ASSUME Accept(Head(pool))
        PROVE  node' \in Ledger
    <3>1. Head(pool).epoch \in Nat /\ Head(pool).nonce \in Nat
      BY <2>1 DEF Tx
    <3>2. Append(node.nonces, Head(pool).nonce) \in Seq(Nat)
      BY <3>1, AppendFacts DEF TypeOK, Ledger
    <3>. QED
      BY <2>3, <3>1, <3>2, TypeEpochs DEF TypeOK, Accept, Ledger
  <2>4. node' \in Ledger
    BY <1>7, <2>2, <2>3 DEF TypeOK, Verdict
  <2>. QED
    BY <1>7, <2>1, <2>4 DEF TypeOK, Verdict, bounds
<1>8. CASE BlockEnd
  <2>1. node' \in Ledger
    BY <1>8 DEF TypeOK, BlockEnd, Ledger
  <2>. QED
    BY <1>8, <2>1, EmptyFacts DEF TypeOK, BlockEnd, bounds
<1>9. CASE Join
  <2>1. [kind |-> "declare", epoch |-> 0, nonce |-> 0, since |-> clock] \in Tx
    BY DEF TypeOK, Tx
  <2>2. pool' \in Seq(Tx)
    BY <1>9, <2>1, AppendFacts DEF TypeOK, Join
  <2>. QED
    BY <1>9, <2>2 DEF TypeOK, Join
<1>10. CASE Start
  <2>1. node' \in Ledger
    BY <1>10 DEF TypeOK, Start, Ledger
  <2>. QED
    BY <1>10, <2>1 DEF TypeOK, Start, blockVars
<1>11. CASE Stop
  BY <1>11, EmptyFacts DEF TypeOK, Stop, saveState, Forget, bounds
<1>12. CASE Kill
  <2>1. slot' \in Nat /\ epoch' \in Nat
    BY <1>12, TypeEpochs, LedgerFields DEF TypeOK, Kill
  <2>. QED
    BY <1>12, <2>1, EmptyFacts DEF TypeOK, Kill, Forget, bounds
<1>. QED
  BY <1>1, <1>2, <1>3, <1>4, <1>5, <1>6, <1>7, <1>8, <1>9, <1>10, <1>11, <1>12 DEF Next

-----------------------------------------------------------------------------
(* Every step preserves the invariant. *)

LEMMA PositionFacts ==
  ASSUME TypeOK, Position
  PROVE  /\ node.tip \in Nat /\ disk.tip \in Nat /\ node.tip <= slot /\ slot <= clock /\ disk.tip <= clock
         /\ chain \subseteq Nat /\ \A b \in chain : b \in Nat /\ b <= clock /\ epochOf(b) \in Nat
         /\ epoch <= epochOf(slot) /\ epochOf(slot) \in Nat /\ epochOf(node.tip) <= epoch
         /\ \A b \in chain : b < slot => b <= node.tip /\ epochOf(b) <= epoch
<1>1. /\ node.tip \in Nat /\ disk.tip \in Nat
  BY LedgerFields DEF TypeOK
<1>2. chain \subseteq Nat /\ \A b \in chain : b \in Nat /\ b <= clock
  BY DEF TypeOK, Position
<1>3. /\ epochOf(slot) \in Nat /\ epochOf(node.tip) \in Nat
      /\ epoch <= epochOf(slot) /\ epochOf(node.tip) <= epoch
  BY TypeEpochs DEF Position
<1>4. /\ node.tip <= slot /\ slot <= clock /\ disk.tip <= clock
  BY <1>2 DEF Position
<1>5. ASSUME NEW b \in chain
      PROVE  epochOf(b) \in Nat /\ (b < slot => b <= node.tip /\ epochOf(b) <= epoch)
  <2>1. b \in Nat /\ epochOf(b) \in Nat
    BY <1>2, EpochNat
  <2>2. ASSUME b < slot
        PROVE  b <= node.tip
    BY <1>1, <2>1, <2>2 DEF Position, TypeOK
  <2>3. ASSUME b <= node.tip
        PROVE  epochOf(b) <= epochOf(node.tip)
    BY <1>1, <2>1, <2>3, EpochGrows
  <2>. QED
    BY <1>3, <2>1, <2>2, <2>3 DEF TypeOK
<1>. QED
  BY <1>1, <1>2, <1>3, <1>4, <1>5

LEMMA InvInit == Init => Inv
<1> SUFFICES ASSUME Init
             PROVE  Inv
  OBVIOUS
<1>1. Genesis \in Ledger
  BY EmptyFacts DEF Genesis, Ledger
<1>2. TypeOK
  <2>1. IsFiniteSet({0})
    BY FS_Singleton
  <2>2. <<>> \in Seq(Tx)
    BY EmptyFacts
  <2>. QED
    BY <1>1, <2>1, <2>2 DEF Init, TypeOK
<1>3. Position
  BY EpochZero DEF Init, Genesis, Position
<1>4. Queues
  BY EmptyFacts DEF Init, Queues
<1>5. Sound(chain, fees, Genesis, 0, 0)
  BY EmptyFacts DEF Genesis, Sound, InForce, Paid, Numbered, Declared
<1>6. Genesis.tip = 0
  BY DEF Genesis
<1>. QED
  BY <1>2, <1>3, <1>4, <1>5, <1>6, EpochZero DEF Init, Ledgers, Inv

\* A slot passes.
LEMMA SlotStep ==
  ASSUME Inv, Slot, UNCHANGED <<node, disk, pool, keep, slot, epoch>>,
         phase # "block", phase' # "block"
  PROVE  Position' /\ Queues' /\ Ledgers'
<1>1. /\ node.tip <= slot /\ slot <= clock /\ disk.tip <= clock /\ clock \in Nat
      /\ slot \in Nat /\ node.tip \in Nat /\ disk.tip \in Nat
      /\ \A b \in chain : b \in Nat /\ b <= clock
  BY PositionFacts DEF Inv, TypeOK
<1>2. /\ clock' = clock + 1 /\ (chain' = chain \cup {clock + 1} \/ chain' = chain)
      /\ fees' = fees \cup {epochOf(clock + 1)} \/ fees' = fees
  BY Zenon DEF Slot
<1>3. /\ \A b \in chain' : b \in chain \/ b = clock + 1
      /\ chain \subseteq chain'
  BY <1>2
<1>4. Position'
  <2>1. chain' \subseteq 0 .. clock'
    BY <1>1, <1>2, <1>3 DEF Inv, Position
  <2>2. \A b \in chain' : b > node.tip => b >= slot
    BY <1>1, <1>3 DEF Inv, Position
  <2>. QED
    BY <1>3, <2>1, <2>2 DEF Inv, Position
<1>5. Queues'
  <2>1. ASSUME NEW tx, Posted(tx)
        PROVE  Posted(tx)'
    <3>1. \A b \in chain' : b < tx.since => b \in chain
      BY <1>1, <1>3, <2>1 DEF Posted
    <3>. QED
      BY <2>1, <3>1 DEF Posted, Declared
  <2>. QED
    BY <2>1 DEF Inv, Queues
<1>6. ASSUME NEW last \in Nat, last <= clock, NEW f, Few(chain, f, last)
      PROVE  Few(chain', f, last)
  <2>1. \A b \in chain' : b <= last => b \in chain
    BY <1>1, <1>3, <1>6
  <2>. QED
    BY <1>6, <2>1, FewFrame
\* An epoch that is two back gets no more transactions.
<1>8. \A f \in Nat : f \in fees' => f \in fees \/ (~(f + 2 <= epoch) /\ ~(f + 2 <= epochOf(disk.tip)))
  <2>1. /\ epochOf(slot) \in Nat /\ epochOf(disk.tip) \in Nat /\ epochOf(clock + 1) \in Nat
        /\ epoch \in Nat /\ epoch <= epochOf(slot)
    <3>1. epoch \in Nat /\ epoch <= epochOf(slot)
      BY PositionFacts DEF Inv, TypeOK
    <3>2. clock + 1 \in Nat
      BY <1>1
    <3>. QED
      BY <1>1, <3>1, <3>2, EpochNat
  <2>2. epochOf(slot) <= epochOf(clock + 1) /\ epochOf(disk.tip) <= epochOf(clock + 1)
    <3>1. clock + 1 \in Nat /\ slot <= clock + 1 /\ disk.tip <= clock + 1
      BY <1>1
    <3>. QED
      BY <1>1, <3>1, EpochGrows
  <2>3. \A f \in Nat : f \in fees' => f \in fees \/ f = epochOf(clock + 1)
    BY <1>2
  <2>. QED
    BY <2>1, <2>2, <2>3
<1>7. Ledgers'
  <2>1. node \in Ledger /\ disk \in Ledger /\ epoch \in Nat /\ epochOf(disk.tip) \in Nat
    BY TypeEpochs DEF Inv, TypeOK
  <2>2. Sound(chain, fees, node, epoch, slot) /\ Sound(chain, fees, disk, epochOf(disk.tip), disk.tip)
    BY DEF Inv, Ledgers
  <2>3. Sound(chain', fees', node, epoch, slot)
    BY <1>1, <1>6, <1>8, <2>1, <2>2, SoundFrame
  <2>4. Sound(chain', fees', disk, epochOf(disk.tip), disk.tip)
    BY <1>1, <1>6, <1>8, <2>1, <2>2, SoundFrame
  <2>. QED
    BY <2>3, <2>4 DEF Ledgers
<1>. QED
  BY <1>4, <1>5, <1>7

\* The end of a tick.
LEMMA TickEndStep ==
  ASSUME Inv, TickEnd
  PROVE  Position' /\ Queues' /\ Ledgers'
<1>1. /\ phase = "tick" /\ phase' = "rest" /\ UNCHANGED <<clock, chain, fees, pool, keep, todo, slot, epoch>>
      /\ disk' = disk \/ disk' = node'
  BY DEF TickEnd, saveState, blockVars
<1>2. /\ node'.tip = node.tip /\ node'.created = node.created /\ node'.active = node.active
      /\ node'.nonce = node.nonce /\ node'.accepted = node.accepted
      /\ node'.credited = node.credited /\ node'.nonces = node.nonces
      /\ node'.included = node.included
      /\ node.online \subseteq node'.online
  BY DEF Inv, TypeOK, TickEnd, TickRest, Ledger
<1>3. slot = node.tip /\ epoch = epochOf(slot)
  BY <1>1 DEF Inv, Position
<1>4. node' \in Ledger /\ node \in Ledger /\ epoch \in Nat
  <2>1. TypeOK'
    BY TypeStep DEF Inv, Next
  <2>. QED
    BY <2>1 DEF Inv, TypeOK
<1>5. Position'
  BY <1>1, <1>2, <1>3 DEF Inv, Position
<1>6. Queues'
  <2>1. ASSUME NEW tx, Posted(tx)
        PROVE  Posted(tx)'
    BY <1>1, <1>2, <2>1 DEF Posted, Declared
  <2>. QED
    BY <1>1, <2>1 DEF Inv, Queues
<1>7. Sound(chain, fees, node', epoch, slot)
  BY <1>2, <1>4, SoundFrame DEF Inv, Ledgers
<1>8. Ledgers'
  <2>1. CASE disk' = disk
    BY <1>1, <1>7, <2>1 DEF Inv, Ledgers
  <2>2. CASE disk' = node'
    BY <1>1, <1>2, <1>3, <1>7, <2>2 DEF Ledgers
  <2>. QED
    BY <1>1, <2>1, <2>2
<1>. QED
  BY <1>5, <1>6, <1>8

\* A block begins.
LEMMA BlockBeginStep ==
  ASSUME Inv, BlockBegin
  PROVE  Position' /\ Queues' /\ Ledgers'
<1>1. /\ phase = "tick" /\ phase' = "block" /\ UNCHANGED <<clock, chain, fees, node, disk, pool, keep>>
      /\ epoch' = epochOf(node.tip)
      /\ slot' \in chain /\ slot' > node.tip /\ \A b \in chain : b > node.tip => slot' <= b
  BY Zenon DEF BlockBegin, started
<1>2. slot = node.tip /\ epoch = epochOf(slot) /\ keep = <<>>
  BY <1>1 DEF Inv, Position
<1>3. /\ node.tip \in Nat /\ slot' \in Nat /\ epoch \in Nat /\ epochOf(slot') \in Nat
      /\ \A b \in chain : b \in Nat
  BY <1>1, PositionFacts DEF Inv, TypeOK
<1>4. epoch' = epoch /\ epochOf(node.tip) = epoch /\ epoch <= epochOf(slot')
  BY <1>1, <1>2, <1>3, EpochGrows
<1>5. Position'
  BY <1>1, <1>2, <1>3, <1>4 DEF Inv, Position
<1>6. Queues'
  <2>1. ASSUME NEW tx, Posted(tx)
        PROVE  Posted(tx)'
    BY <1>1, <1>2, <1>4, <2>1 DEF Posted, Declared
  <2>2. Actives(keep) = {}
    BY <1>2, EmptyFacts
  <2>. QED
    BY <1>1, <2>1, <2>2 DEF Inv, Queues
<1>7. ASSUME NEW f \in Nat, f < epoch, Few(chain, f, slot)
      PROVE  Few(chain, f, slot')
  <2>1. ASSUME NEW b \in chain, b <= slot', epochOf(b) = f
        PROVE  b <= slot
    <3>1. b # slot'
      BY <1>3, <1>4, <1>7, <2>1
    <3>. QED
      BY <1>1, <1>2, <1>3, <2>1, <3>1
  <2>. QED
    BY <1>7, <2>1, FewFrame
<1>8. Ledgers'
  <2>1. node \in Ledger
    BY DEF Inv, TypeOK
  <2>2. Sound(chain, fees, node, epoch, slot)
    BY DEF Inv, Ledgers
  <2>3. Sound(chain, fees, node, epoch, slot')
    BY <1>3, <1>7, <2>1, <2>2, SoundFrame
  <2>. QED
    BY <1>1, <1>4, <2>3 DEF Inv, Ledgers
<1>. QED
  BY <1>5, <1>6, <1>8

\* What an epoch start pays.
LEMMA CreditFacts ==
  ASSUME Inv, NEW t \in Ledger, t.credited = Credit(epoch + 1),
         t.created = node.created, t.active = node.active, t.accepted = node.accepted,
         t.included = node.included, t.nonces = node.nonces, t.online = node.online,
         t.nonce >= node.nonce,
         Declared(node) \/ t.nonce = node.nonce
  PROVE  Sound(chain, fees, t, epoch + 1, slot)
<1> DEFINE f == epoch - 1
<1>1. /\ node \in Ledger /\ epoch \in Nat /\ node.created \in Nat /\ node.active \in Nat
      /\ node.nonce \in Nat /\ t.nonce \in Nat
      /\ node.accepted \subseteq Nat /\ node.credited \in Seq(Nat) /\ ToSet(node.credited) \subseteq Nat
      /\ ToSet(node.nonces) \subseteq Nat
  BY LedgerFields DEF Inv, TypeOK
<1>2. Sound(chain, fees, node, epoch, slot)
  BY DEF Inv, Ledgers
<1>3. InForce(chain, t, epoch + 1, slot)
  BY <1>1, <1>2 DEF Sound, InForce, Declared, Standing
<1>4. Numbered(t)
  BY <1>1, <1>2 DEF Sound, Numbered
<1>5. /\ \A g \in node.accepted : g \in node.online /\ g >= node.created + 2 /\ g < node.active
      /\ \A g \in node.accepted : g + 2 <= epoch =>
           g \in ToSet(node.credited) \/ Few(chain, g + 1, slot) \/ ~Owed(fees, node, g)
      /\ \A g \in node.accepted : Owed(fees, t, g) => Owed(fees, node, g)
      /\ \A g \in ToSet(node.credited) : g \in node.accepted /\ g + 2 <= epoch
      /\ IsInjective(node.credited)
  BY <1>2 DEF Sound, Paid, Owed
<1>6. CASE epoch + 1 >= 2 /\ f \in node.accepted /\ Shared(node, f)
  <2>1. f \in Nat /\ epoch + 1 - 2 = f /\ f + 2 = epoch + 1
    BY <1>1, <1>6
  <2>2. Declared(node)
    BY <1>2, <1>6 DEF Sound, InForce
  <2>3. t.credited = Append(node.credited, f)
    BY <1>6, <2>1, <2>2 DEF Credit
  <2>4. f \notin ToSet(node.credited)
    BY <1>1, <1>5, <2>1
  <2> HIDE DEF f
  <2>5. ToSet(t.credited) = ToSet(node.credited) \cup {f}
    <3>1. ToSet(Append(node.credited, f)) = ToSet(node.credited) \cup {f}
      BY <1>1, <2>1, AppendFacts
    <3>. QED
      BY <2>3, <3>1
  <2>6. IsInjective(t.credited)
    BY <1>1, <1>5, <2>1, <2>3, <2>4, NumbersAppend
  <2>7. \A g \in node.accepted :
          g + 2 <= epoch + 1 =>
            g \in ToSet(t.credited) \/ Few(chain, g + 1, slot) \/ ~Owed(fees, t, g)
    <3>1. \A g \in node.accepted : g + 2 <= epoch + 1 => g + 2 <= epoch \/ g = f
      BY <1>1, <2>1
    <3>. QED
      BY <1>5, <2>5, <3>1
  <2>8. \A g \in ToSet(t.credited) : g \in node.accepted /\ g + 2 <= epoch + 1
    BY <1>1, <1>5, <1>6, <2>1, <2>5
  <2>9. Paid(chain, fees, t, epoch + 1, slot)
    BY <1>5, <2>6, <2>7, <2>8 DEF Paid
  <2>. QED
    BY <1>3, <1>4, <2>9 DEF Sound
<1>7. CASE ~(epoch + 1 >= 2 /\ f \in node.accepted /\ Shared(node, f))
  <2>1. epoch + 1 - 2 = f
    BY <1>1
  <2>2. t.credited = node.credited
    <3>1. CASE epoch + 1 >= 2
      BY <1>1, <1>7, <2>1, <3>1 DEF Credit
    <3>2. CASE ~(epoch + 1 >= 2)
      BY <1>1, <3>2 DEF Credit
    <3>. QED
      BY <3>1, <3>2
  \* The provider that served the epoch is in the network of that epoch.
  <2>3. \A g \in node.accepted : g + 2 <= epoch + 1 => g + 2 <= epoch \/ ~Owed(fees, t, g)
    <3> SUFFICES ASSUME NEW g \in node.accepted, g + 2 <= epoch + 1, ~(g + 2 <= epoch)
                 PROVE  ~Owed(fees, t, g)
      OBVIOUS
    <3>0. g \in Nat /\ epoch \in Nat
      BY <1>1, Zenon
    <3>1. g \in Nat /\ g = f /\ epoch + 1 >= 2
      BY <3>0
    <3>2. ~Shared(node, g)
      BY <1>7, <3>1
    <3>3. Declared(node) /\ g >= node.created + 2 /\ g < node.active
      BY <1>2, <1>5 DEF Sound, InForce
    <3>4. memberOf(node, g)
      BY <1>1, <3>1, <3>3 DEF memberOf
    <3>. QED
      BY <3>2, <3>4 DEF Shared, Income, Owed
  <2>4. \A g \in ToSet(node.credited) : g + 2 <= epoch + 1
    BY <1>1, <1>5
  <2>5. Paid(chain, fees, t, epoch + 1, slot)
    BY <1>5, <2>2, <2>3, <2>4 DEF Paid
  <2>. QED
    BY <1>3, <1>4, <2>5 DEF Sound
<1>. QED
  BY <1>6, <1>7

\* An epoch starts.
LEMMA EpochStartStep ==
  ASSUME Inv, EpochStart
  PROVE  Position' /\ Queues' /\ Ledgers'
<1> DEFINE paid == [node EXCEPT !.credited = Credit(epoch + 1)]
           posted == [node EXCEPT !.nonce = @ + 1, !.credited = Credit(epoch + 1)]
<1>1. /\ phase = "block" /\ epoch < epochOf(slot) /\ epoch' = epoch + 1
      /\ UNCHANGED <<clock, chain, fees, phase, disk, keep, slot>>
  BY Zenon DEF EpochStart
<1>2. \/ /\ node' = posted /\ memberOf(node, epoch) /\ epoch \in node.online
         /\ pool' = Append(pool, Activity(epoch))
      \/ node' = paid /\ pool' = pool
  BY Zenon DEF EpochStart
<1>3. /\ node \in Ledger /\ pool \in Seq(Tx) /\ epoch \in Nat /\ slot \in Nat /\ epochOf(slot) \in Nat
      /\ node.tip \in Nat /\ node.nonce \in Nat /\ node.created \in Nat /\ node.tip < slot
      /\ ToSet(node.nonces) \subseteq Nat /\ keep = <<>>
  BY <1>1, LedgerFields, TypeEpochs DEF Inv, TypeOK, Position
<1>4. \A t \in {paid, posted} :
        /\ t.tip = node.tip /\ t.created = node.created /\ t.active = node.active
        /\ t.accepted = node.accepted /\ t.nonces = node.nonces /\ t.online = node.online
        /\ t.credited = Credit(epoch + 1) /\ t.included = node.included
  BY <1>3 DEF Ledger
<1>5. paid.nonce = node.nonce /\ posted.nonce = node.nonce + 1
  BY <1>3 DEF Ledger
<1>6. node' \in Ledger
  <2>1. TypeOK'
    BY TypeStep DEF Inv, Next
  <2>. QED
    BY <2>1 DEF TypeOK
<1> HIDE DEF paid, posted
<1>7. /\ node'.tip = node.tip /\ node'.created = node.created /\ node'.active = node.active
      /\ node'.accepted = node.accepted /\ node'.nonces = node.nonces /\ node'.online = node.online
      /\ node'.credited = Credit(epoch + 1) /\ node'.included = node.included
  BY <1>2, <1>4
<1>8. /\ node'.nonce = node.nonce \/ (Declared(node) /\ node'.nonce = node.nonce + 1)
      /\ node'.nonce >= node.nonce
  <2>1. memberOf(node, epoch) => Declared(node)
    BY DEF memberOf
  <2>. QED
    BY <1>2, <1>3, <1>5, <2>1
<1>9. Position'
  <2>1. epochOf(node.tip) \in Nat /\ epochOf(node.tip) <= epoch
    BY TypeEpochs DEF Inv, Position
  <2>2. epochOf(node.tip) <= epoch + 1 /\ epoch + 1 <= epochOf(slot)
    BY <1>1, <1>3, <2>1
  <2>. QED
    BY <1>1, <1>3, <1>7, <2>2 DEF Inv, Position
<1>10. Ledgers'
  <2>1. Sound(chain, fees, node', epoch + 1, slot)
    BY <1>3, <1>6, <1>7, <1>8, CreditFacts
  <2>. QED
    BY <1>1, <2>1 DEF Inv, Ledgers
<1>11. ASSUME NEW tx \in Tx, Posted(tx)
       PROVE  Posted(tx)'
  <2>1. tx.epoch \in Nat /\ tx.nonce \in Nat
    BY DEF Tx
  <2>2. node'.nonce \in Nat
    BY <1>6, LedgerFields
  <2>3. tx.epoch < epoch + 1 /\ tx.nonce <= node'.nonce
    BY <1>3, <1>8, <1>11, <2>1, <2>2 DEF Posted
  <2>. QED
    BY <1>1, <1>7, <1>11, <2>3 DEF Posted, Declared
<1>12. /\ Actives(keep) = {} /\ \A tx \in Actives(pool) : Posted(tx) /\ tx \in Tx
       /\ Ordered(pool) /\ Ordered(keep)
  <2>1. \A tx \in Actives(pool) : tx \in Tx
    BY <1>3, ToSetType DEF Actives
  <2>. QED
    BY <1>3, <2>1, EmptyFacts DEF Inv, Queues
<1>13. Queues'
  <2>1. CASE pool' = pool
    BY <1>1, <1>11, <1>12, <2>1 DEF Queues
  <2>2. CASE /\ memberOf(node, epoch) /\ epoch \in node.online /\ node' = posted
             /\ pool' = Append(pool, Activity(epoch))
    <3>1. PICK tx \in Tx :
            /\ pool' = Append(pool, tx) /\ tx.kind = "active" /\ tx.epoch = epoch
            /\ tx.nonce = node.nonce + 1 /\ tx.since = slot
      <4>1. Activity(epoch) \in Tx
        BY <1>3 DEF Activity, Tx
      <4>. QED
        BY <2>2, <4>1 DEF Activity
    <3>2. Posted(tx)'
      <4>1. \A n \in ToSet(node.nonces) : n <= node.nonce
        BY DEF Inv, Ledgers, Sound, Numbered
      <4>2. \A n \in ToSet(node.nonces) : n < node.nonce + 1
        BY <1>3, <4>1
      <4>3. \A b \in chain : b < slot => epochOf(b) <= epoch
        BY PositionFacts DEF Inv
      <4>4. Declared(node) /\ epoch >= node.created + 2
        BY <1>3, <2>2 DEF memberOf
      <4>5. epoch < epoch + 1 /\ node.nonce + 1 <= node'.nonce
        BY <1>3, <1>5, <2>2
      <4>. QED
        BY <1>1, <1>7, <2>2, <3>1, <4>2, <4>3, <4>4, <4>5 DEF Posted, Declared
    <3>3. \A p \in Actives(pool) : p.nonce < tx.nonce /\ p.since <= tx.since
      <4> SUFFICES ASSUME NEW p \in Actives(pool)
                   PROVE  p.nonce < tx.nonce /\ p.since <= tx.since
        OBVIOUS
      <4>1. p.nonce \in Nat /\ p.since \in Nat /\ p.nonce <= node.nonce /\ p.since \in {node.tip, slot}
        BY <1>12 DEF Posted, Tx
      <4>. QED
        BY <1>3, <3>1, <4>1
    <3>4. Ordered(pool') /\ Actives(pool') = Actives(pool) \cup {tx}
      BY <1>3, <1>12, <3>1, <3>3, QueueAppend
    <3>. QED
      BY <1>1, <1>11, <1>12, <3>2, <3>4 DEF Queues
  <2>. QED
    BY <1>2, <2>1, <2>2
<1>. QED
  BY <1>9, <1>10, <1>13

\* The head of the mempool, where every epoch has started.
LEMMA HeadFacts ==
  ASSUME Inv, InBlock
  PROVE  /\ pool \in Seq(Tx) /\ Head(pool) \in Tx /\ Tail(pool) \in Seq(Tx) /\ Ordered(Tail(pool))
         /\ Actives(pool) = Actives(Tail(pool)) \cup (IF Head(pool).kind = "active" THEN {Head(pool)} ELSE {})
         /\ Head(pool).kind = "active" =>
              /\ Posted(Head(pool))
              /\ \A p \in Actives(Tail(pool)) :
                   Head(pool).nonce < p.nonce /\ Head(pool).since <= p.since
              /\ Due(Head(pool)) => Actives(keep) = {} /\ Head(pool).since = node.tip
         /\ \A p \in Actives(pool) \cup Actives(keep) : p \in Tx
         /\ slot \in Nat /\ node.tip \in Nat /\ node.tip < slot /\ epoch \in Nat /\ epoch = epochOf(slot)
<1>1. /\ pool \in Seq(Tx) /\ pool # <<>> /\ Ordered(pool) /\ keep \in Seq(Tx)
  BY DEF Inv, TypeOK, InBlock, Queues
<1>2. /\ Head(pool) \in Tx /\ Tail(pool) \in Seq(Tx) /\ Ordered(Tail(pool))
      /\ Actives(pool) = Actives(Tail(pool)) \cup (IF Head(pool).kind = "active" THEN {Head(pool)} ELSE {})
      /\ Head(pool).kind = "active" => \A p \in Actives(Tail(pool)) :
           Head(pool).nonce < p.nonce /\ Head(pool).since <= p.since
  BY <1>1, QueueTail
<1>3. /\ slot \in Nat /\ node.tip \in Nat /\ node.tip < slot /\ epoch \in Nat /\ epoch = epochOf(slot)
  BY LedgerFields DEF Inv, TypeOK, InBlock, Position
<1>4. \A p \in Actives(pool) \cup Actives(keep) : p \in Tx
  BY <1>1, ToSetType DEF Actives
<1>5. ASSUME Head(pool).kind = "active"
      PROVE  /\ Posted(Head(pool))
             /\ Due(Head(pool)) => Actives(keep) = {} /\ Head(pool).since = node.tip
  <2>1. Head(pool) \in Actives(pool)
    BY <1>2, <1>5
  <2>2. Posted(Head(pool)) /\ \A k \in Actives(keep) : Head(pool).since = slot
    BY <2>1 DEF Inv, Queues
  <2>3. Head(pool).since \in {node.tip, slot}
    BY <2>2 DEF Posted
  <2>. QED
    BY <1>3, <2>2, <2>3 DEF Due
<1>. QED
  BY <1>1, <1>2, <1>3, <1>4, <1>5

\* A transaction is kept.
LEMMA KeepStep ==
  ASSUME Inv, Keep
  PROVE  Position' /\ Queues' /\ Ledgers'
<1> DEFINE tx == Head(pool)
<1>1. /\ InBlock /\ ~Due(tx) /\ pool' = Tail(pool) /\ keep' = Append(keep, tx)
      /\ UNCHANGED <<clock, chain, fees, phase, node, disk, slot, epoch>>
  BY DEF Keep
<1>2. Position'
  <2>1. phase = "block" /\ epoch = epochOf(slot) /\ epoch \in Nat
    BY <1>1 DEF InBlock, Inv, TypeOK
  <2>. QED
    BY <1>1, <2>1 DEF Inv, Position
<1>3. Ledgers'
  BY <1>1 DEF Inv, Ledgers
<1>4. ASSUME NEW p, Posted(p)
      PROVE  Posted(p)'
  BY <1>1, <1>4 DEF Posted, Declared
<1>5. /\ tx \in Tx /\ Ordered(Tail(pool)) /\ keep \in Seq(Tx) /\ Ordered(keep)
      /\ Actives(pool) = Actives(Tail(pool)) \cup (IF tx.kind = "active" THEN {tx} ELSE {})
      /\ \A p \in Actives(pool) \cup Actives(keep) : p \in Tx /\ Posted(p)
      /\ \A k \in Actives(keep) :
           k.since = slot /\ \A p \in Actives(pool) : k.nonce < p.nonce /\ p.since = slot
  BY <1>1, HeadFacts DEF Inv, Queues, TypeOK
<1>6. ASSUME tx.kind = "active"
      PROVE  Queues'
  <2>1. /\ slot \in Nat /\ node.tip \in Nat /\ node.tip < slot /\ Posted(tx)
        /\ \A p \in Actives(Tail(pool)) : tx.nonce < p.nonce /\ tx.since <= p.since
    BY <1>1, <1>6, HeadFacts
  <2>2. tx.since = slot
    BY <1>1, <2>1 DEF Due, Posted
  <2>3. \A p \in Actives(Tail(pool)) : p.since = slot
    <3>1. \A p \in Actives(Tail(pool)) : p.since \in {node.tip, slot} /\ tx.since <= p.since
      BY <1>5, <2>1 DEF Posted
    <3>. QED
      BY <2>1, <2>2, <3>1
  <2>4. tx \in Actives(pool)
    BY <1>5, <1>6
  <2>5. \A k \in Actives(keep) : k.nonce < tx.nonce /\ k.since <= tx.since
    BY <1>5, <2>1, <2>2, <2>4
  <2>6. Ordered(keep') /\ Actives(keep') = Actives(keep) \cup {tx}
    BY <1>1, <1>5, <1>6, <2>5, QueueAppend
  <2> HIDE DEF tx
  <2>. QED
    BY <1>1, <1>4, <1>5, <2>1, <2>2, <2>3, <2>6 DEF Queues
<1>7. ASSUME tx.kind # "active"
      PROVE  Queues'
  <2>1. Ordered(keep') /\ Actives(keep') = Actives(keep)
    BY <1>1, <1>5, <1>7, QueueAppend
  <2>2. Actives(Tail(pool)) = Actives(pool)
    BY <1>5, <1>7
  <2> HIDE DEF tx
  <2>. QED
    BY <1>1, <1>4, <1>5, <2>1, <2>2 DEF Queues
<1>. QED
  BY <1>2, <1>3, <1>6, <1>7

\* Where the node has no declaration, nothing is posted, accepted or paid.
LEMMA NoDeclaration ==
  ASSUME Inv, ~Declared(node)
  PROVE  /\ Actives(pool) = {} /\ Actives(keep) = {}
         /\ node.accepted = {} /\ node.nonces = <<>> /\ ToSet(node.credited) = {}
         /\ IsInjective(node.credited)
<1>1. \A tx \in Actives(pool) \cup Actives(keep) : Declared(node)
  BY DEF Inv, Queues, Posted
<1>2. node.accepted = {} /\ node.nonces = <<>>
  BY DEF Inv, Ledgers, Sound, InForce
<1>3. ToSet(node.credited) = {} /\ IsInjective(node.credited)
  BY <1>2 DEF Inv, Ledgers, Sound, Paid
<1>. QED
  BY <1>1, <1>2, <1>3

\* A declaration comes into the ledger.
LEMMA DeclareStep ==
  ASSUME Inv, Declare
  PROVE  Sound(chain, fees, node', epoch, slot)
<1>1. /\ ~Declared(node) /\ node \in Ledger /\ epochOf(slot) \in Nat
  BY TypeEpochs DEF Inv, TypeOK, Declare
<1>2. /\ node'.created = epochOf(slot) /\ node'.active = epochOf(slot) + 2 /\ node'.nonce = 0
      /\ node'.accepted = node.accepted /\ node'.nonces = node.nonces
      /\ node'.credited = node.credited
  BY <1>1 DEF Declare, Ledger
<1>3. InForce(chain, node', epoch, slot)
  BY <1>1, <1>2 DEF InForce, Declared
<1>4. Paid(chain, fees, node', epoch, slot)
  BY <1>1, <1>2, NoDeclaration DEF Paid
<1>5. Numbered(node')
  BY <1>1, <1>2, NoDeclaration, EmptyFacts DEF Numbered
<1>. QED
  BY <1>3, <1>4, <1>5 DEF Sound

\* An activity comes into the ledger.
LEMMA AcceptStep ==
  ASSUME Inv, NEW tx \in Tx, Posted(tx), tx.since = node.tip, epoch = epochOf(slot), Accept(tx)
  PROVE  Sound(chain, fees, node', epoch, slot)
<1>1. /\ node \in Ledger /\ epoch \in Nat /\ tx.epoch \in Nat /\ tx.nonce \in Nat
      /\ node.created \in Nat /\ node.active \in Nat /\ node.nonce \in Nat
      /\ node.accepted \subseteq Nat /\ node.nonces \in Seq(Nat) /\ ToSet(node.nonces) \subseteq Nat
  BY LedgerFields DEF Inv, TypeOK, Tx
<1>2. /\ node'.created = node.created /\ node'.nonce = node.nonce
      /\ node'.online = node.online /\ node'.credited = node.credited
      /\ node'.active = (IF node.active < epoch THEN epoch ELSE node.active)
      /\ node'.accepted = node.accepted \cup {tx.epoch}
      /\ node'.included = node.included \cup {epochOf(slot)}
      /\ node'.nonces = Append(node.nonces, tx.nonce)
  BY <1>1 DEF Accept, Ledger
<1>3. /\ tx.epoch >= node.created + 2 /\ tx.epoch \in node.online /\ tx.epoch < epoch
      /\ tx.nonce <= node.nonce /\ \A n \in ToSet(node.nonces) : n < tx.nonce
  BY DEF Posted
<1>4. /\ InForce(chain, node, epoch, slot) /\ Paid(chain, fees, node, epoch, slot) /\ Numbered(node)
  BY DEF Inv, Ledgers, Sound
<1>5. Declared(node) /\ node.active >= node.created + 2
      /\ (node.active > node.created + 2 => node.active <= epoch)
  BY <1>4 DEF InForce, Accept
<1>6. node'.active \in Nat /\ node'.active >= node.active /\ node'.active >= epoch
  BY <1>1, <1>2
\* The only block of the next epoch, if there is one, is that of the tip.
<1>7. ASSUME tx.epoch + 2 <= epoch
      PROVE  Few(chain, tx.epoch + 1, slot)
  <2>1. ASSUME NEW b \in chain, b <= slot, epochOf(b) = tx.epoch + 1
        PROVE  b = node.tip
    <3>1. b \in Nat /\ node.tip \in Nat /\ slot \in Nat /\ (b < slot => b <= node.tip)
      BY PositionFacts DEF Inv, TypeOK
    <3>2. b # slot
      BY <1>1, <1>7, <2>1
    <3>3. ~(b < tx.since)
      <4>1. b < tx.since => epochOf(b) <= tx.epoch
        BY DEF Posted
      <4>. QED
        BY <1>1, <2>1, <4>1
    <3>. QED
      BY <2>1, <3>1, <3>2, <3>3
  <2>. QED
    BY <2>1 DEF Few
<1>8. InForce(chain, node', epoch, slot)
  <2>1. ASSUME node'.active > node.created + 2
        PROVE  node'.active = epoch
    BY <1>1, <1>2, <1>5, <2>1
  <2>2. ASSUME node'.active = epoch
        PROVE  Standing(chain, node', slot)
    <3>1. CASE tx.epoch = epoch - 1
      BY <1>2, <2>2, <3>1 DEF Standing
    <3>2. CASE tx.epoch # epoch - 1
      <4>1. tx.epoch + 2 <= epoch
        BY <1>1, <1>3, <3>2
      <4>2. tx.epoch + 1 \in node'.created + 2 .. node'.active - 1
        BY <1>1, <1>2, <1>3, <2>2, <4>1
      <4>. QED
        BY <1>7, <4>1, <4>2 DEF Standing
    <3>. QED
      BY <3>1, <3>2
  <2>3. Declared(node') /\ node'.active >= node'.created + 2
    BY <1>1, <1>2, <1>5, <1>6 DEF Declared
  <2>4. node'.active > node'.created + 2 => node'.active <= epoch /\ Standing(chain, node', slot)
    BY <1>1, <1>2, <2>1, <2>2
  <2>. QED
    BY <2>3, <2>4 DEF InForce
<1>9. Paid(chain, fees, node', epoch, slot)
  <2>1. ASSUME NEW f \in node.accepted
        PROVE  /\ f \in node'.online /\ f >= node'.created + 2 /\ f < node'.active
               /\ f + 2 <= epoch =>
                    f \in ToSet(node'.credited) \/ Few(chain, f + 1, slot) \/ ~Owed(fees, node', f)
    <3>1. f \in Nat /\ f \in node.online /\ f >= node.created + 2 /\ f < node.active
      BY <1>1, <1>4, <2>1 DEF Paid
    <3>2. ASSUME f + 2 <= epoch
          PROVE  f \in ToSet(node.credited) \/ Few(chain, f + 1, slot) \/ ~Owed(fees, node, f)
      BY <1>4, <2>1, <3>2 DEF Paid
    <3>3. ASSUME f + 2 <= epoch
          PROVE  Owed(fees, node', f) => Owed(fees, node, f)
      <4>1. f # epochOf(slot)
        BY <1>1, <3>1, <3>3
      <4>. QED
        BY <1>2, <4>1 DEF Owed
    <3>. QED
      BY <1>1, <1>2, <1>6, <3>1, <3>2, <3>3
  <2>2. /\ tx.epoch \in node'.online /\ tx.epoch >= node'.created + 2 /\ tx.epoch < node'.active
        /\ tx.epoch + 2 <= epoch => Few(chain, tx.epoch + 1, slot)
    BY <1>1, <1>2, <1>3, <1>6, <1>7
  <2>3. /\ \A f \in ToSet(node'.credited) : f \in node'.accepted /\ f + 2 <= epoch
        /\ IsInjective(node'.credited)
    BY <1>2, <1>4 DEF Paid
  <2>. QED
    BY <1>2, <2>1, <2>2, <2>3 DEF Paid
<1>10. Numbered(node')
  <2>1. ToSet(Append(node.nonces, tx.nonce)) = ToSet(node.nonces) \cup {tx.nonce}
    BY <1>1, AppendFacts
  <2>2. Increasing(Append(node.nonces, tx.nonce))
    BY <1>1, <1>3, <1>4, NumbersAppend DEF Numbered
  <2>. QED
    BY <1>2, <1>3, <1>4, <2>1, <2>2 DEF Numbered
<1>. QED
  BY <1>8, <1>9, <1>10 DEF Sound

\* The ledger's verdict on a transaction.
LEMMA VerdictStep ==
  ASSUME Inv, Verdict
  PROVE  Position' /\ Queues' /\ Ledgers'
<1>1. /\ InBlock /\ Due(Head(pool)) /\ pool' = Tail(pool)
      /\ UNCHANGED <<clock, chain, fees, phase, disk, keep, slot, epoch>>
  BY DEF Verdict
<1>2. PICK tx \in Tx : tx = Head(pool)
  BY <1>1, HeadFacts
<1>3. \/ Declare
      \/ tx.kind = "active" /\ Accept(tx)
      \/ node' = node
  BY <1>2 DEF Verdict
<1>4. /\ Ordered(Tail(pool)) /\ Actives(Tail(pool)) \subseteq Actives(pool)
      /\ \A p \in Actives(pool) \cup Actives(keep) : p \in Tx
      /\ epoch = epochOf(slot)
  BY <1>1, HeadFacts
<1>5. node \in Ledger
  BY DEF Inv, TypeOK
<1>6. node'.tip = node.tip
  BY <1>3, <1>5 DEF Declare, Accept, Ledger
<1>7. Position'
  BY <1>1, <1>6 DEF Inv, Position
<1>8. ASSUME tx.kind = "active"
      PROVE  /\ Posted(tx) /\ tx.since = node.tip /\ Actives(keep) = {}
             /\ \A p \in Actives(Tail(pool)) : tx.nonce < p.nonce
  BY <1>1, <1>2, <1>8, HeadFacts
<1>9. Ledgers'
  <2>1. Sound(chain, fees, node', epoch, slot)
    <3>1. ASSUME tx.kind = "active", Accept(tx)
          PROVE  Sound(chain, fees, node', epoch, slot)
      BY <1>4, <1>8, <3>1, AcceptStep
    <3>2. ASSUME node' = node
          PROVE  Sound(chain, fees, node', epoch, slot)
      BY <3>2 DEF Inv, Ledgers
    <3>. QED
      BY <1>3, <3>1, <3>2, DeclareStep
  <2>. QED
    BY <1>1, <2>1 DEF Inv, Ledgers
<1>10. \A p \in Actives(Tail(pool)) \cup Actives(keep) : Posted(p)'
  <2> SUFFICES ASSUME NEW p \in Actives(Tail(pool)) \cup Actives(keep)
               PROVE  Posted(p)'
    OBVIOUS
  <2>1. Posted(p) /\ p \in Tx
    BY <1>4 DEF Inv, Queues
  <2>2. CASE Declare
    BY <1>4, <2>2, NoDeclaration DEF Declare
  <2>3. CASE node' = node
    BY <1>1, <2>1, <2>3 DEF Posted, Declared
  <2>4. ASSUME tx.kind = "active", Accept(tx)
        PROVE  Posted(p)'
    <3>1. tx.nonce < p.nonce
      BY <1>8, <2>4
    <3>2. /\ node'.created = node.created /\ node'.nonce = node.nonce
          /\ node'.online = node.online /\ node'.nonces = Append(node.nonces, tx.nonce)
          /\ node'.active = (IF node.active < epoch THEN epoch ELSE node.active)
      BY <1>4, <1>5, <2>4 DEF Accept, Ledger
    <3>3. node.nonces \in Seq(Nat) /\ tx.nonce \in Nat /\ node.active \in Nat /\ epoch \in Nat
      BY <1>5, LedgerFields DEF Tx, Inv, TypeOK
    <3>4. ToSet(Append(node.nonces, tx.nonce)) = ToSet(node.nonces) \cup {tx.nonce}
      BY <3>3, AppendFacts
    <3>5. \A n \in ToSet(node'.nonces) : n < p.nonce
      BY <2>1, <3>1, <3>2, <3>4 DEF Posted
    <3>6. Declared(node')
      BY <2>1, <3>2, <3>3 DEF Posted, Declared
    <3>. QED
      BY <1>1, <1>6, <2>1, <3>2, <3>5, <3>6 DEF Posted, Declared
  <2>. QED
    BY <1>3, <2>2, <2>3, <2>4
<1>11. Queues'
  BY <1>1, <1>4, <1>10 DEF Inv, Queues
<1>. QED
  BY <1>7, <1>9, <1>11

\* A block ends.
LEMMA BlockEndStep ==
  ASSUME Inv, BlockEnd
  PROVE  Position' /\ Queues' /\ Ledgers'
<1>1. /\ phase = "block" /\ phase' = "tick" /\ epoch = epochOf(slot) /\ pool' = keep /\ keep' = <<>>
      /\ node' = [node EXCEPT !.tip = slot]
      /\ UNCHANGED <<clock, chain, fees, disk, slot, epoch>>
  BY DEF BlockEnd
<1>2. node \in Ledger /\ node' \in Ledger /\ epoch \in Nat /\ slot \in Nat
  <2>1. TypeOK'
    BY TypeStep DEF Inv, Next
  <2>. QED
    BY <2>1 DEF Inv, TypeOK
<1>3. /\ node'.tip = slot /\ node'.created = node.created /\ node'.active = node.active
      /\ node'.nonce = node.nonce /\ node'.accepted = node.accepted /\ node'.online = node.online
      /\ node'.credited = node.credited /\ node'.nonces = node.nonces
      /\ node'.included = node.included
  BY <1>1, <1>2 DEF Ledger
<1>4. Position'
  <2>1. \A b \in chain : b > slot => b >= slot
    BY <1>2, PositionFacts DEF Inv
  <2>. QED
    BY <1>1, <1>2, <1>3, <2>1 DEF Inv, Position
<1>5. Queues'
  <2>1. \A p \in Actives(keep) : Posted(p) /\ p.since = slot
    BY DEF Inv, Queues
  <2>2. \A p \in Actives(keep) : Posted(p)'
    BY <1>1, <1>3, <2>1 DEF Posted, Declared
  <2>3. Ordered(keep) /\ Ordered(<<>>) /\ Actives(<<>>) = {}
    BY EmptyFacts DEF Inv, Queues
  <2>. QED
    BY <1>1, <2>2, <2>3 DEF Queues
<1>6. Ledgers'
  <2>1. Sound(chain, fees, node', epoch, slot)
    BY <1>2, <1>3, SoundFrame DEF Inv, Ledgers
  <2>. QED
    BY <1>1, <2>1 DEF Inv, Ledgers
<1>. QED
  BY <1>4, <1>5, <1>6

LEMMA JoinStep ==
  ASSUME Inv, Join
  PROVE  Position' /\ Queues' /\ Ledgers'
<1>1. PICK tx \in Tx : tx.kind = "declare" /\ pool' = Append(pool, tx)
  <2> DEFINE d == [kind |-> "declare", epoch |-> 0, nonce |-> 0, since |-> clock]
  <2>1. d \in Tx /\ d.kind = "declare"
    BY DEF Inv, TypeOK, Tx
  <2>. QED
    BY <2>1 DEF Join
<1>2. UNCHANGED <<clock, chain, fees, phase, node, disk, keep, slot, epoch>>
  BY DEF Join
<1>3. Ordered(pool') /\ Actives(pool') = Actives(pool)
  BY <1>1, QueueAppend DEF Inv, TypeOK, Queues
<1>4. ASSUME NEW p, Posted(p)
      PROVE  Posted(p)'
  BY <1>2, <1>4 DEF Posted, Declared
<1>5. Position' /\ Ledgers'
  BY <1>2 DEF Inv, Position, Ledgers
<1>. QED
  BY <1>2, <1>3, <1>4, <1>5 DEF Inv, Queues

LEMMA StartStep ==
  ASSUME Inv, Start
  PROVE  Position' /\ Queues' /\ Ledgers'
<1>1. /\ phase = "down" /\ phase' = "rest" /\ \E mode : node' = [node EXCEPT !.mode = mode]
      /\ UNCHANGED <<clock, chain, fees, disk, pool, keep, slot, epoch>>
  BY DEF Start, blockVars
<1>2. node \in Ledger /\ node' \in Ledger /\ epoch \in Nat
  <2>1. TypeOK'
    BY TypeStep DEF Inv, Next
  <2>. QED
    BY <2>1 DEF Inv, TypeOK
<1>3. /\ node'.tip = node.tip /\ node'.created = node.created /\ node'.active = node.active
      /\ node'.nonce = node.nonce /\ node'.accepted = node.accepted /\ node'.online = node.online
      /\ node'.credited = node.credited /\ node'.nonces = node.nonces
      /\ node'.included = node.included
  BY <1>1, <1>2 DEF Ledger
<1>4. Position'
  BY <1>1, <1>3 DEF Inv, Position
<1>5. ASSUME NEW p, Posted(p)
      PROVE  Posted(p)'
  BY <1>1, <1>3, <1>5 DEF Posted, Declared
<1>6. Queues'
  BY <1>1, <1>5 DEF Inv, Queues
<1>7. Ledgers'
  <2>1. Sound(chain, fees, node', epoch, slot)
    BY <1>2, <1>3, SoundFrame DEF Inv, Ledgers
  <2>. QED
    BY <1>1, <2>1 DEF Inv, Ledgers
<1>. QED
  BY <1>4, <1>6, <1>7

LEMMA StopStep ==
  ASSUME Inv, Stop
  PROVE  Position' /\ Queues' /\ Ledgers'
<1>1. /\ phase = "rest" /\ phase' = "down" /\ node' = node /\ disk' = node
      /\ pool' = <<>> /\ keep' = <<>> /\ UNCHANGED <<clock, chain, fees, slot, epoch>>
  BY DEF Stop, saveState, Forget
<1>2. slot = node.tip /\ epoch = epochOf(slot)
  BY <1>1 DEF Inv, Position
<1>3. Position'
  BY <1>1, <1>2 DEF Inv, Position
<1>4. Queues'
  BY <1>1, EmptyFacts DEF Queues
<1>5. Ledgers'
  BY <1>1, <1>2 DEF Inv, Ledgers
<1>. QED
  BY <1>3, <1>4, <1>5

LEMMA KillStep ==
  ASSUME Inv, Kill
  PROVE  Position' /\ Queues' /\ Ledgers'
<1>1. /\ phase' = "down" /\ node' = disk /\ slot' = disk.tip /\ epoch' = epochOf(disk.tip)
      /\ pool' = <<>> /\ keep' = <<>> /\ UNCHANGED <<clock, chain, fees, disk>>
  BY DEF Kill, Forget
<1>2. Position'
  <2>1. disk.tip \in Nat /\ epochOf(disk.tip) \in Nat /\ \A b \in chain : b \in Nat
    BY PositionFacts, TypeEpochs DEF Inv
  <2>2. disk.tip <= disk.tip /\ \A b \in chain : b > disk.tip => b >= disk.tip
    BY <2>1
  <2>. QED
    BY <1>1, <2>1, <2>2 DEF Inv, Position
<1>3. Queues'
  BY <1>1, EmptyFacts DEF Queues
<1>4. Ledgers'
  BY <1>1 DEF Inv, Ledgers
<1>. QED
  BY <1>2, <1>3, <1>4

LEMMA InvStep == Inv /\ [Next]_vars => Inv'
<1> SUFFICES ASSUME Inv, [Next]_vars
             PROVE  Inv'
  OBVIOUS
<1>1. CASE UNCHANGED vars
  BY <1>1 DEF vars, blockVars, bounds, Inv, TypeOK, Position, Queues, Posted, Ledgers
<1>2. CASE Next
  <2>1. ASSUME SlotDown
        PROVE  Position' /\ Queues' /\ Ledgers'
    BY <2>1, SlotStep DEF SlotDown, blockVars
  <2>2. ASSUME TickBegin
        PROVE  Position' /\ Queues' /\ Ledgers'
    BY <2>2, SlotStep DEF TickBegin
  <2>3. Position' /\ Queues' /\ Ledgers'
    BY <1>2, <2>1, <2>2, TickEndStep, BlockBeginStep, EpochStartStep, KeepStep, VerdictStep,
       BlockEndStep, JoinStep, StartStep, StopStep, KillStep DEF Next
  <2>4. TypeOK'
    BY <1>2, TypeStep DEF Inv
  <2>. QED
    BY <2>3, <2>4 DEF Inv
<1>. QED
  BY <1>1, <1>2

LEMMA Invariance == Spec => []Inv
BY InvInit, InvStep, PTL DEF Spec

-----------------------------------------------------------------------------
(* The theorems. *)

(* The node, the state file and the mempool keep their types (TypeOK).      *)
THEOREM TypeCorrect == Spec => []TypeOK
BY Invariance, PTL DEF Inv

\* The states with every block taken in full.
LEMMA SettledSound ==
  ASSUME Inv, NEW s \in Settled
  PROVE  s \in Ledger /\ Sound(chain, fees, s, epochOf(s.tip), s.tip)
<1>1. CASE s = disk
  BY <1>1 DEF Inv, TypeOK, Ledgers
<1>2. CASE s = node /\ phase # "block"
  BY <1>2 DEF Inv, TypeOK, Ledgers, Position
<1>. QED
  BY <1>1, <1>2 DEF Settled

LEMMA StatesSound ==
  ASSUME Inv, NEW s \in States
  PROVE  s \in Ledger /\ \E e, last : Sound(chain, fees, s, e, last)
BY DEF States, Inv, TypeOK, Ledgers

(* A provider is in the core set from two epochs after its declaration for  *)
(* as long as it has not missed more than InactivityPeriod epochs in a row, *)
(* and no longer but on a thin chain (CoreSetRule).                         *)
THEOREM CoreSetRuleCorrect == Spec => []CoreSetRule
<1>1. ASSUME Inv
      PROVE  CoreSetRule
  <2> SUFFICES ASSUME NEW s \in Settled, Declared(s)
               PROVE  LET now == epochOf(s.tip)
                          Kept == \E e \in Served(s) : e + InactivityPeriod + 1 >= now
                          Thin == \E e \in s.created + 2 .. now - 1 : Blocks(s, e) < 2
                      IN /\ now >= s.created + 2 /\ Kept => memberOf(s, now)
                         /\ memberOf(s, now) => now >= s.created + 2 /\ (Kept \/ Thin)
    BY DEF CoreSetRule
  <2> DEFINE now == epochOf(s.tip)
             Kept == \E e \in Served(s) : e + InactivityPeriod + 1 >= now
             Thin == \E e \in s.created + 2 .. now - 1 : Blocks(s, e) < 2
  <2>1. /\ s \in Ledger /\ InForce(chain, s, now, s.tip) /\ Paid(chain, fees, s, now, s.tip)
    BY <1>1, SettledSound DEF Sound
  <2>2. /\ s.created \in Nat /\ s.active \in Nat /\ s.accepted \subseteq Nat /\ now \in Nat
    BY <2>1, LedgerFields, EpochNat
  <2>3. /\ s.active >= s.created + 2
        /\ s.active > s.created + 2 => s.active <= now /\ Standing(chain, s, s.tip)
    BY <2>1 DEF InForce
  <2>4. \A e \in s.accepted : e < s.active
    BY <2>1 DEF Paid
  <2>5. s.created + 1 \in Served(s) /\ s.accepted \subseteq Served(s)
    BY DEF Served
  <2> HIDE DEF now
  <2>6. ASSUME now >= s.created + 2, Kept
        PROVE  memberOf(s, now)
    <3>1. PICK e \in Served(s) : e + InactivityPeriod + 1 >= now
      BY <2>6
    <3>2. e \in Nat /\ e + 1 <= s.active
      BY <2>2, <2>3, <2>4 DEF Served
    <3>. QED
      BY <2>2, <2>6, <3>1, <3>2 DEF memberOf
  <2>7. ASSUME memberOf(s, now)
        PROVE  now >= s.created + 2 /\ (Kept \/ Thin)
    <3>1. now >= s.created + 2 /\ s.active + InactivityPeriod >= now
      BY <2>2, <2>7 DEF memberOf
    <3>2. CASE s.active = s.created + 2
      <4>1. s.created + 1 + InactivityPeriod + 1 >= now
        BY <2>2, <3>1, <3>2
      <4>. QED
        BY <2>5, <3>1, <4>1
    <3>3. CASE s.active - 1 \in s.accepted
      <4>1. s.active - 1 + InactivityPeriod + 1 >= now
        BY <2>2, <3>1
      <4>. QED
        BY <2>5, <3>1, <3>3, <4>1
    <3>4. ASSUME s.active <= now, NEW e \in s.created + 2 .. s.active - 1, Few(chain, e, s.tip)
          PROVE  Thin
      <4>1. e \in Nat /\ e \in s.created + 2 .. now - 1
        BY <2>2, <3>4
      <4>2. Blocks(s, e) < 2
        BY <1>1, <2>1, <3>4, <4>1, FewBlocks DEF Inv
      <4>. QED
        BY <4>1, <4>2
    <3>5. \/ s.active = s.created + 2 \/ s.active - 1 \in s.accepted
          \/ s.active <= now /\ \E e \in s.created + 2 .. s.active - 1 : Few(chain, e, s.tip)
      BY <2>2, <2>3 DEF Standing
    <3>. QED
      BY <3>1, <3>2, <3>3, <3>4, <3>5
  <2>. QED
    BY <2>6, <2>7 DEF now
<1>. QED
  BY <1>1, Invariance, PTL

(* Rewards for an epoch that the ledger accepted an activity for are there  *)
(* from the first block of the second epoch after it, where that epoch has  *)
(* rewards and unless the epoch between is too thin to take the activity    *)
(* (RewardOnTime).                                                          *)
THEOREM RewardOnTimeCorrect == Spec => []RewardOnTime
<1>1. ASSUME Inv
      PROVE  RewardOnTime
  <2> SUFFICES ASSUME NEW s \in Settled, NEW e \in s.accepted,
                      epochOf(s.tip) >= e + 2, Blocks(s, e + 1) >= 2, HasRewards(s, e)
               PROVE  e \in ToSet(s.credited)
    BY DEF RewardOnTime
  <2>1. s \in Ledger /\ Paid(chain, fees, s, epochOf(s.tip), s.tip)
    BY <1>1, SettledSound DEF Sound
  <2>2. e \in Nat /\ epochOf(s.tip) \in Nat
    BY <2>1, LedgerFields, EpochNat
  <2>3. e \in ToSet(s.credited) \/ Few(chain, e + 1, s.tip)
    BY <2>1, <2>2 DEF Paid, Owed, HasRewards, Income
  <2>4. ~Few(chain, e + 1, s.tip)
    <3>1. e + 1 \in Nat
      BY <2>2
    <3>2. Few(chain, e + 1, s.tip) => Blocks(s, e + 1) \in Nat /\ Blocks(s, e + 1) < 2
      BY <1>1, <2>1, <3>1, FewBlocks DEF Inv
    <3>. QED
      BY <3>2
  <2>. QED
    BY <2>3, <2>4
<1>. QED
  BY <1>1, Invariance, PTL

(* No epoch is paid twice, nor one before the declaration was in force or   *)
(* in which the node was never Online (EarnedOnly).                         *)
THEOREM EarnedOnlyCorrect == Spec => []EarnedOnly
<1>1. ASSUME Inv
      PROVE  EarnedOnly
  <2> SUFFICES ASSUME NEW s \in States
               PROVE  /\ IsInjective(s.credited)
                      /\ \A e \in ToSet(s.credited) : e \in s.online /\ e >= s.created + 2
    BY DEF EarnedOnly
  <2>. QED
    BY <1>1, StatesSound DEF Sound, Paid
<1>. QED
  BY <1>1, Invariance, PTL

(* The nonces that the ledger accepts grow, whatever a restart has lost     *)
(* (NoncesGrow).                                                            *)
THEOREM NoncesGrowCorrect == Spec => []NoncesGrow
<1>1. ASSUME Inv
      PROVE  NoncesGrow
  BY <1>1, StatesSound DEF NoncesGrow, Sound, Numbered, Increasing
<1>. QED
  BY <1>1, Invariance, PTL

=============================================================================
