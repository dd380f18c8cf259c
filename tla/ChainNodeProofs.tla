--------------------------- MODULE ChainNodeProofs ---------------------------
(***************************************************************************)
(* Theorems about ChainNode, for any network, security parameter, waiters, *)
(* stops, kills and purges.                                                *)
(***************************************************************************)
EXTENDS ChainNode, FiniteSetTheorems, WellFoundedInduction, TLAPS

USE ChainAssumption

-----------------------------------------------------------------------------
(* Sets of slots. *)

(* A set of naturals that is not empty has a least element.                 *)
LEMMA LeastNatural ==
  ASSUME NEW S \in SUBSET Nat, S # {}
  PROVE  \E m \in S : \A n \in S : m <= n
<1>1. PICK m \in S : \A n \in S : ~(<<n, m>> \in OpToRel(<, Nat))
  BY NatLessThanWellFounded, WFMin
<1>2. ASSUME NEW n \in S PROVE m <= n
  <2>1. ~(n < m)
    BY <1>1 DEF OpToRel
  <2>. QED
    BY <2>1
<1>. QED
  BY <1>1, <1>2

(* Max and Min of slots are what their names say.                           *)
LEMMA MaxOfSlots ==
  ASSUME NEW S \in SUBSET Slots, S # {}
  PROVE  Max(S) \in S /\ \A n \in S : n <= Max(S)
<1> DEFINE Bounds == {k \in Nat : \A n \in S : n <= k}
<1>1. Bounds # {} /\ Bounds \in SUBSET Nat
  <2>1. MaxSlot \in Bounds
    BY DEF Slots
  <2>. QED
    BY <2>1
<1>2. PICK m \in Bounds : \A k \in Bounds : m <= k
  <2> HIDE DEF Bounds
  <2>. QED
    BY <1>1, LeastNatural
<1>3. m \in S
  <2> SUFFICES ASSUME m \notin S PROVE FALSE
    OBVIOUS
  <2>1. \A n \in S : n \in Nat /\ n <= m /\ n # m
    BY DEF Slots
  <2>2. PICK s \in S : TRUE
    OBVIOUS
  <2>3. m - 1 \in Bounds
    BY <2>1, <2>2
  <2>. QED
    BY <1>2, <2>3
<1>4. \A n \in S : n \in Int /\ m >= n /\ n <= m
  BY DEF Slots
<1>5. \E x \in S : \A y \in S : x >= y
  BY <1>3, <1>4
<1>6. Max(S) \in S /\ \A y \in S : Max(S) >= y
  BY <1>5 DEF Max
<1>. QED
  BY <1>6 DEF Slots

LEMMA MinOfTwo ==
  ASSUME NEW a \in Nat, NEW b \in Nat
  PROVE  Min({a, b}) = IF a <= b THEN a ELSE b
BY DEF Min

(* Slots are finite, and a larger set of them has more.                     *)
LEMMA CountSlots ==
  ASSUME NEW c \in SUBSET Slots
  PROVE  /\ IsFiniteSet(c) /\ Cardinality(c) \in Nat
         /\ \A d \in SUBSET c : Cardinality(d) <= Cardinality(c)
         /\ \A s \in c : Cardinality(c \ {s}) = Cardinality(c) - 1
<1>1. IsFiniteSet(Slots)
  BY FS_Interval DEF Slots
<1>2. IsFiniteSet(c)
  BY <1>1, FS_Subset
<1>. QED
  BY <1>2, FS_CardinalityType, FS_Subset, FS_RemoveElement

-----------------------------------------------------------------------------
(* The LIB rule. *)

\* The blocks of c after s, up to t.
After(c, s, t) == c \cap (s + 1) .. t

(* There is a block with exactly K blocks after it wherever there are more  *)
(* than K, so LibFor finds one, and genesis otherwise.                      *)
LEMMA LibForExists ==
  ASSUME NEW c \in SUBSET Slots, NEW t \in Slots, Cardinality(c \cap 1 .. t) > K
  PROVE  \E s \in c : s <= t /\ Cardinality(c \cap (s + 1) .. t) = K
<1> DEFINE Few == {s \in Slots : s <= t /\ Cardinality(After(c, s, t)) <= K}
<1>1. Few \in SUBSET Nat /\ Few # {}
  <2>1. After(c, t, t) = {}
    BY DEF After, Slots
  <2>2. Cardinality(After(c, t, t)) <= K
    BY <2>1, FS_EmptySet
  <2>3. t \in Few
    BY <2>2 DEF Slots
  <2>. QED
    BY <2>3 DEF Slots
<1>2. PICK m \in Few : \A s \in Few : m <= s
  <2> HIDE DEF Few
  <2>. QED
    BY <1>1, LeastNatural
<1>3. m \in Slots /\ m <= t /\ Cardinality(After(c, m, t)) <= K
  OBVIOUS
<1>4. m # 0
  BY <1>3, CountSlots DEF After, Slots
<1>5. m - 1 \in Slots /\ m - 1 \notin Few /\ m - 1 + 1 = m
  BY <1>2, <1>3, <1>4 DEF Slots
<1>6. Cardinality(c \cap m .. t) > K
  <2>1. ~(Cardinality(After(c, m - 1, t)) <= K)
    BY <1>3, <1>5 DEF Slots
  <2>2. After(c, m - 1, t) = c \cap m .. t
    BY <1>5 DEF After
  <2>3. c \cap m .. t \in SUBSET Slots
    OBVIOUS
  <2>4. Cardinality(c \cap m .. t) \in Nat
    BY <2>3, CountSlots
  <2>. QED
    BY <2>1, <2>2, <2>4
<1>7. After(c, m, t) = (c \cap m .. t) \ {m}
  BY <1>3 DEF After, Slots
<1>8. c \cap m .. t \in SUBSET Slots
  OBVIOUS
<1>9. m \in c
  <2> SUFFICES ASSUME m \notin c PROVE FALSE
    OBVIOUS
  <2>1. After(c, m, t) = c \cap m .. t
    BY <1>7
  <2>. QED
    BY <1>3, <1>6, <1>8, <2>1, CountSlots
<1>10. Cardinality(After(c, m, t)) = Cardinality(c \cap m .. t) - 1
  <2>1. m \in c \cap m .. t
    BY <1>3, <1>9 DEF Slots
  <2>. QED
    BY <1>7, <1>8, <2>1, CountSlots
<1>11. Cardinality(c \cap m .. t) \in Nat
  BY <1>8, CountSlots
<1>12. Cardinality(After(c, m, t)) = K
  BY <1>3, <1>6, <1>10, <1>11
<1>. QED
  BY <1>3, <1>9, <1>12 DEF After

LEMMA LibForRule ==
  ASSUME NEW c \in SUBSET Slots, 0 \in c, NEW t \in Slots
  PROVE  /\ LibFor(c, t) \in c /\ LibFor(c, t) <= t
         /\ IF Cardinality(c \cap 1 .. t) > K
            THEN Cardinality(After(c, LibFor(c, t), t)) = K
            ELSE LibFor(c, t) = 0
<1>1. CASE Cardinality(c \cap 1 .. t) > K
  <2>1. \E s \in c : s <= t /\ Cardinality(c \cap (s + 1) .. t) = K
    BY <1>1, LibForExists
  <2>2. LibFor(c, t) = CHOOSE s \in c : s <= t /\ Cardinality(c \cap (s + 1) .. t) = K
    BY <1>1 DEF LibFor
  <2>3. LibFor(c, t) \in c /\ LibFor(c, t) <= t /\ Cardinality(c \cap (LibFor(c, t) + 1) .. t) = K
    BY <2>1, <2>2
  <2>. QED
    BY <1>1, <2>3 DEF After
<1>2. CASE ~(Cardinality(c \cap 1 .. t) > K)
  BY <1>2 DEF LibFor, Slots
<1>. QED
  BY <1>1, <1>2

(* A block with K blocks after it is at or below the LIB.                   *)
LEMMA LibForAbove ==
  ASSUME NEW c \in SUBSET Slots, 0 \in c, NEW t \in Slots,
         NEW s \in c, s # 0, s <= t, Cardinality(After(c, s, t)) >= K
  PROVE  s <= LibFor(c, t)
<1> DEFINE l == LibFor(c, t)
<1>1. l \in c /\ l <= t /\ l \in Slots
  BY LibForRule
<1> SUFFICES ASSUME l < s PROVE FALSE
  BY <1>1 DEF Slots
<1>2. After(c, l, t) \in SUBSET Slots /\ s \in After(c, l, t)
  BY <1>1 DEF After, Slots
<1>3. After(c, s, t) \subseteq After(c, l, t) \ {s}
  BY <1>1 DEF After, Slots
<1>4. Cardinality(After(c, l, t)) \in Nat /\ Cardinality(After(c, l, t) \ {s}) = Cardinality(After(c, l, t)) - 1
  BY <1>2, CountSlots
<1>5. After(c, l, t) \ {s} \in SUBSET Slots
  BY <1>2
<1>6. /\ Cardinality(After(c, s, t)) <= Cardinality(After(c, l, t) \ {s})
      /\ Cardinality(After(c, s, t)) \in Nat
  BY <1>3, <1>5, CountSlots
<1>7. Cardinality(After(c, l, t)) > K
  BY <1>4, <1>6
<1>8. CASE Cardinality(c \cap 1 .. t) > K
  BY <1>7, <1>8, LibForRule
<1>9. CASE ~(Cardinality(c \cap 1 .. t) > K)
  <2>1. l = 0
    BY <1>9, LibForRule
  <2>2. After(c, l, t) = c \cap 1 .. t
    BY <2>1 DEF After
  <2>. QED
    BY <1>7, <1>9, <2>2
<1>. QED
  BY <1>8, <1>9

(* Only the blocks up to t count.                                           *)
LEMMA LibForSame ==
  ASSUME NEW c \in SUBSET Slots, NEW d \in SUBSET Slots, 0 \in c, 0 \in d, NEW t \in Slots,
         c \cap 0 .. t = d \cap 0 .. t
  PROVE  LibFor(c, t) = LibFor(d, t)
<1>1. c \cap 1 .. t = d \cap 1 .. t
  OBVIOUS
<1>2. \A s \in Slots : After(c, s, t) = After(d, s, t)
  BY <1>1 DEF After, Slots
<1>3. /\ LibFor(c, t) \in c /\ LibFor(c, t) \in d /\ LibFor(d, t) \in c /\ LibFor(d, t) \in d
      /\ LibFor(c, t) \in Nat /\ LibFor(d, t) \in Nat
  <2>1. LibFor(c, t) \in c /\ LibFor(d, t) \in d /\ LibFor(c, t) <= t /\ LibFor(d, t) <= t
    BY LibForRule
  <2>2. LibFor(c, t) \in Nat /\ LibFor(d, t) \in Nat /\ t \in Nat
    <3>1. \A n \in Slots : n \in Nat
      BY DEF Slots
    <3>2. LibFor(c, t) \in Slots /\ LibFor(d, t) \in Slots
      BY <2>1
    <3>. QED
      BY <3>1, <3>2
  <2>3. LibFor(c, t) \in 0 .. t /\ LibFor(d, t) \in 0 .. t
    BY <2>1, <2>2
  <2>. QED
    BY <2>1, <2>2, <2>3
<1>4. LibFor(c, t) <= t /\ LibFor(d, t) <= t
  BY LibForRule
<1>5. CASE Cardinality(c \cap 1 .. t) > K
  <2>1. Cardinality(After(c, LibFor(c, t), t)) = K /\ Cardinality(After(d, LibFor(d, t), t)) = K
    BY <1>1, <1>5, LibForRule
  <2>2. Cardinality(After(d, LibFor(c, t), t)) = K /\ Cardinality(After(c, LibFor(d, t), t)) = K
    BY <1>2, <1>3, <2>1
  <2>3. LibFor(c, t) # 0 /\ LibFor(d, t) # 0
    <3>1. After(c, 0, t) = c \cap 1 .. t /\ After(d, 0, t) = d \cap 1 .. t
      BY DEF After
    <3>. QED
      BY <1>1, <1>5, <2>1, <3>1
  <2>4. LibFor(c, t) <= LibFor(d, t)
    BY <1>3, <1>4, <2>2, <2>3, LibForAbove
  <2>5. LibFor(d, t) <= LibFor(c, t)
    BY <1>3, <1>4, <2>2, <2>3, LibForAbove
  <2>. QED
    BY <1>3, <2>4, <2>5
<1>6. CASE ~(Cardinality(c \cap 1 .. t) > K)
  BY <1>1, <1>6, LibForRule
<1>. QED
  BY <1>5, <1>6

-----------------------------------------------------------------------------
(* Types. *)

\* LibFor looks for its block in a chain that has a genesis.
Typed == TypeOK /\ 0 \in chain

FileType == [tip : Slots, lib : Slots, last : {"Bootstrapping", "Online"}, own : SUBSET Slots]

LEMMA SnapshotOK ==
  ASSUME NEW t \in Slots, NEW l \in Slots, NEW m, NEW o \in SUBSET Slots
  PROVE  /\ Snapshot(t, l, m, o) \in FileType
         /\ Snapshot(t, l, m, o).tip = t /\ Snapshot(t, l, m, o).lib = l
         /\ Snapshot(t, l, m, o).own = o
         /\ Snapshot(t, l, m, o).last = "Online" => m = "Online"
BY DEF Snapshot, FileType

LEMMA WonSlots == ASSUME NEW now, NEW won \in Wins(now) PROVE won \subseteq (scanned + 1) .. now
BY DEF Wins

(* A tick in terms of what it keeps: the chain grows behind what has been   *)
(* scanned, and neither the tip nor the scan goes back.                     *)
LEMMA TickEffect ==
  ASSUME Typed, NEW now \in Slots, NEW won \in Wins(now), NEW t \in Slots, Tick(now, won, t)
  PROVE  /\ node = "up" /\ clock' = now /\ chain' \in SUBSET Slots /\ chain \subseteq chain'
         /\ own' = own \cup won /\ own' \in SUBSET Slots
         /\ chain' \subseteq chain \cup won \cup NetSlots
         /\ \A s \in chain' \ chain : s > scanned
         /\ scanned' \in Slots /\ scanned <= scanned' /\ now <= scanned'
         /\ tip' = t /\ (tip \in chain => tip' \in chain' /\ tip <= tip')
         /\ lib' = NewLib(chain', tip', mode') /\ lib' \in Slots
         /\ mode' \in {"NotStarted", "Bootstrapping", "Online"}
         /\ final' = final \cup (chain' \cap 0 .. lib')
         /\ (file' = file \/ file' = Snapshot(tip', lib', mode', own'))
         /\ file' \in FileType
         /\ UNCHANGED <<peers, node, runs, crashes, fault>>
<1> USE DEF Typed
<1>1. /\ Ticking /\ chain' = Extended(now, won) /\ own' = own \cup won /\ clock' = now
      /\ scanned' = (IF now > scanned THEN now ELSE scanned)
      /\ t \in Reachable(chain') /\ tip' = t /\ lib' = NewLib(chain', t, mode')
      /\ final' = final \cup (chain' \cap 0 .. lib')
      /\ file' \in {file, Snapshot(tip', lib', mode', own')}
      /\ UNCHANGED <<peers, node, runs, crashes, fault>>
  BY DEF Tick
<1>2. mode' \in {"NotStarted", "Bootstrapping", "Online"}
  BY DEF Tick, TypeOK
<1>3. won \subseteq (scanned + 1) .. now /\ scanned \in Slots /\ scanned \in Nat /\ now \in Nat /\ now <= MaxSlot
  BY WonSlots DEF TypeOK, Slots
<1>4. \A s \in (scanned + 1) .. now : s \in Slots /\ s > scanned
  BY <1>3 DEF Slots
<1>5. /\ chain' \in SUBSET Slots /\ chain \subseteq chain' /\ own' \in SUBSET Slots
      /\ chain' \subseteq chain \cup won \cup NetSlots
      /\ \A s \in chain' \ chain : s > scanned
  BY <1>1, <1>3, <1>4 DEF Extended, TypeOK
<1>6. scanned' \in Slots /\ scanned <= scanned' /\ now <= scanned'
  BY <1>1, <1>3 DEF Slots
<1>7. ASSUME tip \in chain PROVE t \in chain' /\ tip <= t
  <2>1. Max(chain') \in chain' /\ \A s \in chain' : s <= Max(chain')
    BY <1>5, MaxOfSlots
  <2>2. tip \in chain' /\ tip \in Nat
    BY <1>5, <1>7 DEF Slots
  <2>3. t = Max(chain') \/ t = tip \/ (t \in chain' /\ t > tip)
    BY <1>1 DEF Reachable
  <2>4. \A s \in chain' : s \in Nat
    BY <1>5 DEF Slots
  <2>5. CASE t = Max(chain')
    BY <2>1, <2>2, <2>5
  <2>6. CASE t = tip
    BY <2>2, <2>6
  <2>7. CASE t \in chain' /\ t > tip
    BY <2>2, <2>4, <2>7
  <2>. QED
    BY <2>3, <2>5, <2>6, <2>7
<1>8. lib' \in Slots
  <2>1. LibFor(chain', t) \in Slots
    BY <1>5, LibForRule
  <2>. QED
    BY <1>1, <2>1 DEF NewLib, TypeOK
<1>9. file' \in FileType
  BY <1>1, <1>5, <1>8, SnapshotOK DEF TypeOK, FileType
<1>. QED
  BY <1>1, <1>2, <1>5, <1>6, <1>7, <1>8, <1>9 DEF Ticking

LEMMA TypedStep == Typed /\ [Next]_vars => Typed'
<1> SUFFICES ASSUME Typed, [Next]_vars PROVE Typed'
  OBVIOUS
<1> USE DEF Typed
<1>1. file \in FileType
  BY DEF TypeOK, FileType
<1>2. CASE TickFail
  BY <1>2 DEF TickFail, TypeOK, chainVars, waitVars
<1>3. CASE TickEarly
  BY <1>3 DEF TickEarly, TypeOK, waitVars
<1>4. CASE ThreadExit
  BY <1>4 DEF ThreadExit, TypeOK, chainVars, waitVars
<1>5. ASSUME NEW now \in Slots, NEW won \in Wins(now), NEW t \in Slots, Tick(now, won, t)
      PROVE  Typed'
  <2>1. /\ clock' \in -1 .. MaxSlot /\ chain' \in SUBSET Slots /\ own' \in SUBSET Slots
        /\ scanned' \in Slots /\ tip' \in Slots /\ lib' \in Slots
        /\ mode' \in {"NotStarted", "Bootstrapping", "Online"} /\ 0 \in chain'
        /\ UNCHANGED <<peers, node, runs, crashes, fault>>
    BY <1>5, TickEffect DEF Slots
  <2>2. final' \in SUBSET Slots
    BY <1>5, <2>1, TickEffect DEF TypeOK
  <2>3. file' \in FileType
    BY <1>5, TickEffect
  <2>4. /\ health' = "ok" /\ UNCHANGED <<command, thread, held>>
        /\ ibd' \in {"todo", "done"} /\ wpc' \in [Waiters -> {"idle", "waiting", "woken"}]
    BY <1>5 DEF Tick, WakeAll, TypeOK
  <2>. QED
    BY <2>1, <2>2, <2>3, <2>4 DEF TypeOK, FileType
<1>6. CASE StopSignal
  BY <1>6 DEF StopSignal, WakeAll, TypeOK, chainVars
<1>7. CASE StopDelete
  <2>1. file' \in FileType
    BY <1>7, SnapshotOK DEF StopDelete, TypeOK
  <2>. QED
    BY <1>7, <2>1 DEF StopDelete, TypeOK, FileType, chainVars, waitVars
<1>8. CASE Purge
  <2>1. file' \in FileType /\ final' \in SUBSET Slots
    BY <1>8 DEF Purge, EmptyFile, FileType, Slots
  <2>. QED
    BY <1>8, <2>1 DEF Purge, TypeOK, FileType, chainVars, lifeVars, waitVars
<1>9. CASE Crash
  BY <1>9 DEF Crash, TypeOK, chainVars
<1>10. ASSUME NEW kind \in PeerKinds, Start(kind) PROVE Typed'
  <2>1. /\ chain' \in SUBSET Slots /\ 0 \in chain' /\ scanned' \in Slots /\ own' \in SUBSET Slots
        /\ tip' \in Slots /\ lib' \in Slots
    BY <1>1, <1>10 DEF Start, FileType, Slots
  <2>2. mode' \in {"Bootstrapping", "Online"} /\ ibd' \in {"todo", "done"}
    BY <1>10 DEF Start
  <2>3. /\ node' = "up" /\ thread' = "on" /\ command' = "run" /\ health' = "untried" /\ peers' = kind
        /\ runs' \in 0 .. MaxRuns /\ UNCHANGED <<file, clock, waitVars, crashes, final, fault>>
    BY <1>10 DEF Start, TypeOK
  <2>. QED
    BY <2>1, <2>2, <2>3 DEF TypeOK, waitVars
<1>11. ASSUME NEW w \in Waiters, WaiterStep(w) \/ Resume(w) PROVE Typed'
  <2>1. CASE Wait(w)
    BY <2>1 DEF Wait, TypeOK, chainVars, lifeVars
  <2>2. CASE WakeSpuriously(w)
    BY <2>2 DEF WakeSpuriously, TypeOK, chainVars, lifeVars
  <2>3. CASE Resume(w)
    BY <2>3 DEF Resume, TypeOK, chainVars, lifeVars
  <2>. QED
    BY <1>11, <2>1, <2>2, <2>3 DEF WaiterStep
<1>12. CASE UNCHANGED vars
  BY <1>12 DEF vars, TypeOK, chainVars, lifeVars, waitVars
<1>. QED
  BY <1>2, <1>3, <1>4, <1>5, <1>6, <1>7, <1>8, <1>9, <1>10, <1>11, <1>12 DEF Next, ThreadStep

LEMMA TypedCorrect == Spec => []Typed
<1>1. Init => Typed
  BY DEF Init, Typed, TypeOK, EmptyFile, Slots
<1>. QED
  BY <1>1, TypedStep, PTL DEF Spec

(* The chain, the state file, the modes and the waiters keep their types    *)
(* (TypeOK); in particular the LIB is a slot on every path, since there is  *)
(* a genesis to fall back to.                                               *)
THEOREM TypeCorrect == Spec => []TypeOK
BY TypedCorrect, PTL DEF Typed

-----------------------------------------------------------------------------
(* The LIB over ticks, stops and starts. *)

\* Chain c with tip t has LIB l: a block of it that is genesis or has K blocks
\* after it.
Rooted(c, t, l) ==
  /\ 0 \in c /\ t \in c /\ l \in c /\ l <= t
  /\ l # 0 => Cardinality(After(c, l, t)) >= K

(* A LIB stays one while the chain and the tip grow.                        *)
LEMMA RootedLater ==
  ASSUME NEW c \in SUBSET Slots, NEW d \in SUBSET Slots, NEW t, NEW u \in d, NEW l,
         Rooted(c, t, l), t <= u, c \cap 0 .. t \subseteq d
  PROVE  Rooted(d, u, l)
<1>1. /\ 0 \in c /\ t \in c /\ l \in c /\ l <= t /\ t \in Nat /\ u \in Nat /\ l \in Nat
  BY DEF Rooted, Slots
<1>2. 0 \in d /\ l \in d /\ l <= u
  BY <1>1
<1>3. After(c, l, t) \subseteq After(d, l, u) /\ After(d, l, u) \in SUBSET Slots
  BY <1>1 DEF After
<1>4. /\ Cardinality(After(c, l, t)) <= Cardinality(After(d, l, u))
      /\ Cardinality(After(c, l, t)) \in Nat /\ Cardinality(After(d, l, u)) \in Nat
  BY <1>3, CountSlots
<1>5. l # 0 => Cardinality(After(d, l, u)) >= K
  BY <1>4 DEF Rooted
<1>. QED
  BY <1>2, <1>5 DEF Rooted

(* The LIB rule gives a LIB, not below any other.                           *)
LEMMA RootedLib ==
  ASSUME NEW c \in SUBSET Slots, NEW t \in c, NEW l, Rooted(c, t, l)
  PROVE  Rooted(c, t, LibFor(c, t)) /\ l <= LibFor(c, t)
<1>1. 0 \in c /\ t \in Slots /\ l \in c /\ l <= t
  BY DEF Rooted
<1>2. /\ LibFor(c, t) \in c /\ LibFor(c, t) <= t
      /\ \/ Cardinality(After(c, LibFor(c, t), t)) = K
         \/ LibFor(c, t) = 0
  BY <1>1, LibForRule
<1>3. Rooted(c, t, LibFor(c, t))
  BY <1>1, <1>2 DEF Rooted
<1>4. LibFor(c, t) \in Nat
  <2>1. LibFor(c, t) \in Slots
    BY <1>2
  <2>. QED
    BY <2>1 DEF Slots
<1>5. l <= LibFor(c, t)
  <2>1. CASE l = 0
    BY <1>4, <2>1
  <2>2. CASE l # 0
    BY <1>1, <2>2, LibForAbove DEF Rooted
  <2>. QED
    BY <2>1, <2>2
<1>. QED
  BY <1>3, <1>5

\* The chain that a start rebuilds from state file f.
Rebuilt(f) == {0} \cup ((NetSlots \cup f.own) \cap 1 .. f.tip)

\* Every block is the network's or the node's own, and none is beyond what has
\* been scanned; the node's LIB is one of its chain, and the file's one of the
\* chain it stands for.
ChainKept ==
  /\ node = "up" =>
       /\ Rooted(chain, tip, lib)
       /\ chain \subseteq {0} \cup NetSlots \cup own
       /\ \A s \in chain : s <= scanned
  /\ Rooted(Rebuilt(file), file.tip, file.lib)

LEMMA SnapshotKept ==
  ASSUME NEW c \in SUBSET Slots, NEW t \in Slots, NEW l \in Slots, NEW m, NEW o \in SUBSET Slots,
         Rooted(c, t, l), c \subseteq {0} \cup NetSlots \cup o
  PROVE  LET f == Snapshot(t, l, m, o) IN Rooted(Rebuilt(f), f.tip, f.lib)
<1> DEFINE f == Snapshot(t, l, m, o)
<1>1. f.tip = t /\ f.lib = l /\ f.own = o
  BY SnapshotOK
<1>2. Rebuilt(f) = {0} \cup ((NetSlots \cup o) \cap 1 .. t)
  BY <1>1 DEF Rebuilt
<1>3. Rebuilt(f) \in SUBSET Slots
  BY <1>2 DEF Slots
<1>4. t \in c /\ t \in Nat /\ \A s \in c : s \in Nat
  BY DEF Rooted, Slots
<1>5. c \cap 0 .. t \subseteq Rebuilt(f) /\ t \in Rebuilt(f)
  BY <1>2, <1>4
<1>6. t <= t
  BY <1>4
<1> HIDE DEF f
<1>7. Rooted(Rebuilt(f), t, l)
  BY <1>3, <1>5, <1>6, RootedLater
<1>. QED
  BY <1>1, <1>7 DEF f

(* A tick never takes the LIB back.                                         *)
LEMMA TickKept ==
  ASSUME Typed, ChainKept,
         NEW now \in Slots, NEW won \in Wins(now), NEW t \in Slots, Tick(now, won, t)
  PROVE  ChainKept' /\ lib <= lib' /\ lib' \in chain'
<1>1. /\ node = "up" /\ chain' \in SUBSET Slots /\ chain \subseteq chain'
      /\ own' = own \cup won /\ own' \in SUBSET Slots
      /\ chain' \subseteq chain \cup won \cup NetSlots
      /\ scanned' \in Slots /\ scanned <= scanned' /\ now <= scanned'
      /\ (tip \in chain => tip' \in chain' /\ tip <= tip')
      /\ lib' = NewLib(chain', tip', mode') /\ lib' \in Slots
      /\ (file' = file \/ file' = Snapshot(tip', lib', mode', own'))
      /\ node' = node
  BY TickEffect
<1>2. Rooted(chain, tip, lib) /\ chain \subseteq {0} \cup NetSlots \cup own
      /\ \A s \in chain : s <= scanned
  BY <1>1 DEF ChainKept
<1>3. tip \in chain /\ tip' \in chain' /\ tip <= tip' /\ chain \cap 0 .. tip \subseteq chain'
  BY <1>1, <1>2 DEF Rooted
<1>4. Rooted(chain', tip', lib)
  BY <1>1, <1>2, <1>3, RootedLater DEF Typed, TypeOK
<1>5. Rooted(chain', tip', LibFor(chain', tip')) /\ lib <= LibFor(chain', tip')
  BY <1>1, <1>3, <1>4, RootedLib
<1>6. lib <= lib
  BY DEF Typed, TypeOK, Slots
<1>7. Rooted(chain', tip', lib') /\ lib <= lib'
  BY <1>1, <1>4, <1>5, <1>6 DEF NewLib
<1>8. chain' \subseteq {0} \cup NetSlots \cup own'
  BY <1>1, <1>2
<1>9. \A s \in chain' : s <= scanned'
  <2>1. /\ scanned \in Nat /\ scanned' \in Nat /\ now \in Nat
        /\ \A s \in chain : s \in Nat
    BY <1>1 DEF Typed, TypeOK, Slots
  <2>2. chain' \subseteq chain \cup (scanned + 1) .. now
    BY WonSlots DEF Tick, Extended
  <2>. QED
    BY <1>1, <1>2, <2>1, <2>2
<1>10. Rooted(Rebuilt(file), file.tip, file.lib)'
  <2>1. CASE file' = file
    BY <2>1 DEF ChainKept, Rebuilt
  <2>2. CASE file' = Snapshot(tip', lib', mode', own')
    <3>1. tip' \in Slots
      BY <1>1, <1>3
    <3>. QED
      BY <1>1, <1>7, <1>8, <2>2, <3>1, SnapshotKept
  <2>. QED
    BY <1>1, <2>1, <2>2
<1>. QED
  BY <1>1, <1>7, <1>8, <1>9, <1>10 DEF ChainKept, Rooted

\* The steps other than a tick, and what they do to the chain and its file.
LEMMA OtherSteps ==
  ASSUME Typed, [Next]_vars
  PROVE  \/ \E now \in Slots : \E won \in Wins(now) : \E t \in Slots : Tick(now, won, t)
         \/ \E kind \in PeerKinds : Start(kind)
         \/ StopDelete \/ Purge \/ Crash
         \/ /\ UNCHANGED <<file, peers, chain, scanned, own, tip, lib, node, crashes, final>>
            /\ mode' = mode \/ mode' = "NotStarted"
<1>1. CASE TickFail \/ TickEarly \/ ThreadExit \/ StopSignal
  BY <1>1 DEF TickFail, TickEarly, ThreadExit, StopSignal, chainVars
<1>2. ASSUME NEW w \in Waiters, WaiterStep(w) \/ Resume(w)
      PROVE  /\ UNCHANGED <<file, peers, chain, scanned, own, tip, lib, node, crashes, final>>
             /\ mode' = mode
  BY <1>2 DEF WaiterStep, Wait, WakeSpuriously, Resume, chainVars, lifeVars
<1>3. CASE UNCHANGED vars
  BY <1>3 DEF vars, chainVars, lifeVars
<1>. QED
  BY <1>1, <1>2, <1>3 DEF Next, ThreadStep

LEMMA StartKept ==
  ASSUME Typed, ChainKept, NEW kind \in PeerKinds, Start(kind)
  PROVE  ChainKept' /\ chain' = Rebuilt(file) /\ tip' = file.tip /\ lib' = file.lib
<1>1. /\ chain' = Rebuilt(file) /\ tip' = file.tip /\ lib' = file.lib
      /\ scanned' = file.tip /\ own' = file.own /\ file' = file
  BY DEF Start, Rebuilt
<1>2. Rooted(chain', tip', lib') /\ Rooted(Rebuilt(file'), file'.tip, file'.lib)
  BY <1>1 DEF ChainKept
<1>3. chain' \subseteq {0} \cup NetSlots \cup own'
  BY <1>1 DEF Rebuilt
<1>4. \A s \in chain' : s <= scanned'
  BY <1>1 DEF Rebuilt, Typed, TypeOK, Slots
<1>. QED
  BY <1>1, <1>2, <1>3, <1>4 DEF ChainKept

LEMMA StopKept ==
  ASSUME Typed, ChainKept, StopDelete
  PROVE  ChainKept' /\ node' = "down" /\ file'.tip = tip /\ file'.lib = lib
<1>1. /\ node = "up" /\ node' = "down" /\ file' = Snapshot(tip, lib, mode, own)
      /\ tip \in Slots /\ lib \in Slots /\ own \in SUBSET Slots /\ chain \in SUBSET Slots
  BY DEF StopDelete, Typed, TypeOK
<1>2. Rooted(chain, tip, lib) /\ chain \subseteq {0} \cup NetSlots \cup own
  BY <1>1 DEF ChainKept
<1>3. Rooted(Rebuilt(file'), file'.tip, file'.lib)
  BY <1>1, <1>2, SnapshotKept
<1>4. file'.tip = tip /\ file'.lib = lib
  BY <1>1, SnapshotOK
<1>. QED
  BY <1>1, <1>3, <1>4 DEF ChainKept

LEMMA EmptyKept == Rooted(Rebuilt(EmptyFile), EmptyFile.tip, EmptyFile.lib)
BY DEF Rooted, Rebuilt, EmptyFile

LEMMA ChainKeptStep == Typed /\ ChainKept /\ [Next]_vars => ChainKept'
<1> SUFFICES ASSUME Typed, ChainKept, [Next]_vars PROVE ChainKept'
  OBVIOUS
<1>1. CASE Purge
  BY <1>1, EmptyKept DEF Purge, ChainKept, lifeVars
<1>2. CASE Crash
  BY <1>2 DEF Crash, ChainKept
<1>3. CASE UNCHANGED <<file, peers, chain, scanned, own, tip, lib, node, crashes, final>>
  BY <1>3 DEF ChainKept
<1>. QED
  BY <1>1, <1>2, <1>3, OtherSteps, TickKept, StartKept, StopKept

LEMMA ChainKeptCorrect == Spec => []ChainKept
<1>1. Init => ChainKept
  BY EmptyKept DEF Init, ChainKept
<1>. QED
  BY <1>1, ChainKeptStep, TypedCorrect, PTL DEF Spec

\* Short of a kill, the last final block is the LIB, of the node or, while it is
\* down, of the file.
LibKept ==
  crashes = 0 =>
    LET l == IF node = "up" THEN lib ELSE file.lib
    IN l \in final /\ \A s \in final : s <= l

LEMMA LibKeptStep == Typed /\ ChainKept /\ LibKept /\ [Next]_vars => LibKept'
<1> SUFFICES ASSUME Typed, ChainKept, LibKept, [Next]_vars, crashes' = 0 PROVE LibKept'
  BY DEF LibKept
<1>0. crashes = 0 => \A s \in final : s \in Nat
  BY DEF Typed, TypeOK, Slots
<1>1. ASSUME NEW now \in Slots, NEW won \in Wins(now), NEW t \in Slots, Tick(now, won, t)
      PROVE  LibKept'
  <2>1. /\ node = "up" /\ node' = "up" /\ crashes = 0
        /\ final' = final \cup (chain' \cap 0 .. lib') /\ lib' \in Slots
    BY <1>1, TickEffect
  <2>2. lib <= lib' /\ lib' \in chain'
    BY <1>1, TickKept
  <2>3. \A s \in final : s <= lib
    BY <2>1 DEF LibKept
  <2>4. lib \in Nat /\ lib' \in Nat
    BY <2>1 DEF Typed, TypeOK, Slots
  <2>5. lib' \in final'
    BY <2>1, <2>2, <2>4
  <2>6. ASSUME NEW s \in final' PROVE s <= lib'
    BY <1>0, <2>1, <2>2, <2>3, <2>4
  <2>. QED
    BY <2>1, <2>5, <2>6 DEF LibKept
<1>2. ASSUME NEW kind \in PeerKinds, Start(kind) PROVE LibKept'
  <2>1. node = "down" /\ node' = "up" /\ lib' = file.lib /\ UNCHANGED <<crashes, final>>
    BY <1>2 DEF Start
  <2>. QED
    BY <2>1 DEF LibKept
<1>3. CASE StopDelete
  <2>1. node = "up" /\ node' = "down" /\ UNCHANGED <<crashes, final>>
    BY <1>3 DEF StopDelete
  <2>2. file'.lib = lib
    BY <1>3, StopKept
  <2>. QED
    BY <2>1, <2>2 DEF LibKept
<1>4. CASE Purge
  BY <1>4 DEF Purge, LibKept, EmptyFile, lifeVars
<1>5. CASE Crash
  BY <1>5 DEF Crash, Typed, TypeOK
<1>6. CASE UNCHANGED <<file, peers, chain, scanned, own, tip, lib, node, crashes, final>>
  BY <1>6 DEF LibKept
<1>. QED
  BY <1>1, <1>2, <1>3, <1>4, <1>5, <1>6, OtherSteps

(* The LIB never goes back, over ticks, mode changes, stops, restarts and   *)
(* purges, until the process is killed (LibDurable): the state file brings  *)
(* back enough of the chain for the LIB it names.  With or without stake.   *)
THEOREM LibDurableCorrect == Spec => []LibDurable
<1>1. Init => LibKept
  BY DEF Init, LibKept, EmptyFile
<1>2. Typed /\ LibKept => LibDurable
  <2> SUFFICES ASSUME Typed, LibKept, node = "up", crashes = 0 PROVE lib = Max(final)
    BY DEF LibDurable
  <2>1. lib \in final /\ \A s \in final : s <= lib
    BY DEF LibKept
  <2>2. Max(final) \in final /\ lib <= Max(final)
    BY <2>1, MaxOfSlots DEF Typed, TypeOK
  <2>3. Max(final) \in Nat /\ lib \in Nat
    <3>1. Max(final) \in Slots /\ lib \in Slots
      BY <2>2 DEF Typed, TypeOK
    <3>. QED
      BY <3>1 DEF Slots
  <2>. QED
    BY <2>1, <2>2, <2>3
<1>. QED
  BY <1>1, <1>2, LibKeptStep, TypedCorrect, ChainKeptCorrect, PTL DEF Spec

-----------------------------------------------------------------------------
(* A node that leads no block of its own. *)

\* The blocks of the network, with the genesis.
NetChain == {0} \cup NetSlots

\* The chain is the network's up to where it was scanned, or rebuilt for an
\* isolated node; what is final is a prefix of it; and the LIB is the rule's
\* wherever the node, or the one that a start would bring up, is Online.
NetKept ==
  /\ file.own = {}
  /\ file.last = "Online" => file.lib = LibFor(Rebuilt(file), file.tip)
  /\ \E m \in Slots : final = NetChain \cap 0 .. m
  /\ node = "up" =>
       /\ own = {}
       /\ chain = NetChain \cap 0 .. (IF peers = "none" THEN tip ELSE scanned)
       /\ mode = "Online" => lib = LibFor(chain, tip)

(* The file that a node of such a chain writes brings it back.              *)
LEMMA NetSnapshot ==
  ASSUME NEW c \in SUBSET Slots, NEW t \in c, NEW l \in Slots, NEW m, NEW b \in Slots,
         0 \in c, c = NetChain \cap 0 .. b, m = "Online" => l = LibFor(c, t)
  PROVE  LET f == Snapshot(t, l, m, {})
         IN f.own = {} /\ (f.last = "Online" => f.lib = LibFor(Rebuilt(f), f.tip))
<1> DEFINE f == Snapshot(t, l, m, {})
<1>1. f.tip = t /\ f.lib = l /\ f.own = {} /\ (f.last = "Online" => m = "Online")
  BY SnapshotOK
<1>2. Rebuilt(f) = NetChain \cap 0 .. t
  BY <1>1, ChainAssumption DEF Rebuilt, NetChain, Slots
<1>3. t \in Nat /\ b \in Nat /\ t <= b
  BY DEF Slots
<1>4. c \cap 0 .. t = Rebuilt(f) \cap 0 .. t
  BY <1>2, <1>3
<1>5. Rebuilt(f) \in SUBSET Slots /\ 0 \in Rebuilt(f)
  BY <1>2, ChainAssumption DEF NetChain, Slots
<1> HIDE DEF f
<1>6. LibFor(c, t) = LibFor(Rebuilt(f), t)
  BY <1>4, <1>5, LibForSame
<1>. QED
  BY <1>1, <1>6 DEF f

(* An isolated node has no block above its tip.                             *)
LEMMA IsolatedTip ==
  ASSUME Typed, ChainKept, NetKept,
         NEW now \in Slots, NEW won \in Wins(now), NEW t \in Slots, Tick(now, won, t),
         Stake = "none"
  PROVE  /\ own' = {} /\ (peers = "none" => tip' = tip)
         /\ chain' = NetChain \cap 0 .. (IF peers' = "none" THEN tip' ELSE scanned')
<1>1. /\ node = "up" /\ own' = own \cup won /\ scanned' = (IF now > scanned THEN now ELSE scanned)
      /\ tip' \in chain' /\ tip <= tip' /\ peers' = peers /\ chain' = Extended(now, won)
      /\ chain \subseteq chain'
  BY TickEffect DEF ChainKept, Rooted, Tick
<1>2. won = {}
  BY DEF Wins
<1>3. /\ own = {} /\ chain = NetChain \cap 0 .. (IF peers = "none" THEN tip ELSE scanned)
  BY <1>1 DEF NetKept
<1>4. tip \in Nat /\ scanned \in Nat /\ now \in Nat /\ NetChain \in SUBSET Nat
  BY DEF Typed, TypeOK, Slots, NetChain
<1>5. CASE peers = "none"
  <2>1. chain' = chain
    BY <1>1, <1>2, <1>5 DEF Extended
  <2>2. tip' = tip
    BY <1>1, <1>3, <1>4, <1>5, <2>1
  <2>. QED
    BY <1>1, <1>2, <1>3, <1>5, <2>1, <2>2
<1>6. CASE peers # "none"
  <2>1. chain' = chain \cup (NetSlots \cap (scanned + 1) .. now)
    BY <1>1, <1>2, <1>6 DEF Extended
  <2>2. chain' = NetChain \cap 0 .. scanned'
    BY <1>1, <1>3, <1>4, <1>6, <2>1 DEF NetChain
  <2>. QED
    BY <1>1, <1>2, <1>3, <1>6, <2>2
<1>. QED
  BY <1>5, <1>6

LEMMA NetTick ==
  ASSUME Typed, ChainKept, NetKept,
         NEW now \in Slots, NEW won \in Wins(now), NEW t \in Slots, Tick(now, won, t),
         Stake = "none"
  PROVE  NetKept'
<1> DEFINE b == IF peers' = "none" THEN tip' ELSE scanned'
<1>1. /\ own' = {} /\ chain' = NetChain \cap 0 .. b
  BY IsolatedTip
<1>2. /\ node = "up" /\ node' = "up" /\ tip' \in chain' /\ tip <= tip' /\ tip \in chain
      /\ chain' \in SUBSET Slots /\ chain \subseteq chain' /\ 0 \in chain
      /\ scanned' \in Slots /\ lib' \in Slots
      /\ \A s \in chain' \ chain : s > scanned
      /\ lib' = NewLib(chain', tip', mode')
      /\ final' = final \cup (chain' \cap 0 .. lib')
      /\ (file' = file \/ file' = Snapshot(tip', lib', mode', own'))
  BY TickEffect DEF ChainKept, Rooted
<1>3. /\ \A s \in chain : s <= scanned
      /\ mode = "Online" => lib = LibFor(chain, tip)
  BY <1>2 DEF ChainKept, NetKept
<1>4. b \in Slots
  BY <1>2
<1>5. LibFor(chain, tip) = LibFor(chain', tip)
  <2>1. /\ tip \in Nat /\ scanned \in Nat /\ tip <= scanned /\ \A s \in chain' : s \in Nat
        /\ tip \in Slots /\ chain \in SUBSET Slots
    BY <1>2, <1>3 DEF Typed, TypeOK, Slots
  <2>2. chain \cap 0 .. tip = chain' \cap 0 .. tip
    BY <1>2, <2>1
  <2>. QED
    BY <1>2, <2>1, <2>2, LibForSame
<1>6. mode' = "Online" => lib' = LibFor(chain', tip')
  BY <1>2, <1>3, <1>5 DEF NewLib
<1>7. \E m \in Slots : final' = NetChain \cap 0 .. m
  <2>1. PICK m \in Slots : final = NetChain \cap 0 .. m
    BY DEF NetKept
  <2>2. lib' \in chain'
    BY TickKept
  <2>3. m \in Nat /\ lib' \in Nat /\ b \in Nat /\ lib' <= b
    BY <1>1, <1>2, <1>4, <2>2 DEF Slots
  <2>4. chain' \cap 0 .. lib' = NetChain \cap 0 .. lib'
    BY <1>1, <2>3
  <2>5. final' = (NetChain \cap 0 .. m) \cup (NetChain \cap 0 .. lib')
    BY <1>2, <2>1, <2>4
  <2>6. CASE m <= lib'
    <3>1. final' = NetChain \cap 0 .. lib'
      BY <2>3, <2>5, <2>6
    <3>. QED
      BY <1>2, <3>1
  <2>7. CASE lib' <= m
    <3>1. final' = NetChain \cap 0 .. m
      BY <2>3, <2>5, <2>7
    <3>. QED
      BY <3>1
  <2>. QED
    BY <2>3, <2>6, <2>7
<1>8. file'.own = {} /\ (file'.last = "Online" => file'.lib = LibFor(Rebuilt(file'), file'.tip))
  <2>1. CASE file' = file
    BY <2>1 DEF NetKept, Rebuilt
  <2>2. CASE file' = Snapshot(tip', lib', mode', own')
    <3> HIDE DEF b
    <3>. QED
      BY <1>1, <1>2, <1>4, <1>6, <2>2, NetSnapshot
  <2>. QED
    BY <1>2, <2>1, <2>2
<1>. QED
  BY <1>1, <1>2, <1>6, <1>7, <1>8 DEF NetKept

LEMMA NetKeptStep ==
  ASSUME Stake = "none", Typed, ChainKept, NetKept, [Next]_vars
  PROVE  NetKept'
<1>1. ASSUME NEW kind \in PeerKinds, Start(kind) PROVE NetKept'
  <2>1. /\ file' = file /\ own' = file.own /\ scanned' = file.tip /\ final' = final
        /\ mode' = "Online" => file.last = "Online"
    BY <1>1 DEF Start
  <2>2. chain' = Rebuilt(file) /\ tip' = file.tip /\ lib' = file.lib
    BY <1>1, StartKept
  <2>3. Rebuilt(file) = NetChain \cap 0 .. file.tip
    <3>1. file.own = {} /\ file.tip \in Nat
      BY DEF NetKept, Typed, TypeOK, Slots
    <3>. QED
      BY <3>1 DEF Rebuilt, NetChain, Slots
  <2>. QED
    BY <2>1, <2>2, <2>3 DEF NetKept
<1>2. CASE StopDelete
  <2>1. /\ node = "up" /\ node' = "down" /\ final' = final
        /\ file' = Snapshot(tip, lib, mode, own)
    BY <1>2 DEF StopDelete
  <2>2. own = {} /\ (mode = "Online" => lib = LibFor(chain, tip)) /\ tip \in chain /\ 0 \in chain
    BY <2>1 DEF NetKept, ChainKept, Rooted
  <2>3. PICK b \in Slots : chain = NetChain \cap 0 .. b
    BY <2>1 DEF NetKept, Typed, TypeOK
  <2>4. chain \in SUBSET Slots /\ lib \in Slots
    BY DEF Typed, TypeOK
  <2>5. file'.own = {} /\ (file'.last = "Online" => file'.lib = LibFor(Rebuilt(file'), file'.tip))
    BY <2>1, <2>2, <2>3, <2>4, NetSnapshot
  <2>. QED
    BY <2>1, <2>5 DEF NetKept
<1>3. CASE Purge
  <2>1. final' = NetChain \cap 0 .. 0 /\ 0 \in Slots
    BY <1>3 DEF Purge, NetChain, Slots
  <2>2. file'.own = {} /\ file'.last = "Bootstrapping" /\ node' = "down"
    BY <1>3 DEF Purge, EmptyFile, lifeVars
  <2>. QED
    BY <2>1, <2>2 DEF NetKept
<1>4. CASE Crash
  BY <1>4 DEF Crash, NetKept
<1>5. CASE /\ UNCHANGED <<file, peers, chain, scanned, own, tip, lib, node, crashes, final>>
           /\ mode' = mode \/ mode' = "NotStarted"
  BY <1>5 DEF NetKept
<1>. QED
  BY <1>1, <1>2, <1>3, <1>4, <1>5, NetTick, OtherSteps

LEMMA NetKeptCorrect ==
  ASSUME Stake = "none"
  PROVE  Spec => []NetKept
<1>1. Init => NetKept
  <2> SUFFICES ASSUME Init PROVE NetKept
    OBVIOUS
  <2>1. final = NetChain \cap 0 .. 0 /\ 0 \in Slots
    BY DEF Init, NetChain, Slots
  <2>. QED
    BY <2>1 DEF Init, NetKept, EmptyFile
<1>2. Typed /\ ChainKept /\ NetKept /\ [Next]_vars => NetKept'
  BY NetKeptStep
<1>. QED
  BY <1>1, <1>2, TypedCorrect, ChainKeptCorrect, PTL DEF Spec

(* An Online node without stake has its LIB exactly K blocks behind its     *)
(* tip, whether a bootstrap, a block or a resumed file made it Online       *)
(* (OnlineLib).                                                             *)
THEOREM OnlineLibCorrect ==
  ASSUME Stake = "none"
  PROVE  Spec => []OnlineLib
<1>1. NetKept => OnlineLib
  BY DEF NetKept, OnlineLib
<1>. QED
  BY <1>1, NetKeptCorrect, PTL

(* A node without stake rebuilds, after a stop, a kill or a change of       *)
(* peers, every block that was final and no other below it (FinalityKept).  *)
THEOREM FinalityKeptCorrect ==
  ASSUME Stake = "none"
  PROVE  Spec => []FinalityKept
<1>1. ASSUME Typed, NetKept, node = "up"
      PROVE  LET m == Min({Max(chain), Max(final)}) IN chain \cap 0 .. m = final \cap 0 .. m
  <2>1. PICK b \in Slots : chain = NetChain \cap 0 .. b
    BY <1>1 DEF NetKept, Typed, TypeOK
  <2>2. PICK e \in Slots : final = NetChain \cap 0 .. e
    BY <1>1 DEF NetKept
  <2>3. b \in Nat /\ e \in Nat
    BY DEF Slots
  <2>4. /\ chain \in SUBSET Slots /\ final \in SUBSET Slots /\ 0 \in chain /\ 0 \in final
    BY <1>1, <2>1, <2>2, <2>3 DEF Typed, TypeOK, NetChain
  <2>5. Max(chain) \in chain /\ Max(final) \in final
    BY <2>4, MaxOfSlots
  <2>6. Max(chain) \in Nat /\ Max(final) \in Nat /\ Max(chain) <= b /\ Max(final) <= e
    BY <2>1, <2>2, <2>5
  <2> DEFINE m == Min({Max(chain), Max(final)})
  <2>7. m = IF Max(chain) <= Max(final) THEN Max(chain) ELSE Max(final)
    BY <2>6, MinOfTwo
  <2>8. m \in Nat /\ m <= b /\ m <= e
    BY <2>3, <2>6, <2>7
  <2> HIDE DEF m
  <2>9. chain \cap 0 .. m = NetChain \cap 0 .. m /\ final \cap 0 .. m = NetChain \cap 0 .. m
    BY <2>1, <2>2, <2>3, <2>8
  <2>. QED
    BY <2>9 DEF m
<1>2. Typed /\ NetKept => FinalityKept
  BY <1>1 DEF FinalityKept
<1>. QED
  BY <1>2, TypedCorrect, NetKeptCorrect, PTL

=============================================================================
