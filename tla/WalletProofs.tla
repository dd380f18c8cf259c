---------------------------- MODULE WalletProofs ----------------------------
(***************************************************************************)
(* Theorems about Wallet, for any notes, vouchers, tickets and callers, and *)
(* every bound.                                                            *)
(***************************************************************************)
EXTENDS Wallet, SequenceTheorems, WellFoundedInduction, TLAPS

USE WalletAssumption

-----------------------------------------------------------------------------
(* The least voucher, and sequences of transactions. *)

(* A set of naturals that is not empty has a minimum, and it is what Min    *)
(* chooses.                                                                 *)
LEMMA MinOfNaturals ==
  ASSUME NEW S \in SUBSET Nat, S # {}
  PROVE  Min(S) \in S /\ \A n \in S : Min(S) <= n
<1>1. PICK m \in S : \A n \in S : ~(<<n, m>> \in OpToRel(<, Nat))
  BY NatLessThanWellFounded, WFMin
<1>2. ASSUME NEW n \in S PROVE m <= n
  <2>1. ~(n < m)
    BY <1>1 DEF OpToRel
  <2>. QED
    BY <2>1
<1>. QED
  BY <1>1, <1>2 DEF Min

(* What is pending after a transaction has joined the queue, and after the  *)
(* first one has left it.                                                   *)
LEMMA Joined ==
  ASSUME TypeOK, NEW tx \in Tx, Enqueue(tx)
  PROVE  /\ mempool' \in Seq(Tx) /\ Len(mempool') <= MaxPool
         /\ Pending' = Pending \cup {tx}
         /\ \A i \in DOMAIN mempool' :
              \/ i \in DOMAIN mempool /\ mempool'[i] = mempool[i]
              \/ i = Len(mempool) + 1 /\ mempool'[i] = tx
<1>1. mempool \in Seq(Tx) /\ mempool' = Append(mempool, tx) /\ Len(mempool) < MaxPool
  BY DEF TypeOK, Enqueue
<1>2. /\ mempool' \in Seq(Tx) /\ Len(mempool') = Len(mempool) + 1
      /\ \A i \in 1 .. Len(mempool) : mempool'[i] = mempool[i]
      /\ mempool'[Len(mempool) + 1] = tx
  BY <1>1, AppendProperties
<1>3. DOMAIN mempool = 1 .. Len(mempool) /\ DOMAIN mempool' = 1 .. Len(mempool') /\ Len(mempool) \in Nat
  BY <1>1, <1>2
<1>. QED
  BY <1>1, <1>2, <1>3 DEF Pending

LEMMA Left ==
  ASSUME TypeOK, mempool # <<>>, mempool' = Tail(mempool)
  PROVE  /\ mempool' \in Seq(Tx) /\ Len(mempool') <= MaxPool
         /\ Head(mempool) \in Pending /\ Head(mempool) \in Tx
         /\ Pending = Pending' \cup {Head(mempool)}
         /\ 1 \in DOMAIN mempool /\ Head(mempool) = mempool[1]
         /\ \A i \in DOMAIN mempool' : i + 1 \in DOMAIN mempool /\ mempool'[i] = mempool[i + 1]
<1>1. mempool \in Seq(Tx) /\ Len(mempool) <= MaxPool
  BY DEF TypeOK
<1>2. /\ mempool' \in Seq(Tx) /\ Len(mempool') = Len(mempool) - 1
      /\ \A i \in 1 .. Len(mempool') : mempool'[i] = mempool[i + 1]
      /\ Head(mempool) = mempool[1] /\ Len(mempool) \in Nat \ {0}
  BY <1>1, HeadTailProperties
<1>3. DOMAIN mempool = 1 .. Len(mempool) /\ DOMAIN mempool' = 1 .. Len(mempool')
  BY <1>1, <1>2
<1>4. ASSUME NEW i \in DOMAIN mempool, i # 1
      PROVE  i - 1 \in DOMAIN mempool' /\ mempool'[i - 1] = mempool[i]
  BY <1>2, <1>3, <1>4
<1>5. Pending \subseteq Pending' \cup {Head(mempool)}
  <2>1. ASSUME NEW i \in DOMAIN mempool PROVE mempool[i] \in Pending' \cup {Head(mempool)}
    BY <1>2, <1>4 DEF Pending
  <2>. QED
    BY <2>1 DEF Pending
<1>6. \A i \in DOMAIN mempool' : i + 1 \in DOMAIN mempool /\ mempool'[i] = mempool[i + 1]
  BY <1>2, <1>3
<1>7. Pending' \subseteq Pending
  BY <1>6 DEF Pending
<1>8. 1 \in DOMAIN mempool /\ Head(mempool) \in Pending /\ Head(mempool) \in Tx
  BY <1>1, <1>2, <1>3 DEF Pending
<1>. QED
  BY <1>1, <1>2, <1>3, <1>5, <1>6, <1>7, <1>8

-----------------------------------------------------------------------------
(* What the calls do. *)

\* A transaction as the wallet makes it: its funding is spendable and held, it
\* holds nothing that it does not spend, it does not spend its own collateral,
\* and it claims a voucher once, and tickets that nobody else claims.
Submitted(tx) ==
  /\ tx \in Tx
  /\ tx.funded \subseteq Spendable({})
  /\ tx.kind = "deposit" => "deposit" \in Calls
  /\ tx.kind # "deposit" => tx.reserves = tx.funded /\ tx.deposits = {}
  /\ tx.stake # 0 => tx.stake \notin Taken(tx)
  /\ \A v \in Vouchers : tx.rewards[v] \in {0, 1}
  /\ tx.tickets \subseteq tickets \ flying

(* Before it has an operation of its own, a plain transaction is one.       *)
LEMMA PlainSubmitted ==
  ASSUME TypeOK, NEW kind \in {"transfer", "unpaid", "claim", "join", "pow"},
         NEW funded \in SUBSET Spendable({})
  PROVE  Submitted(Plain(kind, funded))
<1>1. funded \subseteq Ids
  BY DEF Spendable, TypeOK
<1>2. [v \in Vouchers |-> 0] \in [Vouchers -> Nat]
  OBVIOUS
<1>3. Plain(kind, funded) \in Tx
  BY <1>1, <1>2 DEF Plain, Tx
<1>. QED
  BY <1>3 DEF Submitted, Plain

(* Every call that reaches the mempool submits one such transaction, or one *)
(* that the host has signed.                                                *)
LEMMA CallEffect ==
  ASSUME TypeOK, Call
  PROVE  /\ block = "closed"
         /\ UNCHANGED <<ledgerVars, tickets, tip, block, saved, restarts>>
         /\ claim' \in [Claimers -> Vouchers \cup {0}]
         /\ \/ \E tx \in Tx : /\ Submitted(tx) /\ Enqueue(tx)
                              /\ flying' = flying \cup tx.tickets /\ signed' = signed
            \/ UNCHANGED <<poolVars, signed>>
            \/ /\ "fund" \in Calls /\ UNCHANGED <<mempool, flying, signed>>
               /\ \E held \in SUBSET Spendable({}) :
                    reserved' = [n \in Ids |-> IF n \in held THEN 0 ELSE reserved[n]]
            \/ /\ "fund" \in Calls /\ UNCHANGED flying
               /\ \E tx \in Tx : Enqueue(tx) /\ tx.funded = {} /\ signed' = signed \cup Carried(tx)
<1> USE DEF ledgerVars, poolVars, Free
<1>0. /\ notes \subseteq Ids
      /\ \A x : Spendable(x) \subseteq Spendable({}) /\ Spendable(x) \subseteq Ids /\ Spendable(x) \cap x = {}
      /\ claim \in [Claimers -> Vouchers \cup {0}]
  BY DEF TypeOK, Spendable
<1>a. \A x : \A funded \in Fundings(x) : funded \in SUBSET Spendable({}) /\ funded \subseteq Ids /\ funded \cap x = {}
  BY <1>0 DEF Fundings
<1>1. CASE Transfer
  <2>1. PICK funded \in Fundings({}) : Enqueue(Plain("transfer", funded))
    BY <1>1 DEF Transfer
  <2>2. Submitted(Plain("transfer", funded))
    BY <1>a, PlainSubmitted
  <2>3. flying' = flying \cup Plain("transfer", funded).tickets /\ signed' = signed
    BY <1>1 DEF Transfer, Plain
  <2>. QED
    BY <1>0, <1>1, <2>1, <2>2, <2>3 DEF Transfer, Submitted
<1>2. CASE DepositWithNotes
  <2> DEFINE Deposit(inputs, funded) ==
        [Plain("deposit", funded) EXCEPT !.deposits = inputs, !.reserves = inputs \cup funded]
  <2>1. PICK inputs \in (SUBSET (notes \ channel)) \ {{}} : \E funded \in Fundings(inputs) :
          Enqueue(Deposit(inputs, funded))
    BY <1>2 DEF DepositWithNotes
  <2>2. PICK funded \in Fundings(inputs) : Enqueue(Deposit(inputs, funded))
    BY <2>1
  <2>3. funded \subseteq Spendable({}) /\ funded \subseteq Ids /\ inputs \subseteq Ids
    BY <1>0, <1>a
  <2>4. [v \in Vouchers |-> 0] \in [Vouchers -> Nat]
    OBVIOUS
  <2>5. Plain("deposit", funded) \in Tx
    BY <2>3, <2>4 DEF Plain, Tx
  <2>6. /\ Deposit(inputs, funded) \in Tx /\ Deposit(inputs, funded).kind = "deposit"
        /\ Deposit(inputs, funded).funded = funded /\ Deposit(inputs, funded).stake = 0
        /\ Deposit(inputs, funded).rewards = [v \in Vouchers |-> 0]
        /\ Deposit(inputs, funded).tickets = {}
    BY <2>3, <2>5 DEF Plain, Tx
  <2> HIDE DEF Deposit
  <2>7. Submitted(Deposit(inputs, funded))
    BY <1>2, <2>3, <2>6 DEF Submitted, DepositWithNotes
  <2>8. flying' = flying \cup Deposit(inputs, funded).tickets /\ signed' = signed
    BY <1>2, <2>6 DEF DepositWithNotes
  <2>. QED
    BY <1>0, <1>2, <2>2, <2>6, <2>7, <2>8 DEF DepositWithNotes
<1>3. CASE DepositUnpaid
  <2> DEFINE Unpaid(inputs) == [Plain("unpaid", {}) EXCEPT !.spends = inputs]
  <2>1. PICK inputs \in (SUBSET (notes \ channel)) \ {{}} : Enqueue(Unpaid(inputs))
    BY <1>3 DEF DepositUnpaid
  <2>2. inputs \subseteq Ids
    BY <1>0
  <2>3. Submitted(Plain("unpaid", {}))
    BY PlainSubmitted
  <2>4. Submitted(Unpaid(inputs)) /\ Unpaid(inputs).tickets = {}
    BY <2>2, <2>3 DEF Submitted, Taken, Plain, Tx
  <2> HIDE DEF Unpaid
  <2>5. flying' = flying \cup Unpaid(inputs).tickets /\ signed' = signed
    BY <1>3, <2>4 DEF DepositUnpaid
  <2>. QED
    BY <1>0, <1>3, <2>1, <2>4, <2>5 DEF DepositUnpaid, Submitted
<1>4. CASE FundTx
  <2>1. PICK funded \in Fundings({}) : reserved' = [n \in Ids |-> IF n \in funded THEN 0 ELSE reserved[n]]
    BY <1>4 DEF FundTx
  <2>. QED
    BY <1>0, <1>a, <1>4, <2>1 DEF FundTx
<1>5. CASE SubmitSigned
  <2> DEFINE Sent(tx) == [tx EXCEPT !.reserves = tx.spends \cap notes]
  <2>1. PICK tx \in SignedTxs : Enqueue(Sent(tx)) /\ signed' = signed \cup Carried(tx)
    BY <1>5 DEF SubmitSigned
  <2>2. tx \in [kind : {"signed"}, spends : SUBSET Ids, funded : {{}}, deposits : SUBSET Ids,
               reserves : {{}}, stake : Ids \cup {0}, rewards : [Vouchers -> 0 .. MaxOps],
               tickets : SUBSET Tickets]
    BY DEF SignedTxs
  <2>3. tx.rewards \in [Vouchers -> Nat]
    <3>1. tx.rewards \in [Vouchers -> 0 .. MaxOps]
      BY <2>2
    <3>. QED
      BY <3>1
  <2>4. Sent(tx) \in Tx /\ Sent(tx).funded = {}
    BY <2>2, <2>3 DEF Tx
  <2>5. Carried(Sent(tx)) = Carried(tx)
    BY <2>2 DEF Carried, Claims
  <2> HIDE DEF Sent
  <2>. QED
    BY <1>0, <1>5, <2>1, <2>4, <2>5 DEF SubmitSigned
<1>6. CASE BlendJoin
  <2> DEFINE Join(n, funded) == [Plain("join", funded) EXCEPT !.stake = n]
  <2>1. PICK n \in notes : \E funded \in Fundings({n}) : Enqueue(Join(n, funded))
    BY <1>6 DEF BlendJoin
  <2>2. PICK funded \in Fundings({n}) : Enqueue(Join(n, funded))
    BY <2>1
  <2>3. funded \in SUBSET Spendable({}) /\ n \notin funded /\ n \in Ids
    BY <1>0, <1>a
  <2>4. Submitted(Plain("join", funded))
    BY <2>3, PlainSubmitted
  <2>5. Submitted(Join(n, funded)) /\ Join(n, funded).tickets = {}
    BY <2>3, <2>4 DEF Submitted, Taken, Plain, Tx
  <2> HIDE DEF Join
  <2>6. flying' = flying \cup Join(n, funded).tickets /\ signed' = signed
    BY <1>6, <2>5 DEF BlendJoin
  <2>. QED
    BY <1>0, <1>6, <2>2, <2>5, <2>6 DEF BlendJoin, Submitted
<1>7. CASE PowClaim
  <2> DEFINE Pow == [Plain("pow", {}) EXCEPT !.tickets = tickets \ flying]
  <2>1. Enqueue(Pow)
    BY <1>7 DEF PowClaim
  <2>2. Submitted(Plain("pow", {}))
    BY PlainSubmitted
  <2>3. Submitted(Pow) /\ Pow.tickets = tickets \ flying
    BY <2>2 DEF Submitted, Taken, Plain, Tx, TypeOK
  <2> HIDE DEF Pow
  <2>4. flying' = flying \cup Pow.tickets /\ signed' = signed
    BY <1>7, <2>3 DEF PowClaim
  <2>. QED
    BY <1>0, <1>7, <2>1, <2>3, <2>4 DEF PowClaim, Submitted
<1>8. ASSUME NEW c \in Claimers, ClaimRead(c)
      PROVE  /\ block = "closed"
             /\ UNCHANGED <<ledgerVars, poolVars, tip, block, saved, restarts, signed>>
             /\ claim' \in [Claimers -> Vouchers \cup {0}]
  <2>1. Claimable \subseteq Vouchers /\ Claimable # {}
    BY <1>8 DEF ClaimRead, Claimable
  <2>2. Min(Claimable) \in Vouchers
    BY <2>1, MinOfNaturals
  <2>3. claim' = [claim EXCEPT ![c] = Min(Claimable)]
    BY <1>8 DEF ClaimRead
  <2>. QED
    BY <1>0, <1>8, <2>2, <2>3 DEF ClaimRead
<1>9. ASSUME NEW c \in Claimers, ClaimSubmit(c)
      PROVE  /\ block = "closed"
             /\ UNCHANGED <<ledgerVars, tickets, tip, block, saved, restarts>>
             /\ claim' \in [Claimers -> Vouchers \cup {0}]
             /\ \/ \E tx \in Tx : /\ Submitted(tx) /\ Enqueue(tx)
                                  /\ flying' = flying \cup tx.tickets /\ signed' = signed
                \/ UNCHANGED <<poolVars, signed>>
  <2> DEFINE Reward(funded) == [Plain("claim", funded) EXCEPT !.rewards[claim[c]] = 1]
  <2>1. claim[c] \in Vouchers /\ claim' \in [Claimers -> Vouchers \cup {0}]
    BY <1>0, <1>9 DEF ClaimSubmit
  <2>2. ASSUME NEW funded \in Fundings({}), Enqueue(Reward(funded))
        PROVE  \E tx \in Tx : /\ Submitted(tx) /\ Enqueue(tx)
                              /\ flying' = flying \cup tx.tickets /\ signed' = signed
    <3>1. Submitted(Plain("claim", funded))
      BY <1>a, PlainSubmitted
    <3>2. Reward(funded) = [kind |-> "claim", spends |-> funded, funded |-> funded, deposits |-> {},
            reserves |-> funded, stake |-> 0,
            rewards |-> [v \in Vouchers |-> IF v = claim[c] THEN 1 ELSE 0], tickets |-> {}]
      BY <2>1 DEF Plain
    <3>3. [v \in Vouchers |-> IF v = claim[c] THEN 1 ELSE 0] \in [Vouchers -> Nat]
      OBVIOUS
    <3>4. funded \subseteq Ids /\ funded \subseteq Spendable({})
      BY <1>a
    <3>5. Reward(funded) \in Tx
      BY <3>2, <3>3, <3>4 DEF Tx
    <3>6. Submitted(Reward(funded)) /\ Reward(funded).tickets = {}
      BY <3>2, <3>4, <3>5 DEF Submitted
    <3> HIDE DEF Reward
    <3>7. flying' = flying \cup Reward(funded).tickets /\ signed' = signed
      BY <1>9, <3>6 DEF ClaimSubmit
    <3>. QED
      BY <2>2, <3>5, <3>6, <3>7
  <2>. QED
    BY <1>0, <1>9, <2>1, <2>2 DEF ClaimSubmit
<1>. QED
  BY <1>1, <1>2, <1>3, <1>4, <1>5, <1>6, <1>7, <1>8, <1>9 DEF Call

-----------------------------------------------------------------------------
(* Types. *)

\* What the state file can hold.
SavedOK ==
  saved \in [notes : SUBSET Ids, service : SUBSET Ids, channel : SUBSET Ids,
             declared : BOOLEAN, claimed : SUBSET Vouchers, paid : [Vouchers -> Nat], tip : 0 .. MaxHeight]

\* TypeOK is not inductive: it must be known what a kill goes back to, and that
\* the height of a rejection is within the bound.
Typed == TypeOK /\ SavedOK /\ (block = "open" => tip < MaxHeight)

LEMMA LedgerOK == TypeOK => Ledger \in [notes : SUBSET Ids, service : SUBSET Ids,
                    channel : SUBSET Ids, declared : BOOLEAN,
                    claimed : SUBSET Vouchers, paid : [Vouchers -> Nat],
                    tip : 0 .. MaxHeight]
BY DEF TypeOK, Ledger

LEMMA TypedStep == Typed /\ [Next]_vars => Typed'
<1> SUFFICES ASSUME Typed, [Next]_vars PROVE Typed'
  OBVIOUS
<1> USE DEF Typed
<1>1. CASE Call
  <2>1. /\ UNCHANGED <<notes, service, channel, declared, claimed, used, paid, tickets, tip, block, saved, restarts>>
        /\ claim' \in [Claimers -> Vouchers \cup {0}]
    BY <1>1, CallEffect DEF ledgerVars
  <2>2. /\ reserved' \in [Ids -> -1 .. MaxHeight + Expiry]
        /\ mempool' \in Seq(Tx) /\ Len(mempool') <= MaxPool
        /\ flying' \in SUBSET Tickets /\ signed' \in SUBSET {"join", "claim", "pow"}
    <3>1. ASSUME NEW tx \in Tx, Enqueue(tx), flying' \in {flying, flying \cup tx.tickets},
                 signed' \in {signed, signed \cup Carried(tx)}
          PROVE <2>2!:
      <4>1. mempool' \in Seq(Tx) /\ Len(mempool') <= MaxPool
        BY <3>1, Joined
      <4>2. reserved' = [n \in Ids |-> IF n \in tx.reserves THEN 0 ELSE reserved[n]]
        BY <3>1 DEF Enqueue
      <4>3. reserved' \in [Ids -> -1 .. MaxHeight + Expiry]
        BY <4>2 DEF TypeOK
      <4>4. flying' \in SUBSET Tickets
        BY <3>1 DEF Tx, TypeOK
      <4>5. signed' \in SUBSET {"join", "claim", "pow"}
        BY <3>1 DEF TypeOK, Carried
      <4>. QED
        BY <4>1, <4>3, <4>4, <4>5
    <3>2. CASE UNCHANGED <<poolVars, signed>>
      BY <3>2 DEF poolVars, TypeOK
    <3>3. ASSUME UNCHANGED <<mempool, flying, signed>>, NEW held \in SUBSET Spendable({}),
                 reserved' = [n \in Ids |-> IF n \in held THEN 0 ELSE reserved[n]]
          PROVE <2>2!:
      <4>1. reserved' \in [Ids -> -1 .. MaxHeight + Expiry]
        BY <3>3 DEF TypeOK
      <4>. QED
        BY <3>3, <4>1 DEF TypeOK
    <3>. QED
      BY <1>1, <3>1, <3>2, <3>3, CallEffect
  <2>. QED
    BY <2>1, <2>2 DEF TypeOK, SavedOK
<1>2. CASE BlockBegin
  BY <1>2 DEF BlockBegin, TypeOK, SavedOK, ledgerVars, poolVars
<1>3. CASE Accept
  <2> DEFINE tx == Head(mempool)
             rest == (notes \ tx.spends) \cup ({tx.stake} \ {0})
  <2>1. mempool' \in Seq(Tx) /\ Len(mempool') <= MaxPool /\ tx \in Tx
    BY <1>3, Left DEF Accept
  <2>2. notes' \in SUBSET Ids /\ used' \in 0 .. MaxNotes
    <3>1. \/ notes' = rest /\ used' = used
          \/ used < MaxNotes /\ used' = used + 1 /\ notes' = rest \cup {used'}
      BY <1>3 DEF Accept
    <3>2. rest \subseteq Ids /\ used \in 0 .. MaxNotes
      BY <2>1 DEF TypeOK, Tx
    <3>3. used < MaxNotes => used + 1 \in Ids /\ used + 1 \in 0 .. MaxNotes
      BY <3>2 DEF Ids
    <3> HIDE DEF rest
    <3>. QED
      BY <3>1, <3>2, <3>3
  <2>3. service' \in SUBSET Ids /\ channel' \in SUBSET Ids /\ declared' \in BOOLEAN
    BY <1>3, <2>1 DEF Accept, TypeOK, Tx
  <2>4. claimed' \in SUBSET Vouchers
    BY <1>3, <2>1 DEF Accept, TypeOK, Tx, Claims
  <2>5. paid' \in [Vouchers -> Nat]
    BY <1>3, <2>1 DEF Accept, TypeOK, Tx
  <2>6. tickets' \in SUBSET Tickets /\ flying' \in SUBSET Tickets
    BY <1>3 DEF Accept, TypeOK
  <2>7. reserved' \in [Ids -> -1 .. MaxHeight + Expiry]
    BY <1>3 DEF Accept, TypeOK
  <2>8. UNCHANGED <<claim, tip, block, saved, restarts, signed>>
    BY <1>3 DEF Accept
  <2>. QED
    BY <2>1, <2>2, <2>3, <2>4, <2>5, <2>6, <2>7, <2>8 DEF TypeOK, SavedOK
<1>4. CASE Reject
  <2>1. mempool' \in Seq(Tx) /\ Len(mempool') <= MaxPool
    BY <1>4, Left DEF Reject
  <2>2. tip + 1 + Expiry \in -1 .. MaxHeight + Expiry
    BY <1>4 DEF Reject, TypeOK
  <2>3. reserved' \in [Ids -> -1 .. MaxHeight + Expiry] /\ flying' \in SUBSET Tickets
    BY <1>4, <2>2 DEF Reject, TypeOK
  <2>4. UNCHANGED <<ledgerVars, tickets, claim, tip, block, saved, restarts, signed>>
    BY <1>4 DEF Reject
  <2>. QED
    BY <2>1, <2>3, <2>4 DEF TypeOK, SavedOK, ledgerVars
<1>5. CASE BlockEnd
  <2>1. tickets' \in SUBSET Tickets
    BY <1>5 DEF BlockEnd, TypeOK
  <2>2. reserved' \in [Ids -> -1 .. MaxHeight + Expiry]
    BY <1>5 DEF BlockEnd, TypeOK
  <2>. QED
    BY <1>5, <2>1, <2>2 DEF BlockEnd, TypeOK, SavedOK, ledgerVars
<1>6. CASE Save
  BY <1>6, LedgerOK DEF Save, TypeOK, SavedOK, ledgerVars, poolVars
<1>7. ASSUME Forget
      PROVE  /\ reserved' \in [Ids -> -1 .. MaxHeight + Expiry]
             /\ mempool' \in Seq(Tx) /\ Len(mempool') <= MaxPool
             /\ tickets' \in SUBSET Tickets /\ flying' \in SUBSET Tickets
             /\ claim' \in [Claimers -> Vouchers \cup {0}] /\ restarts' \in 0 .. MaxRestarts
  BY <1>7 DEF Forget, TypeOK
<1>8. CASE Restart
  BY <1>7, <1>8, LedgerOK DEF Restart, TypeOK, SavedOK, ledgerVars
<1>9. CASE CrashRestart
  BY <1>7, <1>9 DEF CrashRestart, TypeOK, SavedOK
<1>10. CASE UNCHANGED vars
  BY <1>10 DEF TypeOK, SavedOK, vars, ledgerVars, poolVars
<1>. QED
  BY <1>1, <1>2, <1>3, <1>4, <1>5, <1>6, <1>8, <1>9, <1>10 DEF Next

LEMMA TypedCorrect == Spec => []Typed
<1>1. Init => Typed
  <2>1. ASSUME Init PROVE TypeOK
    <3>1. notes \in SUBSET Ids /\ used \in 0 .. MaxNotes
      BY <2>1 DEF Init, Ids
    <3>2. reserved \in [Ids -> -1 .. MaxHeight + Expiry]
      BY <2>1 DEF Init
    <3>3. mempool \in Seq(Tx) /\ Len(mempool) <= MaxPool
      BY <2>1 DEF Init
    <3>4. paid \in [Vouchers -> Nat] /\ tip \in 0 .. MaxHeight /\ restarts \in 0 .. MaxRestarts
      BY <2>1 DEF Init
    <3>. QED
      BY <2>1, <3>1, <3>2, <3>3, <3>4 DEF Init, TypeOK
  <2>. QED
    BY <2>1, LedgerOK DEF Init, Typed, SavedOK
<1>. QED
  BY <1>1, TypedStep, PTL DEF Spec

(* The wallet's state keeps its types (TypeOK): notes are ids, the mempool  *)
(* holds at most MaxPool transactions, and no reservation is made for a     *)
(* height beyond Expiry blocks after the last block.                        *)
THEOREM TypeCorrect == Spec => []TypeOK
BY TypedCorrect, PTL DEF Typed

-----------------------------------------------------------------------------
(* Vouchers and collateral. *)

(* What a signed transaction carries without leaving a trace in signed.     *)
LEMMA Untraced ==
  ASSUME NEW tx \in Tx
  PROVE  /\ "claim" \notin Carried(tx) => \A v \in Vouchers : tx.rewards[v] = 0
         /\ "join" \notin Carried(tx) => tx.stake = 0
         /\ "pow" \notin Carried(tx) => tx.tickets = {}
BY DEF Carried, Claims, Tx

\* As long as the host claims none with a transaction of its own, the chain has
\* paid exactly the vouchers it knows as claimed, the state file agrees with
\* itself on that, and what is pending claims each once.
PaidOnce ==
  "claim" \notin signed =>
    /\ \A v \in Vouchers : paid[v] = IF v \in claimed THEN 1 ELSE 0
    /\ \A v \in Vouchers : saved.paid[v] = IF v \in saved.claimed THEN 1 ELSE 0
    /\ \A tx \in Pending : \A v \in Vouchers : tx.rewards[v] \in {0, 1}

LEMMA PaidOnceStep == Typed /\ PaidOnce /\ [Next]_vars => PaidOnce'
<1> SUFFICES ASSUME Typed, PaidOnce, [Next]_vars, "claim" \notin signed'
             PROVE  /\ \A v \in Vouchers : paid'[v] = IF v \in claimed' THEN 1 ELSE 0
                    /\ \A v \in Vouchers : saved'.paid[v] = IF v \in saved'.claimed THEN 1 ELSE 0
                    /\ \A tx \in Pending' : \A v \in Vouchers : tx.rewards[v] \in {0, 1}
  BY DEF PaidOnce
<1> USE DEF Typed, ledgerVars
<1>0. ASSUME "claim" \notin signed
      PROVE  /\ \A v \in Vouchers : paid[v] = IF v \in claimed THEN 1 ELSE 0
             /\ \A v \in Vouchers : saved.paid[v] = IF v \in saved.claimed THEN 1 ELSE 0
             /\ \A tx \in Pending : \A v \in Vouchers : tx.rewards[v] \in {0, 1}
  BY <1>0 DEF PaidOnce
<1>1. CASE Call
  <2>1. "claim" \notin signed
    BY <1>1, CallEffect
  <2>2. UNCHANGED <<claimed, paid, saved>>
    BY <1>1, CallEffect
  <2>3. CASE UNCHANGED mempool
    BY <1>0, <2>1, <2>2, <2>3 DEF Pending
  <2>4. ASSUME NEW tx \in Tx, Enqueue(tx), Submitted(tx) \/ signed' = signed \cup Carried(tx)
        PROVE  \A other \in Pending' : \A v \in Vouchers : other.rewards[v] \in {0, 1}
    <3>1. \A v \in Vouchers : tx.rewards[v] \in {0, 1}
      BY <2>4, Untraced DEF Submitted
    <3>2. Pending' = Pending \cup {tx}
      BY <2>4, Joined
    <3>. QED
      BY <1>0, <2>1, <3>1, <3>2
  <2>. QED
    BY <1>0, <1>1, <2>1, <2>2, <2>3, <2>4, CallEffect DEF poolVars
<1>2. CASE Accept
  <2>1. Head(mempool) \in Pending /\ Pending' \subseteq Pending /\ Head(mempool) \in Tx
    BY <1>2, Left DEF Accept
  <2>2. Claims(Head(mempool)) \cap claimed = {}
    BY <1>2 DEF Accept, Valid, VoucherOk
  <2>3. /\ claimed' = claimed \cup Claims(Head(mempool))
        /\ paid' = [v \in Vouchers |-> paid[v] + Head(mempool).rewards[v]]
        /\ saved' = saved /\ signed' = signed
    BY <1>2 DEF Accept
  <2>4. ASSUME NEW v \in Vouchers PROVE paid'[v] = IF v \in claimed' THEN 1 ELSE 0
    <3>1. Head(mempool).rewards[v] \in {0, 1} /\ paid[v] = IF v \in claimed THEN 1 ELSE 0
      BY <1>0, <2>1, <2>3
    <3>2. v \in Claims(Head(mempool)) <=> Head(mempool).rewards[v] = 1
      BY <3>1 DEF Claims
    <3>. QED
      BY <2>2, <2>3, <3>1, <3>2
  <2>. QED
    BY <1>0, <2>1, <2>3, <2>4
<1>3. CASE Reject
  <2>1. Pending' \subseteq Pending
    BY <1>3, Left DEF Reject
  <2>2. UNCHANGED <<claimed, paid, saved, signed>>
    BY <1>3 DEF Reject
  <2>. QED
    BY <1>0, <2>1, <2>2
<1>4. CASE BlockBegin \/ BlockEnd
  BY <1>0, <1>4 DEF BlockBegin, BlockEnd, poolVars, Pending
<1>5. CASE Save
  BY <1>0, <1>5 DEF Save, poolVars, Pending, Ledger
<1>6. ASSUME Forget PROVE Pending' = {}
  BY <1>6 DEF Forget, Pending
<1>7. CASE Restart
  BY <1>0, <1>6, <1>7 DEF Restart, Ledger
<1>8. CASE CrashRestart
  BY <1>0, <1>6, <1>8 DEF CrashRestart
<1>9. CASE UNCHANGED vars
  BY <1>0, <1>9 DEF vars, poolVars, Pending
<1>. QED
  BY <1>1, <1>2, <1>3, <1>4, <1>5, <1>7, <1>8, <1>9 DEF Next

(* As long as the host claims no voucher with a transaction that it signs   *)
(* itself, the chain pays a voucher once (VoucherPaidOnce), however many    *)
(* claims for it are pending together and whatever is stopped or killed:    *)
(* applyTx looks it up among the claimed ones, which the state file carries. *)
THEOREM VoucherPaidOnceCorrect == Spec => []VoucherPaidOnce
<1>1. Init => PaidOnce
  BY DEF Init, PaidOnce, Ledger, Pending
<1>2. PaidOnce => VoucherPaidOnce
  BY DEF PaidOnce, VoucherPaidOnce
<1>. QED
  BY <1>1, <1>2, TypedCorrect, PaidOnceStep, PTL DEF Spec

\* As long as the host declares nothing with a transaction of its own, no pending
\* declaration spends its own collateral; and a kill goes back to a ledger in
\* which the collateral is there.
CollateralKept ==
  "join" \notin signed =>
    /\ service \subseteq notes \ channel
    /\ saved.service \subseteq saved.notes \ saved.channel
    /\ \A tx \in Pending : tx.stake # 0 => tx.stake \notin Taken(tx)

LEMMA CollateralKeptStep == Typed /\ CollateralKept /\ [Next]_vars => CollateralKept'
<1> SUFFICES ASSUME Typed, CollateralKept, [Next]_vars, "join" \notin signed'
             PROVE  /\ service' \subseteq notes' \ channel'
                    /\ saved'.service \subseteq saved'.notes \ saved'.channel
                    /\ \A tx \in Pending' : tx.stake # 0 => tx.stake \notin Taken(tx)
  BY DEF CollateralKept, Taken
<1> USE DEF Typed, ledgerVars
<1>0. ASSUME "join" \notin signed
      PROVE  /\ service \subseteq notes \ channel
             /\ saved.service \subseteq saved.notes \ saved.channel
             /\ \A tx \in Pending : tx.stake # 0 => tx.stake \notin Taken(tx)
  BY <1>0 DEF CollateralKept
<1>1. CASE Call
  <2>1. "join" \notin signed
    BY <1>1, CallEffect
  <2>2. UNCHANGED <<notes, service, channel, saved>>
    BY <1>1, CallEffect
  <2>3. CASE UNCHANGED mempool
    BY <1>0, <2>1, <2>2, <2>3 DEF Pending
  <2>4. ASSUME NEW tx \in Tx, Enqueue(tx), Submitted(tx) \/ signed' = signed \cup Carried(tx)
        PROVE  \A other \in Pending' : other.stake # 0 => other.stake \notin Taken(other)
    <3>1. tx.stake # 0 => tx.stake \notin Taken(tx)
      BY <2>4, Untraced DEF Submitted
    <3>2. Pending' = Pending \cup {tx}
      BY <2>4, Joined
    <3>. QED
      BY <1>0, <2>1, <3>1, <3>2
  <2>. QED
    BY <1>0, <1>1, <2>1, <2>2, <2>3, <2>4, CallEffect DEF poolVars
<1>2. CASE Accept
  <2> DEFINE tx == Head(mempool)
  <2>1. tx \in Pending /\ Pending' \subseteq Pending
    BY <1>2, Left DEF Accept
  <2>2. Taken(tx) \subseteq notes \ (channel \cup service)
    BY <1>2 DEF Accept, Valid, SpendOk
  <2>3. "join" \notin signed /\ saved' = saved
    BY <1>2 DEF Accept
  <2>4. tx.stake # 0 => tx.stake \in notes \ (channel \cup service) /\ tx.stake \notin Taken(tx)
    BY <1>0, <1>2, <2>1, <2>3 DEF Accept, Valid, StakeOk
  <2>5. notes \ tx.spends \subseteq notes'
    BY <1>2 DEF Accept
  <2>6. channel' = channel \cup tx.deposits /\ service' = service \cup ({tx.stake} \ {0})
    BY <1>2 DEF Accept
  <2>7. ASSUME NEW n \in service' PROVE n \in notes' \ channel'
    <3>1. n \in notes \ channel /\ n \notin Taken(tx)
      BY <1>0, <2>2, <2>3, <2>4, <2>6
    <3>. QED
      BY <2>5, <2>6, <3>1 DEF Taken
  <2>. QED
    BY <1>0, <2>1, <2>3, <2>7
<1>3. CASE Reject
  <2>1. Pending' \subseteq Pending
    BY <1>3, Left DEF Reject
  <2>2. UNCHANGED <<notes, service, channel, saved, signed>>
    BY <1>3 DEF Reject
  <2>. QED
    BY <1>0, <2>1, <2>2
<1>4. CASE BlockBegin \/ BlockEnd
  BY <1>0, <1>4 DEF BlockBegin, BlockEnd, poolVars, Pending
<1>5. CASE Save
  BY <1>0, <1>5 DEF Save, poolVars, Pending, Ledger
<1>6. ASSUME Forget PROVE Pending' = {}
  BY <1>6 DEF Forget, Pending
<1>7. CASE Restart
  BY <1>0, <1>6, <1>7 DEF Restart, Ledger
<1>8. CASE CrashRestart
  BY <1>0, <1>6, <1>8 DEF CrashRestart
<1>9. CASE UNCHANGED vars
  BY <1>0, <1>9 DEF vars, poolVars, Pending
<1>. QED
  BY <1>1, <1>2, <1>3, <1>4, <1>5, <1>7, <1>8, <1>9 DEF Next

(* As long as the host declares nothing with a transaction that it signs    *)
(* itself, the collateral of a declaration can be neither spent nor         *)
(* deposited (StakeStays), by whatever was pending when it was locked or is *)
(* submitted later, signed by the host or not.                              *)
THEOREM StakeStaysCorrect == Spec => []StakeStays
<1>1. Init => CollateralKept
  BY DEF Init, CollateralKept, Pending, Ledger
<1>2. CollateralKept => StakeStays
  BY DEF CollateralKept, StakeStays
<1>. QED
  BY <1>1, <1>2, TypedCorrect, CollateralKeptStep, PTL DEF Spec

-----------------------------------------------------------------------------
(* Reservations. *)

\* While a block is taken in, a reservation may end with that very block.
Timely ==
  \A n \in Ids : reserved[n] > 0 =>
    reserved[n] > tip /\ reserved[n] <= tip + Expiry + (IF block = "open" THEN 1 ELSE 0)

LEMMA TimelyStep == Typed /\ Timely /\ [Next]_vars => Timely'
<1> SUFFICES ASSUME Typed, Timely, [Next]_vars PROVE Timely'
  OBVIOUS
<1>0. reserved \in [Ids -> -1 .. MaxHeight + Expiry] /\ tip \in Nat
  BY DEF Typed, TypeOK
<1>1. CASE Call
  <2>1. UNCHANGED <<tip, block>>
    BY <1>1, CallEffect DEF Typed
  <2>2. \/ UNCHANGED reserved
        \/ \E held : reserved' = [n \in Ids |-> IF n \in held THEN 0 ELSE reserved[n]]
    BY <1>1, CallEffect DEF Typed, Enqueue, poolVars
  <2>. QED
    BY <2>1, <2>2 DEF Timely
<1>2. CASE BlockBegin
  BY <1>0, <1>2 DEF BlockBegin, Timely, poolVars
<1>3. CASE Accept
  <2>1. UNCHANGED <<tip, block>> /\ \A n \in Ids : reserved'[n] \in {-1, reserved[n]}
    BY <1>3 DEF Accept
  <2>. QED
    BY <2>1 DEF Timely
<1>4. CASE Reject
  <2>1. /\ UNCHANGED <<tip, block>> /\ block = "open"
        /\ \A n \in Ids : reserved'[n] \in {tip + 1 + Expiry, reserved[n]}
    BY <1>4 DEF Reject
  <2>. QED
    BY <1>0, <2>1 DEF Timely
<1>5. CASE BlockEnd
  <2>1. /\ tip' = tip + 1 /\ block = "open" /\ block' = "closed"
        /\ \A n \in Ids : reserved'[n] = IF Due(n) THEN -1 ELSE reserved[n]
    BY <1>5 DEF BlockEnd
  <2>. QED
    BY <1>0, <2>1 DEF Timely, Due
<1>6. CASE Save
  BY <1>6 DEF Save, Timely, poolVars
<1>7. CASE Restart \/ CrashRestart
  BY <1>7 DEF Restart, CrashRestart, Forget, Timely
<1>8. CASE UNCHANGED vars
  BY <1>8 DEF Timely, vars, poolVars
<1>. QED
  BY <1>1, <1>2, <1>3, <1>4, <1>5, <1>6, <1>7, <1>8 DEF Next

(* A reservation that got a height ends at it, and at most Expiry blocks    *)
(* after the block that rejected its transaction (ReleasedInTime).          *)
THEOREM ReleasedInTimeCorrect == Spec => []ReleasedInTime
<1>1. Init => Timely
  BY DEF Init, Timely
<1>2. Typed /\ Timely => ReleasedInTime
  BY DEF Typed, TypeOK, Timely, ReleasedInTime
<1>. QED
  BY <1>1, <1>2, TypedCorrect, TimelyStep, PTL DEF Spec

(* The hypothesis is needed: wallet_fund_tx holds notes of its own accord,  *)
(* for a draft that need never be submitted.                                *)
LEMMA ReservationEndsStep ==
  ASSUME "fund" \notin Calls
  PROVE  Typed /\ ReservationEnds /\ [Next]_vars => ReservationEnds'
<1> SUFFICES ASSUME Typed, ReservationEnds, [Next]_vars PROVE ReservationEnds'
  OBVIOUS
<1> USE DEF Typed, ReservationEnds
<1>0. reserved \in [Ids -> -1 .. MaxHeight + Expiry] /\ tip \in Nat
  BY DEF TypeOK
<1>1. CASE Call
  <2>1. CASE UNCHANGED poolVars
    BY <2>1 DEF poolVars, Pending
  <2>2. ASSUME NEW tx \in Tx, Enqueue(tx) PROVE ReservationEnds'
    <3>1. Pending' = Pending \cup {tx}
      BY <2>2, Joined
    <3>2. \A n \in Ids : reserved'[n] = IF n \in tx.reserves THEN 0 ELSE reserved[n]
      BY <2>2 DEF Enqueue
    <3>. QED
      BY <3>1, <3>2
  <2>. QED
    BY <1>1, <2>1, <2>2, CallEffect
<1>2. CASE Accept
  <2>1. Pending = Pending' \cup {Head(mempool)}
    BY <1>2, Left DEF Accept
  <2>2. \A n \in Ids : reserved'[n] =
          IF n \in Taken(Head(mempool)) \cup Head(mempool).reserves THEN -1 ELSE reserved[n]
    BY <1>2 DEF Accept
  <2>. QED
    BY <2>1, <2>2
<1>3. CASE Reject
  <2>1. Pending = Pending' \cup {Head(mempool)}
    BY <1>3, Left DEF Reject
  <2>2. \A n \in Ids : reserved'[n] = IF n \in Head(mempool).reserves THEN tip + 1 + Expiry ELSE reserved[n]
    BY <1>3 DEF Reject
  <2>. QED
    BY <1>0, <2>1, <2>2
<1>4. CASE BlockBegin \/ Save
  BY <1>4 DEF BlockBegin, Save, poolVars, Pending
<1>5. CASE BlockEnd
  BY <1>5 DEF BlockEnd, Pending
<1>6. CASE Restart \/ CrashRestart
  BY <1>6 DEF Restart, CrashRestart, Forget
<1>7. CASE UNCHANGED vars
  BY <1>7 DEF vars, poolVars, Pending
<1>. QED
  BY <1>1, <1>2, <1>3, <1>4, <1>5, <1>6, <1>7 DEF Next

(* Without drafts nothing is held for longer than its transaction: a        *)
(* reservation in flight always belongs to one that is pending              *)
(* (ReservationEnds).  wallet_fund_tx holds notes of its own accord.        *)
THEOREM ReservationEndsCorrect ==
  ASSUME "fund" \notin Calls
  PROVE  Spec => []ReservationEnds
<1>1. Init => ReservationEnds
  BY DEF Init, ReservationEnds
<1>2. Typed /\ ReservationEnds /\ [Next]_vars => ReservationEnds'
  BY ReservationEndsStep
<1>. QED
  BY <1>1, <1>2, TypedCorrect, PTL DEF Spec

-----------------------------------------------------------------------------
(* Funding. *)

\* Where every note that a call names is picked by the wallet: the notes that
\* fund what is pending are in flight, each for one transaction, which holds no
\* others; and ids are not given out twice.
Funding ==
  /\ FundedOnce
  /\ \A tx \in Pending : \A n \in tx.funded \cap notes : reserved[n] = 0
  /\ \A tx \in Pending : /\ tx.reserves = tx.funded /\ tx.funded \subseteq 1 .. used
                         /\ tx.deposits = {} /\ (tx.stake # 0 => tx.stake \notin Taken(tx))
  /\ notes \subseteq 1 .. used /\ saved.notes \subseteq 1 .. used

LEMMA FundingStep ==
  ASSUME "fund" \notin Calls, "deposit" \notin Calls
  PROVE  Typed /\ Funding /\ [Next]_vars => Funding'
<1> SUFFICES ASSUME Typed, Funding, [Next]_vars PROVE Funding'
  OBVIOUS
<1> USE DEF Typed, ledgerVars
<1>0. /\ reserved \in [Ids -> -1 .. MaxHeight + Expiry] /\ tip \in Nat /\ used \in Nat
      /\ notes \subseteq Ids
  BY DEF TypeOK
<1>1. CASE Call
  <2>1. UNCHANGED <<notes, used, saved>>
    BY <1>1, CallEffect
  <2>2. CASE UNCHANGED poolVars
    BY <2>1, <2>2 DEF poolVars, Pending, Funding, FundedOnce
  <2>3. ASSUME NEW tx \in Tx, Submitted(tx), Enqueue(tx) PROVE Funding'
    <3>1. /\ Pending' = Pending \cup {tx}
          /\ \A i \in DOMAIN mempool' :
               \/ i \in DOMAIN mempool /\ mempool'[i] = mempool[i]
               \/ i = Len(mempool) + 1 /\ mempool'[i] = tx
      BY <2>3, Joined
    <3>2. \A n \in tx.funded : n \in notes /\ n \in Ids /\ reserved[n] = -1
      BY <1>0, <2>3 DEF Submitted, Spendable
    <3>3. tx.reserves = tx.funded /\ tx.deposits = {} /\ (tx.stake # 0 => tx.stake \notin Taken(tx))
      BY <2>3 DEF Submitted
    <3>4. \A n \in Ids : reserved'[n] = IF n \in tx.reserves THEN 0 ELSE reserved[n]
      BY <2>3 DEF Enqueue
    <3>5. \A other \in Pending : other.funded \cap tx.funded = {}
      BY <1>0, <3>2 DEF Funding
    <3>6. FundedOnce'
      <4> SUFFICES ASSUME NEW i \in DOMAIN mempool', NEW j \in DOMAIN mempool', i # j
                   PROVE  mempool'[i].funded \cap mempool'[j].funded = {}
        BY DEF FundedOnce
      <4>. QED
        BY <3>1, <3>5 DEF Funding, FundedOnce, Pending
    <3>7. \A other \in Pending' : \A n \in other.funded \cap notes' : reserved'[n] = 0
      BY <1>0, <2>1, <3>1, <3>3, <3>4 DEF Funding
    <3>8. tx.funded \subseteq 1 .. used
      BY <3>2 DEF Funding
    <3>. QED
      BY <2>1, <3>1, <3>3, <3>6, <3>7, <3>8 DEF Funding
  <2>. QED
    BY <1>1, <2>2, <2>3, CallEffect
<1>2. ASSUME mempool # <<>>, mempool' = Tail(mempool)
      PROVE  /\ FundedOnce' /\ Pending' \subseteq Pending /\ Head(mempool) \in Pending
             /\ \A tx \in Pending' : tx.funded \cap Head(mempool).funded = {}
  <2>1. /\ Pending = Pending' \cup {Head(mempool)}
        /\ 1 \in DOMAIN mempool /\ Head(mempool) = mempool[1]
        /\ \A i \in DOMAIN mempool' : i + 1 \in DOMAIN mempool /\ mempool'[i] = mempool[i + 1]
        /\ mempool' \in Seq(Tx)
    BY <1>2, Left
  <2>2. \A i \in DOMAIN mempool' : i \in Nat /\ i # 0
    BY <2>1
  <2>3. FundedOnce'
    <3> SUFFICES ASSUME NEW i \in DOMAIN mempool', NEW j \in DOMAIN mempool', i # j
                 PROVE  mempool'[i].funded \cap mempool'[j].funded = {}
      BY DEF FundedOnce
    <3>1. i + 1 # j + 1
      BY <2>2
    <3>. QED
      BY <2>1, <3>1 DEF Funding, FundedOnce
  <2>4. ASSUME NEW tx \in Pending' PROVE tx.funded \cap Head(mempool).funded = {}
    <3>1. PICK i \in DOMAIN mempool' : tx = mempool'[i]
      BY DEF Pending
    <3>2. i + 1 # 1
      BY <2>2
    <3>. QED
      BY <2>1, <3>1, <3>2 DEF Funding, FundedOnce
  <2>. QED
    BY <2>1, <2>3, <2>4
<1>3. CASE Accept
  <2> DEFINE tx == Head(mempool)
  <2>1. /\ FundedOnce' /\ Pending' \subseteq Pending /\ tx \in Pending
        /\ \A other \in Pending' : other.funded \cap tx.funded = {}
    BY <1>2, <1>3 DEF Accept
  <2>2. tx.reserves = tx.funded /\ tx.deposits = {} /\ (tx.stake # 0 => tx.stake \notin Taken(tx))
    BY <2>1 DEF Funding
  <2>a. (notes \ tx.spends) \cup ({tx.stake} \ {0}) = notes \ tx.spends
    BY <1>3, <2>2 DEF Accept, Valid, StakeOk, Taken
  <2>3. /\ \A n \in Ids : reserved'[n] = IF n \in Taken(tx) \cup tx.reserves THEN -1 ELSE reserved[n]
        /\ saved' = saved
        /\ \/ notes' = notes \ tx.spends /\ used' = used
           \/ used' = used + 1 /\ notes' = (notes \ tx.spends) \cup {used + 1}
    BY <1>3, <2>a DEF Accept
  <2>4. 1 .. used \subseteq 1 .. used' /\ used + 1 \notin 1 .. used
    BY <1>0, <2>3
  <2>5. notes' \subseteq 1 .. used' /\ saved'.notes \subseteq 1 .. used'
    <3>1. notes \subseteq 1 .. used /\ saved'.notes \subseteq 1 .. used
      BY <2>3 DEF Funding
    <3>2. used' = used + 1 => used + 1 \in 1 .. used'
      BY <1>0
    <3>. QED
      BY <2>3, <2>4, <3>1, <3>2
  <2>6. ASSUME NEW other \in Pending', NEW n \in other.funded \cap notes' PROVE reserved'[n] = 0
    <3>1. n \in 1 .. used
      BY <2>1 DEF Funding
    <3>2. n \in notes \ tx.spends
      BY <2>3, <2>4, <2>6, <3>1
    <3>3. reserved[n] = 0 /\ n \in Ids
      BY <1>0, <2>1, <2>6, <3>2 DEF Funding
    <3>4. n \notin Taken(tx) \cup tx.reserves
      BY <2>1, <2>2, <2>6, <3>2 DEF Taken
    <3>. QED
      BY <2>3, <3>3, <3>4
  <2>7. \A other \in Pending' :
          /\ other.reserves = other.funded /\ other.funded \subseteq 1 .. used'
          /\ other.deposits = {} /\ (other.stake # 0 => other.stake \notin Taken(other))
    BY <2>1, <2>4 DEF Funding
  <2>. QED
    BY <2>1, <2>5, <2>6, <2>7 DEF Funding
<1>4. CASE Reject
  <2> DEFINE tx == Head(mempool)
  <2>1. /\ FundedOnce' /\ Pending' \subseteq Pending /\ tx \in Pending
        /\ \A other \in Pending' : other.funded \cap tx.funded = {}
    BY <1>2, <1>4 DEF Reject
  <2>2. /\ \A n \in Ids : reserved'[n] = IF n \in tx.reserves THEN tip + 1 + Expiry ELSE reserved[n]
        /\ UNCHANGED <<notes, used, saved>>
    BY <1>4 DEF Reject
  <2>3. ASSUME NEW other \in Pending', NEW n \in other.funded \cap notes' PROVE reserved'[n] = 0
    <3>1. n \notin tx.reserves /\ reserved[n] = 0 /\ n \in Ids
      BY <1>0, <2>1, <2>2, <2>3 DEF Funding
    <3>. QED
      BY <2>2, <3>1
  <2>. QED
    BY <2>1, <2>2, <2>3 DEF Funding
<1>5. CASE BlockEnd
  <2>1. UNCHANGED <<notes, used, saved, mempool>>
    BY <1>5 DEF BlockEnd
  <2>2. \A n \in Ids : reserved[n] = 0 => reserved'[n] = 0
    BY <1>5 DEF BlockEnd, Due
  <2>3. \A tx \in Pending' : \A n \in tx.funded \cap notes' : reserved'[n] = 0
    BY <1>0, <2>1, <2>2 DEF Funding, Pending
  <2>. QED
    BY <2>1, <2>3 DEF Funding, FundedOnce, Pending
<1>6. CASE BlockBegin
  BY <1>6 DEF BlockBegin, poolVars, Pending, Funding, FundedOnce
<1>7. CASE Save
  BY <1>7 DEF Save, Ledger, poolVars, Pending, Funding, FundedOnce
<1>8. ASSUME Forget PROVE Pending' = {} /\ FundedOnce'
  BY <1>8 DEF Forget, Pending, FundedOnce
<1>9. CASE Restart
  BY <1>8, <1>9 DEF Restart, Ledger, Funding
<1>10. CASE CrashRestart
  BY <1>8, <1>10 DEF CrashRestart, Funding
<1>11. CASE UNCHANGED vars
  BY <1>11 DEF vars, poolVars, Pending, Funding, FundedOnce
<1>. QED
  BY <1>1, <1>3, <1>4, <1>5, <1>6, <1>7, <1>9, <1>10, <1>11 DEF Next

LEMMA FundingInvariant ==
  ASSUME "fund" \notin Calls, "deposit" \notin Calls
  PROVE  Spec => []Funding
<1>1. Init => Funding
  BY DEF Init, Funding, FundedOnce, Pending, Ledger
<1>2. Typed /\ Funding /\ [Next]_vars => Funding'
  BY FundingStep
<1>. QED
  BY <1>1, <1>2, TypedCorrect, PTL DEF Spec

(* As long as the host neither deposits notes of its own choice nor drafts  *)
(* transactions, the wallet picks no note for two pending transactions      *)
(* (FundedOnce).                                                            *)
THEOREM FundedOnceCorrect ==
  ASSUME "fund" \notin Calls, "deposit" \notin Calls
  PROVE  Spec => []FundedOnce
<1>1. Funding => FundedOnce
  BY DEF Funding
<1>. QED
  BY <1>1, FundingInvariant, PTL

(* Under the same hypothesis the notes that fund a transaction stay reserved *)
(* until it lands (ReservedUntilLanded): no block and no rejection of       *)
(* another transaction releases them.                                       *)
THEOREM ReservedUntilLandedCorrect ==
  ASSUME "fund" \notin Calls, "deposit" \notin Calls
  PROVE  Spec => []ReservedUntilLanded
<1>1. Funding => ReservedUntilLanded
  BY DEF Funding, ReservedUntilLanded
<1>. QED
  BY <1>1, FundingInvariant, PTL

-----------------------------------------------------------------------------
(* Tickets. *)

\* What TicketsAccounted says as long as the host signs no claim of its own.
Accounted ==
  /\ flying = UNION {tx.tickets : tx \in Pending} /\ flying \subseteq tickets
  /\ \A i, j \in DOMAIN mempool : i # j => mempool[i].tickets \cap mempool[j].tickets = {}

LEMMA TicketsStep == Typed /\ TicketsAccounted /\ [Next]_vars => TicketsAccounted'
<1> SUFFICES ASSUME Typed, TicketsAccounted, [Next]_vars, "pow" \notin signed' PROVE Accounted'
  BY DEF TicketsAccounted, Accounted
<1>a. "pow" \notin signed
  <2>1. CASE Call
    BY <2>1, CallEffect DEF Typed
  <2>2. CASE ~Call
    BY <2>2 DEF Next, vars, BlockBegin, Accept, Reject, BlockEnd, Save, Restart, CrashRestart
  <2>. QED
    BY <2>1, <2>2
<1>b. Accounted
  BY <1>a DEF TicketsAccounted, Accounted
<1> USE <1>b DEF Typed, Accounted
<1>1. CASE Call
  <2>1. UNCHANGED tickets
    BY <1>1, CallEffect
  <2>2. CASE UNCHANGED <<mempool, flying>>
    BY <2>1, <2>2 DEF Pending
  <2>3. ASSUME NEW tx \in Tx, Enqueue(tx), flying' = flying \cup tx.tickets, tx.tickets \subseteq tickets \ flying
        PROVE  Accounted'
    <3>1. /\ Pending' = Pending \cup {tx}
          /\ \A i \in DOMAIN mempool' :
               \/ i \in DOMAIN mempool /\ mempool'[i] = mempool[i]
               \/ i = Len(mempool) + 1 /\ mempool'[i] = tx
      BY <2>3, Joined
    <3>2. tx.tickets \subseteq tickets \ flying
      BY <2>3
    <3>3. flying' = UNION {other.tickets : other \in Pending'} /\ flying' \subseteq tickets'
      BY <2>1, <2>3, <3>1, <3>2
    <3>4. \A other \in Pending : other.tickets \cap tx.tickets = {}
      BY <3>2
    <3>5. ASSUME NEW i \in DOMAIN mempool', NEW j \in DOMAIN mempool', i # j
          PROVE  mempool'[i].tickets \cap mempool'[j].tickets = {}
      BY <3>1, <3>4, <3>5 DEF Pending
    <3>. QED
      BY <3>3, <3>5
  <2>4. ASSUME NEW tx \in Tx, Enqueue(tx), flying' = flying, signed' = signed \cup Carried(tx)
        PROVE  Accounted'
    <3>1. tx.tickets = {}
      BY <2>4, Untraced
    <3>2. flying' = flying \cup tx.tickets /\ tx.tickets \subseteq tickets \ flying
      BY <2>4, <3>1
    <3>. QED
      BY <2>3, <2>4, <3>2
  <2>. QED
    BY <1>1, <2>2, <2>3, <2>4, CallEffect DEF poolVars, Submitted
<1>2. ASSUME Accept \/ Reject
      PROVE  /\ \A tx \in Pending' : tx.tickets \cap Head(mempool).tickets = {}
             /\ Pending = Pending' \cup {Head(mempool)}
             /\ \A i, j \in DOMAIN mempool' : i # j => mempool'[i].tickets \cap mempool'[j].tickets = {}
  <2>1. mempool # <<>> /\ mempool' = Tail(mempool)
    BY <1>2 DEF Accept, Reject
  <2>2. /\ Pending = Pending' \cup {Head(mempool)}
        /\ 1 \in DOMAIN mempool /\ Head(mempool) = mempool[1]
        /\ \A i \in DOMAIN mempool' : i + 1 \in DOMAIN mempool /\ mempool'[i] = mempool[i + 1]
        /\ mempool' \in Seq(Tx)
    BY <2>1, Left
  <2>3. \A i \in DOMAIN mempool' : i \in Nat /\ i # 0
    BY <2>2
  <2>4. ASSUME NEW i \in DOMAIN mempool', NEW j \in DOMAIN mempool', i # j
        PROVE  mempool'[i].tickets \cap mempool'[j].tickets = {}
    <3>1. i + 1 # j + 1
      BY <2>3, <2>4
    <3>. QED
      BY <2>2, <3>1
  <2>5. ASSUME NEW tx \in Pending' PROVE tx.tickets \cap Head(mempool).tickets = {}
    <3>1. PICK i \in DOMAIN mempool' : tx = mempool'[i]
      BY DEF Pending
    <3>2. i + 1 # 1
      BY <2>3
    <3>. QED
      BY <2>2, <3>1, <3>2
  <2>. QED
    BY <2>2, <2>4, <2>5
<1>3. CASE Accept
  <2>1. tickets' = tickets \ Head(mempool).tickets /\ flying' = flying \ Head(mempool).tickets
    BY <1>3 DEF Accept
  <2>2. flying' = UNION {tx.tickets : tx \in Pending'}
    BY <1>2, <1>3, <2>1
  <2>. QED
    BY <1>2, <1>3, <2>1, <2>2
<1>4. CASE Reject
  <2>1. tickets' = tickets /\ flying' = flying \ (Head(mempool).tickets \cap tickets)
    BY <1>4 DEF Reject
  <2>2. Head(mempool).tickets \subseteq flying
    BY <1>2, <1>4
  <2>3. flying' = UNION {tx.tickets : tx \in Pending'}
    BY <1>2, <1>4, <2>1, <2>2
  <2>. QED
    BY <1>2, <1>4, <2>1, <2>3
<1>5. CASE BlockEnd
  <2>1. UNCHANGED <<mempool, flying>> /\ flying \subseteq tickets'
    BY <1>5 DEF BlockEnd, Expirable
  <2>. QED
    BY <2>1 DEF Pending
<1>6. CASE BlockBegin \/ Save
  BY <1>6 DEF BlockBegin, Save, poolVars, Pending
<1>7. CASE Restart \/ CrashRestart
  <2>1. mempool' = <<>> /\ tickets' = {} /\ flying' = {}
    BY <1>7 DEF Restart, CrashRestart, Forget
  <2>2. Pending' = {}
    BY <2>1 DEF Pending
  <2>. QED
    BY <2>1, <2>2
<1>8. CASE UNCHANGED vars
  BY <1>8 DEF vars, poolVars, Pending
<1>. QED
  BY <1>1, <1>3, <1>4, <1>5, <1>6, <1>7, <1>8 DEF Next

(* As long as the host claims no ticket with a transaction that it signs    *)
(* itself, a ticket is in flight exactly while one pending claim carries    *)
(* it, and mining's expiry takes none from under a claim                    *)
(* (TicketsAccounted).                                                      *)
THEOREM TicketsAccountedCorrect == Spec => []TicketsAccounted
<1>1. Init => TicketsAccounted
  <2>1. ASSUME Init PROVE Pending = {}
    BY <2>1 DEF Init, Pending
  <2>2. ASSUME Init PROVE flying = {} /\ DOMAIN mempool = {}
    BY <2>2 DEF Init
  <2>. QED
    BY <2>1, <2>2, Zenon DEF TicketsAccounted
<1>. QED
  BY <1>1, TypedCorrect, TicketsStep, PTL DEF Spec

=============================================================================
