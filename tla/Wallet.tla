------------------------------- MODULE Wallet -------------------------------
(***************************************************************************)
(* The wallet of the simulated node: the notes it owns, the reservations   *)
(* that keep a note from funding two transactions, the mempool, the        *)
(* ledger's verdict on each transaction when a block takes it, the leader  *)
(* vouchers, the PoW tickets, and what a restart keeps of them.            *)
(*                                                                         *)
(* A note is its id.  Values are left out: a call may fund itself from any *)
(* spendable notes, as it does with some values and some amount, and it    *)
(* pays its fee unless the code never funds one.  A call that fails        *)
(* changes nothing, except where an action below says so.                  *)
(***************************************************************************)
EXTENDS Integers, Sequences, FiniteSets, FiniteSetsExt

CONSTANTS
  Calls,     \* the calls the host makes, of those below
  Claimers,  \* callers of leader_claim
  Vouchers,  \* the claimable leader vouchers, in the order they were won
  Tickets,   \* the PoW tickets that mining may find
  Expiry,    \* pending_note_expiry_blocks
  Owned,     \* the notes at first: 1 .. Owned
  MaxNotes,  \* bound: notes ever owned
  MaxPool,   \* bound: transactions pending at once
  MaxSigned, \* bound: signed transactions of the host pending at once
  MaxOps,    \* bound: inputs, declarations and claims in such a transaction
  MaxHeight, \* bound: blocks
  MaxRestarts  \* bound: stops and kills

ASSUME WalletAssumption ==
  /\ Calls \subseteq {"transfer", "deposit", "unpaid", "fund", "claim", "join", "pow"}
  /\ Vouchers \subseteq Nat \ {0}
  /\ Expiry \in Nat /\ Owned \in Nat /\ MaxNotes \in Nat /\ Owned <= MaxNotes
  /\ MaxPool \in Nat /\ MaxSigned \in Nat /\ MaxOps \in Nat /\ MaxHeight \in Nat /\ MaxRestarts \in Nat

Ids == 1 .. MaxNotes

VARIABLES
  notes,     \* the ids in m_notes
  service,   \* those locked as collateral of the declaration
  channel,   \* those deposited into a channel
  declared,  \* m_declaration is there
  reserved,  \* m_reserved: -1 where absent, 0 while in flight, else the
             \* height that releases the note
  mempool,   \* m_mempool
  claimed,   \* the vouchers claimed on chain
  tickets,   \* m_tickets
  flying,    \* m_ticketsInFlight
  tip,       \* m_tip
  block,     \* "open" while processBlock takes transactions
  claim,     \* claim[c]: the voucher c read and has not yet spent, 0 if none
  saved,     \* what the state file holds
  \* Bounds and history.
  used,      \* the ids given out
  restarts,
  paid,      \* paid[v]: rewards minted for v on the present chain
  signed     \* what the host's own signed transactions have carried so far

ledgerVars == <<notes, service, channel, declared, claimed, used, paid>>
poolVars == <<reserved, mempool, tickets, flying>>
vars == <<ledgerVars, poolVars, claim, tip, block, saved, restarts, signed>>

\* A transaction: the notes that its transfers spend, those of them that
\* selectFunding picked, the notes that it deposits, those it reserves, the
\* collateral of its declaration, how often it claims each voucher, and the
\* tickets it claims.
Tx == [kind : {"transfer", "deposit", "unpaid", "signed", "claim", "join", "pow"},
       spends : SUBSET Ids, funded : SUBSET Ids, deposits : SUBSET Ids, reserves : SUBSET Ids,
       stake : Ids \cup {0}, rewards : [Vouchers -> Nat], tickets : SUBSET Tickets]

\* One that the wallet funds, and no more.
Plain(kind, funded) ==
  [kind |-> kind, spends |-> funded, funded |-> funded, deposits |-> {}, reserves |-> funded,
   stake |-> 0, rewards |-> [v \in Vouchers |-> 0], tickets |-> {}]

\* What is spent, in the ledger's eyes.
Taken(tx) == tx.spends \cup tx.deposits

Claims(tx) == {v \in Vouchers : tx.rewards[v] > 0}

Pending == {mempool[i] : i \in DOMAIN mempool}

Ledger == [notes |-> notes, service |-> service, channel |-> channel, declared |-> declared,
           claimed |-> claimed, paid |-> paid, tip |-> tip]

Init ==
  /\ notes = 1 .. Owned /\ service = {} /\ channel = {} /\ declared = FALSE /\ used = Owned
  /\ reserved = [n \in Ids |-> -1] /\ mempool = <<>>
  /\ claimed = {} /\ paid = [v \in Vouchers |-> 0]
  /\ tickets = {} /\ flying = {}
  /\ tip = 0 /\ block = "closed" /\ restarts = 0
  /\ claim = [c \in Claimers |-> 0] /\ signed = {}
  /\ saved = Ledger

-----------------------------------------------------------------------------
(* Calls.  Each takes the mutex, so none falls into a block being processed. *)

Free(name) == name \in Calls /\ block = "closed"

\* Mutant: reserved notes are candidates too.
SpendableReserved(exclude) == notes \ (service \cup channel \cup exclude)

\* The candidates of selectFunding.
Spendable(exclude) == {n \in notes \ (service \cup channel \cup exclude) : reserved[n] = -1}

\* What selectFunding may pick; it cannot pay a fee with nothing.
Fundings(exclude) == (SUBSET Spendable(exclude)) \ {{}}

\* enqueue: the reservations are in flight with the transaction.
Enqueue(tx) ==
  /\ Len(mempool) < MaxPool
  /\ mempool' = Append(mempool, tx)
  /\ reserved' = [n \in Ids |-> IF n \in tx.reserves THEN 0 ELSE reserved[n]]

Transfer ==
  /\ Free("transfer")
  /\ \E funded \in Fundings({}) : Enqueue(Plain("transfer", funded))
  /\ UNCHANGED <<ledgerVars, tickets, flying, claim, tip, block, saved, restarts, signed>>

\* channel_deposit_with_notes: the notes are the caller's choice, reserved or
\* not; the funding avoids them.
DepositWithNotes ==
  /\ Free("deposit")
  /\ \E inputs \in (SUBSET (notes \ channel)) \ {{}} : \E funded \in Fundings(inputs) :
       Enqueue([Plain("deposit", funded) EXCEPT !.deposits = inputs, !.reserves = inputs \cup funded])
  /\ UNCHANGED <<ledgerVars, tickets, flying, claim, tip, block, saved, restarts, signed>>

\* channel_deposit: any notes of the key, no fee and no reservation.
DepositUnpaid ==
  /\ Free("unpaid")
  /\ \E inputs \in (SUBSET (notes \ channel)) \ {{}} :
       Enqueue([Plain("unpaid", {}) EXCEPT !.spends = inputs])
  /\ UNCHANGED <<ledgerVars, tickets, flying, claim, tip, block, saved, restarts, signed>>

\* wallet_fund_tx: the notes are held, whatever the caller's operations name and
\* even when the fee cap then fails the call.  The draft is the caller's.
FundTx ==
  /\ Free("fund")
  /\ \E funded \in Fundings({}) :
       reserved' = [n \in Ids |-> IF n \in funded THEN 0 ELSE reserved[n]]
  /\ UNCHANGED <<ledgerVars, mempool, tickets, flying, claim, tip, block, saved, restarts, signed>>

\* The inputs, declarations and claims of a transaction.
Ops(tx) ==
  Cardinality(tx.spends) + Cardinality(tx.deposits) + (IF tx.stake = 0 THEN 0 ELSE 1)
    + MapThenSumSet(LAMBDA v : tx.rewards[v], Vouchers) + Cardinality(tx.tickets)

\* What a host may sign: any operations together, on any notes, those of a draft
\* or of a transaction that is pending among them.
SignedTxs ==
  {tx \in [kind : {"signed"}, spends : SUBSET Ids, funded : {{}}, deposits : SUBSET Ids,
            reserves : {{}}, stake : Ids \cup {0}, rewards : [Vouchers -> 0 .. MaxOps],
            tickets : SUBSET Tickets] : Ops(tx) <= MaxOps}

Carried(tx) ==
  {name \in {"join", "claim", "pow"} :
     \/ name = "join" /\ tx.stake # 0
     \/ name = "claim" /\ Claims(tx) # {}
     \/ name = "pow" /\ tx.tickets # {}}

\* submit_signed_transaction: nothing in it is looked at but the inputs of its
\* transfers, and those that exist are reserved.
SubmitSigned ==
  /\ Free("fund")
  /\ Cardinality({i \in DOMAIN mempool : mempool[i].kind = "signed"}) < MaxSigned
  /\ \E tx \in SignedTxs :
       /\ Enqueue([tx EXCEPT !.reserves = tx.spends \cap notes])
       /\ signed' = signed \cup Carried(tx)
  /\ UNCHANGED <<ledgerVars, tickets, flying, claim, tip, block, saved, restarts>>

\* claimableVouchers
Claimable == {v \in Vouchers \ claimed : \A tx \in Pending : v \notin Claims(tx)}

\* leader_claim, up to its second lock: it has read the first claimable voucher
\* and let go of the mutex.
ClaimRead(c) ==
  /\ Free("claim")
  /\ claim[c] = 0 /\ Claimable # {}
  /\ claim' = [claim EXCEPT ![c] = Min(Claimable)]
  /\ UNCHANGED <<ledgerVars, poolVars, tip, block, saved, restarts, signed>>

\* leader_claim, the rest; it may fail to fund the fee.
ClaimSubmit(c) ==
  /\ Free("claim")
  /\ claim[c] # 0
  /\ claim' = [claim EXCEPT ![c] = 0]
  /\ \/ \E funded \in Fundings({}) : Enqueue([Plain("claim", funded) EXCEPT !.rewards[claim[c]] = 1])
     \/ UNCHANGED <<mempool, reserved>>
  /\ UNCHANGED <<ledgerVars, tickets, flying, tip, block, saved, restarts, signed>>

\* blend_join_as_core_node: the collateral is not reserved.
BlendJoin ==
  /\ Free("join")
  /\ \E n \in notes : \E funded \in Fundings({n}) :
       Enqueue([Plain("join", funded) EXCEPT !.stake = n])
  /\ UNCHANGED <<ledgerVars, tickets, flying, claim, tip, block, saved, restarts, signed>>

\* claimPow, for pow_claim and the node's auto-claim: every ticket that is not
\* in flight, paid from the reward.
PowClaim ==
  /\ Free("pow")
  /\ tickets \ flying # {}
  /\ flying' = flying \cup tickets
  /\ Enqueue([Plain("pow", {}) EXCEPT !.tickets = tickets \ flying])
  /\ UNCHANGED <<ledgerVars, tickets, claim, tip, block, saved, restarts, signed>>

-----------------------------------------------------------------------------
(* Blocks. *)

\* processBlock takes the pending transactions in the order they came, up to
\* the first submitted in the block's slot or later: BlockEnd may come early.
BlockBegin ==
  /\ block = "closed" /\ tip < MaxHeight
  /\ block' = "open"
  /\ UNCHANGED <<ledgerVars, poolVars, claim, tip, saved, restarts, signed>>

\* Mutants: a claimed voucher is paid again; a locked note can be spent.
VoucherOkAlways(tx) == TRUE

VoucherOk(tx) == Claims(tx) \cap claimed = {}

SpendOkLocked(tx) == tx.spends \cap tx.deposits = {} /\ Taken(tx) \subseteq notes \ channel

\* take(): the inputs exist, are taken once, and are neither locked nor in a channel.
SpendOk(tx) ==
  tx.spends \cap tx.deposits = {} /\ Taken(tx) \subseteq notes \ (channel \cup service)

\* A declaration needs a note that is free; one of this node, that there is none.
StakeOk(tx) ==
  tx.stake # 0 => tx.stake \in notes \ (channel \cup service) /\ (tx.kind = "join" => ~declared)

\* There is something to pay the fee with: a note that is spent, or a reward.
FeeOk(tx) == tx.kind # "unpaid" /\ (tx.spends # {} \/ Claims(tx) # {} \/ tx.tickets # {})

\* applyTx can accept the transaction.
Valid(tx) ==
  /\ FeeOk(tx)
  /\ SpendOk(tx) /\ StakeOk(tx) /\ VoucherOk(tx)
  /\ tx.tickets \subseteq tickets

\* It can reject one for what is left out here: collateral of too little value;
\* of a signed one, the fee, an order of its operations, or other operations.
MayFail(tx) == tx.kind \in {"join", "signed"}

\* A transaction pays at most one new note to the wallet's keys that matters
\* here; deposited notes stay, as notes of the channel.  A declaration that comes
\* before the transfer that spends its note locks an entry without the note.
Accept ==
  LET tx == Head(mempool)
      rest == (notes \ tx.spends) \cup ({tx.stake} \ {0}) IN
  /\ block = "open" /\ mempool # <<>> /\ Valid(tx)
  /\ mempool' = Tail(mempool)
  /\ \/ notes' = rest /\ UNCHANGED used
     \/ used < MaxNotes /\ used' = used + 1 /\ notes' = rest \cup {used'}
  /\ channel' = channel \cup tx.deposits
  /\ service' = service \cup ({tx.stake} \ {0})
  /\ declared' \in (IF tx.stake = 0 THEN {declared} ELSE IF tx.kind = "join" THEN {TRUE} ELSE {declared, TRUE})
  /\ reserved' = [n \in Ids |-> IF n \in Taken(tx) \cup tx.reserves THEN -1 ELSE reserved[n]]
  /\ claimed' = claimed \cup Claims(tx)
  /\ paid' = [v \in Vouchers |-> paid[v] + tx.rewards[v]]
  /\ tickets' = tickets \ tx.tickets /\ flying' = flying \ tx.tickets
  /\ UNCHANGED <<claim, tip, block, saved, restarts, signed>>

\* Mutants: the notes of a rejected transaction stay reserved for good; they are
\* released a block late.
RejectKeepsNotes ==
  LET tx == Head(mempool) IN
  /\ block = "open" /\ mempool # <<>> /\ (~Valid(tx) \/ MayFail(tx))
  /\ mempool' = Tail(mempool)
  /\ flying' = flying \ tx.tickets
  /\ UNCHANGED <<ledgerVars, reserved, tickets, claim, tip, block, saved, restarts, signed>>

RejectLate ==
  LET tx == Head(mempool) IN
  /\ block = "open" /\ mempool # <<>> /\ (~Valid(tx) \/ MayFail(tx))
  /\ mempool' = Tail(mempool)
  /\ reserved' = [n \in Ids |-> IF n \in tx.reserves THEN tip + 2 + Expiry ELSE reserved[n]]
  /\ flying' = flying \ (tx.tickets \cap tickets)
  /\ UNCHANGED <<ledgerVars, tickets, claim, tip, block, saved, restarts, signed>>

\* A transaction the ledger rejects is dropped; its notes are released later.
Reject ==
  LET tx == Head(mempool) IN
  /\ block = "open" /\ mempool # <<>> /\ (~Valid(tx) \/ MayFail(tx))
  /\ mempool' = Tail(mempool)
  /\ reserved' = [n \in Ids |-> IF n \in tx.reserves THEN tip + 1 + Expiry ELSE reserved[n]]
  /\ flying' = flying \ (tx.tickets \cap tickets)
  /\ UNCHANGED <<ledgerVars, tickets, claim, tip, block, saved, restarts, signed>>

\* Mutants: a reservation in flight counts as due; a block late.
DueInFlight(n) == reserved[n] >= 0 /\ reserved[n] <= tip + 1

DueLate(n) == reserved[n] > 0 /\ reserved[n] < tip + 1

\* The reservation of n ends with this block.
Due(n) == reserved[n] > 0 /\ reserved[n] <= tip + 1

\* Mutant: tickets in flight expire too.
ExpirableAll(found) == tickets \cup found

\* The tickets that may have left the slot window.
Expirable(found) == (tickets \cup found) \ flying

\* The rest of processBlock: reservations end, mining may find tickets, and
\* those outside the slot window expire unless a claim carries them.
BlockEnd ==
  /\ block = "open"
  /\ block' = "closed" /\ tip' = tip + 1
  /\ reserved' = [n \in Ids |-> IF Due(n) THEN -1 ELSE reserved[n]]
  /\ \E found \in SUBSET (Tickets \ tickets) : \E old \in SUBSET Expirable(found) :
       tickets' = (tickets \cup found) \ old
  /\ UNCHANGED <<ledgerVars, mempool, flying, claim, saved, restarts, signed>>

-----------------------------------------------------------------------------
(* Restarts. *)

\* saveState, every 5 s.
Save ==
  /\ block = "closed"
  /\ saved' = Ledger
  /\ UNCHANGED <<ledgerVars, poolVars, claim, tip, block, restarts, signed>>

\* What is not in the state file is gone.
Forget ==
  /\ reserved' = [n \in Ids |-> -1] /\ mempool' = <<>>
  /\ tickets' = {} /\ flying' = {}
  /\ claim' = [c \in Claimers |-> 0]
  /\ restarts < MaxRestarts /\ restarts' = restarts + 1

\* A stop, which saves first, and the next start.
Restart ==
  /\ block = "closed"
  /\ saved' = Ledger
  /\ Forget
  /\ UNCHANGED <<ledgerVars, tip, block, signed>>

\* A kill and the next start, from what was last saved.
CrashRestart ==
  /\ notes' = saved.notes /\ service' = saved.service /\ channel' = saved.channel
  /\ declared' = saved.declared /\ claimed' = saved.claimed /\ paid' = saved.paid /\ tip' = saved.tip
  /\ block' = "closed"
  /\ Forget
  /\ UNCHANGED <<used, saved, signed>>

-----------------------------------------------------------------------------

Call ==
  \/ Transfer \/ DepositWithNotes \/ DepositUnpaid \/ FundTx \/ SubmitSigned \/ BlendJoin \/ PowClaim
  \/ \E c \in Claimers : ClaimRead(c) \/ ClaimSubmit(c)

Next ==
  \/ Call
  \/ BlockBegin \/ Accept \/ Reject \/ BlockEnd
  \/ Save \/ Restart \/ CrashRestart

Spec == Init /\ [][Next]_vars

-----------------------------------------------------------------------------
(* Properties. *)

TypeOK ==
  /\ notes \in SUBSET Ids /\ service \in SUBSET Ids /\ channel \in SUBSET Ids /\ declared \in BOOLEAN
  /\ reserved \in [Ids -> -1 .. MaxHeight + Expiry]
  /\ mempool \in Seq(Tx) /\ Len(mempool) <= MaxPool
  /\ claimed \in SUBSET Vouchers /\ paid \in [Vouchers -> Nat]
  /\ tickets \in SUBSET Tickets /\ flying \in SUBSET Tickets
  /\ tip \in 0 .. MaxHeight /\ block \in {"closed", "open"}
  /\ claim \in [Claimers -> Vouchers \cup {0}] /\ signed \in SUBSET {"join", "claim", "pow"}
  /\ used \in 0 .. MaxNotes /\ restarts \in 0 .. MaxRestarts

\* No note is picked to fund two transactions that are pending together.
FundedOnce ==
  \A i, j \in DOMAIN mempool : i # j => mempool[i].funded \cap mempool[j].funded = {}

\* "Funding ... reserves them until the tx lands": the notes that fund a pending
\* transaction are reserved.
ReservedUntilLanded == \A tx \in Pending : \A n \in tx.funded \cap notes : reserved[n] # -1

\* A reservation without a release height belongs to a pending transaction: it
\* ends when the transaction lands, or gets a height when it is rejected.
ReservationEnds == \A n \in Ids : reserved[n] = 0 => \E tx \in Pending : n \in tx.reserves

\* A reservation with a release height ends at it, and not later than Expiry
\* blocks after the rejection.
ReleasedInTime ==
  block = "closed" => \A n \in Ids : reserved[n] > 0 => reserved[n] > tip /\ reserved[n] <= tip + Expiry

\* Two claims may race for a voucher, but the chain pays it once, unless the host
\* signs a transaction of its own that claims one, and claims it twice.
VoucherPaidOnce == "claim" \notin signed => \A v \in Vouchers : paid[v] <= 1

\* The collateral of a declaration stays: no pending transaction that named or
\* picked the note before it was locked can still spend it or deposit it, unless
\* the host signs a declaration of its own, which may spend its collateral.
StakeStays == "join" \notin signed => service \subseteq notes \ channel

\* A ticket is in flight exactly while a pending claim carries it, and no two
\* carry the same, unless the host signs a claim of its own, of any ticket.
TicketsAccounted ==
  "pow" \notin signed =>
    /\ flying = UNION {tx.tickets : tx \in Pending} /\ flying \subseteq tickets
    /\ \A i, j \in DOMAIN mempool : i # j => mempool[i].tickets \cap mempool[j].tickets = {}
=============================================================================
