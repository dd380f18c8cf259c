# TLA+ models of the Logos blockchain module

This directory models the C++ blockchain module (`src/src/`), the simulated
node it is developed against (`src/mock/src/`), the Rust client
(`src/rust-client/`) and the zone-sdk adapter (`src/zone-sdk/`), with TLA+
modules, TLC configurations, and proofs for the TLA+ proof system. `PROJECT.json`
maps every definition to the lines it was translated from and lists runs,
mutants, findings, hazards and theorems.

    tlc -config streams_serial.cfg BlockStreams     # a run
    tlapm BlockStreamsProofs.tla                    # proofs; so the other *Proofs modules

## 1. The system

A host loads **one module object** and calls it through generated bindings. The
module owns at most one node, reached through a C FFI. Its calls are thin: check
that a node runs, convert the arguments, call the FFI, convert the result. What
is not thin is the lifecycle. Events travel the other way, through C callbacks
that carry no user data, so they find the object through the static
`s_instance`. The FFI is implemented by the real node or by a simulated one. The
simulated node is in this repository and is what the models translate; the real
one is external.

| Component | State | Operations | Talks to |
|---|---|---|---|
| Module lifecycle and streams (`logos_blockchain_module.cpp`) | `node`, `node_config_path`, `is_*_subscribed`, static `s_instance` | `start`, `stop`, destructor, `subscribe_to_*`, three callbacks | FFI calls down; callbacks up, on the node's thread; events to the host |
| Node thread (`mock_chain.cpp`: `run`, `tick`, `dispatch`, `shutdown`) | mutex, condition variable, `m_stopping`, `m_failed`, `m_streams` | tick every 100 ms under the mutex, dispatch with it released, join on shutdown | callbacks; every FFI call takes its mutex |
| Chain (`extendNetworkChain`, `processBlock`, `setLib`) | `m_chain`, `m_ourSlots`, `m_networkScanned`, `m_tip`, `m_lib`, `m_mode` | scan slots, lead, download, go Online, move the LIB | state file; waiting callers; streams |
| State file (`loadState`, `saveState`, `purge_state`) | `mock_node_state.json` | save every 5 s and on stop, load on start, purge while stopped | chain, wallet |
| Wallet, mempool, ledger | `m_notes`, `m_reserved`, `m_mempool`, `m_vouchers`, `m_tickets`, `m_declaration` | transfers, deposits, drafts, claims, declaration; verdict per block | chain (blocks), state file |
| Blend rewards, PoW auto-claim | declarations, online epochs, auto-claim targets | activity per epoch, reward split, claim tick | wallet |
| PoW configuration (`pow_configure`, `read_pow_config`, `user_config_reader.cpp`) | the user's YAML file | validate, merge, write and rename; read back | file system |
| Config generation, persistence paths | files | generate, check, purge | file system |
| Rust client, generated (`generated.rs`) | a proxy | one blocking and one callback form per method, event subscriptions | host |
| Rust client, typed (`lib.rs`, `reply.rs`, `types.rs`) | none | encode arguments, classify and decode replies, decode stream items | generated layer |
| zone-sdk adapter (`zone-sdk/`) | per stream: a listener thread, an inbox, a 64-item channel; per call: a oneshot channel | `call`, `event_stream`, the methods of the SDK's `Node` | Rust client |

The clients live in other processes or modules. The host queues their requests
for the module's one thread and sends replies and events back; it may lose or
give up on any of them.

### What is hard here

* **Two threads and one static.** `stop()` runs on the host's thread, callbacks
  on the node's. Between them are plain and atomic fields, a thread that is
  joined, and a mutex that is released around every callback.
* **Several callers.** `stream::subscribe` is written for concurrent callers.
  The blocking wallet calls are *inside* the node when `stop()` deletes it.
* **Restarts.** Part of the state is saved, part is derived again from the
  network, part is lost. A kill rolls back up to five seconds.
* **Modes.** A LIB that must not move until the node is Online, and three ways
  to become Online.
* **Reservations.** A note can be named by callers, picked by funding, locked as
  collateral and spent by an earlier transaction, in any order of blocks.
* **Three queues to a consumer.** Between the module's event and the consumer of
  a zone-sdk stream lie an unbounded inbox, a thread that may be blocked, and a
  bounded channel; each can lose its other side at any moment.
* **Answers that never come.** A request can be lost, refused, executed after
  the caller gave up, or wait behind one that waits for the node.

### What makes each component correct

* *Lifecycle*: `stop()` is final; the flags say whether a stream is live; one
  subscription per stream; each end of stream arrives; `stop()` terminates.
* *Chain*: finality survives restarts; the LIB follows its rule on every path;
  no wakeup of a waiting caller is lost.
* *Wallet*: no note funds two pending transactions; reservations last exactly as
  long as they should; vouchers and tickets are paid once and collateral stays,
  as far as the host leaves them to the wallet.
* *PoW configuration*: a call that fails changes nothing, one that succeeds
  exactly what it was asked, one that is killed nothing or all of it; the node can start on the result; what is read can
  be written back.
* *Client*: what the module did and what the caller is told agree; a caller
  knows when it cannot know the outcome; every call ends; both sides have the
  same list of methods.
* *Adapter*: every item once and in order, also past a full channel; an end
  reaches the consumer after the last item; a dropped stream ends its thread.

## 2. Modules

### StreamFeed: what a consumer is promised

Per stream, a feed that is opened by a subscription and ends with one null or is
cut by a stop. Items carry increasing heights, consecutive ones on the two block
streams; an open feed cannot be opened again.

### BlockStreams: lifecycle, streams and callbacks

One step is one access to state another thread can see.

| Code | Model |
|---|---|
| `start` | `StartCreate` (FFI returns a node whose thread runs), `StartPublish` (`s_instance = this`), then three times the subscribe steps; `Finish` goes on or returns the first failure |
| `subscribe_to_*` / `stream::subscribe` | `SubscribeCheck` (`if (!node)`), `SubscribeClaim` (the compare-and-exchange), `SubscribeRead` (the lambda reads `node`), `SubscribeCall` (the FFI call under the mutex), `SubscribeUndo` |
| `stop`, destructor, `shutdown_node` | `StopBegin` (`s_instance = nullptr`), `StopSignal`, `StopJoin`, `StopClear`, `StopFlags` |
| `run`, `tick` | `TickBegin` .. `ProcessBlock`* .. `TickEnd` hold the mutex (`Unlocked` is false); `TickFail`; `ThreadExit` |
| `dispatch`, callbacks | `CallbackCheck`, `CallbackFlag`, `CallbackEmit`: the three uses of `s_instance` |

A null `s_instance` or a deleted node in use sets `fault` and ends the process
(`Crashed`). Left out: payloads, `node_config_path`, `NotStarted`, and FFI calls
from inside a callback, which abort by design. `StopFlags` clears three flags in
one step, because no step reads two of them. Lifecycle calls come from one
caller: `node` is a plain pointer and the host dispatches calls one at a time.
Subscribers may be any number.

### ChainNode: chain, modes, state file, waiters

A tick is one step (it holds the mutex). A block is its slot, so the chain is a
set; indices into the code's sorted vector are slots here. `Start` is
`Node::start` with `loadState`, `Tick` composes `extendNetworkChain`, the
download, the mode change and the periodic save; `Crash` kills the process
between any two steps. A waiter is in `Wait` when the predicate of
`blockUntilOnline` is false; `WakeAll` is `notify_all`. The real-time conditions
(download rate, prolonged bootstrap, five-second save, grace period) are free
choices: any outcome the timing allows can happen.

### Wallet: notes, reservations, mempool, verdicts

A note is an id; values are abstracted, so a funding may pick any non-empty set
of spendable notes, as some amounts do. A transaction is what its operations do
together: the notes its transfers spend and its deposits move, its collateral,
how often it claims each voucher, its tickets. `wallet_fund_tx` only holds notes,
whatever the caller's operations name: the draft is the caller's.
`SubmitSigned` takes any combination of operations on any notes, vouchers and
tickets (`SignedTxs`), so also a draft that came back, a copy of a pending
transaction, or a declaration with the collateral among its inputs; like the
code it looks at the inputs of transfers only, which it reserves. `signed`
remembers which kinds of operation the host has signed itself (`Carried`).
Because values and the order of operations are not kept, a signed transaction
may also be rejected whatever it holds (`MayFail`). A block is `BlockBegin`, then `Accept`
or `Reject` of the head of the mempool, then `BlockEnd` (reservations end,
tickets found and expired). `leader_claim` is two steps because the code lets go
of its mutex between them. `Restart` and `CrashRestart` keep what `saveState`
writes and forget the rest.

### PowConfig: the user's config file

A document is the set of its leaves, a function from paths to scalars and lists;
merging replaces what the fragment names and keeps the rest, which is what the
recursion of `merge_yaml_mapping` computes.

| Code | Model |
|---|---|
| `pow_configure` up to the merge | `Call` (unknown fields), `Validate` (`UserConfigReader::load`, every check, the fragment) |
| `merge_fragment_into_file` | `MergeFragment` (second reading), `OpenTmp`, `WriteTmp`, `Rename`, `RemoveTmp`; `ReturnApplied` is the way from the rename to the answer |
| `UserConfigReader` | `Loaded` puts `keystore_values` under the file; `scalarAt`, `entriesAt`, `isMappingAt` |
| `read_pow_config` | an operator of the same name, in the shape of a request |
| `generate_key`, `add_key`, `remove_key` | `AddKey`, `RemoveKey`: the effect the reader sees |

`Edit` is the user's editor, which replaces the file at any moment by a document
a node would start on; `Kill` ends the process between two steps. Values are
texts from a small set; thresholds travel with their key and are left out; a
`.tmp` is a part or the whole of the current text, since each call truncates it
before it writes. The reader's two files are read in one step: keystore calls
come through the same host and cannot fall between. `MCPowConfig` supplies the
documents (full, sparse, with null sections, with an include) and the requests.
`InputsAssumption` says what the proofs take from them: documents are
well-formed, and a value of a request is a scalar or a list.

### BlendEpochs: a provider of the Blend network

| Code | Model |
|---|---|
| `tick` | `TickBegin` (the clock, how many blocks the credit allows), the blocks, `TickEnd` (mode, `m_onlineEpochs`, perhaps a save) |
| `processBlock` | `BlockBegin`, an `EpochStart` for each epoch up to the block's, then for each transaction of the mempool `Keep` or `Verdict`, and `BlockEnd` |
| `onEpochStart` | `EpochStart`: `Activity` is what it posts, `Credit` what it pays, if the epoch is shared out at all (`Shared`: enough providers, fees in the epoch, a key that is known); that the draw hits, peers reach the node and the fee can be paid is a choice |
| `applyTx` on opcodes 32 and 34 | `Verdict`, with `Declare` and `Accept`; inputs that are gone are a choice |
| `blendJoin`, `shutdown`, `start` with `loadState` | `Join`, `Stop`, `Start`; `Kill` ends the process, also within a block |

A tick holds the node's mutex, so calls and stops come between ticks (`phase` is
`"rest"`); a step per block, epoch and transaction only makes the loops of one
tick visible. `node` and `disk` are records of what the state file keeps.
The network's chain is the same for every start of the node: after a stop or a
kill the node replays it from what it saved. The mempool is not saved. `nonces`
and `credited` are sequences, so that a repetition shows. Of the fees only this
is kept, which epochs have any (`Income`): `fees` for the network's
transactions, `included` for the node's own, which are in its state file.
Operations 32 and 34 that a host signs itself are left out here.

### OrderedFeed: what a reader of a stream is promised

An abstract log of items, ends and undecodable events, and readers that each
receive every item once and in order from their subscription on, are told of
the end at the first end or when the source is gone and nothing is left, and
receive nothing after it.

### ZoneStream: the adapter's streams

The module's side is an instance of `StreamFeed` with the processed-block
stream, the specification that `BlockStreams` is proved to implement, calls coming one at a time; so the
adapter meets exactly the events the module can send: a null at an end, none at
a stop, heights without a gap within one run of a feed.

| Code | Model |
|---|---|
| `event_stream` up to the thread | `Subscribe`, `SubscribeFails` |
| `while !tx.is_closed()` | `Check` |
| `recv_timeout` and `decode_item` | `RecvEvent` (`block_item`, then `AfterItem`), `RecvNothing` (timeout or disconnect) |
| `blocking_send` | `Send`: blocked while the channel is full, fails once the stream is dropped |
| `stream::unfold` over `rx.recv` | `Poll`, `PollNone`, `Drop` |
| the host's side of a subscription | `LinkDown`: the sender is gone, what is queued can still be read |

The inbox of a listener is the part of the log it has not read; a channel holds
places in the log. Each call of `recv_timeout` is one step, its second of
waiting is left out. A run that the source cuts and reopens while a stream is
open is a `stop` and a `start` of the module.

### ClientReply, ClientContract, ClientCalls

`ClientReply` holds the pure part: `classify`, `unwrap`, `decode`, `decode_opt`,
`unit`, amounts, stream items, the SDK's kinds of error. A JSON value is a type
it decodes as, possibly inside a string; an error text is the set of phrases it
contains. `ClientContract` lists the parameters of every method of the generated
client and of `blockchain_module.lidl`.

`ClientCalls` runs calls through them. A call is begun by the typed client's
blocking form or by the SDK; `Execute` is the module doing what its method can
do in the state of its node (`Does`, `Replies`); `Refuse` and `HostFails` are
the host's; `Land` decodes, `LandClosed` finds the oneshot channel closed,
`Cancel` drops the future. `Blocked` is the module's thread inside `blockUntilOnline`.
What the module really did is kept in `truth`, for the properties.

### The *Proofs modules

One per component: `BlockStreamsProofs`, `StreamFeedProofs`
(the refinement of `StreamFeed`), `ChainNodeProofs`, `WalletProofs`,
`PowConfigProofs`, `BlendEpochsProofs`, `ZoneStreamProofs`, `ClientCallsProofs`.
Section 5.

## 3. Runs

| Run | Question | Instance |
|---|---|---|
| `streams_serial` | Is the lifecycle right against the node's own thread? | no other caller, 2 nodes, 3 blocks |
| `streams_subscribers` | ... with a concurrent subscriber? | 1 subscriber, 1 node, 1 block |
| `streams_late_callback` | (violated) Are late callbacks ignored? | 1 node, 1 block |
| `chain_node` | Finality, LIB and waiters, over stops, kills and purges | 3 starts, 1 kill, 4 slots, K = 1, 2 waiters, all peer kinds |
| `chain_leader` | (violated) Finality of a node that leads | 3 starts, 6 slots |
| `wallet_funding` | Funding and reservations, racing claims | 2 notes of at most 3, 2 pending, 2 blocks, 1 restart |
| `wallet_collateral` | Caller-chosen notes and operations against collateral; tickets | 2 notes, 2 tickets, 2 pending, 1 of them signed by the host with up to 3 operations, 2 blocks, 1 restart |
| `config_write` | Is a write all or nothing, and does the node start on it? | 4 kinds of document, 25 requests, 2 calls, 1 edit, 1 key change, 1 kill |
| `config_full_disk` | (violated) Does a failed write leave the file alone? | as above, the last flush may fail |
| `blend_epochs` | Is a provider kept and paid as it served? | 5 epochs of 2 slots, at most 1 without a block, inactivity period 1, 1 other provider of 2 needed, 1 epoch that may have no fees, 1 declaration, 2 starts, 1 save before a kill |
| `zone_stream` | Is a zone-sdk stream complete, ordered and over at the right time? | 1 listener, a channel of 1, 3 events, 3 heights |
| `client_calls` | Are callers told what happened, and does every call end? | 2 calls of 13 client and 5 SDK methods |

**Why the bounds are enough.** In the stream runs two nodes let something of
the first meet the second, and three blocks with K = 1 let the LIB stand, jump
and advance. In `chain_node`, a chain with a gap (slots 1, 2, 4) tells slots
from indices; three starts allow a kill, a resume and another stop; two waiters
tell `notify_all` from `notify_one`. In the wallet, a race needs two pending
transactions; two notes make them collide or not, and an `Expiry` of one block
puts a release between two blocks. Three operations let a transaction of the host
declare a note, spend it and claim a ticket; one at a time is enough, because the
other pending transaction may be a claim, a declaration or a deposit.
`wallet_collateral` has no vouchers and `wallet_funding` no signed transactions:
that a signed one may claim a voucher is covered by the theorem only. In `config_write` a second call meets what
the first one wrote, or the temporary file a kill left; the requests hold every
field alone, all at once, and each way a target can be wrong. `config_write`
leaves the failing flush to `config_full_disk`. In `blend_epochs` an epoch of two
slots has the block that posts an activity and the one that takes it, or with an
empty slot only the first; five epochs hold a declaration, its activation, a
missed or proved epoch, the drop-out and the reward; the network alone is too
small to be paid, and in epoch 2 (the one left out of `Busy`, and the one whose
activity can be paid) blocks may be empty, so that it is shared out only if
someone paid a fee; the second start replays
what the first did not save. In `zone_stream` listeners do
not meet, so one is enough; with a channel of one item, one event can be with
the consumer, one in the channel and one in the thread's hand, and three events
hold a stop, an end or an undecodable event between two blocks. (The refinement
is proved for all values.) In `client_calls` a second call meets a request that
is still queued after the host gave up, a node that has stopped, or a thread
that is blocked; the methods are one of every way to decode a reply, plus the
lookups, one that waits, some that need no node, and one that the module refuses. Every property has a mutant in
`PROJECT.json`, a plausible bug in a mapped definition under which TLC finds the
property violated within the same bounds.

### Fairness

* BlockStreams: weak fairness of the node's thread (the scheduler runs it and
  `wait_for` returns after 100 ms). Strong fairness of a call that has begun: it
  may need the mutex, which the thread gives up after every tick. Nobody is
  assumed to make a call.
* ChainNode: the thread leaves its loop once told to stop, `shutdown` goes on
  after the join, a woken waiter is scheduled. Ticks, the way to Online, and
  spurious wakeups are not assumed. In particular the liveness properties hold
  without them.

* ZoneStream: weak fairness of the listener's thread, and of a consumer that
  polls until it drops its stream. The module and the host may do nothing.
* ClientCalls: weak fairness of the module's thread, of the host's refusals and
  of the delivery of a reply that is there. That the node goes Online is not
  assumed: `Resolves` is about behaviours in which the module's thread is not
  blocked for ever.

In the stream and chain modules liveness is stated up to `fault`, since undefined behaviour ends the process.

## 4. What the runs show

**Lifecycle.** With one caller, `stop()` is final (`StopIsFinal`), flags are
accurate between calls (`FlagAccurate`: set exactly when the stream is live or
its null is still to arrive), a successful `start` has subscribed everything,
every end clears its flag, `stop()` returns, and the events implement
`StreamFeed` (`FeedSpec`). With a subscriber on another thread and one node,
no stream is subscribed twice (`OneSubscriber`), and `stop()` is still final, by
the theorem of section 5.

One claim of the source is not met:

* *A late callback is not ignored* (`streams_late_callback`). The callback tests
  `s_instance` and reads it again; `stop()` clears it in between.

A second one is met for one node only: with a restart, a call that has claimed
its flag is overtaken by `stop()`, which resets the flag, and a `start()`, which
subscribes; the call then subscribes the new node a second time (`OneSubscriber`
with `MaxRuns = 2`). Nor are flags accurate with a second caller: it can subscribe
between the two steps of `start()` that set `node` and `s_instance`, and a node
that fails then sends its null to a callback that ignores it, so the flag stays
set until the next stop (`FlagAccurate` with one node).

**Chain.** Without stake, the chain up to the LIB is the same after every
restart (`FinalityKept`), the LIB is never lost except to a kill (`LibDurable`),
an Online node has it exactly K behind its tip (`OnlineLib`), and both going
Online and stopping wake every waiter. With stake, finality does not survive
(`chain_leader`): a slot the node led ahead of its tip is saved as its own but
not put on the rebuilt chain, and appears below the LIB two restarts later.

**Wallet.** Funding is disjoint, reservations outlast their pending
transactions and end with them or `Expiry` blocks after a rejection, a voucher
is paid once even though two claims for it may be pending together, tickets in
flight are those of the pending claims, and no transaction submitted before or
after a declaration can spend its collateral. The last three hold up to what the
host signs itself, and say so (`signed`), because `submit_signed_transaction`
looks at nothing but inputs, and the ledger checks an operation against the
state before the transaction:

* two operations 48 for one voucher in one transaction are both paid
  (`VoucherPaidOnce` without its condition fails);
* a declaration may be followed, in its own transaction, by a transfer or a
  deposit of its collateral, which `wallet_fund_tx` may even have picked
  (`StakeStays`); transactions that only spend or deposit are covered, in
  whatever order they come;
* a copy of a pending PoW claim carries the same ticket, and a fresh claim one
  that `m_ticketsInFlight` does not have (`TicketsAccounted`).

A draft that is never submitted
keeps its notes reserved, where the FFI's notes promise a release after a number
of blocks; `ReservationEnds` is therefore checked without drafts.

**Blend.** A provider enters the core set two epochs after its declaration and
stays until it has missed more than the inactivity period (`CoreSetRule`); what
is accepted is paid in the second epoch after, also when a replay posts it, if
that epoch has rewards (`RewardOnTime`), once and only for epochs it was a provider and Online in
(`EarnedOnly`); nonces land in order over restarts (`NoncesGrow`). Both the
rule and the reward have an exception, an epoch of less than two blocks: the
activity then lands with the first block of the next epoch, too late for its reward.
An epoch has rewards if its blocks carried fees, the network with this provider
is large enough, and the key is one of the wallet's (`HasRewards`); otherwise an
accepted activity is never paid.

**PoW configuration.** Short of a failing flush, a call that is rejected or fails
leaves the file as it was, and one that is killed leaves the old file or the new
one whole (`FailedCallKeepsFile`): the new one if the kill falls between the
rename and the answer. One that
succeeds changes the fields it names and no others (`SuccessApplies`); over
calls, edits between calls and key changes, the node never finds a value it
refuses, unless a key was removed later (`StaysBootable`); and a section that
has every field can be read and written back unchanged (`FullRoundTrip`). One claim
is not met:

* *A failed write may replace the file* (`config_full_disk`). The stream's state
  is asked before the buffered text is flushed; the incomplete file is renamed
  into place and success is reported.

A section without every field cannot be written back: an absent field is read as
an empty string, which is refused; a tick in slots comes back as seconds.

**Streams of the SDK.** The adapter implements `OrderedFeed` (`OrderedSpec`): a
full channel stops the thread and not the items, and the end comes after the
last item even when the sender is gone with events queued. Between two items of
one run no height is missing unless an event could not be decoded
(`NoSilentGap`); such an event does not stop the stream, nor does a stop and
start of the module (`ItemReaches`); every end that is sent reaches the consumer
(`EndReaches`); a dropped stream ends its thread (`ListenerEnds`). A stop sends
no end: the stream silently continues with the next node.

**Calls.** Except for `get_transaction`, whose message for an unknown hash no
phrase of `classify` matches, a caller is told what the module did
(`ToldWhatHappened`): a stopped node is never an absent value. A caller of the
SDK with a value or a server's error knows that its request is not executed
later (`SureOfOutcome`); with a client's error it cannot know, and posting a
transaction again may post it twice. Every call ends (`Resolves`), unless it
waits behind `leader_claim` or a PoW claim on a node that never goes Online; a
`stop` is such a call too.

The tables of `ClientContract` show what no run is needed for: the committed
client is not the module's contract. `participate` has other parameters in
another order, of which the host sees only that there are four. The key methods
have one more than the module's and are refused.

More weaknesses met while modelling are listed as hazards with a note: a
failing node does not wake its waiters; a waiter or a subscriber can be inside a
node while it is deleted; a rejection can release a note that another pending deposit names;
an edit can fall between the two readings of the config; a zone-sdk stream
opened after an end of stream stays silent.

## 5. What is proved

Every invariant of the passing runs, the two refinements, and the action
properties `StartSubscribesAll` and `NoSilentGap` are theorems. The
constants are free: any number of callers, blocks, notes, keys, listeners and
restarts, any bounds. The assumptions on them are those of the modules: bounds
are naturals, the owner is not a subscriber, a channel has room for one item,
what the editor writes is a document (`InputsAssumption`). What a theorem assumes
beyond them is the hypothesis of the run that checks it, and said below.

Each proof has the same shape: a type invariant; an inductive invariant with the
facts that `TypeOK` and the property leave out; a lemma that every action keeps
it, a step per action; and the property from it.

**BlockStreamsProofs**, for any number of subscribers:

* `TypeCorrect`. `TypeOK` is inductive; the interesting conjunct is
  `lib \in 0 .. MaxHeight`, which rests on the lower bound in `LibAt`.
* `StopIsFinalCorrect`. `StopIsFinal` speaks only of states in which no node
  runs: to know that the thread is gone when `node` becomes null one must know
  that the node that exists is the one the module holds, that a deleted node has
  no thread, that a thread between ticks has no events, and that `s_instance` is
  null from the beginning of a stop to the next start (`Lifecycle`).
* `StartSubscribesAllCorrect`. `Starting` says of a `start()` under way that the
  streams it is done with are set or the node has failed; no other caller can
  unset one, because `stop()` is the owner's (`SubscribeKeeps`).

**StreamFeedProofs**:

* `FlagAccurateCorrect`, where calls come one at a time (`Subscribers = {}`).
  `Flags` follows the flags along the owner's calls: between the claim of a flag
  and the node's answer the flag is ahead of the node. `Queue`, which holds for
  any callers, says what can be queued: a failed node has no callbacks and only
  ends, a healthy one no ends, and only events of streams that have a callback.
* `OneSubscriberCorrect`, for one caller over any number of nodes and for any
  number of callers over one node, the hypothesis of its run. For the latter
  `Exclusive`: while the node exists, a flag that is set stands for one claim or
  for a live stream and not for both; the flags are reset only once the node is
  gone; before the first start no claim gets past the check of the pointer.
* `FeedCorrect`: `Spec => FeedSpec`, where calls come one at a time. A step of
  the consumer is a step of `StreamFeed` (`RefineFeed`) because of `Continues`:
  what is queued of a block stream is an interval of heights that ends at the
  tip and begins behind the last height delivered, and what is queued of the LIB
  stream increases.

**ChainNodeProofs**:

* `TypeCorrect`, `LibDurableCorrect`, for every kind of stake. `LibDurable` needs
  `ChainKept`: the node's LIB is a block of its chain, every block is the
  network's or its own and not above what was scanned, and the same holds of the
  chain that a start would rebuild from the state file. Then the last final
  block is the LIB of the node or of the file, until a kill (`LibKept`).
* `OnlineLibCorrect`, `FinalityKeptCorrect`, for `Stake = "none"`: with stake the
  run `chain_leader` shows the second one violated. `NetKept` says that the chain
  is the network's up to where it was scanned, that a file that says Online has
  the rule's LIB for the chain it stands for, and that what is final is a prefix
  of the network's chain. That the LIB of a longer chain is not lower is
  counting of finite sets; least elements come from well-foundedness of `<`.

**WalletProofs**:

* `TypeCorrect`; `ReleasedInTimeCorrect` (`Timely` allows a reservation to end
  with the block that is open).
* `VoucherPaidOnceCorrect`, `StakeStaysCorrect`, `TicketsAccountedCorrect`, with
  every call and every signed transaction, each as long as the host has signed no
  claim of a voucher, no declaration, no claim of a ticket; the condition is in
  the property, and what a transaction carries without it is `Untraced`.
  `PaidOnce`: paid exactly what is claimed, in the state file too, and what is
  pending claims each voucher once. `CollateralKept`: also no pending declaration
  spends its own collateral, and a kill goes back to a ledger that has it.
* `ReservationEndsCorrect`, where `"fund"` is not among the calls: a draft holds
  notes that no pending transaction names.
* `FundedOnceCorrect`, `ReservedUntilLandedCorrect`, where neither `"fund"` nor
  `"deposit"` is among the calls: a caller may name a note that is in use. The
  invariant `Funding` says that pending transactions hold disjoint notes in flight
  and no others, and that no id is given out twice. The run `wallet_funding`
  has the same hypothesis: the deposits among its calls are the `"unpaid"` ones,
  which reserve nothing and which no block accepts.

**PowConfigProofs**:

* `TypeCorrect`. Inductive is that every document is well-formed: its paths are
  not empty, no leaf lies below another, targets are keys. `MergeWellFormed`
  shows that a merge keeps that, because a fragment's leaves lie beside each
  other (`PowPathsFlat`) and a merge drops what is nested in one of them.
* `FailedCallKeepsFileCorrect`, for `LosesFlush = FALSE`; `config_full_disk` shows
  what a lost flush does. `Untouched`: from the first step of a call to its
  rename the file is the one the call began with, unless an edit fell into it.
  From the rename on, `Progress` says that all that was asked is there.
* `SuccessAppliesCorrect`, likewise. `Progress` says how far a call has come: what it
  validated, what it merged, both of the file as it still is. `AppliedByMerge` is
  what a merge and a reading of it come to for an accepted request.
* `StaysBootableCorrect`, also with a lost flush, whose result no node reads.
  `MergeBoots`: an accepted request merged into a bootable file leaves one,
  because the leaves below `known_keys` stay (`TracksKeeps`) and each count was
  validated. `BootableGrows`: more keys never hurt, which is why removed keys
  can be counted as still there.
* `FullRoundTripCorrect`, for documents whose thread count is null or a number
  and whose targets are a list (`DocumentsReadable`). The node that `Bootable`
  models reads neither strictly and starts on a word there; `pow_configure`
  refuses the word. The documents of `MCPowConfig` are all readable.

**BlendEpochsProofs**, for epochs of any length, any inactivity period, any
chain, any number of other providers and any fees, with any number of declarations asked for, starts, saves and kills. What
is known of the length is that it is not zero: a later slot is not in an earlier
epoch (`EpochGrows`).

* `TypeCorrect`, by itself.
* `CoreSetRuleCorrect`, `RewardOnTimeCorrect`, `EarnedOnlyCorrect`,
  `NoncesGrowCorrect`, from one invariant `Inv`. Its core is `Sound`, which says
  of a ledger, along the epochs that have started and the blocks that were
  taken, how the four properties hang together:
  `InForce` (a declaration is active because it is new, or because of an activity
  that landed in the epoch after the one it proves, or later where that epoch has
  fewer than two blocks: `Standing`, `Few`); `Paid` (what is accepted is paid when
  the second epoch after starts if it has rewards, except in the same case, and what is paid was
  accepted); `Numbered` (no nonce that landed is above the declaration's).
  `Sound` holds of the node in the middle of a block, and of the state file
  for the chain up to its own tip, which is why a kill may go back to it at any
  moment and the replay meets the same epochs.
* The properties alone are not inductive, because they do not speak of what is
  posted and has not landed. `Queues` does: such an activity was posted by the
  first block after the epoch it proves (`Posted`), with a nonce above all that
  landed and in the order of the nonces (`Ordered`), and what a block keeps goes
  before what it has yet to look at. So the block that takes an activity is the
  next one, and if that is two epochs later the epoch between had at most one
  (`AcceptStep`, step 7). `Position` says where the block in hand lies between
  the tip, the clock and the epochs.

**ZoneStreamProofs**:

* `TypeCorrect`: in particular a channel is never overfull.
* `OrderedCorrect`: `Spec => OrderedSpec`, the refinement of `OrderedFeed`. The
  step that needs an argument is the consumer's: that the head of its channel
  is the *next* item, and that nothing is left when the channel is empty and the
  thread done. Both follow from `Inv`: the channel of an open stream is
  increasing and ahead of the consumer (`InOrder`); every event the thread has
  read is received, in the channel, in its hand, undecodable, or the end it
  stopped at (`NothingLost`, `Pending`); and the thread stops only for an end or
  for an empty inbox without a sender (`InHand`).
* `NoSilentGapCorrect`. `InARow`: two events in a row in the log are a block and
  the next, or one is an end, or a new run lies between. With `Inv`, two items
  received in a row have only undecodable events between them.

**ClientCallsProofs**:

* `SureOfOutcomeCorrect`. What the property says of calls that are done is known
  earlier: `Queued` says that a queued request has not been executed, and that a
  reply other than the host's own (`Transport`, a closed channel) means that the
  module has done something. `TransportRead` and `TransportZone` show that every
  method turns the host's reply into the client's error.
* `ToldWhatHappenedCorrect`. For every method of the typed client, what its
  reader makes of a success (`SuccessRead`), a failure (`FailureRead`) and an
  absent value tells them apart. Along a call, a reply of the module is one of
  those that go with what the module did.

**Only model-checked.** Liveness (`StopReturns`, `EndClearsFlag`, `OnlineWakes`,
`StopWakes`, `ListenerEnds`, `EndReaches`, `ItemReaches`, `Resolves`), which is
outside what the prover supports.

## 6. Plan

1. *(done)* `StreamFeed`, `BlockStreams`, its proofs; `ChainNode`; `Wallet`.
2. *(done)* `PowConfig` and `FailedCallKeepsFile`.
3. *(done)* `OrderedFeed`, `ZoneStream` over `StreamFeed`, its proofs;
   `ClientReply`, `ClientContract`, `ClientCalls`.
4. *(done)* `BlendEpochs`. Next: the choice of PoW auto-claim targets.
5. *(done)* Proofs of `BlockStreams`, the refinement of `StreamFeed`,
   `ChainNode`, `Wallet`, `PowConfig`, `ClientCalls`, `BlendEpochs`.

## 7. Not modelled

* The real node library: known only through `mock/FFI_SHAPES.md`.
* Conversions, hex, JSON and memory ownership at the FFI boundary: sequential
  and well covered by the module's unit tests.
* Block contents, hashes, note values and amounts of fees; channel configuration
  (opcodes 16 and 17); background transactions and the transaction index.
* Data races on the plain pointer `node` by two lifecycle callers, two module
  objects in one process, failed or torn writes of the state file.
* `read_accounts` (reads only), two processes on one config file.
* The host and its SDK: how calls are dispatched is external, and modelled by
  what the clients allow for.
* Config generation; the client's examples, which poll and print; tests and
  build files.
