---------------------------- MODULE ClientCalls ----------------------------
(***************************************************************************)
(* Calls of the module through the Rust client and the zone-sdk adapter.   *)
(* Requests reach the module one after the other, on its one thread; its   *)
(* replies travel back on their own.  The host may lose a request or a     *)
(* reply, may give up on a call whose request is still to be executed, and *)
(* may drop a callback without calling it.                                 *)
(***************************************************************************)
EXTENDS Naturals, Sequences, SequencesExt, ClientReply, ClientContract

CONSTANTS
  MaxCalls,      \* bound: the calls of a behaviour
  ClientMethods, \* the methods called with the typed client's blocking form
  ZoneMethods    \* those called by the zone SDK

VARIABLES
  node,   \* of the module: "down", or the mode of the node it runs
  queue,  \* the calls whose request the module is still to execute
  call,   \* call[c]: who called what
  stage,  \* stage[c]: "idle", "waiting", "done", or "gone": the future dropped
  reply,  \* reply[c]: what the host has for the call, where it has something
  truth,  \* truth[c]: what the module did: "ok", "absent", "down", "failed"
  result  \* result[c]: what the caller got

vars == <<node, queue, call, stage, reply, truth, result>>

Calls == 1 .. MaxCalls
Modes == {"NotStarted", "Bootstrapping", "Online"}

NoCall == [by |-> "none", method |-> "none"]
NoReply == [kind |-> "none"]
Closed == [kind |-> "closed"]
NoResult == <<>>

----------------------------------------------------------------------------
(* The typed wrappers: how each decodes its reply, and as what. *)

NodeReads ==
  [start |-> "()", stop |-> "()", does_state_exist |-> "bool",
   purge_state |-> "()", generate_user_config |-> "String",
   update_user_config |-> "()", get_peer_id |-> "String",
   generate_key |-> "String"]

WalletReads ==
  [wallet_get_balance |-> "amount",
   wallet_get_known_addresses |-> "Addresses",
   wallet_get_notes |-> "WalletNotes", wallet_transfer_funds |-> "TxHash",
   leader_claim |-> "TxHash",
   wallet_get_claimable_vouchers |-> "ClaimableVouchers",
   wallet_fund_tx |-> "WalletFundResponseBody",
   submit_signed_transaction |-> "TxHash"]

ChainReads ==
  [get_transaction |-> "Value", get_channel_state |-> "ChannelState",
   channel_deposit |-> "TxHash", channel_deposit_with_notes |-> "TxHash",
   get_block |-> "ApiBlock", get_blocks |-> "Blocks",
   get_block_events |-> "Events", get_cryptarchia_info |-> "CryptarchiaInfo",
   get_time_info |-> "TimeInfo", blend_info |-> "Value"]

MiningReads ==
  [pow_start_mining |-> "()", pow_stop_mining |-> "()",
   pow_start_auto_claim |-> "()", pow_stop_auto_claim |-> "()",
   pow_claim |-> "TxHash", pow_claimable_rewards |-> "PowClaimableRewards"]

Reads ==
  [m \in UNION {DOMAIN NodeReads, DOMAIN WalletReads, DOMAIN ChainReads, DOMAIN MiningReads} |->
     CASE m \in DOMAIN NodeReads   -> NodeReads[m]
       [] m \in DOMAIN WalletReads -> WalletReads[m]
       [] m \in DOMAIN ChainReads  -> ChainReads[m]
       [] m \in DOMAIN MiningReads -> MiningReads[m]]

\* The lookups: what is not there is no error.
Lookups == {"get_transaction", "get_channel_state", "get_block", "get_block_events"}

\* The generated methods without a wrapper return the reply as it is.
read(m, r) ==
  CASE m \notin DOMAIN Reads ->
         IF r = Transport THEN Err("Transport") ELSE Ok(<<"reply">>)
    [] Reads[m] = "()" -> unit(r)
    [] Reads[m] = "amount" -> amount(r)
    [] m \in Lookups -> decode_opt(Reads[m], r)
    [] OTHER -> decode(Reads[m], r)

\* Methods whose wrapper encodes an id or a request first, which can fail.
Encodes ==
  {"wallet_get_notes", "wallet_transfer_funds", "wallet_fund_tx",
   "submit_signed_transaction", "get_transaction", "channel_deposit",
   "channel_deposit_with_notes", "get_block", "get_block_events"}

----------------------------------------------------------------------------
(* The module. *)

\* What a method replies when it succeeds.  Ids are hex strings, numbers are
\* strings, structures are strings of JSON, and "other" is any of these.
Answer(m) ==
  LET T == IF m \in DOMAIN Reads THEN Reads[m] ELSE "other"
  IN CASE T = "()" -> <<>>
       [] T = "bool" -> <<"bool">>
       [] T = "Addresses" -> <<"Addresses">>
       [] T = "amount" -> <<"string", "u64">>
       [] T = "TxHash" -> <<"string", "hash">>
       [] T = "String" -> <<"string", "word">>
       [] OTHER -> <<"string", T>>

\* Methods that need no node, and those that wait without a timeout until it
\* is Online.
NeedNoNode ==
  {"does_state_exist", "purge_state", "generate_user_config", "get_peer_id",
   "generate_key", "add_key", "remove_key", "participate", "show_config"}
WaitForOnline == {"leader_claim", "pow_claim", "pow_claimable_rewards"}

\* The message of a lookup that finds nothing.
AbsentText(m) ==
  CASE m \in {"get_block", "get_block_events"} -> {"no block found"}
    [] m = "get_channel_state" -> {"no channel found"}
    [] m = "get_transaction" -> {"no transaction found"}

\* A failure of another kind.  Notes at an unknown tip are "not found".
FailedTexts(m) == {{}} \cup (IF m = "wallet_get_notes" THEN {{"not found"}} ELSE {})

\* The host takes a call that the module has, with as many arguments.
Takes(m) ==
  m \in DOMAIN ModuleCalls /\ Len(ModuleCalls[m]) = Len(Client[m])

Running == node # "down"
Deeds == {"ok", "absent", "down", "failed"}

\* What method m can do, and the node that it leaves.  A start that fails in a
\* subscription leaves its node running.
Does(m, did, n) ==
  \/ did = "ok" /\ m = "start" /\ ~Running /\ n \in Modes
  \/ did = "ok" /\ m = "stop" /\ Running /\ n = "down"
  \/ did = "ok" /\ m = "purge_state" /\ ~Running /\ n = node
  \/ /\ did = "ok" /\ m \notin {"start", "stop", "purge_state"} /\ n = node
     /\ Running \/ m \in NeedNoNode
  \/ did = "failed" /\ m = "start" /\ ~Running
  \/ did = "failed" /\ m # "stop" /\ n = node /\ (Running \/ m \in NeedNoNode)
  \/ did = "absent" /\ m \in Lookups /\ Running /\ n = node
  \/ did = "down" /\ m \notin NeedNoNode \cup {"start"} /\ ~Running /\ n = node

Replies(m, did) ==
  CASE did = "ok"     -> {Success(Answer(m))}
    [] did = "failed" -> {Failure(p) : p \in FailedTexts(m)}
    [] did = "absent" -> {Failure(AbsentText(m))}
    [] did = "down"   -> {Failure({"node is not running"})}

----------------------------------------------------------------------------
(* The callers. *)

\* What the SDK gets: the hash of a posted transaction is left out, an info is
\* put in the node's own terms, an error is the client's or the server's.
ZoneResult(m, r) ==
  IF ~r.ok THEN Err(to_sdk_error(r.value[1]))
  ELSE IF m = "submit_signed_transaction" THEN Ok(<<"()">>)
  ELSE IF m = "get_cryptarchia_info" THEN Ok(<<"ChainServiceInfo">>)
  ELSE r

Result(c, r) ==
  IF call[c].by = "zone" THEN ZoneResult(call[c].method, r) ELSE r

Init ==
  /\ node \in Modes \cup {"down"}
  /\ queue = <<>>
  /\ call = [c \in Calls |-> NoCall]
  /\ stage = [c \in Calls |-> "idle"]
  /\ reply = [c \in Calls |-> NoReply]
  /\ truth = [c \in Calls |-> "none"]
  /\ result = [c \in Calls |-> NoResult]

settle(c, r) ==
  /\ stage' = [stage EXCEPT ![c] = "done"]
  /\ result' = [result EXCEPT ![c] = r]

Callers ==
  [by : {"client"}, method : ClientMethods] \cup [by : {"zone"}, method : ZoneMethods]

\* A call is made: the arguments are encoded and the request is sent.
Begin(c) ==
  /\ stage[c] = "idle" /\ \A d \in Calls : d < c => stage[d] # "idle"
  /\ \E new \in Callers : call' = [call EXCEPT ![c] = new]
  /\ stage' = [stage EXCEPT ![c] = "waiting"]
  /\ queue' = Append(queue, c)
  /\ UNCHANGED <<node, reply, truth, result>>

\* An argument cannot be encoded: nothing is sent.
EncodeFails(c) ==
  /\ stage[c] = "idle" /\ \A d \in Calls : d < c => stage[d] # "idle"
  /\ \E new \in Callers :
       /\ new.method \in Encodes
       /\ call' = [call EXCEPT ![c] = new]
       /\ settle(c, IF new.by = "zone" THEN ZoneResult(new.method, Err("Decode"))
                    ELSE Err("Decode"))
  /\ UNCHANGED <<node, queue, reply, truth>>

\* The module's thread is inside a call that waits for the node.
Blocked ==
  /\ queue # <<>>
  /\ call[Head(queue)].method \in WaitForOnline
  /\ node \notin {"down", "Online"}

answer(c, r) ==
  reply' = [reply EXCEPT ![c] = IF reply[c] = NoReply THEN r ELSE reply[c]]

\* The module executes the request at the head of its queue.
Execute ==
  /\ queue # <<>> /\ ~Blocked
  /\ LET c == Head(queue)  m == call[c].method IN
       /\ Takes(m)
       /\ \E did \in Deeds, n \in Modes \cup {"down"} :
            /\ Does(m, did, n)
            /\ node' = n /\ truth' = [truth EXCEPT ![c] = did]
            /\ \E r \in Replies(m, did) : answer(c, r)
  /\ queue' = Tail(queue)
  /\ UNCHANGED <<call, stage, result>>

\* The host refuses a request that the module has no method for.
Refuse ==
  /\ queue # <<>>
  /\ LET c == Head(queue) IN
       ~Takes(call[c].method) /\ answer(c, Transport)
  /\ queue' = Tail(queue)
  /\ UNCHANGED <<node, call, stage, truth, result>>

\* The host gives up on a call: with the request lost, or still queued, or
\* executed and the reply lost.  The blocking form gets an error; the other
\* gets one, or its callback is dropped.
HostFails(c) ==
  /\ stage[c] = "waiting" /\ reply[c] \notin {Transport, Closed}
  /\ \E r \in {Transport} \cup (IF call[c].by = "zone" THEN {Closed} ELSE {}) :
       reply' = [reply EXCEPT ![c] = r]
  /\ \/ queue' = queue
     \/ \E i \in DOMAIN queue :
          queue[i] = c /\ ~(Blocked /\ i = 1) /\ queue' = RemoveAt(queue, i)
  /\ UNCHANGED <<node, call, stage, truth, result>>

\* The reply lands: decoded, and for the SDK in its own terms.
Land(c) ==
  /\ stage[c] = "waiting" /\ reply[c] \notin {NoReply, Closed}
  /\ settle(c, Result(c, read(call[c].method, reply[c])))
  /\ UNCHANGED <<node, queue, call, reply, truth>>

\* Mutant: the closed channel is not noticed.
LandClosedIgnored(c) ==
  /\ stage[c] = "waiting" /\ reply[c] = Closed
  /\ UNCHANGED vars

\* The callback was dropped, and with it the sender of the oneshot channel.
LandClosed(c) ==
  /\ stage[c] = "waiting" /\ reply[c] = Closed
  /\ settle(c, Err("Client"))
  /\ UNCHANGED <<node, queue, call, reply, truth>>

\* The SDK drops the future; a reply that comes later is thrown away.
Cancel(c) ==
  /\ stage[c] = "waiting" /\ call[c].by = "zone"
  /\ stage' = [stage EXCEPT ![c] = "gone"]
  /\ UNCHANGED <<node, queue, call, reply, truth, result>>

\* The node moves on by itself.
NodeMoves ==
  /\ \/ node = "NotStarted" /\ node' = "Bootstrapping"
     \/ node = "Bootstrapping" /\ node' = "Online"
  /\ UNCHANGED <<queue, call, stage, reply, truth, result>>

Next ==
  \/ Execute \/ Refuse \/ NodeMoves
  \/ \E c \in Calls : Begin(c) \/ EncodeFails(c) \/ HostFails(c)
                        \/ Land(c) \/ LandClosed(c) \/ Cancel(c)

\* The module's thread and the callers are scheduled.  That the node goes
\* Online is not assumed.
Fairness ==
  /\ WF_vars(Execute) /\ WF_vars(Refuse)
  /\ \A c \in Calls : WF_vars(Land(c) \/ LandClosed(c))

Spec == Init /\ [][Next]_vars /\ Fairness

----------------------------------------------------------------------------
(* Properties. *)

Answered(c) == stage[c] = "done" /\ reply[c].kind \in {"success", "failure"}

\* Whatever a typed method was told by the module, its caller is told the same:
\* a success decodes as the method's type and is a value; a stopped node is
\* never an absent value; only a lookup that found nothing returns None.  The
\* exception is get_transaction, whose message classify does not know.
ToldWhatHappened ==
  \A c \in Calls :
    Answered(c) /\ call[c].method \in DOMAIN Reads \ {"get_transaction"} =>
    LET r == result[c] IN
    /\ truth[c] = "ok" <=> r.ok /\ r.value # None
    /\ truth[c] = "absent" <=> r = Ok(None)
    /\ call[c].by = "client" => (truth[c] = "down" <=> r = Err("NodeNotRunning"))
    /\ call[c].by = "zone" /\ ~r.ok => r = Err("Server")

\* A caller of the SDK that gets a value or a server's error knows the outcome:
\* its request is no longer queued, and it was executed unless it was never
\* sent.  Everything else is the client's error.
SureOfOutcome ==
  \A c \in Calls :
    (stage[c] = "done" /\ call[c].by = "zone" /\ result[c] # Err("Client")) =>
      /\ c \notin ToSet(queue)
      /\ truth[c] # "none" \/ call[c].method \in Encodes

\* A call ends: with a result or a dropped future, also when its callback is
\* dropped.  The exception is a call behind one that waits for the node to go
\* Online, for as long as that waits.
Resolves ==
  []<>~Blocked =>
    \A c \in Calls : stage[c] = "waiting" ~> stage[c] \in {"done", "gone"}
=============================================================================
