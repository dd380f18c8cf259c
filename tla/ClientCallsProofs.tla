------------------------- MODULE ClientCallsProofs -------------------------
(***************************************************************************)
(* Theorems about ClientCalls, for any number of calls and any choice of   *)
(* methods.  SureOfOutcome needs to know what a reply or its absence says  *)
(* about the queue, also before the call is done.                          *)
(***************************************************************************)
EXTENDS ClientCalls, SequenceTheorems, TLAPS

----------------------------------------------------------------------------
(* The queue. *)

LEMMA QueueAppend ==
  ASSUME NEW S, NEW q \in Seq(S), IsInjective(q), NEW e \in S, e \notin ToSet(q)
  PROVE  /\ Append(q, e) \in Seq(S) /\ IsInjective(Append(q, e))
         /\ ToSet(Append(q, e)) = ToSet(q) \cup {e}
<1>1. /\ Append(q, e) \in Seq(S) /\ Len(Append(q, e)) = Len(q) + 1
      /\ Append(q, e)[Len(q) + 1] = e
      /\ \A i \in 1 .. Len(q) : Append(q, e)[i] = q[i]
      /\ DOMAIN Append(q, e) = 1 .. Len(q) + 1 /\ DOMAIN q = 1 .. Len(q)
      /\ Len(q) \in Nat
  OBVIOUS
<1>2. \A i \in 1 .. Len(q) : q[i] # e
  BY <1>1 DEF ToSet
<1>3. IsInjective(Append(q, e))
  BY <1>1, <1>2 DEF IsInjective
<1>4. ToSet(Append(q, e)) = ToSet(q) \cup {e}
  BY <1>1 DEF ToSet
<1>. QED
  BY <1>1, <1>3, <1>4

LEMMA QueueTail ==
  ASSUME NEW S, NEW q \in Seq(S), IsInjective(q), q # <<>>
  PROVE  /\ Tail(q) \in Seq(S) /\ IsInjective(Tail(q))
         /\ ToSet(Tail(q)) \subseteq ToSet(q)
         /\ Head(q) \in ToSet(q) /\ Head(q) \notin ToSet(Tail(q))
<1>1. /\ Tail(q) \in Seq(S) /\ Len(Tail(q)) = Len(q) - 1
      /\ \A i \in 1 .. Len(q) - 1 : Tail(q)[i] = q[i + 1]
      /\ DOMAIN Tail(q) = 1 .. Len(q) - 1 /\ DOMAIN q = 1 .. Len(q)
      /\ Len(q) \in Nat /\ Len(q) >= 1 /\ Head(q) = q[1]
  OBVIOUS
<1>2. IsInjective(Tail(q))
  BY <1>1 DEF IsInjective
<1>3. ToSet(Tail(q)) \subseteq ToSet(q) /\ Head(q) \in ToSet(q)
  BY <1>1 DEF ToSet
<1>4. Head(q) \notin ToSet(Tail(q))
  BY <1>1 DEF ToSet, IsInjective
<1>. QED
  BY <1>1, <1>2, <1>3, <1>4

LEMMA RemoveAtElements ==
  ASSUME NEW S, NEW q \in Seq(S), NEW i \in 1 .. Len(q)
  PROVE  /\ RemoveAt(q, i) \in Seq(S) /\ Len(RemoveAt(q, i)) = Len(q) - 1
         /\ \A j \in 1 .. Len(q) - 1 :
              RemoveAt(q, i)[j] = IF j < i THEN q[j] ELSE q[j + 1]
<1>1. Len(q) \in Nat /\ i \in Nat /\ i >= 1 /\ i <= Len(q)
  OBVIOUS
<1>2. PICK a : a = SubSeq(q, 1, i - 1)
  OBVIOUS
<1>3. PICK b : b = SubSeq(q, i + 1, Len(q))
  OBVIOUS
<1>4. a \in Seq(S) /\ Len(a) = i - 1 /\ \A j \in 1 .. i - 1 : a[j] = q[j]
  BY <1>1, <1>2
<1>5. /\ b \in Seq(S) /\ Len(b) = Len(q) - i
      /\ \A j \in 1 .. Len(q) - i : b[j] = q[i + j]
  BY <1>1, <1>3
<1>6. /\ a \o b \in Seq(S) /\ Len(a \o b) = Len(a) + Len(b)
      /\ \A j \in 1 .. Len(a) + Len(b) :
           (a \o b)[j] = IF j <= Len(a) THEN a[j] ELSE b[j - Len(a)]
  BY <1>4, <1>5, ConcatProperties
<1>7. Len(a) + Len(b) = Len(q) - 1
  BY <1>1, <1>4, <1>5
<1>8. ASSUME NEW j \in 1 .. Len(q) - 1
      PROVE  (a \o b)[j] = IF j < i THEN q[j] ELSE q[j + 1]
  <2>1. (a \o b)[j] = IF j <= i - 1 THEN a[j] ELSE b[j - (i - 1)]
    BY <1>4, <1>6, <1>7
  <2>2. CASE j < i
    <3>1. j \in 1 .. i - 1 /\ j <= i - 1
      BY <1>1, <2>2
    <3>. QED
      BY <1>4, <2>1, <2>2, <3>1
  <2>3. CASE ~ (j < i)
    <3>1. PICK k \in 1 .. Len(q) - i : k = j - (i - 1) /\ i + k = j + 1
      BY <1>1, <2>3
    <3>2. b[k] = q[i + k] /\ ~ (j <= i - 1)
      BY <1>1, <1>5, <2>3
    <3>. QED
      BY <2>1, <2>3, <3>1, <3>2
  <2>. QED
    BY <2>2, <2>3
<1>9. RemoveAt(q, i) = a \o b
  BY <1>2, <1>3 DEF RemoveAt
<1>. QED
  BY <1>6, <1>7, <1>8, <1>9

LEMMA QueueRemove ==
  ASSUME NEW S, NEW q \in Seq(S), IsInjective(q), NEW i \in DOMAIN q
  PROVE  /\ RemoveAt(q, i) \in Seq(S) /\ IsInjective(RemoveAt(q, i))
         /\ ToSet(RemoveAt(q, i)) \subseteq ToSet(q)
<1>1. Len(q) \in Nat /\ DOMAIN q = 1 .. Len(q) /\ i \in 1 .. Len(q)
  OBVIOUS
<1>2. PICK r : r = RemoveAt(q, i)
  OBVIOUS
<1>3. /\ r \in Seq(S) /\ Len(r) = Len(q) - 1
      /\ \A j \in 1 .. Len(q) - 1 : r[j] = IF j < i THEN q[j] ELSE q[j + 1]
  BY <1>1, <1>2, RemoveAtElements
<1>4. DOMAIN r = 1 .. Len(q) - 1
  BY <1>3
<1>5. ASSUME NEW j \in 1 .. Len(q) - 1
      PROVE  \E k \in 1 .. Len(q) : r[j] = q[k] /\ k = IF j < i THEN j ELSE j + 1
  <2>1. CASE j < i
    BY <1>1, <1>3, <2>1
  <2>2. CASE ~ (j < i)
    <3>1. j + 1 \in 1 .. Len(q)
      BY <1>1
    <3>. QED
      BY <1>3, <2>2, <3>1
  <2>. QED
    BY <2>1, <2>2
<1>6. IsInjective(r)
  <2>1. ASSUME NEW j \in 1 .. Len(q) - 1, NEW k \in 1 .. Len(q) - 1, r[j] = r[k]
        PROVE  j = k
    <3>1. PICK x \in 1 .. Len(q) : r[j] = q[x] /\ x = IF j < i THEN j ELSE j + 1
      BY <1>5
    <3>2. PICK y \in 1 .. Len(q) : r[k] = q[y] /\ y = IF k < i THEN k ELSE k + 1
      BY <1>5
    <3>3. x = y
      BY <1>1, <2>1, <3>1, <3>2 DEF IsInjective
    <3>. QED
      BY <1>1, <3>1, <3>2, <3>3
  <2>. QED
    BY <1>4, <2>1 DEF IsInjective
<1>7. ToSet(r) \subseteq ToSet(q)
  BY <1>1, <1>4, <1>5 DEF ToSet
<1>. QED
  BY <1>2, <1>3, <1>6, <1>7

----------------------------------------------------------------------------
(* Replies. *)

\* A call that the host gave up on is the client's error, whatever its method.
LEMMA TransportRead ==
  ASSUME NEW m
  PROVE  read(m, Transport) = Err("Transport")
<1>1. unwrap(Transport) = Err("Transport") /\ ~Err("Transport").ok
  BY DEF unwrap, Transport, Err
<1>2. unit(Transport) = Err("Transport") /\ amount(Transport) = Err("Transport")
  BY <1>1 DEF unit, amount
<1>3. \A T : decode(T, Transport) = Err("Transport")
  BY <1>1 DEF decode
<1>4. Err("Transport") # Err("NotFound")
  BY DEF Err
<1>5. \A T : decode_opt(T, Transport) = Err("Transport")
  BY <1>3, <1>4 DEF decode_opt
<1>. QED
  BY <1>2, <1>3, <1>5 DEF read

LEMMA TransportZone ==
  ASSUME NEW m
  PROVE  ZoneResult(m, Err("Transport")) = Err("Client")
BY DEF ZoneResult, to_sdk_error, Err

----------------------------------------------------------------------------
(* The invariant. *)

Shape ==
  /\ queue \in Seq(Calls) /\ IsInjective(queue)
  /\ stage \in [Calls -> {"idle", "waiting", "done", "gone"}]
  /\ truth \in [Calls -> {"none", "ok", "absent", "down", "failed"}]
  /\ call = [c \in Calls |-> call[c]]
  /\ reply = [c \in Calls |-> reply[c]]
  /\ result = [c \in Calls |-> result[c]]

\* A queued request has not been executed, nor one of a call not yet made; and
\* the host has no reply of the module before the module has done something.
Queued(c) ==
  /\ c \in ToSet(queue) => truth[c] = "none" /\ stage[c] # "idle"
  /\ stage[c] = "idle" => truth[c] = "none"
  /\ reply[c] \in {NoReply, Transport, Closed} \/ truth[c] # "none"

Sure(c) ==
  (stage[c] = "done" /\ call[c].by = "zone" /\ result[c] # Err("Client")) =>
    /\ c \notin ToSet(queue)
    /\ truth[c] # "none" \/ call[c].method \in Encodes

Inv == Shape /\ \A c \in Calls : Queued(c) /\ Sure(c)

LEMMA InvInit == Init => Inv
<1>. SUFFICES ASSUME Init PROVE Inv
  OBVIOUS
<1>1. <<>> \in Seq(Calls) /\ IsInjective(<<>>) /\ ToSet(<<>>) = {}
  BY DEF IsInjective, ToSet
<1>2. Shape
  BY <1>1 DEF Init, Shape
<1>. QED
  BY <1>1, <1>2 DEF Init, Inv, Queued, Sure

LEMMA InvStep == Inv /\ [Next]_vars => Inv'
<1>. SUFFICES ASSUME Inv, [Next]_vars PROVE Inv'
  OBVIOUS
<1>1. Shape /\ \A d \in Calls : Queued(d) /\ Sure(d)
  BY DEF Inv
<1>2. /\ queue \in Seq(Calls) /\ IsInjective(queue)
      /\ stage \in [Calls -> {"idle", "waiting", "done", "gone"}]
      /\ truth \in [Calls -> {"none", "ok", "absent", "down", "failed"}]
      /\ call = [d \in Calls |-> call[d]] /\ reply = [d \in Calls |-> reply[d]]
      /\ result = [d \in Calls |-> result[d]]
  BY <1>1 DEF Shape
<1>3. ASSUME Execute PROVE Inv'
  <2>1. PICK c : c = Head(queue)
    OBVIOUS
  <2>2. /\ queue # <<>> /\ queue' = Tail(queue)
        /\ call' = call /\ stage' = stage /\ result' = result
    BY <1>3 DEF Execute
  <2>3. PICK did \in Deeds : truth' = [truth EXCEPT ![c] = did]
    BY <1>3, <2>1, Zenon DEF Execute
  <2>4. PICK r : reply' = [reply EXCEPT ![c] = r]
    BY <1>3, <2>1, Zenon DEF Execute, answer
  <2>5. /\ queue' \in Seq(Calls) /\ IsInjective(queue')
        /\ ToSet(queue') \subseteq ToSet(queue)
        /\ c \in ToSet(queue) /\ c \notin ToSet(queue')
    BY <1>2, <2>1, <2>2, QueueTail
  <2>6. did \in {"ok", "absent", "down", "failed"}
    BY <2>3 DEF Deeds
  <2>7. Shape'
    BY <1>2, <2>2, <2>3, <2>4, <2>5, <2>6 DEF Shape
  <2>8. ASSUME NEW d \in Calls PROVE Queued(d)' /\ Sure(d)'
    BY <1>1, <1>2, <2>2, <2>3, <2>4, <2>5, <2>6 DEF Queued, Sure
  <2>. QED
    BY <2>7, <2>8 DEF Inv
<1>4. ASSUME Refuse PROVE Inv'
  <2>1. PICK c : c = Head(queue)
    OBVIOUS
  <2>2. /\ queue # <<>> /\ queue' = Tail(queue) /\ call' = call
        /\ stage' = stage /\ truth' = truth /\ result' = result
    BY <1>4 DEF Refuse
  <2>3. reply' = [reply EXCEPT ![c] = IF reply[c] = NoReply THEN Transport ELSE reply[c]]
    BY <1>4, <2>1, Zenon DEF Refuse, answer
  <2>4. /\ queue' \in Seq(Calls) /\ IsInjective(queue')
        /\ ToSet(queue') \subseteq ToSet(queue)
    BY <1>2, <2>2, QueueTail
  <2>5. Shape'
    BY <1>2, <2>2, <2>3, <2>4 DEF Shape
  <2>6. ASSUME NEW d \in Calls PROVE Queued(d)' /\ Sure(d)'
    <3>1. reply'[d] = reply[d] \/ reply'[d] = Transport
      BY <1>2, <2>3
    <3>. QED
      BY <1>1, <2>2, <2>4, <3>1 DEF Queued, Sure
  <2>. QED
    BY <2>5, <2>6 DEF Inv
<1>5. ASSUME NEW c \in Calls, Begin(c) PROVE Inv'
  <2>1. /\ stage[c] = "idle" /\ stage' = [stage EXCEPT ![c] = "waiting"]
        /\ queue' = Append(queue, c)
        /\ reply' = reply /\ truth' = truth /\ result' = result
    BY <1>5 DEF Begin
  <2>2. PICK new : call' = [call EXCEPT ![c] = new]
    BY <1>5, Zenon DEF Begin
  <2>3. c \notin ToSet(queue) /\ truth[c] = "none"
    BY <1>1, <2>1 DEF Queued
  <2>4. /\ queue' \in Seq(Calls) /\ IsInjective(queue')
        /\ ToSet(queue') = ToSet(queue) \cup {c}
    BY <1>2, <2>1, <2>3, QueueAppend
  <2>5. Shape'
    BY <1>2, <2>1, <2>2, <2>4 DEF Shape
  <2>6. ASSUME NEW d \in Calls PROVE Queued(d)' /\ Sure(d)'
    BY <1>1, <1>2, <2>1, <2>2, <2>3, <2>4 DEF Queued, Sure
  <2>. QED
    BY <2>5, <2>6 DEF Inv
<1>6. ASSUME NEW c \in Calls, EncodeFails(c) PROVE Inv'
  <2>1. /\ stage[c] = "idle" /\ queue' = queue /\ reply' = reply /\ truth' = truth
        /\ stage' = [stage EXCEPT ![c] = "done"]
    BY <1>6 DEF EncodeFails, settle
  <2>2. PICK new : new.method \in Encodes /\ call' = [call EXCEPT ![c] = new]
    BY <1>6, Zenon DEF EncodeFails
  <2>3. PICK r : result' = [result EXCEPT ![c] = r]
    BY <1>6, Zenon DEF EncodeFails, settle
  <2>4. c \notin ToSet(queue) /\ truth[c] = "none"
    BY <1>1, <2>1 DEF Queued
  <2>5. Shape'
    BY <1>2, <2>1, <2>2, <2>3 DEF Shape
  <2>6. ASSUME NEW d \in Calls PROVE Queued(d)' /\ Sure(d)'
    BY <1>1, <1>2, <2>1, <2>2, <2>3, <2>4 DEF Queued, Sure
  <2>. QED
    BY <2>5, <2>6 DEF Inv
<1>7. ASSUME NEW c \in Calls, HostFails(c) PROVE Inv'
  <2>1. call' = call /\ stage' = stage /\ truth' = truth /\ result' = result
    BY <1>7 DEF HostFails
  <2>2. PICK r : r \in {Transport, Closed} /\ reply' = [reply EXCEPT ![c] = r]
    BY <1>7, Zenon DEF HostFails
  <2>3. /\ queue' \in Seq(Calls) /\ IsInjective(queue')
        /\ ToSet(queue') \subseteq ToSet(queue)
    <3>1. CASE queue' = queue
      BY <1>2, <3>1
    <3>2. ASSUME NEW i \in DOMAIN queue, queue' = RemoveAt(queue, i)
          PROVE  /\ queue' \in Seq(Calls) /\ IsInjective(queue')
                 /\ ToSet(queue') \subseteq ToSet(queue)
      BY <1>2, <3>2, QueueRemove
    <3>. QED
      BY <1>7, <3>1, <3>2 DEF HostFails
  <2>4. Shape'
    BY <1>2, <2>1, <2>2, <2>3 DEF Shape
  <2>5. ASSUME NEW d \in Calls PROVE Queued(d)' /\ Sure(d)'
    <3>1. reply'[d] = reply[d] \/ reply'[d] \in {Transport, Closed}
      BY <1>2, <2>2
    <3>. QED
      BY <1>1, <2>1, <2>3, <3>1 DEF Queued, Sure
  <2>. QED
    BY <2>4, <2>5 DEF Inv
<1>8. ASSUME NEW c \in Calls, Land(c) PROVE Inv'
  <2>1. /\ stage[c] = "waiting" /\ reply[c] \notin {NoReply, Closed}
        /\ queue' = queue /\ call' = call /\ reply' = reply /\ truth' = truth
        /\ stage' = [stage EXCEPT ![c] = "done"]
        /\ result' = [result EXCEPT ![c] = Result(c, read(call[c].method, reply[c]))]
    BY <1>8 DEF Land, settle
  <2>2. Shape'
    BY <1>2, <2>1 DEF Shape
  <2>3. reply[c] = Transport /\ call[c].by = "zone" => result'[c] = Err("Client")
    BY <1>2, <2>1, TransportRead, TransportZone DEF Result
  <2>4. reply[c] # Transport => truth[c] # "none"
    BY <1>1, <2>1 DEF Queued
  <2>5. ASSUME NEW d \in Calls PROVE Queued(d)' /\ Sure(d)'
    <3>1. Queued(d)'
      BY <1>1, <1>2, <2>1 DEF Queued
    <3>2. CASE d = c /\ reply[c] = Transport
      BY <2>1, <2>3, <3>1, <3>2 DEF Sure
    <3>3. CASE d = c /\ reply[c] # Transport
      <4>1. truth[c] # "none" /\ c \notin ToSet(queue)
        BY <1>1, <2>4, <3>3 DEF Queued
      <4>. QED
        BY <2>1, <3>1, <3>3, <4>1 DEF Sure
    <3>4. CASE d # c
      BY <1>1, <1>2, <2>1, <3>1, <3>4 DEF Sure
    <3>. QED
      BY <3>2, <3>3, <3>4
  <2>. QED
    BY <2>2, <2>5 DEF Inv
<1>9. ASSUME NEW c \in Calls, LandClosed(c) PROVE Inv'
  <2>1. /\ stage[c] = "waiting"
        /\ queue' = queue /\ call' = call /\ reply' = reply /\ truth' = truth
        /\ stage' = [stage EXCEPT ![c] = "done"]
        /\ result' = [result EXCEPT ![c] = Err("Client")]
    BY <1>9 DEF LandClosed, settle
  <2>2. Shape'
    BY <1>2, <2>1 DEF Shape
  <2>3. ASSUME NEW d \in Calls PROVE Queued(d)' /\ Sure(d)'
    BY <1>1, <1>2, <2>1 DEF Queued, Sure
  <2>. QED
    BY <2>2, <2>3 DEF Inv
<1>10. ASSUME NEW c \in Calls, Cancel(c) PROVE Inv'
  <2>1. /\ stage[c] = "waiting" /\ stage' = [stage EXCEPT ![c] = "gone"]
        /\ queue' = queue /\ call' = call /\ reply' = reply /\ truth' = truth
        /\ result' = result
    BY <1>10 DEF Cancel
  <2>2. Shape'
    BY <1>2, <2>1 DEF Shape
  <2>3. ASSUME NEW d \in Calls PROVE Queued(d)' /\ Sure(d)'
    BY <1>1, <1>2, <2>1 DEF Queued, Sure
  <2>. QED
    BY <2>2, <2>3 DEF Inv
<1>11. ASSUME NodeMoves \/ UNCHANGED vars PROVE Inv'
  <2>1. /\ queue' = queue /\ call' = call /\ stage' = stage /\ reply' = reply
        /\ truth' = truth /\ result' = result
    BY <1>11 DEF NodeMoves, vars
  <2>. QED
    BY <1>1, <2>1 DEF Inv, Shape, Queued, Sure
<1>. QED
  BY <1>3, <1>4, <1>5, <1>6, <1>7, <1>8, <1>9, <1>10, <1>11 DEF Next

\* A caller of the zone SDK that gets a value or a server's error knows the
\* outcome, for any number of calls: its request is no longer queued, and was
\* executed or never sent.  Where the two could differ -- the host gave up, or
\* dropped the callback -- to_sdk_error and the oneshot channel say "Client".
THEOREM SureOfOutcomeCorrect == Spec => []SureOfOutcome
<1>1. Inv => SureOfOutcome
  BY DEF Inv, Sure, SureOfOutcome
<1>. QED
  BY <1>1, InvInit, InvStep, PTL DEF Spec

----------------------------------------------------------------------------
(* What a reply means to its caller. *)

\* The types that the typed wrappers decode.
ReadTypes ==
  {"()", "bool", "String", "amount", "Addresses", "WalletNotes", "TxHash", "ClaimableVouchers",
   "WalletFundResponseBody", "Value", "ChannelState", "ApiBlock", "Blocks", "Events",
   "CryptarchiaInfo", "TimeInfo", "PowClaimableRewards"}

LEMMA ReadsTypes ==
  ASSUME NEW m \in DOMAIN Reads
  PROVE  Reads[m] \in ReadTypes /\ (m \in Lookups => Reads[m] \notin {"()", "amount"})
<1>1. /\ \A x \in DOMAIN NodeReads : NodeReads[x] \in ReadTypes /\ x \notin Lookups
      /\ \A x \in DOMAIN WalletReads : WalletReads[x] \in ReadTypes /\ x \notin Lookups
      /\ \A x \in DOMAIN MiningReads : MiningReads[x] \in ReadTypes /\ x \notin Lookups
  BY DEF NodeReads, WalletReads, MiningReads, ReadTypes, Lookups
<1>2. \A x \in DOMAIN ChainReads : ChainReads[x] \in ReadTypes /\ (x \in Lookups => ChainReads[x] \notin {"()", "amount"})
  BY DEF ChainReads, ReadTypes, Lookups
<1>. QED
  BY <1>1, <1>2 DEF Reads

\* What a method's reader makes of the module's reply to a success.
LEMMA SuccessRead ==
  ASSUME NEW m \in DOMAIN Reads
  PROVE  LET r == read(m, Success(Answer(m))) IN r.ok /\ r.value # None
<1> DEFINE T == Reads[m]
           s == Success(Answer(m))
<1>1. s.kind = "success" /\ s.value = Answer(m)
  BY DEF Success
<1>2. unwrap(s) = Ok(IF Answer(m) = <<>> THEN <<"null">> ELSE unwrapString(Answer(m)))
  BY <1>1 DEF unwrap, unwrap_value
<1>3. T \in ReadTypes
  BY ReadsTypes
<1> HIDE DEF s
<1>4. CASE T = "()"
  <2>1. read(m, s) = unit(s)
    BY <1>4, ReadsTypes DEF read
  <2>. QED
    BY <1>2, <2>1 DEF unit, Ok, None, s
<1>5. CASE T = "amount"
  <2>1. read(m, s) = amount(s)
    BY <1>5, ReadsTypes DEF read
  <2>2. Answer(m) = <<"string", "u64">>
    BY <1>5 DEF Answer
  <2>3. unwrapString(<<"string", "u64">>) = <<"u64">>
    BY DEF unwrapString, Texts
  <2>. QED
    BY <1>2, <2>1, <2>2, <2>3 DEF amount, parse_amount, Ok, None, s
<1>6. CASE T \notin {"()", "amount"}
  <2>1. read(m, s) = decode_opt(T, s) \/ read(m, s) = decode(T, s)
    BY <1>6 DEF read
  <2>2. Answer(m) = CASE T = "bool" -> <<"bool">>
                      [] T = "Addresses" -> <<"Addresses">>
                      [] T = "TxHash" -> <<"string", "hash">>
                      [] T = "String" -> <<"string", "word">>
                      [] OTHER -> <<"string", T>>
    BY <1>3, <1>6 DEF Answer, ReadTypes
  <2>3. Answer(m) # <<>>
    BY <1>3, <2>2 DEF ReadTypes
  <2>4. unwrapString(Answer(m)) = CASE T = "TxHash" -> <<"string", "hash">>
                      [] T = "String" -> <<"string", "word">>
                      [] OTHER -> <<T>>
    BY <1>3, <1>6, <2>2 DEF ReadTypes, unwrapString, Texts
  <2>5. unwrapString(Answer(m)) # None /\ DecodesAs(T, unwrapString(Answer(m)))
    BY <1>3, <2>4 DEF ReadTypes, DecodesAs, None
  <2>6. decode(T, s) = Ok(unwrapString(Answer(m)))
    BY <1>2, <2>3, <2>5 DEF decode, Ok
  <2>7. decode_opt(T, s) = decode(T, s)
    BY <2>6 DEF decode_opt, Ok, Err
  <2>. QED
    BY <2>1, <2>5, <2>6, <2>7 DEF Ok, s
<1>. QED
  BY <1>4, <1>5, <1>6

\* The kind of error that the texts of a failure say.
LEMMA FailureRead ==
  ASSUME NEW m \in DOMAIN Reads, NEW p
  PROVE  /\ classify(p) \in {Err("NodeNotRunning"), Err("NotFound"), Err("Module")}
         /\ read(m, Failure(p)) =
              IF m \in Lookups /\ classify(p) = Err("NotFound") THEN Ok(None) ELSE classify(p)
<1> DEFINE f == Failure(p)
<1>1. f.kind = "failure" /\ f.error = p
  BY DEF Failure
<1>2. classify(p) \in {Err("NodeNotRunning"), Err("NotFound"), Err("Module")}
  BY DEF classify
<1>3. ~classify(p).ok
  BY <1>2 DEF Err
<1>4. unwrap(f) = classify(p)
  BY <1>1 DEF unwrap, unwrap_value
<1> HIDE DEF f
<1>5. unit(f) = classify(p) /\ amount(f) = classify(p) /\ \A T : decode(T, f) = classify(p)
  BY <1>3, <1>4 DEF unit, amount, decode
<1>6. \A T : decode_opt(T, f) = IF classify(p) = Err("NotFound") THEN Ok(None) ELSE classify(p)
  BY <1>5 DEF decode_opt
<1>7. read(m, f) = IF m \in Lookups /\ classify(p) = Err("NotFound") THEN Ok(None) ELSE classify(p)
  BY <1>5, <1>6, ReadsTypes DEF read
<1>. QED
  BY <1>2, <1>7 DEF f

\* What the caller's decoder makes of what the module did.
LEMMA ReplyRead ==
  ASSUME NEW m \in DOMAIN Reads \ {"get_transaction"}, NEW did \in Deeds,
         did = "absent" => m \in Lookups, NEW rep \in Replies(m, did)
  PROVE  /\ rep.kind \in {"success", "failure"}
         /\ did = "ok" => read(m, rep).ok /\ read(m, rep).value # None
         /\ did = "absent" => read(m, rep) = Ok(None)
         /\ did = "down" => read(m, rep) = Err("NodeNotRunning")
         /\ did = "failed" => read(m, rep) \in {Err("Module"), Err("NotFound")}
<1>1. CASE did = "ok"
  <2>1. rep = Success(Answer(m))
    BY <1>1 DEF Replies
  <2>. QED
    BY <1>1, <2>1, SuccessRead DEF Success
<1>2. CASE did = "absent"
  <2>1. rep = Failure(AbsentText(m))
    BY <1>2 DEF Replies
  <2>2. classify(AbsentText(m)) = Err("NotFound")
    BY <1>2 DEF AbsentText, Lookups, classify
  <2>. QED
    BY <1>2, <2>1, <2>2, FailureRead DEF Failure
<1>3. CASE did = "down"
  <2>1. rep = Failure({"node is not running"})
    BY <1>3 DEF Replies
  <2>2. classify({"node is not running"}) = Err("NodeNotRunning") /\ Err("NodeNotRunning") # Err("NotFound")
    BY DEF classify, Err
  <2>. QED
    BY <1>3, <2>1, <2>2, FailureRead DEF Failure
<1>4. CASE did = "failed"
  <2>1. PICK p \in FailedTexts(m) : rep = Failure(p)
    BY <1>4 DEF Replies
  <2>2. p = {} \/ (p = {"not found"} /\ m = "wallet_get_notes")
    BY DEF FailedTexts
  <2>3. classify({}) = Err("Module") /\ classify({"not found"}) = Err("NotFound") /\ Err("Module") # Err("NotFound")
    BY DEF classify, Err
  <2>4. "wallet_get_notes" \notin Lookups
    BY DEF Lookups
  <2>. QED
    BY <1>4, <2>1, <2>2, <2>3, <2>4, FailureRead DEF Failure
<1>. QED
  BY <1>1, <1>2, <1>3, <1>4 DEF Deeds

\* The SDK's terms keep what the decoder told apart, but for the server's errors.
LEMMA ZoneKeeps ==
  ASSUME NEW m, NEW r
  PROVE  /\ r.ok /\ r.value # None => ZoneResult(m, r).ok /\ ZoneResult(m, r).value # None
         /\ r = Ok(None) /\ m \in Lookups => ZoneResult(m, r) = Ok(None)
         /\ r \in {Err("NodeNotRunning"), Err("Module"), Err("NotFound")} => ZoneResult(m, r) = Err("Server")
<1>1. ASSUME r.ok, r.value # None PROVE ZoneResult(m, r).ok /\ ZoneResult(m, r).value # None
  BY <1>1 DEF ZoneResult, Ok, None
<1>2. ASSUME r = Ok(None), m \in Lookups PROVE ZoneResult(m, r) = Ok(None)
  BY <1>2 DEF ZoneResult, Lookups, Ok
<1>3. ASSUME r \in {Err("NodeNotRunning"), Err("Module"), Err("NotFound")} PROVE ZoneResult(m, r) = Err("Server")
  <2>1. \A e : Err(e).value[1] = e /\ ~Err(e).ok
    BY DEF Err
  <2>2. ~r.ok /\ r.value[1] \in {"NodeNotRunning", "Module", "NotFound"}
    BY <1>3, <2>1
  <2>. QED
    BY <2>2 DEF ZoneResult, to_sdk_error
<1>. QED
  BY <1>1, <1>2, <1>3

\* What the caller of c is told of a deed.
Told(c, did, r) ==
  /\ did = "ok" <=> r.ok /\ r.value # None
  /\ did = "absent" <=> r = Ok(None)
  /\ call[c].by = "client" => (did = "down" <=> r = Err("NodeNotRunning"))
  /\ call[c].by = "zone" /\ ~r.ok => r = Err("Server")

\* A caller that got one of these was told the truth.
LEMMA ToldOf ==
  ASSUME NEW c, NEW did \in Deeds, NEW x,
         did = "ok" => x.ok /\ x.value # None,
         did = "absent" => x = Ok(None),
         did \in {"down", "failed"} =>
           IF call[c].by = "zone" THEN x = Err("Server")
           ELSE IF did = "down" THEN x = Err("NodeNotRunning")
           ELSE x \in {Err("Module"), Err("NotFound")}
  PROVE  Told(c, did, x)
<1>1. /\ Ok(None).ok /\ Ok(None).value = None
      /\ ~Err("NodeNotRunning").ok /\ ~Err("Module").ok /\ ~Err("NotFound").ok /\ ~Err("Server").ok
      /\ Err("NodeNotRunning") # Err("Module") /\ Err("NodeNotRunning") # Err("NotFound")
  BY DEF Ok, Err, None
<1>2. CASE did = "ok"
  <2>1. x # Ok(None) /\ x # Err("NodeNotRunning") /\ x.ok
    BY <1>1, <1>2
  <2>2. did # "absent" /\ did # "down"
    BY <1>2
  <2>. QED
    BY <1>2, <2>1, <2>2, Zenon DEF Told
<1>3. CASE did = "absent"
  <2>1. x.ok /\ x.value = None /\ x # Err("NodeNotRunning")
    BY <1>1, <1>3
  <2>2. did # "ok" /\ did # "down"
    BY <1>3
  <2>. QED
    BY <1>3, <2>1, <2>2, Zenon DEF Told
<1>4. CASE did \in {"down", "failed"}
  <2>1. ~x.ok /\ x # Ok(None)
    BY <1>1, <1>4
  <2>2. did # "ok" /\ did # "absent"
    BY <1>4
  <2>3. call[c].by = "zone" => call[c].by # "client" /\ x = Err("Server")
    BY <1>4
  <2>4. call[c].by = "client" => (did = "down" <=> x = Err("NodeNotRunning"))
    BY <1>1, <1>4
  <2>. QED
    BY <2>1, <2>2, <2>3, <2>4, Zenon DEF Told
<1>. QED
  BY <1>2, <1>3, <1>4 DEF Deeds

LEMMA ResultTold ==
  ASSUME NEW c, call[c].method \in DOMAIN Reads \ {"get_transaction"}, NEW did \in Deeds,
         did = "absent" => call[c].method \in Lookups, NEW rep \in Replies(call[c].method, did)
  PROVE  Told(c, did, Result(c, read(call[c].method, rep)))
<1> DEFINE m == call[c].method
           r == read(m, rep)
<1>1. /\ did = "ok" => r.ok /\ r.value # None
      /\ did = "absent" => r = Ok(None)
      /\ did = "down" => r = Err("NodeNotRunning")
      /\ did = "failed" => r \in {Err("Module"), Err("NotFound")}
  BY ReplyRead
<1>2. CASE call[c].by = "zone"
  <2>1. Result(c, r) = ZoneResult(m, r)
    BY <1>2 DEF Result
  <2>2. /\ did = "ok" => Result(c, r).ok /\ Result(c, r).value # None
        /\ did = "absent" => Result(c, r) = Ok(None)
        /\ did \in {"down", "failed"} => Result(c, r) = Err("Server")
    BY <1>1, <2>1, ZoneKeeps
  <2>. QED
    BY <1>2, <2>2, ToldOf
<1>3. CASE call[c].by # "zone"
  <2>1. Result(c, r) = r
    BY <1>3 DEF Result
  <2>2. Told(c, did, r)
    BY <1>1, <1>3, ToldOf
  <2>. QED
    BY <2>1, <2>2
<1>. QED
  BY <1>2, <1>3

----------------------------------------------------------------------------
(* What a caller is told. *)

\* A reply of the module is one to what the module did for the call, and the
\* caller has got what its decoder made of it.
Heard(c) ==
  reply[c].kind \in {"success", "failure"} =>
    /\ truth[c] \in Deeds
    /\ truth[c] = "absent" => call[c].method \in Lookups
    /\ reply[c] \in Replies(call[c].method, truth[c])
    /\ stage[c] = "done" => result[c] = Result(c, read(call[c].method, reply[c]))

\* Nobody has stopped waiting for a request that is queued, but by dropping
\* its future or because the host gave up.
Awaited(c) ==
  c \in ToSet(queue) /\ stage[c] = "done" => reply[c] # NoReply

Hears == \A c \in Calls : Heard(c) /\ Awaited(c)

LEMMA HostReplies ==
  /\ NoReply.kind = "none" /\ Closed.kind = "closed" /\ Transport.kind = "transport"
BY DEF NoReply, Closed, Transport

\* A step that leaves a call alone, but that it may be taken from the queue.
LEMMA HearsSame ==
  ASSUME NEW d \in Calls, Heard(d), Awaited(d),
         call'[d] = call[d], reply'[d] = reply[d], truth'[d] = truth[d], result'[d] = result[d],
         stage'[d] = stage[d] \/ stage'[d] # "done",
         d \in ToSet(queue') => d \in ToSet(queue)
  PROVE  Heard(d)' /\ Awaited(d)'
BY DEF Heard, Awaited, Result

LEMMA HearsStep == Inv /\ Hears /\ [Next]_vars => Hears'
<1>. SUFFICES ASSUME Inv, Hears, [Next]_vars PROVE Hears'
  OBVIOUS
<1>1. \A d \in Calls : Queued(d) /\ Heard(d) /\ Awaited(d)
  BY DEF Inv, Hears
<1>2. /\ queue \in Seq(Calls) /\ IsInjective(queue)
      /\ stage \in [Calls -> {"idle", "waiting", "done", "gone"}]
      /\ truth \in [Calls -> {"none", "ok", "absent", "down", "failed"}]
      /\ call = [d \in Calls |-> call[d]] /\ reply = [d \in Calls |-> reply[d]]
      /\ result = [d \in Calls |-> result[d]]
  BY DEF Inv, Shape
<1>3. ASSUME Execute PROVE Hears'
  <2>1. PICK c : c = Head(queue)
    OBVIOUS
  <2>2. /\ queue # <<>> /\ queue' = Tail(queue)
        /\ call' = call /\ stage' = stage /\ result' = result
    BY <1>3 DEF Execute
  <2>3. PICK did \in Deeds, n \in Modes \cup {"down"} :
          /\ Does(call[c].method, did, n) /\ truth' = [truth EXCEPT ![c] = did]
          /\ \E r \in Replies(call[c].method, did) : answer(c, r)
    BY <1>3, <2>1, Zenon DEF Execute
  <2>4. PICK r \in Replies(call[c].method, did) :
          reply' = [reply EXCEPT ![c] = IF reply[c] = NoReply THEN r ELSE reply[c]]
    BY <2>3, Zenon DEF answer
  <2>5. /\ c \in ToSet(queue) /\ c \notin ToSet(queue') /\ ToSet(queue') \subseteq ToSet(queue)
        /\ c \in Calls
    <3>1. c \in Calls
      BY <1>2, <2>1, <2>2
    <3>. QED
      BY <1>2, <2>1, <2>2, <3>1, QueueTail
  <2>6. did = "absent" => call[c].method \in Lookups
    BY <2>3 DEF Does
  <2>7. Heard(c)' /\ Awaited(c)'
    <3>1. reply[c] \in {NoReply, Transport, Closed}
      BY <1>1, <2>5 DEF Queued
    <3>2. reply'[c] = IF reply[c] = NoReply THEN r ELSE reply[c]
      BY <1>2, <2>4, <2>5
    <3>3. truth'[c] = did
      BY <1>2, <2>3, <2>5
    <3>4. Awaited(c)'
      BY <2>5 DEF Awaited
    <3>5. CASE reply[c] = NoReply
      <4>1. stage[c] # "done"
        BY <1>1, <2>5, <3>5 DEF Awaited
      <4>2. Replies(call[c].method, did)' = Replies(call[c].method, did)
        BY <2>2 DEF Replies, Answer, FailedTexts, AbsentText
      <4>. QED
        BY <2>2, <2>6, <3>2, <3>3, <3>4, <3>5, <4>1 DEF Heard
    <3>6. CASE reply[c] \in {Transport, Closed}
      <4>1. reply'[c].kind \notin {"success", "failure"}
        BY <3>2, <3>6, HostReplies
      <4>. QED
        BY <3>4, <4>1 DEF Heard
    <3>. QED
      BY <3>1, <3>5, <3>6
  <2>8. ASSUME NEW d \in Calls, d # c PROVE Heard(d)' /\ Awaited(d)'
    <3>1. reply'[d] = reply[d] /\ truth'[d] = truth[d]
      BY <1>2, <2>3, <2>4, <2>8
    <3>. QED
      BY <1>1, <2>2, <2>5, <3>1, HearsSame
  <2>. QED
    BY <2>7, <2>8 DEF Hears
<1>4. ASSUME Refuse PROVE Hears'
  <2>1. PICK c : c = Head(queue)
    OBVIOUS
  <2>2. /\ queue # <<>> /\ queue' = Tail(queue) /\ call' = call
        /\ stage' = stage /\ truth' = truth /\ result' = result
    BY <1>4 DEF Refuse
  <2>3. reply' = [reply EXCEPT ![c] = IF reply[c] = NoReply THEN Transport ELSE reply[c]]
    BY <1>4, <2>1, Zenon DEF Refuse, answer
  <2>4. c \notin ToSet(queue') /\ ToSet(queue') \subseteq ToSet(queue)
    BY <1>2, <2>1, <2>2, QueueTail
  <2>5. ASSUME NEW d \in Calls PROVE Heard(d)' /\ Awaited(d)'
    <3>1. CASE reply'[d] = reply[d]
      BY <1>1, <2>2, <2>4, <3>1, HearsSame
    <3>2. CASE reply'[d] # reply[d]
      <4>1. reply'[d] = Transport /\ d = c
        BY <1>2, <2>3, <3>2
      <4>. QED
        BY <2>4, <4>1, HostReplies DEF Heard, Awaited
    <3>. QED
      BY <3>1, <3>2
  <2>. QED
    BY <2>5 DEF Hears
<1>5. ASSUME NEW c \in Calls, Begin(c) \/ EncodeFails(c) PROVE Hears'
  <2>1. /\ stage[c] = "idle" /\ reply' = reply /\ truth' = truth
        /\ stage' \in {[stage EXCEPT ![c] = "waiting"], [stage EXCEPT ![c] = "done"]}
        /\ stage' = [stage EXCEPT ![c] = "done"] => queue' = queue
        /\ queue' \in {queue, Append(queue, c)}
    <3>1. [stage EXCEPT ![c] = "waiting"][c] # [stage EXCEPT ![c] = "done"][c]
      BY <1>2
    <3>. QED
      BY <1>5, <3>1 DEF Begin, EncodeFails, settle
  <2>2. PICK new : call' = [call EXCEPT ![c] = new]
    BY <1>5, Zenon DEF Begin, EncodeFails
  <2>3. PICK r : result' = [result EXCEPT ![c] = r]
    <3>1. CASE Begin(c)
      <4>1. result' = [result EXCEPT ![c] = result[c]]
        BY <1>2, <3>1 DEF Begin
      <4>. QED
        BY <4>1
    <3>2. CASE EncodeFails(c)
      BY <3>2, Zenon DEF EncodeFails, settle
    <3>. QED
      BY <1>5, <3>1, <3>2
  <2>4. truth[c] = "none" /\ reply[c] \in {NoReply, Transport, Closed} /\ c \notin ToSet(queue)
    BY <1>1, <2>1 DEF Queued
  <2>5. ToSet(queue') \subseteq ToSet(queue) \cup {c}
    <3>1. ToSet(Append(queue, c)) = ToSet(queue) \cup {c}
      BY <1>2, <2>4, QueueAppend
    <3>. QED
      BY <2>1, <3>1
  <2>6. Heard(c)' /\ Awaited(c)'
    <3>1. Heard(c)'
      BY <2>1, <2>4, HostReplies DEF Heard
    <3>2. Awaited(c)'
      BY <1>2, <2>1, <2>4 DEF Awaited
    <3>. QED
      BY <3>1, <3>2
  <2>7. ASSUME NEW d \in Calls, d # c PROVE Heard(d)' /\ Awaited(d)'
    <3>1. call'[d] = call[d] /\ result'[d] = result[d] /\ stage'[d] = stage[d]
      BY <1>2, <2>1, <2>2, <2>3, <2>7
    <3>. QED
      BY <1>1, <2>1, <2>5, <2>7, <3>1, HearsSame
  <2>. QED
    BY <2>6, <2>7 DEF Hears
<1>6. ASSUME NEW c \in Calls, HostFails(c) PROVE Hears'
  <2>1. call' = call /\ stage' = stage /\ truth' = truth /\ result' = result
    BY <1>6 DEF HostFails
  <2>2. PICK r : r \in {Transport, Closed} /\ reply' = [reply EXCEPT ![c] = r]
    BY <1>6, Zenon DEF HostFails
  <2>3. ToSet(queue') \subseteq ToSet(queue)
    <3>1. ASSUME NEW i \in DOMAIN queue, queue' = RemoveAt(queue, i)
          PROVE  ToSet(queue') \subseteq ToSet(queue)
      BY <1>2, <3>1, QueueRemove
    <3>. QED
      BY <1>6, <3>1 DEF HostFails
  <2>4. ASSUME NEW d \in Calls PROVE Heard(d)' /\ Awaited(d)'
    <3>1. CASE d = c
      <4>1. reply'[d] = r
        BY <1>2, <2>2, <3>1
      <4>. QED
        BY <2>2, <4>1, HostReplies DEF Heard, Awaited
    <3>2. CASE d # c
      <4>1. reply'[d] = reply[d]
        BY <1>2, <2>2, <3>2
      <4>. QED
        BY <1>1, <2>1, <2>3, <4>1, HearsSame
    <3>. QED
      BY <3>1, <3>2
  <2>. QED
    BY <2>4 DEF Hears
<1>7. ASSUME NEW c \in Calls, Land(c) \/ LandClosed(c) PROVE Hears'
  <2>1. /\ queue' = queue /\ call' = call /\ reply' = reply /\ truth' = truth
        /\ stage' = [stage EXCEPT ![c] = "done"] /\ reply[c] # NoReply
    BY <1>7, HostReplies DEF Land, LandClosed, settle
  <2>2. PICK r : result' = [result EXCEPT ![c] = r]
    BY <1>7, Zenon DEF Land, LandClosed, settle
  <2>3. reply[c].kind \in {"success", "failure"} =>
          result'[c] = Result(c, read(call[c].method, reply[c]))
    <3>1. CASE Land(c)
      BY <1>2, <3>1 DEF Land, settle
    <3>2. CASE LandClosed(c)
      BY <3>2, HostReplies DEF LandClosed
    <3>. QED
      BY <1>7, <3>1, <3>2
  <2>4. Heard(c)' /\ Awaited(c)'
    BY <1>1, <2>1, <2>3 DEF Heard, Awaited, Result
  <2>5. ASSUME NEW d \in Calls, d # c PROVE Heard(d)' /\ Awaited(d)'
    <3>1. result'[d] = result[d] /\ stage'[d] = stage[d]
      BY <1>2, <2>1, <2>2, <2>5
    <3>. QED
      BY <1>1, <2>1, <3>1, HearsSame
  <2>. QED
    BY <2>4, <2>5 DEF Hears
<1>8. ASSUME NEW c \in Calls, Cancel(c) PROVE Hears'
  <2>1. /\ stage' = [stage EXCEPT ![c] = "gone"]
        /\ queue' = queue /\ call' = call /\ reply' = reply /\ truth' = truth
        /\ result' = result
    BY <1>8 DEF Cancel
  <2>2. \A d \in Calls : stage'[d] = stage[d] \/ stage'[d] # "done"
    BY <1>2, <2>1
  <2>. QED
    BY <1>1, <2>1, <2>2, HearsSame DEF Hears
<1>9. ASSUME NodeMoves \/ UNCHANGED vars PROVE Hears'
  <2>1. /\ queue' = queue /\ call' = call /\ stage' = stage /\ reply' = reply
        /\ truth' = truth /\ result' = result
    BY <1>9 DEF NodeMoves, vars
  <2>. QED
    BY <1>1, <2>1, HearsSame DEF Hears
<1>. QED
  BY <1>3, <1>4, <1>5, <1>6, <1>7, <1>8, <1>9 DEF Next

\* Whatever the module did for a call that it answered, the caller is told
\* that, for any number of calls and any choice of methods: the typed wrappers
\* decode every reply the module gives, and neither they nor to_sdk_error mix
\* up a success, an absent value, a stopped node and another failure.
THEOREM ToldWhatHappenedCorrect == Spec => []ToldWhatHappened
<1>1. Init => Hears
  <2>. SUFFICES ASSUME Init PROVE Hears
    OBVIOUS
  <2>1. \A c \in Calls : reply[c] = NoReply /\ stage[c] = "idle"
    BY DEF Init
  <2>. QED
    BY <2>1, HostReplies DEF Hears, Heard, Awaited
<1>2. Hears => ToldWhatHappened
  <2>. SUFFICES ASSUME Hears, NEW c \in Calls, Answered(c),
                       call[c].method \in DOMAIN Reads \ {"get_transaction"}
                PROVE  Told(c, truth[c], result[c])
    BY DEF ToldWhatHappened, Told
  <2>1. Heard(c) /\ reply[c].kind \in {"success", "failure"} /\ stage[c] = "done"
    BY DEF Hears, Answered
  <2>. QED
    BY <2>1, ResultTold DEF Heard
<1>. QED
  BY <1>1, <1>2, HearsStep, InvInit, InvStep, PTL DEF Spec

=============================================================================
