-------------------------- MODULE PowConfigProofs --------------------------
(***************************************************************************)
(* For every set of keys, documents and requests, and any number of edits, *)
(* key changes and kills: a call of pow_configure that fails has changed   *)
(* nothing, a killed one nothing or all it was asked; one that succeeds    *)
(* has written what it was given and no more; no sequence of calls writes  *)
(* a config that a node refuses; and what read_pow_config reports can be   *)
(* written back.                                                           *)
(***************************************************************************)
EXTENDS PowConfig, SequenceTheorems, TLAPS

\* The record of the call has its six fields.
CallShape ==
  call = [pc |-> call.pc, result |-> call.result, request |-> call.request,
          begun |-> call.begun, fragment |-> call.fragment, text |-> call.text]

\* From the first step of a call to its rename the file is the one it began
\* with; that is what makes FailedCallKeepsFile inductive.
Untouched ==
  /\ ~ raced /\ call.pc \notin {"idle", "return"} => config = call.begun
  /\ ~ raced /\ call.pc = "idle" /\ call.result = "error" => config = call.begun

IInv == CallShape /\ raced \in BOOLEAN /\ Untouched

\* The initial call has not begun.
LEMMA InitIInv == Init => IInv
<1> SUFFICES ASSUME Init PROVE IInv
  OBVIOUS
<1>1. call = Idle /\ raced = FALSE
  BY DEF Init
<1>2. CallShape
  BY <1>1 DEF CallShape, Idle
<1>3. call.pc = "idle" /\ call.result = "none"
  BY <1>1 DEF Idle
<1> QED
  BY <1>1, <1>2, <1>3 DEF IInv, Untouched

\* Return keeps the shape and what the call began with.
LEMMA ReturnFacts ==
  ASSUME NEW result, CallShape, Return(result)
  PROVE  CallShape' /\ call'.begun = call.begun /\ call'.pc = "idle" /\ call'.result = result
  BY DEF CallShape, Return

\* No step but the rename changes the file under a call, and behind the rename
\* the call cannot fail any more.
LEMMA StepIInv == IInv /\ [Next]_vars => IInv'
<1> SUFFICES ASSUME IInv, [Next]_vars PROVE IInv'
  OBVIOUS
<1> USE DEF IInv
<1>1. ASSUME NEW r \in Requests, Call(r) PROVE IInv'
  BY <1>1 DEF Call, CallShape, Untouched, Idle
<1>2. CASE Validate
  <2>1. config' = config /\ raced' = raced
    BY <1>2 DEF Validate, Environment
  <2>2. CASE Return("error")
    BY <2>1, <2>2, <1>2, ReturnFacts DEF Untouched, Validate
  <2>3. CASE Return("ok")
    BY <2>1, <2>3, ReturnFacts DEF Untouched
  <2>4. CASE call' = [call EXCEPT !.pc = "merge",
                        !.fragment = pow_fragment(call.request, Loaded(config, keystore))]
    BY <2>1, <2>4, <1>2 DEF Untouched, CallShape, Validate
  <2> QED
    BY <1>2, <2>2, <2>3, <2>4 DEF Validate
<1>3. CASE MergeFragment
  <2>1. config' = config /\ raced' = raced /\ call.pc = "merge"
    BY <1>3 DEF MergeFragment, Environment
  <2>2. CASE Return("error")
    BY <2>1, <2>2, ReturnFacts DEF Untouched
  <2>3. CASE call' = [call EXCEPT !.pc = "open",
                        !.text = Whole(merge_yaml_mapping(config.doc, call.fragment))]
    BY <2>1, <2>3 DEF Untouched, CallShape
  <2> QED
    BY <1>3, <2>2, <2>3 DEF MergeFragment
<1>4. CASE OpenTmp
  BY <1>4 DEF OpenTmp, Environment, CallShape, Untouched
<1>5. CASE WriteTmp
  BY <1>5 DEF WriteTmp, Environment, CallShape, Untouched
<1>6. CASE Rename
  <2>1. CASE call' = [call EXCEPT !.pc = "return"]
    BY <2>1, <1>6 DEF Rename, Environment, CallShape, Untouched
  <2>2. CASE call' = [call EXCEPT !.pc = "remove"] /\ UNCHANGED <<config, tmp>>
    BY <2>2, <1>6 DEF Rename, Environment, CallShape, Untouched
  <2> QED
    BY <1>6, <2>1, <2>2 DEF Rename
<1>7. CASE RemoveTmp \/ ReturnApplied
  BY <1>7, ReturnFacts DEF RemoveTmp, ReturnApplied, Environment, Untouched
<1>8. CASE Kill
  BY <1>8, ReturnFacts DEF Kill, Untouched
<1>9. ASSUME NEW d \in Documents, Edit(d) PROVE IInv'
  <2>1. CASE call.pc = "idle"
    BY <2>1, <1>9 DEF Edit, CallShape, Untouched, Idle
  <2>2. CASE call.pc # "idle"
    BY <2>2, <1>9 DEF Edit, CallShape, Untouched
  <2> QED
    BY <2>1, <2>2
<1>10. ASSUME NEW k \in Keys, AddKey(k) \/ RemoveKey(k) PROVE IInv'
  BY <1>10 DEF AddKey, RemoveKey, CallShape, Untouched, Idle
<1>11. CASE UNCHANGED vars
  BY <1>11 DEF vars, CallShape, Untouched
<1> QED
  BY <1>1, <1>2, <1>3, <1>4, <1>5, <1>6, <1>7, <1>8, <1>9, <1>10, <1>11 DEF Next

-----------------------------------------------------------------------------
(* Paths. *)

IsPath(p) == IsSequence(p) /\ p # <<>>

\* Every leaf of the pow section that a request can name.
PowPaths == {MaxThreads, MaxTickets, TickUnit, TickValue, Targets}

LEMMA SeqIsSequence ==
  ASSUME NEW S, NEW a \in Seq(S)
  PROVE  IsSequence(a) /\ DOMAIN a = 1 .. Len(a) /\ Len(a) \in Nat
<1>1. DOMAIN a = 1 .. Len(a) /\ Len(a) \in Nat /\ \A i \in 1 .. Len(a) : a[i] \in Range(a)
  BY DEF Range
<1>2. a = [i \in 1 .. Len(a) |-> a[i]]
  OBVIOUS
<1>. QED
  BY <1>1, <1>2 DEF IsSequence

LEMMA SequenceLen ==
  ASSUME NEW a, IsSequence(a)
  PROVE  DOMAIN a = 1 .. Len(a) /\ Len(a) \in Nat /\ (a # <<>> => Len(a) >= 1)
BY DEF IsSequence

\* A prefix agrees with what it is a prefix of.
LEMMA PrefixAt ==
  ASSUME NEW a, NEW b, IsPath(a), IsPath(b), IsPrefix(a, b)
  PROVE  \A i \in 1 .. Len(a) : a[i] = b[i]
<1>1. PICK S, T : a \in Seq(S) /\ b \in Seq(T)
  BY DEF IsPath, IsSequence
<1>2. Len(a) \in Nat /\ Len(a) <= Len(b) /\ SubSeq(a, 1, Len(a)) = SubSeq(b, 1, Len(a))
  BY <1>1 DEF IsPrefix
<1>3. ASSUME NEW i \in 1 .. Len(a)
      PROVE  SubSeq(a, 1, Len(a))[i] = a[i] /\ SubSeq(b, 1, Len(a))[i] = b[i]
  BY <1>1, <1>2
<1>. QED
  BY <1>2, <1>3

\* Paths that start apart are not nested.
LEMMA NestedFirst ==
  ASSUME NEW p, NEW q, IsPath(p), IsPath(q), Nested(p, q)
  PROVE  p[1] = q[1]
<1>1. 1 \in 1 .. Len(p) /\ 1 \in 1 .. Len(q)
  BY SequenceLen DEF IsPath
<1>. QED
  BY <1>1, PrefixAt DEF Nested

LEMMA PrefixSelf == ASSUME NEW p, IsPath(p) PROVE IsPrefix(p, p)
BY SequenceLen DEF IsPath, IsPrefix

\* What a path of so many names is.
LEMMA Triple ==
  ASSUME NEW a, NEW b, NEW c
  PROVE  LET t == <<a, b, c>> IN IsPath(t) /\ Len(t) = 3 /\ t[1] = a /\ t[2] = b /\ t[3] = c
<1>1. <<a, b, c>> \in Seq({a, b, c})
  OBVIOUS
<1>. QED
  BY <1>1, SeqIsSequence DEF IsPath

LEMMA Quadruple ==
  ASSUME NEW a, NEW b, NEW c, NEW d
  PROVE  LET t == <<a, b, c, d>>
         IN  IsPath(t) /\ Len(t) = 4 /\ t[1] = a /\ t[2] = b /\ t[3] = c /\ t[4] = d
<1>1. <<a, b, c, d>> \in Seq({a, b, c, d})
  OBVIOUS
<1>. QED
  BY <1>1, SeqIsSequence DEF IsPath

LEMMA PowPathsType ==
  /\ IsPath(MaxThreads) /\ Len(MaxThreads) = 3
  /\ MaxThreads[1] = "pow" /\ MaxThreads[2] = "mining" /\ MaxThreads[3] = "max_threads"
  /\ IsPath(MaxTickets) /\ Len(MaxTickets) = 3
  /\ MaxTickets[1] = "pow" /\ MaxTickets[2] = "mining" /\ MaxTickets[3] = "max_tickets_per_block"
  /\ IsPath(Targets) /\ Len(Targets) = 3
  /\ Targets[1] = "pow" /\ Targets[2] = "auto_claim" /\ Targets[3] = "targets"
  /\ IsPath(TickUnit) /\ Len(TickUnit) = 4
  /\ TickUnit[1] = "pow" /\ TickUnit[2] = "auto_claim" /\ TickUnit[3] = "tick" /\ TickUnit[4] = "unit"
  /\ IsPath(TickValue) /\ Len(TickValue) = 4
  /\ TickValue[1] = "pow" /\ TickValue[2] = "auto_claim" /\ TickValue[3] = "tick" /\ TickValue[4] = "value"
BY Triple, Quadruple DEF MaxThreads, MaxTickets, TickUnit, TickValue, Targets

LEMMA PowPathsStart == \A p \in PowPaths : IsPath(p) /\ p[1] = "pow"
BY PowPathsType DEF PowPaths

LEMMA PowPathsApart ==
  /\ MaxThreads # MaxTickets /\ MaxThreads # TickUnit /\ MaxThreads # TickValue /\ MaxThreads # Targets
  /\ MaxTickets # TickUnit /\ MaxTickets # TickValue /\ MaxTickets # Targets
  /\ TickUnit # TickValue /\ TickUnit # Targets /\ TickValue # Targets
BY PowPathsType

\* The five leaves lie beside each other.
LEMMA PowPathsFlat ==
  ASSUME NEW p \in PowPaths, NEW q \in PowPaths, IsPrefix(p, q)
  PROVE  p = q
<1>1. Len(p) \in {3, 4} /\ \A i \in 1 .. Len(p) : p[i] = q[i]
  BY PowPathsType, PowPathsStart, PrefixAt DEF PowPaths
<1>2. p[2] = q[2] /\ p[3] = q[3] /\ (Len(p) = 4 => p[4] = q[4])
  BY <1>1
<1>. QED
  BY <1>2, PowPathsType DEF PowPaths

\* The keystore's leaves lie elsewhere, and so does what is below known_keys.
LEMMA KeyPathsStart ==
  /\ IsPath(FundingPk) /\ FundingPk[1] = "cryptarchia"
  /\ \A k \in Keys : IsPath(KnownKey(k)) /\ KnownKey(k)[1] = "wallet"
<1>1. IsPath(FundingPk) /\ FundingPk[1] = "cryptarchia"
  BY Quadruple DEF FundingPk
<1>2. ASSUME NEW k \in Keys PROVE IsPath(KnownKey(k)) /\ KnownKey(k)[1] = "wallet"
  <2>1. ASSUME NEW S, NEW s \in Seq(S), NEW e \in S, Len(s) = 2
        PROVE  Append(s, e) \in Seq(S) /\ Len(Append(s, e)) = 3 /\ Append(s, e)[1] = s[1]
    BY <2>1, AppendProperties
  <2>2. /\ KnownKeys \in Seq({"wallet", "known_keys", k}) /\ Len(KnownKeys) = 2
        /\ KnownKeys[1] = "wallet" /\ k \in {"wallet", "known_keys", k}
    BY DEF KnownKeys
  <2>3. /\ Append(KnownKeys, k) \in Seq({"wallet", "known_keys", k})
        /\ Len(Append(KnownKeys, k)) = 3 /\ Append(KnownKeys, k)[1] = KnownKeys[1]
    BY <2>1, <2>2, Zenon
  <2>4. Append(KnownKeys, k) # <<>>
    BY <2>3
  <2>. QED
    BY <2>2, <2>3, <2>4, SeqIsSequence DEF KnownKey, IsPath
<1>. QED
  BY <1>1, <1>2

LEMMA BelowKnownKeys ==
  ASSUME NEW q, IsSequence(q), IsStrictPrefix(KnownKeys, q)
  PROVE  IsPath(q) /\ q[1] = "wallet"
<1>1. /\ KnownKeys \in Seq({"wallet", "known_keys"}) /\ Len(KnownKeys) = 2 /\ KnownKeys # <<>>
      /\ KnownKeys[1] = "wallet"
  BY DEF KnownKeys
<1>2. IsPath(KnownKeys)
  BY <1>1, SeqIsSequence DEF IsPath
<1>3. IsPath(q)
  BY <1>1, SequenceLen DEF IsStrictPrefix, IsPrefix, IsPath
<1>. QED
  BY <1>1, <1>2, <1>3, PrefixAt DEF IsStrictPrefix

-----------------------------------------------------------------------------
(* What a merge and an accepted request make of a document. *)

\* The paths of d that none of src touches.
Spared(d, src) == {p \in DOMAIN d : \A q \in src : ~ Nested(p, q)}

\* What a merge is: the leaves of src, and those of dst that src spares.
Merged(dst, src, m) ==
  /\ DOMAIN m = Spared(dst, DOMAIN src) \cup DOMAIN src
  /\ \A p \in DOMAIN src : m[p] = src[p]
  /\ \A p \in DOMAIN m \ DOMAIN src : m[p] = dst[p]

LEMMA MergeFacts ==
  ASSUME NEW dst, NEW src
  PROVE  Merged(dst, src, merge_yaml_mapping(dst, src))
BY DEF merge_yaml_mapping, Spared, Merged

IsRequest(r) ==
  /\ \A f \in DOMAIN r : IsLeaf(r[f])
  /\ "auto_claim_targets" \in DOMAIN r /\ ~ IsScalar(r["auto_claim_targets"]) =>
       IsSequence(r["auto_claim_targets"].list)

\* The text of a count that a node accepts.
Count(text) == parse_threshold(text) /\ text # "0"

\* A leaf that holds one.
CountLeaf(x) == x = Scalar(x.scalar) /\ Count(x.scalar)
ThreadsLeaf(x) == x = Scalar(x.scalar) /\ (x.scalar = "null" \/ Count(x.scalar))

\* A fragment has the leaves that were asked for, each with a value on which a
\* node starts.
LEMMA FragmentFacts ==
  ASSUME NEW r, NEW view, IsRequest(r), Accepted(r, view)
  PROVE  LET g == pow_fragment(r, view) IN
         /\ DOMAIN g = AskedPaths(r) /\ AskedPaths(r) \subseteq PowPaths
         /\ MaxThreads \in AskedPaths(r) <=> "max_threads" \in DOMAIN r
         /\ MaxThreads \in AskedPaths(r) => g[MaxThreads] = r["max_threads"] /\ ThreadsLeaf(g[MaxThreads])
         /\ MaxTickets \in AskedPaths(r) <=> "max_tickets_per_block" \in DOMAIN r
         /\ MaxTickets \in AskedPaths(r) =>
              g[MaxTickets] = r["max_tickets_per_block"] /\ CountLeaf(g[MaxTickets])
         /\ TickValue \in AskedPaths(r) <=> "tick_seconds" \in DOMAIN r
         /\ TickUnit \in AskedPaths(r) <=> "tick_seconds" \in DOMAIN r
         /\ TickValue \in AskedPaths(r) =>
              g[TickValue] = r["tick_seconds"] /\ CountLeaf(g[TickValue]) /\ g[TickUnit] = Scalar("seconds")
         /\ Targets \in AskedPaths(r) <=> HasTargets(r)
         /\ Targets \in AskedPaths(r) => g[Targets] = List(CanonicalTargets(r, view))
<1> DEFINE g == pow_fragment(r, view)
<1>1. DOMAIN g = AskedPaths(r) /\ AskedPaths(r) \subseteq PowPaths
  BY DEF pow_fragment, AskedPaths, PowPaths
<1>2. /\ MaxThreads \in AskedPaths(r) <=> "max_threads" \in DOMAIN r
      /\ MaxTickets \in AskedPaths(r) <=> "max_tickets_per_block" \in DOMAIN r
      /\ TickValue \in AskedPaths(r) <=> "tick_seconds" \in DOMAIN r
      /\ TickUnit \in AskedPaths(r) <=> "tick_seconds" \in DOMAIN r
      /\ Targets \in AskedPaths(r) <=> HasTargets(r)
  BY PowPathsApart DEF AskedPaths
<1>3. /\ MaxThreads \in AskedPaths(r) => g[MaxThreads] = r["max_threads"]
      /\ MaxTickets \in AskedPaths(r) => g[MaxTickets] = r["max_tickets_per_block"]
      /\ TickUnit \in AskedPaths(r) => g[TickUnit] = Scalar("seconds")
      /\ TickValue \in AskedPaths(r) => g[TickValue] = r["tick_seconds"]
      /\ Targets \in AskedPaths(r) => g[Targets] = List(CanonicalTargets(r, view))
  BY PowPathsApart DEF pow_fragment
<1>4. ASSUME NEW f \in ScalarFields, f \in DOMAIN r
      PROVE  /\ r[f] = Scalar(r[f].scalar)
             /\ Count(r[f].scalar) \/ (f = "max_threads" /\ r[f].scalar = "null")
  <2>1. ScalarAccepted(f, r[f]) /\ IsLeaf(r[f])
    BY <1>4 DEF Accepted, IsRequest
  <2>. QED
    BY <2>1 DEF ScalarAccepted, IsLeaf, Count
<1>5. "max_threads" \in ScalarFields /\ "max_tickets_per_block" \in ScalarFields /\ "tick_seconds" \in ScalarFields
  BY DEF ScalarFields, Fields
<1>. QED
  BY <1>1, <1>2, <1>3, <1>4, <1>5 DEF ThreadsLeaf, CountLeaf

\* The targets that are written are keys the view tracks, none of them twice,
\* and as many as were asked for.
LEMMA TargetsFacts ==
  ASSUME NEW r, NEW view, IsRequest(r), Accepted(r, view), HasTargets(r)
  PROVE  LET c == CanonicalTargets(r, view) IN
         /\ c \in Seq(Keys) /\ Len(c) = Len(r["auto_claim_targets"].list)
         /\ IsInjective(c) /\ \A i \in DOMAIN c : tracks_key(view, c[i])
<1> DEFINE asked == r["auto_claim_targets"].list
           c == CanonicalTargets(r, view)
<1>1. /\ ~ IsScalar(r["auto_claim_targets"]) /\ IsInjective(c)
      /\ \A t \in Range(asked) : canonical_claim_target(view, t)
  BY DEF Accepted, TargetsAccepted
<1>2. DOMAIN asked = 1 .. Len(asked) /\ Len(asked) \in Nat
  BY <1>1, SequenceLen DEF IsRequest, HasTargets
<1>3. c = [i \in DOMAIN asked |-> Canonical(view, asked[i])]
  BY DEF CanonicalTargets
<1>4. ASSUME NEW i \in DOMAIN asked
      PROVE  c[i] \in Keys /\ tracks_key(view, c[i])
  <2>1. canonical_claim_target(view, asked[i])
    BY <1>1 DEF Range
  <2>. QED
    BY <1>3, <2>1 DEF canonical_claim_target
<1>5. c \in [1 .. Len(asked) -> Keys]
  BY <1>2, <1>3, <1>4
<1>6. c \in Seq(Keys) /\ Len(c) = Len(asked)
  BY <1>2, <1>5
<1>. QED
  BY <1>1, <1>3, <1>4, <1>6

\* What SuccessApplies says of a call: after is before with the fields of r.
Applied(r, before, after) ==
  /\ DOMAIN after = Spared(before, AskedPaths(r)) \cup AskedPaths(r)
  /\ \A p \in Spared(before, AskedPaths(r)) : after[p] = before[p]
  /\ \A f \in DOMAIN r \cap ScalarFields : read_pow_config(after)[f] = r[f]
  /\ HasTargets(r) => Len(after[Targets].list) = Len(r["auto_claim_targets"].list)

LEMMA ScalarLeaf ==
  ASSUME NEW doc, NEW p \in DOMAIN doc, NEW text, doc[p] = Scalar(text)
  PROVE  scalarAt(doc, p) = text
BY DEF scalarAt, IsScalar, Scalar

LEMMA AppliedByMerge ==
  ASSUME NEW r, NEW view, IsRequest(r), Accepted(r, view),
         NEW g, g = pow_fragment(r, view),
         NEW d, NEW after, after = merge_yaml_mapping(d, g)
  PROVE  Applied(r, d, after)
<1>1. /\ DOMAIN g = AskedPaths(r) /\ AskedPaths(r) \subseteq PowPaths
      /\ MaxThreads \in AskedPaths(r) <=> "max_threads" \in DOMAIN r
      /\ MaxThreads \in AskedPaths(r) => g[MaxThreads] = r["max_threads"] /\ ThreadsLeaf(g[MaxThreads])
      /\ MaxTickets \in AskedPaths(r) <=> "max_tickets_per_block" \in DOMAIN r
      /\ MaxTickets \in AskedPaths(r) =>
           g[MaxTickets] = r["max_tickets_per_block"] /\ CountLeaf(g[MaxTickets])
      /\ TickValue \in AskedPaths(r) <=> "tick_seconds" \in DOMAIN r
      /\ TickValue \in AskedPaths(r) =>
           g[TickValue] = r["tick_seconds"] /\ CountLeaf(g[TickValue])
      /\ Targets \in AskedPaths(r) <=> HasTargets(r)
      /\ Targets \in AskedPaths(r) => g[Targets] = List(CanonicalTargets(r, view))
  BY FragmentFacts
<1>2. /\ DOMAIN after = Spared(d, AskedPaths(r)) \cup AskedPaths(r)
      /\ \A p \in AskedPaths(r) : after[p] = g[p]
      /\ \A p \in DOMAIN after \ AskedPaths(r) : after[p] = d[p]
  <2>1. Merged(d, g, after)
    BY MergeFacts, Zenon
  <2>. QED
    BY <1>1, <2>1 DEF Merged
<1>3. \A p \in Spared(d, AskedPaths(r)) : p \notin AskedPaths(r)
  <2>1. \A p \in AskedPaths(r) : Nested(p, p)
    BY <1>1, PowPathsStart, PrefixSelf DEF Nested
  <2>. QED
    BY <2>1 DEF Spared
<1>4. \A p \in Spared(d, AskedPaths(r)) : after[p] = d[p]
  BY <1>2, <1>3
<1>5. ASSUME NEW f \in DOMAIN r \cap ScalarFields
      PROVE  read_pow_config(after)[f] = r[f]
  <2>0. f \in Fields
    BY DEF ScalarFields
  <2>1. CASE f = "max_threads"
    <3>1. /\ after[MaxThreads] = Scalar(after[MaxThreads].scalar) /\ after[MaxThreads] = r[f]
          /\ after[MaxThreads].scalar # "" /\ MaxThreads \in DOMAIN after
      BY <1>1, <1>2, <2>1 DEF ThreadsLeaf, Count, parse_threshold
    <3>2. scalarAt(after, MaxThreads) = after[MaxThreads].scalar
      BY <3>1, ScalarLeaf
    <3>. QED
      BY <2>0, <2>1, <3>1, <3>2 DEF read_pow_config, ThreadsRead
  <2>2. CASE f = "max_tickets_per_block"
    <3>1. /\ after[MaxTickets] = Scalar(after[MaxTickets].scalar) /\ after[MaxTickets] = r[f]
          /\ MaxTickets \in DOMAIN after
      BY <1>1, <1>2, <2>2 DEF CountLeaf
    <3>2. scalarAt(after, MaxTickets) = after[MaxTickets].scalar
      BY <3>1, ScalarLeaf
    <3>. QED
      BY <2>0, <2>2, <3>1, <3>2 DEF read_pow_config
  <2>3. CASE f = "tick_seconds"
    <3>1. /\ after[TickValue] = Scalar(after[TickValue].scalar) /\ after[TickValue] = r[f]
          /\ TickValue \in DOMAIN after
      BY <1>1, <1>2, <2>3 DEF CountLeaf
    <3>2. scalarAt(after, TickValue) = after[TickValue].scalar
      BY <3>1, ScalarLeaf
    <3>. QED
      BY <2>0, <2>3, <3>1, <3>2 DEF read_pow_config
  <2>. QED
    BY <2>1, <2>2, <2>3 DEF ScalarFields, Fields
<1>6. ASSUME HasTargets(r)
      PROVE  Len(after[Targets].list) = Len(r["auto_claim_targets"].list)
  <2>1. after[Targets] = List(CanonicalTargets(r, view))
    BY <1>1, <1>2, <1>6
  <2>2. after[Targets].list = CanonicalTargets(r, view)
    BY <2>1 DEF List
  <2>. QED
    BY <1>6, <2>2, TargetsFacts
<1>. QED
  BY <1>2, <1>4, <1>5, <1>6 DEF Applied

LEMMA AppliedNothing ==
  ASSUME NEW r, AskedPaths(r) = {}, NEW d
  PROVE  Applied(r, d, d)
<1>1. Spared(d, AskedPaths(r)) = DOMAIN d
  BY DEF Spared
<1>2. DOMAIN r \cap ScalarFields = {} /\ ~ HasTargets(r)
  BY DEF AskedPaths, ScalarFields, Fields
<1>. QED
  BY <1>1, <1>2 DEF Applied

-----------------------------------------------------------------------------
(* FailedCallKeepsFile and SuccessApplies. *)

\* How far the call has come: what it has validated, what it has merged, and
\* what it has done when it returns.  The middle parts say it of the file as it
\* still is, because no step of a call but the rename changes it.
Validated ==
  /\ Accepted(call.request, Loaded(config, keystore))
  /\ call.fragment = pow_fragment(call.request, Loaded(config, keystore))

MergedText ==
  config.state = "document" /\ call.text = Whole(merge_yaml_mapping(config.doc, call.fragment))

Done == config.state = call.begun.state /\ Applied(call.request, call.begun.doc, config.doc)

Progress ==
  /\ IsRequest(call.request)
  /\ ~ raced /\ call.pc \in {"merge", "open", "write", "rename"} => Validated
  /\ ~ raced /\ call.pc \in {"open", "write", "rename"} => MergedText
  /\ call.pc = "rename" => tmp = "whole" \/ LosesFlush
  /\ ~ raced /\ call.pc = "return" => Done \/ LosesFlush
  /\ ~ raced /\ call.pc = "idle" /\ call.result = "ok" => Done \/ LosesFlush
  /\ ~ raced /\ call.pc = "idle" /\ call.result = "killed" =>
       config = call.begun \/ Done \/ LosesFlush

LEMMA RequestsAreRequests ==
  IsRequest(NoRequest) /\ \A r \in Requests : IsRequest(r)
BY InputsAssumption DEF IsRequest, NoRequest

LEMMA InitProgress == Init => Progress
<1> SUFFICES ASSUME Init PROVE Progress
  OBVIOUS
<1>1. call.pc = "idle" /\ call.result = "none" /\ call.request = NoRequest
  BY DEF Init, Idle
<1> QED
  BY <1>1, RequestsAreRequests DEF Progress

\* What Return leaves of the call.
LEMMA ReturnKeeps ==
  ASSUME NEW result, CallShape, Return(result)
  PROVE  /\ call'.pc = "idle" /\ call'.result = result
         /\ call'.begun = call.begun /\ call'.request = call.request
  BY DEF CallShape, Return

\* The rename writes what was merged into the file the call began with.
LEMMA RenameProgress ==
  ASSUME Progress, IInv, Rename
  PROVE  Progress'
<1> USE DEF IInv
<1>1. raced' = raced /\ keystore' = keystore /\ call.pc = "rename"
  BY DEF Rename, Environment
<1>2. CASE /\ config' = (IF tmp = "whole" THEN call.text ELSE Broken)
           /\ call' = [call EXCEPT !.pc = "return"]
  <2>1. call'.pc = "return" /\ call'.begun = call.begun /\ call'.request = call.request
    BY <1>2 DEF CallShape
  <2>2. ASSUME ~ raced, ~ LosesFlush PROVE Done'
    <3>1. Validated /\ MergedText /\ config = call.begun /\ tmp = "whole"
      BY <1>1, <2>2 DEF Progress, Untouched
    <3>2. PICK m : m = merge_yaml_mapping(config.doc, call.fragment)
      OBVIOUS
    <3>3. config' = Whole(m)
      BY <1>2, <3>1, <3>2 DEF MergedText
    <3>4. config'.state = "document" /\ config'.doc = m
      BY <3>3 DEF Whole, File
    <3>5. Applied(call.request, config.doc, m)
      BY <3>1, <3>2, AppliedByMerge DEF Validated, Progress
    <3> QED
      BY <2>1, <3>1, <3>4, <3>5 DEF Done, MergedText
  <2> QED
    BY <1>1, <2>1, <2>2 DEF Progress
<1>3. CASE call' = [call EXCEPT !.pc = "remove"] /\ UNCHANGED <<config, tmp>>
  <2>1. call'.pc = "remove" /\ call'.request = call.request
    BY <1>3 DEF CallShape
  <2> QED
    BY <1>1, <2>1 DEF Progress
<1> QED
  BY <1>2, <1>3 DEF Rename

\* Where the file, the keystore and what a call has prepared stay, so does
\* what is said of them.
LEMMA PreparedKeeps ==
  ASSUME UNCHANGED <<config, keystore>>, call'.request = call.request,
         call'.fragment = call.fragment, call'.text = call.text
  PROVE  /\ Validated => Validated'
         /\ MergedText => MergedText'
BY DEF Validated, MergedText

LEMMA StepProgress == IInv /\ Progress /\ [Next]_vars => Progress'
<1> SUFFICES ASSUME IInv, Progress, [Next]_vars PROVE Progress'
  OBVIOUS
<1> USE DEF IInv
<1>1. ASSUME NEW r \in Requests, Call(r) PROVE Progress'
  <2>1. call'.pc \in {"idle", "load"} /\ call'.result \in {"error", "none"} /\ call'.request = r
    BY <1>1 DEF Call, Idle
  <2> QED
    BY <2>1, RequestsAreRequests DEF Progress
<1>2. CASE Validate
  <2>1. UNCHANGED <<config, keystore, raced>> /\ call.pc = "load"
    BY <1>2 DEF Validate, Environment
  <2>2. CASE Return("error")
    BY <2>1, <2>2, ReturnKeeps DEF Progress
  <2>3. CASE Return("ok") /\ AskedPaths(call.request) = {}
    <3>1. Applied(call.request, config.doc, config.doc)
      BY <2>3, AppliedNothing
    <3>2. ~ raced => Done'
      BY <2>1, <2>3, <3>1, ReturnKeeps DEF Done, Untouched
    <3> QED
      BY <2>1, <2>3, <3>2, ReturnKeeps DEF Progress
  <2>4. CASE /\ Accepted(call.request, Loaded(config, keystore))
             /\ call' = [call EXCEPT !.pc = "merge",
                           !.fragment = pow_fragment(call.request, Loaded(config, keystore))]
    <3>1. /\ call'.pc = "merge" /\ call'.request = call.request
          /\ call'.fragment = pow_fragment(call.request, Loaded(config, keystore))
      BY <2>4 DEF CallShape
    <3>2. Validated'
      BY <2>1, <2>4, <3>1 DEF Validated
    <3> QED
      BY <3>1, <3>2 DEF Progress
  <2> QED
    BY <1>2, <2>2, <2>3, <2>4 DEF Validate
<1>3. CASE MergeFragment
  <2>1. UNCHANGED <<config, keystore, raced>> /\ call.pc = "merge"
    BY <1>3 DEF MergeFragment, Environment
  <2>2. CASE Return("error")
    BY <2>1, <2>2, ReturnKeeps DEF Progress
  <2>3. CASE /\ config.state = "document"
             /\ call' = [call EXCEPT !.pc = "open",
                           !.text = Whole(merge_yaml_mapping(config.doc, call.fragment))]
    <3>1. /\ call'.pc = "open" /\ call'.request = call.request /\ call'.fragment = call.fragment
          /\ call'.text = Whole(merge_yaml_mapping(config.doc, call.fragment))
      BY <2>3 DEF CallShape
    <3>2. MergedText' /\ (Validated => Validated')
      BY <2>1, <2>3, <3>1 DEF Validated, MergedText
    <3> QED
      BY <2>1, <3>1, <3>2 DEF Progress
  <2> QED
    BY <1>3, <2>2, <2>3 DEF MergeFragment
<1>4. CASE OpenTmp
  <2>1. /\ UNCHANGED <<config, keystore, raced>> /\ call.pc = "open" /\ call'.pc = "write"
        /\ call'.request = call.request /\ call'.fragment = call.fragment /\ call'.text = call.text
    BY <1>4 DEF OpenTmp, Environment, CallShape
  <2> QED
    BY <2>1, PreparedKeeps DEF Progress
<1>5. CASE WriteTmp
  <2>1. /\ UNCHANGED <<config, keystore, raced>> /\ call.pc = "write"
        /\ \/ call'.pc = "remove"
           \/ call'.pc = "rename" /\ (tmp' = "whole" \/ LosesFlush)
        /\ call'.request = call.request /\ call'.fragment = call.fragment /\ call'.text = call.text
    BY <1>5 DEF WriteTmp, Environment, CallShape
  <2> QED
    BY <2>1, PreparedKeeps DEF Progress
<1>6. CASE Rename
  BY <1>6, RenameProgress
<1>7. CASE RemoveTmp \/ ReturnApplied \/ Kill
  <2>1. CASE RemoveTmp
    BY <2>1, ReturnKeeps DEF RemoveTmp, Progress
  <2>2. CASE ReturnApplied \/ Kill
    <3>1. PICK result \in {"ok", "killed"} :
            Return(result) /\ (result = "ok" => call.pc = "return") /\ UNCHANGED <<config, raced>>
      BY <2>2 DEF ReturnApplied, Kill, Environment
    <3>2. /\ call'.pc = "idle" /\ call'.result = result
          /\ call'.begun = call.begun /\ call'.request = call.request
      BY <3>1, ReturnKeeps
    <3>3. call.pc # "idle"
      BY <2>2 DEF ReturnApplied, Kill
    <3>4. Done => Done'
      BY <3>1, <3>2 DEF Done
    <3>5. ~ raced => \/ call.pc = "return" /\ (Done \/ LosesFlush)
                     \/ call.pc # "return" /\ config = call.begun
      BY <3>3 DEF Progress, Untouched
    <3> QED
      BY <3>1, <3>2, <3>4, <3>5 DEF Progress
  <2> QED
    BY <1>7, <2>1, <2>2
<1>8. ASSUME NEW d \in Documents, Edit(d) PROVE Progress'
  <2>1. CASE call.pc = "idle"
    <3>1. call'.pc = "idle" /\ call'.result = "none" /\ call'.request = NoRequest
      BY <1>8, <2>1 DEF Edit, Idle
    <3> QED
      BY <3>1, RequestsAreRequests DEF Progress
  <2>2. CASE call.pc # "idle"
    <3>1. raced' /\ call' = call /\ tmp' = tmp
      BY <1>8, <2>2 DEF Edit
    <3> QED
      BY <3>1 DEF Progress
  <2> QED
    BY <2>1, <2>2
<1>9. ASSUME NEW k \in Keys, AddKey(k) \/ RemoveKey(k) PROVE Progress'
  <2>1. call'.pc = "idle" /\ call'.result = "none" /\ call'.request = NoRequest
    BY <1>9 DEF AddKey, RemoveKey, Idle
  <2> QED
    BY <2>1, RequestsAreRequests DEF Progress
<1>10. CASE UNCHANGED vars
  <2>1. UNCHANGED <<config, keystore, raced, call, tmp>>
    BY <1>10 DEF vars
  <2> QED
    BY <2>1 DEF Progress, Validated, MergedText, Done
<1> QED
  BY <1>1, <1>2, <1>3, <1>4, <1>5, <1>6, <1>7, <1>8, <1>9, <1>10 DEF Next

\* What Done says is what the two properties say of a call.
LEMMA DoneApplies == Done => RequestApplied
BY DEF Done, Applied, Spared, RequestApplied

\* A pow_configure that is rejected or fails leaves the config as it was when
\* the call began; one that is killed leaves that or the config with all it was
\* asked to write, also when the kill falls between the rename and the answer.
\* No edit fell into the call, and no flush was lost.
THEOREM FailedCallKeepsFileCorrect ==
  ASSUME LosesFlush = FALSE
  PROVE  Spec => []FailedCallKeepsFile
<1>1. IInv /\ Progress => FailedCallKeepsFile
  BY DoneApplies DEF IInv, Untouched, Progress, FailedCallKeepsFile, Returned
<1> QED
  BY <1>1, InitIInv, StepIInv, InitProgress, StepProgress, PTL DEF Spec

\* A pow_configure that returns without an error has written every field it was
\* given, as its reader reads it back, and left every other leaf as it was; no
\* edit fell into the call, and the last flush of the temporary file is not one
\* whose failure goes unseen (config_full_disk shows what happens then).
THEOREM SuccessAppliesCorrect ==
  ASSUME LosesFlush = FALSE
  PROVE  Spec => []SuccessApplies
<1>1. Progress => SuccessApplies
  BY DoneApplies DEF Progress, Returned, SuccessApplies
<1> QED
  BY <1>1, InitIInv, StepIInv, InitProgress, StepProgress, PTL DEF Spec

-----------------------------------------------------------------------------
(* Types: every document stays well-formed. *)

\* A document whose targets, if it lists any, are keys.
WellFormed(d) ==
  /\ IsDocument(d)
  /\ Targets \in DOMAIN d /\ ~ IsScalar(d[Targets]) => d[Targets].list \in Seq(Keys)

\* A fragment has leaves of the pow section only, and its targets are keys.
IsFragment(g) ==
  /\ DOMAIN g \subseteq PowPaths
  /\ \A p \in DOMAIN g : IsLeaf(g[p])
  /\ MaxThreads \in DOMAIN g => ThreadsLeaf(g[MaxThreads])
  /\ Targets \in DOMAIN g => g[Targets] = List(g[Targets].list) /\ g[Targets].list \in Seq(Keys)

LEMMA LeafFacts ==
  /\ \A text : IsLeaf(Scalar(text)) /\ IsScalar(Scalar(text)) /\ Scalar(text).scalar = text
  /\ \A items : IsLeaf(List(items)) /\ ~ IsScalar(List(items)) /\ List(items).list = items
BY DEF IsLeaf, IsScalar, Scalar, List

LEMMA WellFormedDocuments ==
  WellFormed(NoDoc) /\ \A d \in Documents : WellFormed(d)
<1>1. DOMAIN NoDoc = {} /\ NoDoc = [p \in DOMAIN NoDoc |-> NoDoc[p]]
  BY DEF NoDoc
<1>2. WellFormed(NoDoc)
  BY <1>1 DEF WellFormed, IsDocument
<1> QED
  BY <1>2, InputsAssumption DEF WellFormed

\* What an accepted request asks to write is a fragment.
LEMMA FragmentIsFragment ==
  ASSUME NEW r, NEW view, IsRequest(r), Accepted(r, view)
  PROVE  IsFragment(pow_fragment(r, view))
<1> DEFINE g == pow_fragment(r, view)
<1>1. PICK h : h = g
  OBVIOUS
<1>2. /\ DOMAIN h = AskedPaths(r) /\ AskedPaths(r) \subseteq PowPaths
      /\ MaxThreads \in AskedPaths(r) => ThreadsLeaf(h[MaxThreads])
      /\ MaxTickets \in AskedPaths(r) => CountLeaf(h[MaxTickets])
      /\ TickValue \in AskedPaths(r) <=> TickUnit \in AskedPaths(r)
      /\ TickValue \in AskedPaths(r) => CountLeaf(h[TickValue]) /\ h[TickUnit] = Scalar("seconds")
      /\ Targets \in AskedPaths(r) <=> HasTargets(r)
      /\ Targets \in AskedPaths(r) => h[Targets] = List(CanonicalTargets(r, view))
  BY <1>1, FragmentFacts
<1>3. Targets \in AskedPaths(r) => CanonicalTargets(r, view) \in Seq(Keys)
  BY <1>2, TargetsFacts
<1>4. Targets \in DOMAIN h => h[Targets] = List(h[Targets].list) /\ h[Targets].list \in Seq(Keys)
  BY <1>2, <1>3, LeafFacts
<1>5. ASSUME NEW p \in DOMAIN h PROVE IsLeaf(h[p])
  BY <1>2, <1>4, LeafFacts DEF PowPaths, ThreadsLeaf, CountLeaf
<1> QED
  BY <1>1, <1>2, <1>4, <1>5 DEF IsFragment

\* A merge leaves a document: what it keeps is nested neither in itself nor in
\* the fragment, and the fragment's leaves lie beside each other.
LEMMA MergeWellFormed ==
  ASSUME NEW d, NEW g, WellFormed(d), IsFragment(g)
  PROVE  WellFormed(merge_yaml_mapping(d, g))
<1>1. PICK m : m = merge_yaml_mapping(d, g)
  OBVIOUS
<1>2. /\ DOMAIN m = Spared(d, DOMAIN g) \cup DOMAIN g
      /\ \A p \in DOMAIN g : m[p] = g[p]
      /\ \A p \in DOMAIN m \ DOMAIN g : m[p] = d[p]
  <2>1. Merged(d, g, m)
    BY <1>1, MergeFacts, Zenon
  <2> QED
    BY <2>1 DEF Merged
<1>3. m = [p \in DOMAIN m |-> m[p]]
  BY <1>1 DEF merge_yaml_mapping
<1>4. ASSUME NEW p \in DOMAIN m
      PROVE  IsSequence(p) /\ p # <<>> /\ IsLeaf(m[p])
  <2>1. CASE p \in DOMAIN g
    BY <1>2, <2>1, PowPathsStart DEF IsFragment, IsPath
  <2>2. CASE p \notin DOMAIN g
    <3>1. p \in DOMAIN d /\ m[p] = d[p]
      BY <1>2, <2>2 DEF Spared
    <3> QED
      BY <3>1 DEF WellFormed, IsDocument
  <2> QED
    BY <2>1, <2>2
<1>5. ASSUME NEW p \in DOMAIN m, NEW q \in DOMAIN m, IsPrefix(p, q)
      PROVE  p = q
  <2>1. CASE p \in DOMAIN g /\ q \in DOMAIN g
    BY <1>5, <2>1, PowPathsFlat DEF IsFragment
  <2>2. CASE p \in Spared(d, DOMAIN g) /\ q \in Spared(d, DOMAIN g)
    BY <1>5, <2>2 DEF Spared, WellFormed, IsDocument
  <2>3. ~ (p \in DOMAIN g /\ q \in Spared(d, DOMAIN g)) /\ ~ (q \in DOMAIN g /\ p \in Spared(d, DOMAIN g))
    BY <1>5 DEF Spared, Nested
  <2> QED
    BY <1>2, <2>1, <2>2, <2>3
<1>6. ASSUME Targets \in DOMAIN m, ~ IsScalar(m[Targets])
      PROVE  m[Targets].list \in Seq(Keys)
  <2>1. CASE Targets \in DOMAIN g
    BY <1>2, <2>1 DEF IsFragment
  <2>2. CASE Targets \notin DOMAIN g
    <3>1. Targets \in DOMAIN d /\ m[Targets] = d[Targets]
      BY <1>2, <1>6, <2>2 DEF Spared
    <3> QED
      BY <1>6, <3>1 DEF WellFormed
  <2> QED
    BY <2>1, <2>2
<1>7. IsDocument(m)
  BY <1>3, <1>4, <1>5 DEF IsDocument
<1> QED
  BY <1>1, <1>6, <1>7 DEF WellFormed

LEMMA TargetsReadType ==
  ASSUME NEW d, WellFormed(d)
  PROVE  Range(TargetsRead(d)) \subseteq {<<k>> : k \in Keys}
<1>1. CASE Targets \in DOMAIN d /\ ~ IsScalar(d[Targets])
  <2>1. d[Targets].list \in Seq(Keys)
    BY <1>1 DEF WellFormed
  <2>2. TargetsRead(d) = [i \in DOMAIN d[Targets].list |-> <<d[Targets].list[i]>>]
    BY <1>1 DEF TargetsRead
  <2>3. \A i \in DOMAIN d[Targets].list : d[Targets].list[i] \in Keys
    BY <2>1
  <2> QED
    BY <2>2, <2>3 DEF Range
<1>2. CASE ~ (Targets \in DOMAIN d /\ ~ IsScalar(d[Targets]))
  <2>1. TargetsRead(d) = <<>>
    BY <1>2 DEF TargetsRead
  <2> QED
    BY <2>1 DEF Range
<1> QED
  BY <1>1, <1>2

\* The files and the call, whatever the editor does in between.
FilesTyped ==
  /\ config.state \in FileStates /\ WellFormed(config.doc)
  /\ tmp \in {"absent", "part", "whole"}
  /\ call.pc \in {"idle", "load", "merge", "open", "write", "rename", "return", "remove"}
  /\ call.result \in {"none", "ok", "error", "killed"}
  /\ call.pc \in {"merge", "open", "write", "rename"} => IsFragment(call.fragment)
  /\ call.pc \in {"open", "write", "rename"} =>
       call.text.state = "document" /\ WellFormed(call.text.doc)

CountsTyped ==
  /\ keystore \subseteq Keys /\ lost \subseteq Keys
  /\ calls \in 0 .. MaxCalls /\ edits \in 0 .. MaxEdits
  /\ keyChanges \in 0 .. MaxKeyChanges /\ kills \in 0 .. MaxKills

LEMMA FileFacts ==
  /\ \A d : Whole(d).state = "document" /\ Whole(d).doc = d
  /\ Missing.state = "absent" /\ Missing.doc = NoDoc
  /\ Broken.state = "broken" /\ Broken.doc = NoDoc
  /\ Empty.state = "empty" /\ Empty.doc = NoDoc
BY DEF Whole, Missing, Broken, Empty, File

LEMMA InitTyped == Init => FilesTyped /\ CountsTyped
<1> SUFFICES ASSUME Init PROVE FilesTyped /\ CountsTyped
  OBVIOUS
<1>1. config.state \in FileStates /\ WellFormed(config.doc)
  BY FileFacts, WellFormedDocuments DEF Init, FileStates
<1>2. call.pc = "idle" /\ call.result = "none" /\ tmp = "absent"
  BY DEF Init, Idle
<1>3. CountsTyped
  BY PowConfigAssumption DEF Init, CountsTyped
<1> QED
  BY <1>1, <1>2, <1>3 DEF FilesTyped

LEMMA StepCounts == CountsTyped /\ [Next]_vars => CountsTyped'
<1> SUFFICES ASSUME CountsTyped, [Next]_vars PROVE CountsTyped'
  OBVIOUS
<1> USE PowConfigAssumption DEF CountsTyped
<1>1. ASSUME NEW r \in Requests, Call(r) PROVE CountsTyped'
  BY <1>1 DEF Call
<1>2. CASE Validate \/ MergeFragment \/ OpenTmp \/ WriteTmp \/ Rename \/ ReturnApplied \/ RemoveTmp
  <2>1. UNCHANGED Environment
    BY <1>2 DEF Validate, MergeFragment, OpenTmp, WriteTmp, Rename, ReturnApplied, RemoveTmp
  <2> QED
    BY <2>1 DEF Environment
<1>3. CASE Kill
  BY <1>3 DEF Kill
<1>4. ASSUME NEW d \in Documents, Edit(d) PROVE CountsTyped'
  BY <1>4 DEF Edit
<1>5. ASSUME NEW k \in Keys, AddKey(k) \/ RemoveKey(k) PROVE CountsTyped'
  BY <1>5 DEF AddKey, RemoveKey
<1>6. CASE UNCHANGED vars
  BY <1>6 DEF vars
<1> QED
  BY <1>1, <1>2, <1>3, <1>4, <1>5, <1>6 DEF Next

LEMMA StepFiles == IInv /\ Progress /\ FilesTyped /\ [Next]_vars => FilesTyped'
<1> SUFFICES ASSUME IInv, Progress, FilesTyped, [Next]_vars PROVE FilesTyped'
  OBVIOUS
<1> USE DEF IInv
<1>1. ASSUME NEW r \in Requests, Call(r) PROVE FilesTyped'
  <2>1. /\ call'.pc \in {"idle", "load"} /\ call'.result \in {"error", "none"}
        /\ config' = config /\ tmp' = tmp
    BY <1>1 DEF Call, Idle
  <2> QED
    BY <2>1 DEF FilesTyped
<1>2. CASE Validate
  <2>1. UNCHANGED <<config, tmp>> /\ call.pc = "load"
    BY <1>2 DEF Validate
  <2>2. CASE Return("error") \/ Return("ok")
    BY <2>1, <2>2, ReturnKeeps DEF FilesTyped
  <2>3. CASE /\ Accepted(call.request, Loaded(config, keystore))
             /\ call' = [call EXCEPT !.pc = "merge",
                           !.fragment = pow_fragment(call.request, Loaded(config, keystore))]
    <3>1. /\ call'.pc = "merge" /\ call'.result = call.result
          /\ call'.fragment = pow_fragment(call.request, Loaded(config, keystore))
      BY <2>3 DEF CallShape
    <3>2. IsFragment(call'.fragment)
      BY <2>3, <3>1, FragmentIsFragment DEF Progress
    <3> QED
      BY <2>1, <3>1, <3>2 DEF FilesTyped
  <2> QED
    BY <1>2, <2>2, <2>3 DEF Validate
<1>3. CASE MergeFragment
  <2>1. UNCHANGED <<config, tmp>> /\ call.pc = "merge"
    BY <1>3 DEF MergeFragment
  <2>2. CASE Return("error")
    BY <2>1, <2>2, ReturnKeeps DEF FilesTyped
  <2>3. CASE call' = [call EXCEPT !.pc = "open",
                        !.text = Whole(merge_yaml_mapping(config.doc, call.fragment))]
    <3>1. /\ call'.pc = "open" /\ call'.result = call.result /\ call'.fragment = call.fragment
          /\ call'.text = Whole(merge_yaml_mapping(config.doc, call.fragment))
      BY <2>3 DEF CallShape
    <3>2. WellFormed(merge_yaml_mapping(config.doc, call.fragment))
      BY <2>1, MergeWellFormed DEF FilesTyped
    <3> QED
      BY <2>1, <3>1, <3>2, FileFacts DEF FilesTyped
  <2> QED
    BY <1>3, <2>2, <2>3 DEF MergeFragment
<1>4. CASE OpenTmp
  <2>1. /\ config' = config /\ tmp' = "part" /\ call.pc = "open" /\ call'.pc = "write"
        /\ call'.result = call.result /\ call'.fragment = call.fragment /\ call'.text = call.text
    BY <1>4 DEF OpenTmp, CallShape
  <2> QED
    BY <2>1 DEF FilesTyped
<1>5. CASE WriteTmp
  <2>1. /\ config' = config /\ tmp' \in {"part", "whole"} /\ call.pc = "write"
        /\ call'.pc \in {"rename", "remove"}
        /\ call'.result = call.result /\ call'.fragment = call.fragment /\ call'.text = call.text
    BY <1>5 DEF WriteTmp, CallShape
  <2> QED
    BY <2>1 DEF FilesTyped
<1>6. CASE Rename
  <2>1. CASE /\ config' = (IF tmp = "whole" THEN call.text ELSE Broken) /\ tmp' = "absent"
             /\ call' = [call EXCEPT !.pc = "return"]
    <3>1. config'.state \in FileStates /\ WellFormed(config'.doc)
      BY <1>6, <2>1, FileFacts, WellFormedDocuments DEF Rename, FilesTyped, FileStates
    <3>2. call'.pc = "return" /\ call'.result = call.result
      BY <2>1 DEF CallShape
    <3> QED
      BY <2>1, <3>1, <3>2 DEF FilesTyped
  <2>2. CASE call' = [call EXCEPT !.pc = "remove"] /\ UNCHANGED <<config, tmp>>
    <3>1. call'.pc = "remove" /\ call'.result = call.result
      BY <2>2 DEF CallShape
    <3> QED
      BY <2>2, <3>1 DEF FilesTyped
  <2> QED
    BY <1>6, <2>1, <2>2 DEF Rename
<1>7. CASE RemoveTmp \/ ReturnApplied \/ Kill
  <2>1. PICK result \in {"ok", "error", "killed"} :
          Return(result) /\ config' = config /\ tmp' \in {"absent", tmp}
    BY <1>7 DEF RemoveTmp, ReturnApplied, Kill
  <2> QED
    BY <2>1, ReturnKeeps DEF FilesTyped
<1>8. ASSUME NEW d \in Documents, Edit(d) PROVE FilesTyped'
  <2>1. config' = Whole(d) /\ tmp' = tmp
    BY <1>8 DEF Edit
  <2>2. config'.state \in FileStates /\ WellFormed(config'.doc)
    BY <2>1, FileFacts, WellFormedDocuments DEF FileStates
  <2>3. call' = call \/ (call'.pc = "idle" /\ call'.result = "none")
    BY <1>8 DEF Edit, Idle
  <2> QED
    BY <2>1, <2>2, <2>3 DEF FilesTyped
<1>9. ASSUME NEW k \in Keys, AddKey(k) \/ RemoveKey(k) PROVE FilesTyped'
  <2>1. call'.pc = "idle" /\ call'.result = "none" /\ config' = config /\ tmp' = tmp
    BY <1>9 DEF AddKey, RemoveKey, Idle
  <2> QED
    BY <2>1 DEF FilesTyped
<1>10. CASE UNCHANGED vars
  BY <1>10 DEF vars, FilesTyped
<1> QED
  BY <1>1, <1>2, <1>3, <1>4, <1>5, <1>6, <1>7, <1>8, <1>9, <1>10 DEF Next

\* The config is always absent, unreadable, empty or a document whose auto-claim
\* targets are keys, even while a call and the editor interleave.
THEOREM TypeCorrect == Spec => []TypeOK
<1>1. IInv /\ FilesTyped /\ CountsTyped => TypeOK
  BY TargetsReadType DEF IInv, FilesTyped, CountsTyped, TypeOK
<1> QED
  BY <1>1, InitIInv, StepIInv, InitProgress, StepProgress, InitTyped, StepFiles, StepCounts, PTL DEF Spec

-----------------------------------------------------------------------------
(* StaysBootable. *)

\* The part of Bootable that the file alone decides.
Startable(d) ==
  /\ \A p \in {MaxTickets, TickValue} : p \in DOMAIN d => Count(scalarAt(d, p))
  /\ scalarAt(d, MaxThreads) # "0"
  /\ IsInjective(TargetsRead(d))

Tracked(d, view) == \A t \in Range(TargetsRead(d)) : tracks_key(view, Last(t))

\* The keystore adds no leaf to the pow section.
LEMMA ViewFacts ==
  ASSUME NEW file, NEW keys \in SUBSET Keys, NEW p \in PowPaths
  PROVE  LET view == Loaded(file, keys) IN
         /\ p \in DOMAIN view <=> p \in DOMAIN file.doc
         /\ p \in DOMAIN view => view[p] = file.doc[p]
         /\ scalarAt(view, p) = scalarAt(file.doc, p)
<1>1. PICK view : view = Loaded(file, keys)
  OBVIOUS
<1>2. Merged(keystore_values(keys), file.doc, view)
  BY <1>1, MergeFacts, Zenon DEF Loaded
<1>3. \A q \in DOMAIN keystore_values(keys) : q[1] # "pow"
  BY KeyPathsStart DEF keystore_values
<1>4. p \notin DOMAIN keystore_values(keys)
  BY <1>3, PowPathsStart
<1>5. (p \in DOMAIN view <=> p \in DOMAIN file.doc) /\ (p \in DOMAIN view => view[p] = file.doc[p])
  BY <1>2, <1>4 DEF Merged, Spared
<1>6. scalarAt(view, p) = scalarAt(file.doc, p)
  BY <1>5 DEF scalarAt
<1> QED
  BY <1>1, <1>5, <1>6

LEMMA BootableSplits ==
  ASSUME NEW file, NEW keys \in SUBSET Keys
  PROVE  Bootable(file, keys) <=> Startable(file.doc) /\ Tracked(file.doc, Loaded(file, keys))
<1>1. PICK view : view = Loaded(file, keys)
  OBVIOUS
<1>2. \A p \in PowPaths :
        /\ p \in DOMAIN view <=> p \in DOMAIN file.doc
        /\ p \in DOMAIN view => view[p] = file.doc[p]
        /\ scalarAt(view, p) = scalarAt(file.doc, p)
  BY <1>1, ViewFacts
<1>3. TargetsRead(view) = TargetsRead(file.doc)
  BY <1>2 DEF TargetsRead, PowPaths
<1>4. /\ \A p \in {MaxTickets, TickValue} :
           /\ p \in DOMAIN view <=> p \in DOMAIN file.doc
           /\ scalarAt(view, p) = scalarAt(file.doc, p)
      /\ scalarAt(view, MaxThreads) = scalarAt(file.doc, MaxThreads)
  BY <1>2 DEF PowPaths
<1> QED
  BY <1>1, <1>3, <1>4 DEF Bootable, Startable, Tracked, Count

\* What is tracked stays so when a key is added to the keystore and when the
\* file changes in its pow section only.
LEMMA TracksKeeps ==
  ASSUME NEW before, NEW after, NEW keys \in SUBSET Keys, NEW more \in SUBSET Keys, keys \subseteq more,
         IsDocument(before.doc), IsDocument(after.doc),
         \A p \in DOMAIN after.doc : p[1] # "pow" => p \in DOMAIN before.doc,
         \A p \in DOMAIN before.doc : p[1] # "pow" => p \in DOMAIN after.doc /\ after.doc[p] = before.doc[p],
         NEW k, tracks_key(Loaded(before, keys), k)
  PROVE  tracks_key(Loaded(after, more), k)
<1>1. PICK u, v, s, t : /\ u = Loaded(before, keys) /\ v = Loaded(after, more)
                        /\ s = keystore_values(keys) /\ t = keystore_values(more)
  OBVIOUS
<1>2. Merged(s, before.doc, u) /\ Merged(t, after.doc, v)
  BY <1>1, MergeFacts, Zenon DEF Loaded
<1>3. \A q \in DOMAIN s : q \in DOMAIN t /\ t[q] = s[q] /\ IsPath(q) /\ q[1] # "pow"
  BY <1>1, KeyPathsStart DEF keystore_values
<1>4. PICK q \in DOMAIN u : IsStrictPrefix(KnownKeys, q) /\ k = scalarAt(u, q)
  BY <1>1 DEF tracks_key, entriesAt
<1>5. q \in DOMAIN v /\ v[q] = u[q]
  <2>1. CASE q \in DOMAIN before.doc
    <3>1. q[1] # "pow"
      BY <1>4, <2>1, BelowKnownKeys DEF IsDocument
    <3> QED
      BY <1>2, <2>1, <3>1 DEF Merged
  <2>2. CASE q \notin DOMAIN before.doc
    <3>1. q \in Spared(s, DOMAIN before.doc) /\ u[q] = s[q]
      BY <1>2, <2>2 DEF Merged
    <3>2. q \in DOMAIN s /\ q \in DOMAIN t /\ t[q] = s[q] /\ IsPath(q) /\ q[1] # "pow"
      BY <1>3, <3>1 DEF Spared
    <3>3. ASSUME NEW p \in DOMAIN after.doc PROVE ~ Nested(q, p)
      <4>1. CASE p[1] = "pow"
        BY <3>2, <4>1, NestedFirst DEF IsDocument, IsPath
      <4>2. CASE p[1] # "pow"
        BY <3>1, <4>2 DEF Spared
      <4> QED
        BY <4>1, <4>2
    <3>4. q \in Spared(t, DOMAIN after.doc)
      BY <3>2, <3>3 DEF Spared
    <3>5. q \notin DOMAIN after.doc
      BY <2>2, <3>2
    <3> QED
      BY <1>2, <3>1, <3>2, <3>4, <3>5 DEF Merged
  <2> QED
    BY <2>1, <2>2
<1>6. scalarAt(v, q) = scalarAt(u, q)
  BY <1>4, <1>5 DEF scalarAt
<1> QED
  BY <1>1, <1>4, <1>5, <1>6 DEF tracks_key, entriesAt

\* More keys never keep a node from starting.
LEMMA BootableGrows ==
  ASSUME NEW file, NEW keys \in SUBSET Keys, NEW more \in SUBSET Keys, keys \subseteq more,
         IsDocument(file.doc), Bootable(file, keys)
  PROVE  Bootable(file, more)
<1>1. Startable(file.doc) /\ Tracked(file.doc, Loaded(file, keys))
  BY BootableSplits
<1>2. Tracked(file.doc, Loaded(file, more))
  BY <1>1, TracksKeeps DEF Tracked
<1> QED
  BY <1>1, <1>2, BootableSplits

\* The keys that are read back are those that were written.
LEMMA TargetsReadBack ==
  ASSUME NEW d, NEW c \in Seq(Keys), Targets \in DOMAIN d, d[Targets] = List(c)
  PROVE  /\ DOMAIN TargetsRead(d) = DOMAIN c
         /\ \A i \in DOMAIN c : TargetsRead(d)[i] = <<c[i]>> /\ Last(TargetsRead(d)[i]) = c[i]
<1>1. TargetsRead(d) = [i \in DOMAIN c |-> <<c[i]>>]
  BY LeafFacts DEF TargetsRead
<1>2. \A k : Last(<<k>>) = k
  BY DEF Last
<1> QED
  BY <1>1, <1>2

\* Merging an accepted request into a file on which a node starts leaves one.
LEMMA MergeBoots ==
  ASSUME NEW file, NEW keys \in SUBSET Keys, NEW all \in SUBSET Keys, keys \subseteq all,
         WellFormed(file.doc), Bootable(file, all),
         NEW r, IsRequest(r), Accepted(r, Loaded(file, keys)),
         NEW g, g = pow_fragment(r, Loaded(file, keys)),
         NEW new, new.doc = merge_yaml_mapping(file.doc, g)
  PROVE  Bootable(new, all)
<1> DEFINE asked == AskedPaths(r)
           c == CanonicalTargets(r, Loaded(file, keys))
<1>1. PICK d, m : d = file.doc /\ m = merge_yaml_mapping(file.doc, g)
  OBVIOUS
<1>2. /\ DOMAIN g = asked /\ asked \subseteq PowPaths
      /\ MaxThreads \in asked => ThreadsLeaf(g[MaxThreads])
      /\ MaxTickets \in asked => CountLeaf(g[MaxTickets])
      /\ TickValue \in asked => CountLeaf(g[TickValue])
      /\ Targets \in asked <=> HasTargets(r)
      /\ Targets \in asked => g[Targets] = List(c)
  BY FragmentFacts
<1>3. /\ DOMAIN m = Spared(d, asked) \cup asked
      /\ \A p \in asked : m[p] = g[p]
      /\ \A p \in DOMAIN m \ asked : m[p] = d[p]
  <2>1. Merged(d, g, m)
    BY <1>1, MergeFacts, Zenon
  <2> QED
    BY <1>2, <2>1 DEF Merged
<1>4. IsDocument(d) /\ IsDocument(m)
  BY <1>1, FragmentIsFragment, MergeWellFormed DEF WellFormed
<1>5. Startable(d) /\ Tracked(d, Loaded(file, all))
  BY <1>1, BootableSplits
<1>6. ASSUME NEW k, tracks_key(Loaded(file, keys), k) \/ tracks_key(Loaded(file, all), k)
      PROVE  tracks_key(Loaded(new, all), k)
  <2>1. \A p \in DOMAIN m : p[1] # "pow" => p \in DOMAIN d
    BY <1>2, <1>3, PowPathsStart DEF Spared
  <2>2. ASSUME NEW p \in DOMAIN d, p[1] # "pow"
        PROVE  p \in DOMAIN m /\ m[p] = d[p]
    <3>1. \A q \in asked : ~ Nested(p, q)
      BY <1>2, <1>4, <2>2, NestedFirst, PowPathsStart DEF IsDocument, IsPath
    <3>2. p \in Spared(d, asked) /\ p \notin asked
      BY <1>2, <2>2, <3>1, PowPathsStart DEF Spared
    <3> QED
      BY <1>3, <3>2
  <2>3. IsDocument(file.doc) /\ IsDocument(new.doc)
    BY <1>1, <1>4
  <2>4. /\ \A p \in DOMAIN new.doc : p[1] # "pow" => p \in DOMAIN file.doc
        /\ \A p \in DOMAIN file.doc : p[1] # "pow" => p \in DOMAIN new.doc /\ new.doc[p] = file.doc[p]
    BY <1>1, <2>1, <2>2
  <2> QED
    BY <1>6, <2>3, <2>4, TracksKeeps
<1>7. ASSUME NEW p, p \notin asked, p \in DOMAIN m
      PROVE  p \in DOMAIN d /\ scalarAt(m, p) = scalarAt(d, p)
  BY <1>3, <1>7 DEF Spared, scalarAt
<1>8. ASSUME NEW p \in {MaxTickets, TickValue}, p \in DOMAIN m
      PROVE  Count(scalarAt(m, p))
  <2>1. CASE p \in asked
    <3>1. m[p] = Scalar(g[p].scalar) /\ Count(g[p].scalar)
      BY <1>2, <1>3, <2>1 DEF CountLeaf
    <3> QED
      BY <1>8, <3>1, ScalarLeaf
  <2>2. CASE p \notin asked
    BY <1>5, <1>7, <1>8, <2>2 DEF Startable
  <2> QED
    BY <2>1, <2>2
<1>9. scalarAt(m, MaxThreads) # "0"
  <2>1. CASE MaxThreads \in asked
    <3>1. /\ MaxThreads \in DOMAIN m /\ m[MaxThreads] = Scalar(g[MaxThreads].scalar)
          /\ g[MaxThreads].scalar # "0"
      BY <1>2, <1>3, <2>1 DEF ThreadsLeaf, Count
    <3> QED
      BY <3>1, ScalarLeaf
  <2>2. CASE MaxThreads \notin asked /\ MaxThreads \in DOMAIN m
    BY <1>5, <1>7, <2>2 DEF Startable
  <2>3. CASE MaxThreads \notin DOMAIN m
    BY <2>3 DEF scalarAt
  <2> QED
    BY <2>1, <2>2, <2>3
<1>10. IsInjective(TargetsRead(m)) /\ Tracked(m, Loaded(new, all))
  <2>1. CASE Targets \in asked
    <3>1. /\ c \in Seq(Keys) /\ IsInjective(c)
          /\ \A i \in DOMAIN c : tracks_key(Loaded(file, keys), c[i])
      BY <1>2, <2>1, TargetsFacts
    <3>2. /\ DOMAIN TargetsRead(m) = DOMAIN c
          /\ \A i \in DOMAIN c : Last(TargetsRead(m)[i]) = c[i]
      BY <1>2, <1>3, <2>1, <3>1, TargetsReadBack
    <3>3. IsInjective(TargetsRead(m))
      BY <3>1, <3>2 DEF IsInjective
    <3>4. \A i \in DOMAIN c : tracks_key(Loaded(new, all), c[i])
      BY <1>6, <3>1
    <3> QED
      BY <3>2, <3>3, <3>4 DEF Tracked, Range
  <2>2. CASE Targets \notin asked /\ Targets \in DOMAIN m
    <3>1. Targets \in DOMAIN d /\ m[Targets] = d[Targets]
      BY <1>3, <2>2 DEF Spared
    <3>2. TargetsRead(m) = TargetsRead(d)
      BY <2>2, <3>1 DEF TargetsRead
    <3> QED
      BY <1>5, <1>6, <3>2 DEF Startable, Tracked
  <2>3. CASE Targets \notin DOMAIN m
    <3>1. TargetsRead(m) = <<>> /\ DOMAIN <<>> = {}
      BY <2>3 DEF TargetsRead
    <3>2. DOMAIN TargetsRead(m) = {}
      BY <3>1
    <3> QED
      BY <3>2 DEF Tracked, IsInjective, Range
  <2> QED
    BY <2>1, <2>2, <2>3
<1>11. Startable(m)
  BY <1>8, <1>9, <1>10 DEF Startable
<1> QED
  BY <1>1, <1>10, <1>11, BootableSplits

\* Keys that were removed count as still tracked: a config may name them.
Boots == Loads(config) /\ ~ raced => Bootable(config, keystore \cup lost)

LEMMA InitBoots == Init => Boots
<1> SUFFICES ASSUME Init PROVE Boots
  OBVIOUS
<1>1. Bootable(config, keystore) /\ keystore \cup lost = keystore
  BY DEF Init
<1> QED
  BY <1>1 DEF Boots

\* Keys are only ever added to what counts as tracked.
LEMMA BootsGrows ==
  ASSUME Boots, FilesTyped, CountsTyped, UNCHANGED <<config, raced>>,
         keystore' \in SUBSET Keys, lost' \in SUBSET Keys,
         keystore \cup lost \subseteq keystore' \cup lost'
  PROVE  Boots'
<1>1. PICK before, after : before = keystore \cup lost /\ after = keystore' \cup lost'
  OBVIOUS
<1>2. before \in SUBSET Keys /\ after \in SUBSET Keys /\ before \subseteq after
  BY <1>1 DEF CountsTyped
<1>3. IsDocument(config.doc)
  BY DEF FilesTyped, WellFormed
<1>4. Bootable(config, before) => Bootable(config, after)
  BY <1>2, <1>3, BootableGrows
<1> QED
  BY <1>1, <1>4 DEF Boots, Loads

LEMMA StepBoots ==
  IInv /\ Progress /\ FilesTyped /\ CountsTyped /\ CountsTyped' /\ Boots /\ [Next]_vars => Boots'
<1> SUFFICES ASSUME IInv, Progress, FilesTyped, CountsTyped, CountsTyped', Boots, [Next]_vars
             PROVE  Boots'
  OBVIOUS
<1>1. CASE UNCHANGED <<config, raced, keystore, lost>>
  BY <1>1 DEF Boots, Loads
<1>2. ASSUME NEW r \in Requests, Call(r) PROVE Boots'
  BY <1>1, <1>2 DEF Call
<1>3. CASE Validate \/ MergeFragment \/ OpenTmp \/ WriteTmp \/ ReturnApplied \/ RemoveTmp \/ Kill
  BY <1>1, <1>3 DEF Validate, MergeFragment, OpenTmp, WriteTmp, ReturnApplied, RemoveTmp, Kill, Environment
<1>4. CASE Rename
  <2>1. UNCHANGED <<raced, keystore, lost>> /\ call.pc = "rename"
    BY <1>4 DEF Rename, Environment
  <2>2. CASE config' = config
    BY <1>1, <2>1, <2>2
  <2>3. CASE config' = Broken
    BY <2>3, FileFacts DEF Boots, Loads
  <2>4. CASE config' = call.text
    <3>1. SUFFICES ASSUME ~ raced PROVE Bootable(config', keystore \cup lost)
      BY <2>1 DEF Boots
    <3>2. Validated /\ MergedText /\ IsRequest(call.request)
      BY <2>1, <3>1 DEF Progress
    <3>3. PICK g : g = pow_fragment(call.request, Loaded(config, keystore))
      OBVIOUS
    <3>4. config'.doc = merge_yaml_mapping(config.doc, g) /\ config.state = "document"
      BY <2>4, <3>2, <3>3, FileFacts DEF Validated, MergedText
    <3>5. Bootable(config, keystore \cup lost)
      BY <3>1, <3>4 DEF Boots, Loads
    <3>6. PICK new : new = config'
      OBVIOUS
    <3>7. keystore \in SUBSET Keys /\ keystore \cup lost \in SUBSET Keys /\ keystore \subseteq keystore \cup lost
      BY DEF CountsTyped
    <3>8. Bootable(new, keystore \cup lost)
      <4>1. new.doc = merge_yaml_mapping(config.doc, g)
        BY <3>4, <3>6
      <4>2. WellFormed(config.doc) /\ Accepted(call.request, Loaded(config, keystore))
        BY <3>2 DEF Validated, FilesTyped
      <4> QED
        BY <3>2, <3>3, <3>5, <3>7, <4>1, <4>2, MergeBoots
    <3> QED
      BY <3>6, <3>8
  <2> QED
    BY <1>4, <2>2, <2>3, <2>4 DEF Rename
<1>5. ASSUME NEW d \in Documents, Edit(d) PROVE Boots'
  <2>1. config' = Whole(d) /\ UNCHANGED <<keystore, lost>> /\ Bootable(Whole(d), keystore)
    BY <1>5 DEF Edit
  <2>2. keystore \in SUBSET Keys /\ keystore \cup lost \in SUBSET Keys /\ keystore \subseteq keystore \cup lost
    BY DEF CountsTyped
  <2>3. IsDocument(Whole(d).doc)
    BY FileFacts, WellFormedDocuments DEF WellFormed
  <2>4. Bootable(Whole(d), keystore \cup lost)
    BY <2>1, <2>2, <2>3, BootableGrows
  <2> QED
    BY <2>1, <2>4 DEF Boots
<1>6. ASSUME NEW k \in Keys, AddKey(k) \/ RemoveKey(k) PROVE Boots'
  <2>1. UNCHANGED <<config, raced>> /\ keystore \cup lost \subseteq keystore' \cup lost'
    BY <1>6 DEF AddKey, RemoveKey
  <2> QED
    BY <2>1, BootsGrows DEF CountsTyped
<1>7. CASE UNCHANGED vars
  BY <1>1, <1>7 DEF vars
<1> QED
  BY <1>2, <1>3, <1>4, <1>5, <1>6, <1>7 DEF Next

\* Over any sequence of calls, edits and key changes, a config on which a node
\* would start is never rewritten into one it refuses, save for keys the
\* keystore has lost since.  A flush that is lost leaves an unreadable file,
\* which this does not speak of.
THEOREM StaysBootableCorrect == Spec => []StaysBootable
<1>1. Boots => StaysBootable
  BY DEF Boots, StaysBootable
<1> QED
  BY <1>1, InitIInv, StepIInv, InitProgress, StepProgress, InitTyped, StepFiles, StepCounts,
     InitBoots, StepBoots, PTL DEF Spec

-----------------------------------------------------------------------------
(* FullRoundTrip. *)

\* A document whose thread count, if it has one, is null or a number, and whose
\* targets, if it has any, are a list.  The node on which Bootable is modelled
\* reads neither strictly: it starts on a word and on a scalar there.
Readable(d) ==
  /\ MaxThreads \in DOMAIN d =>
       d[MaxThreads] = Scalar(d[MaxThreads].scalar) /\ d[MaxThreads].scalar \notin {"", "word"}
  /\ Targets \in DOMAIN d => ~ IsScalar(d[Targets])

DocumentsReadable == \A d \in Documents : Readable(d)

LEMMA NoDocReadable == Readable(NoDoc)
<1>1. DOMAIN NoDoc = {}
  BY DEF NoDoc
<1> QED
  BY <1>1 DEF Readable

AlwaysReadable ==
  /\ Readable(config.doc)
  /\ call.pc \in {"open", "write", "rename"} => Readable(call.text.doc)

LEMMA MergeReadable ==
  ASSUME NEW d, NEW g, Readable(d), IsFragment(g)
  PROVE  Readable(merge_yaml_mapping(d, g))
<1>1. PICK m : m = merge_yaml_mapping(d, g)
  OBVIOUS
<1>2. /\ DOMAIN m = Spared(d, DOMAIN g) \cup DOMAIN g
      /\ \A p \in DOMAIN g : m[p] = g[p]
      /\ \A p \in DOMAIN m \ DOMAIN g : m[p] = d[p]
  <2>1. Merged(d, g, m)
    BY <1>1, MergeFacts, Zenon
  <2> QED
    BY <2>1 DEF Merged
<1>3. \A p \in DOMAIN m \ DOMAIN g : p \in DOMAIN d /\ m[p] = d[p]
  BY <1>2 DEF Spared
<1>4. ASSUME MaxThreads \in DOMAIN m
      PROVE  m[MaxThreads] = Scalar(m[MaxThreads].scalar) /\ m[MaxThreads].scalar \notin {"", "word"}
  <2>1. CASE MaxThreads \in DOMAIN g
    BY <1>2, <2>1 DEF IsFragment, ThreadsLeaf, Count, parse_threshold
  <2>2. CASE MaxThreads \notin DOMAIN g
    BY <1>3, <1>4, <2>2 DEF Readable
  <2> QED
    BY <2>1, <2>2
<1>5. ASSUME Targets \in DOMAIN m PROVE ~ IsScalar(m[Targets])
  <2>1. CASE Targets \in DOMAIN g
    BY <1>2, <2>1, LeafFacts DEF IsFragment
  <2>2. CASE Targets \notin DOMAIN g
    BY <1>3, <1>5, <2>2 DEF Readable
  <2> QED
    BY <2>1, <2>2
<1> QED
  BY <1>1, <1>4, <1>5 DEF Readable

LEMMA InitReadable == DocumentsReadable /\ Init => AlwaysReadable
<1> SUFFICES ASSUME DocumentsReadable, Init PROVE AlwaysReadable
  OBVIOUS
<1>1. Readable(config.doc)
  BY FileFacts, NoDocReadable DEF Init, DocumentsReadable
<1>2. call.pc = "idle"
  BY DEF Init, Idle
<1> QED
  BY <1>1, <1>2 DEF AlwaysReadable

LEMMA StepReadable ==
  DocumentsReadable /\ IInv /\ FilesTyped /\ AlwaysReadable /\ [Next]_vars => AlwaysReadable'
<1> SUFFICES ASSUME DocumentsReadable, IInv, FilesTyped, AlwaysReadable, [Next]_vars
             PROVE  AlwaysReadable'
  OBVIOUS
<1> USE DEF IInv
<1>1. ASSUME NEW r \in Requests, Call(r) PROVE AlwaysReadable'
  <2>1. call'.pc \in {"idle", "load"} /\ config' = config
    BY <1>1 DEF Call, Idle
  <2> QED
    BY <2>1 DEF AlwaysReadable
<1>2. CASE Validate
  <2>1. call'.pc \in {"idle", "merge"} /\ config' = config
    BY <1>2 DEF Validate, Return, CallShape
  <2> QED
    BY <2>1 DEF AlwaysReadable
<1>3. CASE MergeFragment
  <2>1. config' = config /\ call.pc = "merge"
    BY <1>3 DEF MergeFragment
  <2>2. CASE Return("error")
    BY <2>1, <2>2, ReturnKeeps DEF AlwaysReadable
  <2>3. CASE call' = [call EXCEPT !.pc = "open",
                        !.text = Whole(merge_yaml_mapping(config.doc, call.fragment))]
    <3>1. call'.text = Whole(merge_yaml_mapping(config.doc, call.fragment))
      BY <2>3 DEF CallShape
    <3>2. Readable(call'.text.doc)
      BY <2>1, <3>1, FileFacts, MergeReadable DEF FilesTyped, AlwaysReadable
    <3> QED
      BY <2>1, <3>2 DEF AlwaysReadable
  <2> QED
    BY <1>3, <2>2, <2>3 DEF MergeFragment
<1>4. CASE OpenTmp \/ WriteTmp
  <2>1. /\ config' = config /\ call.pc \in {"open", "write"} /\ call'.text = call.text
    BY <1>4 DEF OpenTmp, WriteTmp, CallShape
  <2> QED
    BY <2>1 DEF AlwaysReadable
<1>5. CASE Rename
  <2>1. /\ config' = config \/ config' = call.text \/ config' = Broken
        /\ call.pc = "rename" /\ call'.pc \in {"return", "remove"}
    BY <1>5 DEF Rename, CallShape
  <2> QED
    BY <2>1, FileFacts, NoDocReadable DEF AlwaysReadable
<1>6. CASE RemoveTmp \/ ReturnApplied \/ Kill
  <2>1. PICK result \in {"ok", "error", "killed"} : Return(result) /\ config' = config
    BY <1>6 DEF RemoveTmp, ReturnApplied, Kill
  <2> QED
    BY <2>1, ReturnKeeps DEF AlwaysReadable
<1>7. ASSUME NEW d \in Documents, Edit(d) PROVE AlwaysReadable'
  <2>1. config' = Whole(d) /\ (call' = call \/ call'.pc = "idle")
    BY <1>7 DEF Edit, Idle
  <2> QED
    BY <2>1, FileFacts DEF AlwaysReadable, DocumentsReadable
<1>8. ASSUME NEW k \in Keys, AddKey(k) \/ RemoveKey(k) PROVE AlwaysReadable'
  <2>1. call'.pc = "idle" /\ config' = config
    BY <1>8 DEF AddKey, RemoveKey, Idle
  <2> QED
    BY <2>1 DEF AlwaysReadable
<1>9. CASE UNCHANGED vars
  BY <1>9 DEF vars, AlwaysReadable
<1> QED
  BY <1>1, <1>2, <1>3, <1>4, <1>5, <1>6, <1>7, <1>8, <1>9 DEF Next

\* What the reader says of a file with every field, field by field.
LEMMA ReadFacts ==
  ASSUME NEW d, WellFormed(d), Readable(d), Startable(d),
         MaxThreads \in DOMAIN d, MaxTickets \in DOMAIN d, TickValue \in DOMAIN d, Targets \in DOMAIN d
  PROVE  LET r == read_pow_config(d) IN
         /\ DOMAIN r = Fields
         /\ r["max_threads"] = d[MaxThreads] /\ ScalarAccepted("max_threads", d[MaxThreads])
         /\ r["max_tickets_per_block"] = d[MaxTickets]
         /\ ScalarAccepted("max_tickets_per_block", d[MaxTickets])
         /\ r["tick_seconds"] = d[TickValue] /\ ScalarAccepted("tick_seconds", d[TickValue])
         /\ r["auto_claim_targets"] = List(TargetsRead(d))
<1>1. ASSUME NEW p \in {MaxTickets, TickValue}
      PROVE  d[p] = Scalar(scalarAt(d, p)) /\ Count(scalarAt(d, p))
  <2>1. Count(scalarAt(d, p)) /\ IsLeaf(d[p])
    BY <1>1 DEF Startable, WellFormed, IsDocument
  <2>2. IsScalar(d[p])
    BY <2>1 DEF scalarAt, Count, parse_threshold
  <2> QED
    BY <2>1, <2>2 DEF scalarAt, IsLeaf
<1>2. PICK text : d[MaxThreads] = Scalar(text) /\ text \notin {"", "word", "0"} /\ scalarAt(d, MaxThreads) = text
  <2>1. d[MaxThreads] = Scalar(d[MaxThreads].scalar) /\ d[MaxThreads].scalar \notin {"", "word"}
    BY DEF Readable
  <2>2. scalarAt(d, MaxThreads) = d[MaxThreads].scalar
    BY <2>1, ScalarLeaf
  <2> QED
    BY <2>1, <2>2 DEF Startable
<1>3. ThreadsRead(d) = d[MaxThreads]
  BY <1>2 DEF ThreadsRead
<1>4. ScalarAccepted("max_threads", d[MaxThreads])
  BY <1>2, LeafFacts DEF ScalarAccepted, parse_threshold
<1>5. ASSUME NEW f \in {"max_tickets_per_block", "tick_seconds"}, NEW p \in {MaxTickets, TickValue}
      PROVE  ScalarAccepted(f, d[p])
  <2>1. PICK t : d[p] = Scalar(t) /\ t \notin {"", "null", "word", "0"}
    BY <1>1 DEF Count, parse_threshold
  <2>2. IsScalar(d[p]) /\ d[p].scalar = t
    BY <2>1, LeafFacts
  <2> QED
    BY <2>1, <2>2 DEF ScalarAccepted, parse_threshold
<1>6. LET r == read_pow_config(d) IN
      /\ DOMAIN r = Fields
      /\ r["max_threads"] = ThreadsRead(d)
      /\ r["max_tickets_per_block"] = Scalar(scalarAt(d, MaxTickets))
      /\ r["tick_seconds"] = Scalar(scalarAt(d, TickValue))
      /\ r["auto_claim_targets"] = List(TargetsRead(d))
  BY DEF read_pow_config, Fields
<1> QED
  BY <1>1, <1>3, <1>4, <1>5, <1>6

\* The targets that are read are accepted as they are, and written as they were.
LEMMA TargetsRoundTrip ==
  ASSUME NEW d, NEW view, NEW r, WellFormed(d), Readable(d), Startable(d), Tracked(d, view),
         Targets \in DOMAIN d, "auto_claim_targets" \in DOMAIN r,
         r["auto_claim_targets"] = List(TargetsRead(d))
  PROVE  /\ HasTargets(r) /\ TargetsAccepted(r, view)
         /\ IsSequence(r["auto_claim_targets"].list)
         /\ List(CanonicalTargets(r, view)) = d[Targets]
<1>1. PICK keys : keys = d[Targets].list /\ keys \in Seq(Keys) /\ d[Targets] = List(keys)
  <2>1. ~ IsScalar(d[Targets]) /\ IsLeaf(d[Targets])
    BY DEF Readable, WellFormed, IsDocument
  <2> QED
    BY <2>1 DEF IsLeaf, WellFormed
<1>2. PICK asked : asked = TargetsRead(d)
  OBVIOUS
<1>3. /\ asked = [i \in DOMAIN keys |-> <<keys[i]>>]
      /\ \A i \in DOMAIN keys : asked[i] = <<keys[i]>> /\ Last(asked[i]) = keys[i]
  <2>1. ~ IsScalar(d[Targets]) /\ d[Targets].list = keys
    BY <1>1, LeafFacts
  <2>2. asked = [i \in DOMAIN keys |-> <<keys[i]>>]
    BY <1>2, <2>1 DEF TargetsRead
  <2>3. \A i \in DOMAIN keys : asked[i] = <<keys[i]>> /\ Last(asked[i]) = keys[i]
    BY <1>1, <1>2, TargetsReadBack
  <2> QED
    BY <2>2, <2>3
<1>4. r["auto_claim_targets"] = List(asked) /\ r["auto_claim_targets"].list = asked
  BY <1>2, LeafFacts
<1>5. \A i \in DOMAIN keys : asked[i] # <<>> /\ Canonical(view, asked[i]) = keys[i] /\ keys[i] \in Keys
  <2>1. \A k : <<k>> # <<>>
    OBVIOUS
  <2>2. \A i \in DOMAIN keys : keys[i] \in Keys
    BY <1>1
  <2>3. \A i \in DOMAIN keys : asked[i] # <<>>
    BY <1>3, <2>1
  <2> QED
    BY <1>3, <2>2, <2>3 DEF Canonical
<1>6. IsInjective(asked) /\ IsInjective(keys)
  BY <1>2, <1>3 DEF Startable, IsInjective
<1>7. keys = [i \in DOMAIN keys |-> keys[i]]
  BY <1>1
<1>8. CanonicalTargets(r, view) = keys
  <2>1. CanonicalTargets(r, view) = [i \in DOMAIN asked |-> Canonical(view, asked[i])]
    BY <1>4 DEF CanonicalTargets
  <2> QED
    BY <1>3, <1>5, <1>7, <2>1
<1>9. ASSUME NEW t \in Range(asked) PROVE canonical_claim_target(view, t)
  <2>1. PICK i \in DOMAIN keys : t = asked[i]
    BY <1>3, <1>9 DEF Range
  <2>2. tracks_key(view, keys[i])
    BY <1>2, <1>3, <2>1 DEF Tracked, Range
  <2>3. isMappingAt(view, KnownKeys)
    BY <2>2 DEF tracks_key, entriesAt, isMappingAt
  <2> QED
    BY <1>5, <2>1, <2>2, <2>3 DEF canonical_claim_target
<1>10. HasTargets(r) /\ ~ IsScalar(r["auto_claim_targets"])
  BY <1>4, LeafFacts DEF HasTargets
<1>11. TargetsAccepted(r, view)
  BY <1>4, <1>6, <1>8, <1>9, <1>10 DEF TargetsAccepted
<1>12. IsSequence(asked)
  <2>1. asked \in Seq({<<k>> : k \in Keys})
    <3>1. DOMAIN keys = 1 .. Len(keys) /\ Len(keys) \in Nat /\ \A i \in DOMAIN keys : keys[i] \in Keys
      BY <1>1
    <3>2. asked \in [1 .. Len(keys) -> {<<k>> : k \in Keys}]
      BY <1>3, <3>1
    <3> QED
      BY <3>1, <3>2
  <2> QED
    BY <2>1, SeqIsSequence
<1> QED
  BY <1>1, <1>4, <1>8, <1>10, <1>11, <1>12

\* The view's pow section is the file's.
LEMMA ReadsTheFile ==
  ASSUME NEW file, NEW keys \in SUBSET Keys
  PROVE  read_pow_config(Loaded(file, keys)) = read_pow_config(file.doc)
<1>1. PICK view : view = Loaded(file, keys)
  OBVIOUS
<1>2. \A p \in PowPaths :
        /\ p \in DOMAIN view <=> p \in DOMAIN file.doc
        /\ p \in DOMAIN view => view[p] = file.doc[p]
        /\ scalarAt(view, p) = scalarAt(file.doc, p)
  BY <1>1, ViewFacts
<1>3. TargetsRead(view) = TargetsRead(file.doc)
  BY <1>2 DEF TargetsRead, PowPaths
<1>4. /\ scalarAt(view, MaxThreads) = scalarAt(file.doc, MaxThreads)
      /\ scalarAt(view, MaxTickets) = scalarAt(file.doc, MaxTickets)
      /\ scalarAt(view, TickValue) = scalarAt(file.doc, TickValue)
  BY <1>2 DEF PowPaths
<1>5. ThreadsRead(view) = ThreadsRead(file.doc)
  BY <1>4 DEF ThreadsRead
<1> QED
  BY <1>1, <1>3, <1>4, <1>5 DEF read_pow_config

\* Merging leaves that are there already changes nothing.
LEMMA MergeSame ==
  ASSUME NEW d, NEW g, IsDocument(d), DOMAIN g \subseteq DOMAIN d, \A p \in DOMAIN g : g[p] = d[p]
  PROVE  merge_yaml_mapping(d, g) = d
<1>1. PICK kept : kept = {p \in DOMAIN d : \A q \in DOMAIN g : ~ Nested(p, q)}
  OBVIOUS
<1>2. \A p, q \in DOMAIN d : Nested(p, q) => p = q
  BY DEF IsDocument, Nested
<1>3. kept \cup DOMAIN g = DOMAIN d
  BY <1>1, <1>2
<1>4. merge_yaml_mapping(d, g) = [p \in kept \cup DOMAIN g |-> IF p \in DOMAIN g THEN g[p] ELSE d[p]]
  BY <1>1 DEF merge_yaml_mapping
<1>5. merge_yaml_mapping(d, g) = [p \in DOMAIN d |-> d[p]]
  BY <1>3, <1>4
<1> QED
  BY <1>5 DEF IsDocument

\* What pow_configure would make of the request that read_pow_config reports.
LEMMA ReadIsAccepted ==
  ASSUME NEW d, NEW view, NEW r, r = read_pow_config(d),
         WellFormed(d), Readable(d), Startable(d), Tracked(d, view),
         {MaxThreads, MaxTickets, TickUnit, TickValue, Targets} \subseteq DOMAIN d,
         d[TickUnit] = Scalar("seconds")
  PROVE  Accepted(r, view) /\ merge_yaml_mapping(d, pow_fragment(r, view)) = d
<1>1. /\ DOMAIN r = Fields
      /\ r["max_threads"] = d[MaxThreads] /\ ScalarAccepted("max_threads", d[MaxThreads])
      /\ r["max_tickets_per_block"] = d[MaxTickets]
      /\ ScalarAccepted("max_tickets_per_block", d[MaxTickets])
      /\ r["tick_seconds"] = d[TickValue] /\ ScalarAccepted("tick_seconds", d[TickValue])
      /\ r["auto_claim_targets"] = List(TargetsRead(d))
  BY ReadFacts
<1>2. /\ HasTargets(r) /\ TargetsAccepted(r, view)
      /\ IsSequence(r["auto_claim_targets"].list)
      /\ List(CanonicalTargets(r, view)) = d[Targets]
  BY <1>1, TargetsRoundTrip DEF Fields
<1>3. Accepted(r, view)
  BY <1>1, <1>2 DEF Accepted, ScalarFields, Fields
<1>4. IsRequest(r)
  <2>1. IsLeaf(d[MaxThreads]) /\ IsLeaf(d[MaxTickets]) /\ IsLeaf(d[TickValue])
    BY DEF WellFormed, IsDocument
  <2>2. ASSUME NEW f \in Fields PROVE IsLeaf(r[f])
    BY <1>1, <2>1, LeafFacts DEF Fields
  <2> QED
    BY <1>1, <1>2, <2>2 DEF IsRequest
<1>5. PICK g : g = pow_fragment(r, view)
  OBVIOUS
<1>6. /\ DOMAIN g = AskedPaths(r)
      /\ MaxThreads \in AskedPaths(r) => g[MaxThreads] = r["max_threads"]
      /\ MaxTickets \in AskedPaths(r) => g[MaxTickets] = r["max_tickets_per_block"]
      /\ TickValue \in AskedPaths(r) => g[TickValue] = r["tick_seconds"] /\ g[TickUnit] = Scalar("seconds")
      /\ Targets \in AskedPaths(r) => g[Targets] = List(CanonicalTargets(r, view))
  BY <1>3, <1>4, <1>5, FragmentFacts
<1>7. AskedPaths(r) = PowPaths
  BY <1>1, <1>2 DEF AskedPaths, PowPaths, Fields
<1>8. DOMAIN g \subseteq DOMAIN d /\ \A p \in DOMAIN g : g[p] = d[p]
  BY <1>1, <1>2, <1>6, <1>7 DEF PowPaths
<1> QED
  BY <1>3, <1>5, <1>8, MergeSame DEF WellFormed

\* What read_pow_config reports of a config with every field can be passed to
\* pow_configure, which accepts it and writes the file as it was: nothing is
\* lost or respelt on the way out and back.  It holds when what the editor
\* writes is readable, after any calls on it.
THEOREM FullRoundTripCorrect ==
  ASSUME DocumentsReadable
  PROVE  Spec => []FullRoundTrip
<1>1. IInv /\ FilesTyped /\ CountsTyped /\ AlwaysReadable => FullRoundTrip
  <2> SUFFICES ASSUME FilesTyped, CountsTyped, AlwaysReadable, config.state = "document",
                      Bootable(config, keystore), config.doc[TickUnit] = Scalar("seconds"),
                      {MaxThreads, MaxTickets, TickUnit, TickValue, Targets} \subseteq DOMAIN config.doc
               PROVE  /\ Accepted(read_pow_config(Loaded(config, keystore)), Loaded(config, keystore))
                      /\ WrittenBack(config.doc) = config.doc
    BY DEF FullRoundTrip, RoundTrip
  <2>1. PICK d, view, r : d = config.doc /\ view = Loaded(config, keystore) /\ r = read_pow_config(d)
    OBVIOUS
  <2>2. keystore \in SUBSET Keys
    BY DEF CountsTyped
  <2>3. Startable(d) /\ Tracked(d, view)
    BY <2>1, <2>2, BootableSplits
  <2>4. WellFormed(d) /\ Readable(d)
    BY <2>1 DEF FilesTyped, AlwaysReadable
  <2>5. Accepted(r, view) /\ merge_yaml_mapping(d, pow_fragment(r, view)) = d
    <3>1. {MaxThreads, MaxTickets, TickUnit, TickValue, Targets} \subseteq DOMAIN d /\ d[TickUnit] = Scalar("seconds")
      BY <2>1
    <3> QED
      BY <2>1, <2>3, <2>4, <3>1, ReadIsAccepted
  <2>6. read_pow_config(Loaded(config, keystore)) = r
    BY <2>1, <2>2, ReadsTheFile
  <2>7. Loaded(Whole(config.doc), keystore) = view
    BY <2>1, FileFacts DEF Loaded
  <2> QED
    BY <2>1, <2>5, <2>6, <2>7 DEF WrittenBack
<1> QED
  BY <1>1, InitIInv, StepIInv, InitProgress, StepProgress, InitTyped, StepFiles, StepCounts,
     InitReadable, StepReadable, PTL DEF Spec

=============================================================================
