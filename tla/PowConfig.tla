----------------------------- MODULE PowConfig -----------------------------
(***************************************************************************)
(* pow_configure and read_pow_config: the pow section of the user's YAML   *)
(* config, rewritten in place while the user may edit the file and the     *)
(* keystore beside it changes.                                             *)
(*                                                                         *)
(* A document is the set of its leaves: a function from paths to leaves.   *)
(* A leaf is a scalar or a list (nothing below a list is addressed on its  *)
(* own), and no path of a document is a prefix of another.  A mapping      *)
(* without entries has no leaf: every reader here treats it like an absent *)
(* one, except for the wording of an error.                                *)
(*                                                                         *)
(* The host dispatches calls one at a time, so one pow_configure runs at a *)
(* time; only the editor and a kill interleave with it.                    *)
(***************************************************************************)
EXTENDS Naturals, SequencesExt

CONSTANTS
  Keys,         \* public keys, as strings
  LeaderKey,    \* the key the keystore's title LeaderFunding names
  Documents,    \* what the user's editor, or the generator, may write
  Requests,     \* the objects callers pass as config_json
  LosesFlush,   \* the last flush of the temporary file may fail
  MaxCalls, MaxEdits, MaxKeyChanges, MaxKills    \* how many of each

ASSUME PowConfigAssumption ==
  /\ LeaderKey \in Keys
  /\ LosesFlush \in BOOLEAN
  /\ MaxCalls \in Nat /\ MaxEdits \in Nat
  /\ MaxKeyChanges \in Nat /\ MaxKills \in Nat

VARIABLES
  config,     \* the config file
  tmp,        \* <config>.tmp: absent, a part of a text, or the whole text
  keystore,   \* the zk keys in the keystore beside the config
  call,       \* the pow_configure in progress, or the last one
  raced,      \* the last edit fell into a call
  lost,       \* keys removed from the keystore so far
  calls, edits, keyChanges, kills

vars == <<config, tmp, keystore, call, raced, lost, calls, edits, keyChanges, kills>>

-----------------------------------------------------------------------------
(* YAML documents *)

Scalar(text) == [scalar |-> text]
List(items)  == [list |-> items]
IsScalar(leaf) == "scalar" \in DOMAIN leaf

MaxThreads == <<"pow", "mining", "max_threads">>
MaxTickets == <<"pow", "mining", "max_tickets_per_block">>
TickUnit   == <<"pow", "auto_claim", "tick", "unit">>
TickValue  == <<"pow", "auto_claim", "tick", "value">>
Targets    == <<"pow", "auto_claim", "targets">>
FundingPk  == <<"cryptarchia", "leader", "wallet", "funding_pk">>
KnownKeys  == <<"wallet", "known_keys">>
KnownKey(k) == Append(KnownKeys, k)

Nested(p, q) == IsPrefix(p, q) \/ IsPrefix(q, p)

\* Mutant: a section that is named is replaced whole.
merge_sections(dst, src) ==
  LET kept == {p \in DOMAIN dst : \A q \in DOMAIN src : Head(p) # Head(q)}
  IN  [p \in kept \cup DOMAIN src |-> IF p \in DOMAIN src THEN src[p] ELSE dst[p]]

\* What src does not name stays; what it names replaces the value there, be it
\* a leaf, a whole mapping, or a scalar where src opens a mapping.
merge_yaml_mapping(dst, src) ==
  LET kept == {p \in DOMAIN dst : \A q \in DOMAIN src : ~ Nested(p, q)}
  IN  [p \in kept \cup DOMAIN src |-> IF p \in DOMAIN src THEN src[p] ELSE dst[p]]

IsLeaf(x) == IF IsScalar(x) THEN x = Scalar(x.scalar) ELSE x = List(x.list)

IsSequence(s) == s \in Seq(Range(s))

\* A path is not empty, and none goes on behind a leaf.
IsDocument(doc) ==
  /\ doc = [p \in DOMAIN doc |-> doc[p]]
  /\ \A p \in DOMAIN doc : IsSequence(p) /\ p # <<>> /\ IsLeaf(doc[p])
  /\ \A p, q \in DOMAIN doc : IsPrefix(p, q) => p = q

\* What the editor writes is a document, and the targets it names are keys.  A
\* value of a request may be anything, a list of targets where that is asked.
ASSUME InputsAssumption ==
  /\ \A d \in Documents :
       /\ IsDocument(d)
       /\ Targets \in DOMAIN d /\ ~ IsScalar(d[Targets]) => d[Targets].list \in Seq(Keys)
  /\ \A r \in Requests :
       /\ \A f \in DOMAIN r : IsLeaf(r[f])
       /\ "auto_claim_targets" \in DOMAIN r /\ ~ IsScalar(r["auto_claim_targets"]) =>
            IsSequence(r["auto_claim_targets"].list)

scalarAt(doc, p) ==
  IF p \in DOMAIN doc /\ IsScalar(doc[p]) THEN doc[p].scalar ELSE ""

entriesAt(doc, p) == {scalarAt(doc, q) : q \in {x \in DOMAIN doc : IsStrictPrefix(p, x)}}

isMappingAt(doc, p) == \E q \in DOMAIN doc : IsStrictPrefix(p, q)

-----------------------------------------------------------------------------
(* Reading: UserConfigReader *)

\* A file is absent, unparsable (a partly written one is), empty, or a document.
File(state, doc) == [state |-> state, doc |-> doc]
NoDoc    == [p \in {} |-> Scalar("")]
Missing  == File("absent", NoDoc)
Broken   == File("broken", NoDoc)
Empty    == File("empty", NoDoc)
Whole(d) == File("document", d)

keystore_values(keys) ==
  [p \in {KnownKey(k) : k \in keys} \cup (IF LeaderKey \in keys THEN {FundingPk} ELSE {})
     |-> Scalar(IF p = FundingPk THEN LeaderKey ELSE Last(p))]

Loads(file) == file.state \in {"empty", "document"}

\* The keystore's values underneath, the file's own on top.
Loaded(file, keys) == merge_yaml_mapping(keystore_values(keys), file.doc)

tracks_key(view, k) == k \in entriesAt(view, KnownKeys)

-----------------------------------------------------------------------------
(* Validating a request.  It is a partial function from field names to      *)
(* values; a target is written <<k>>, <<"0x", k>>, <<>> when empty.         *)

Fields == {"max_threads", "max_tickets_per_block", "tick_seconds", "auto_claim_targets"}
ScalarFields == Fields \ {"auto_claim_targets"}

reject_unknown_fields(r) == ~ DOMAIN r \subseteq Fields

parse_threshold(text) == text \notin {"", "null", "word"}

ScalarAccepted(field, value) ==
  /\ IsScalar(value)
  /\ IF value.scalar = "null"
     THEN field = "max_threads"
     ELSE parse_threshold(value.scalar) /\ value.scalar # "0"

HasTargets(r) ==
  /\ "auto_claim_targets" \in DOMAIN r
  /\ r["auto_claim_targets"] # Scalar("null")

Canonical(view, requested) ==
  IF requested = <<>> THEN scalarAt(view, FundingPk) ELSE Last(requested)

\* Mutant: any address is taken.
any_claim_target(view, requested) == TRUE

canonical_claim_target(view, requested) ==
  /\ Canonical(view, requested) \in Keys
  /\ isMappingAt(view, KnownKeys)
  /\ tracks_key(view, Canonical(view, requested))

CanonicalTargets(r, view) ==
  LET asked == r["auto_claim_targets"].list
  IN  [i \in DOMAIN asked |-> Canonical(view, asked[i])]

\* Mutant: targets are compared as they were passed, before canonicalisation.
TargetsAcceptedRaw(r, view) ==
  HasTargets(r) =>
    /\ ~ IsScalar(r["auto_claim_targets"])
    /\ \A t \in Range(r["auto_claim_targets"].list) : canonical_claim_target(view, t)
    /\ IsInjective(r["auto_claim_targets"].list)

TargetsAccepted(r, view) ==
  HasTargets(r) =>
    /\ ~ IsScalar(r["auto_claim_targets"])
    /\ \A t \in Range(r["auto_claim_targets"].list) : canonical_claim_target(view, t)
    /\ IsInjective(CanonicalTargets(r, view))

Accepted(r, view) ==
  /\ \A f \in DOMAIN r \cap ScalarFields : ScalarAccepted(f, r[f])
  /\ TargetsAccepted(r, view)

\* Only the fields the caller set, and never a parent without fields.
AskedPaths(r) ==
     (IF "max_threads" \in DOMAIN r THEN {MaxThreads} ELSE {})
  \cup (IF "max_tickets_per_block" \in DOMAIN r THEN {MaxTickets} ELSE {})
  \cup (IF "tick_seconds" \in DOMAIN r THEN {TickUnit, TickValue} ELSE {})
  \cup (IF HasTargets(r) THEN {Targets} ELSE {})

pow_fragment(r, view) ==
  [p \in AskedPaths(r) |->
     CASE p = MaxThreads -> r["max_threads"]
       [] p = MaxTickets -> r["max_tickets_per_block"]
       [] p = TickUnit   -> Scalar("seconds")
       [] p = TickValue  -> r["tick_seconds"]
       [] p = Targets    -> List(CanonicalTargets(r, view))]

-----------------------------------------------------------------------------
(* read_pow_config, in the shape of a request *)

ThreadsRead(view) ==
  LET text == scalarAt(view, MaxThreads)
  IN  Scalar(IF text = "" THEN "null" ELSE text)

\* Mutant: the loop stops one entry early.
TargetsReadShort(view) ==
  IF Targets \in DOMAIN view /\ ~ IsScalar(view[Targets])
  THEN LET keys == view[Targets].list IN [i \in 1 .. Len(keys) - 1 |-> <<keys[i]>>]
  ELSE <<>>

TargetsRead(view) ==
  IF Targets \in DOMAIN view /\ ~ IsScalar(view[Targets])
  THEN LET keys == view[Targets].list IN [i \in DOMAIN keys |-> <<keys[i]>>]
  ELSE <<>>

read_pow_config(view) ==
  [f \in Fields |->
     CASE f = "max_threads"           -> ThreadsRead(view)
       [] f = "max_tickets_per_block" -> Scalar(scalarAt(view, MaxTickets))
       [] f = "tick_seconds"          -> Scalar(scalarAt(view, TickValue))
       [] f = "auto_claim_targets"    -> List(TargetsRead(view))]

-----------------------------------------------------------------------------
(* pow_configure, one step per access to the file system *)

NoRequest == [f \in {} |-> Scalar("")]

Idle == [pc |-> "idle", result |-> "none", request |-> NoRequest,
         begun |-> Missing, fragment |-> NoDoc, text |-> Missing]

\* What a node that starts on this file and keystore accepts.
Bootable(file, keys) ==
  LET view == Loaded(file, keys)
  IN  /\ \A p \in {MaxTickets, TickValue} :
           p \in DOMAIN view => parse_threshold(scalarAt(view, p)) /\ scalarAt(view, p) # "0"
      /\ scalarAt(view, MaxThreads) # "0"
      /\ IsInjective(TargetsRead(view))
      /\ \A t \in Range(TargetsRead(view)) : tracks_key(view, Last(t))

Init ==
  /\ config \in {Missing, Broken, Empty} \cup {Whole(d) : d \in Documents}
  /\ keystore \in SUBSET Keys
  /\ Bootable(config, keystore)
  /\ tmp = "absent"
  /\ call = Idle
  /\ raced = FALSE
  /\ lost = {}
  /\ calls = 0 /\ edits = 0 /\ keyChanges = 0 /\ kills = 0

Environment == <<keystore, raced, lost, calls, edits, keyChanges, kills>>

Return(result) ==
  call' = [call EXCEPT !.pc = "idle", !.result = result, !.fragment = NoDoc, !.text = Missing]

Call(r) ==
  /\ call.pc = "idle"
  /\ calls < MaxCalls
  /\ calls' = calls + 1
  /\ call' = [Idle EXCEPT !.request = r, !.begun = config,
                          !.pc = IF reject_unknown_fields(r) THEN "idle" ELSE "load",
                          !.result = IF reject_unknown_fields(r) THEN "error" ELSE "none"]
  /\ UNCHANGED <<config, tmp, keystore, raced, lost, edits, keyChanges, kills>>

\* The file and the keystore are read, and everything is validated.
Validate ==
  /\ call.pc = "load"
  /\ LET r == call.request
         view == Loaded(config, keystore)
     IN  IF ~ (Loads(config) /\ Accepted(r, view)) THEN Return("error")
         ELSE IF AskedPaths(r) = {} THEN Return("ok")
         ELSE call' = [call EXCEPT !.pc = "merge", !.fragment = pow_fragment(r, view)]
  /\ UNCHANGED <<config, tmp, Environment>>

\* The file is read again, without the keystore.
MergeFragment ==
  /\ call.pc = "merge"
  /\ IF config.state = "document"
     THEN call' = [call EXCEPT !.pc = "open",
                     !.text = Whole(merge_yaml_mapping(config.doc, call.fragment))]
     ELSE Return("error")
  /\ UNCHANGED <<config, tmp, Environment>>

\* Mutant: the config itself is opened and truncated.
OpenInPlace ==
  /\ call.pc = "open"
  /\ tmp' = "part"
  /\ config' = Broken
  /\ call' = [call EXCEPT !.pc = "write"]
  /\ UNCHANGED Environment

OpenTmp ==
  /\ call.pc = "open"
  /\ tmp' = "part"
  /\ call' = [call EXCEPT !.pc = "write"]
  /\ UNCHANGED <<config, Environment>>

\* The stream reports a failed write, but it is asked before its destructor
\* flushes what it has buffered.
WriteTmp ==
  /\ call.pc = "write"
  /\ \/ tmp' = "whole" /\ call' = [call EXCEPT !.pc = "rename"]
     \/ tmp' = "part" /\ call' = [call EXCEPT !.pc = "remove"]
     \/ LosesFlush /\ tmp' = "part" /\ call' = [call EXCEPT !.pc = "rename"]
  /\ UNCHANGED <<config, Environment>>

Rename ==
  /\ call.pc = "rename"
  /\ \/ /\ config' = (IF tmp = "whole" THEN call.text ELSE Broken)
        /\ tmp' = "absent"
        /\ call' = [call EXCEPT !.pc = "return"]
     \/ call' = [call EXCEPT !.pc = "remove"] /\ UNCHANGED <<config, tmp>>
  /\ UNCHANGED Environment

\* The new file is in place; what is left is the log and the answer.
ReturnApplied ==
  /\ call.pc = "return"
  /\ Return("ok")
  /\ UNCHANGED <<config, tmp, Environment>>

RemoveTmp ==
  /\ call.pc = "remove"
  /\ tmp' = "absent"
  /\ Return("error")
  /\ UNCHANGED <<config, Environment>>

-----------------------------------------------------------------------------
(* The environment.  A change between two calls makes the last one history. *)

\* The process dies; the files stay.
Kill ==
  /\ call.pc # "idle"
  /\ kills < MaxKills
  /\ kills' = kills + 1
  /\ Return("killed")
  /\ UNCHANGED <<config, tmp, keystore, raced, lost, calls, edits, keyChanges>>

Edit(d) ==
  /\ edits < MaxEdits
  /\ Bootable(Whole(d), keystore)
  /\ config' = Whole(d)
  /\ edits' = edits + 1
  /\ raced' = (call.pc # "idle")
  /\ call' = IF call.pc = "idle" THEN Idle ELSE call
  /\ UNCHANGED <<tmp, keystore, lost, calls, keyChanges, kills>>

AddKey(k) ==
  /\ call.pc = "idle"
  /\ keyChanges < MaxKeyChanges
  /\ keystore' = keystore \cup {k}
  /\ keyChanges' = keyChanges + 1
  /\ call' = Idle
  /\ UNCHANGED <<config, tmp, raced, lost, calls, edits, kills>>

RemoveKey(k) ==
  /\ call.pc = "idle"
  /\ keyChanges < MaxKeyChanges
  /\ keystore' = keystore \ {k}
  /\ lost' = lost \cup {k}
  /\ keyChanges' = keyChanges + 1
  /\ call' = Idle
  /\ UNCHANGED <<config, tmp, raced, calls, edits, kills>>

-----------------------------------------------------------------------------
Next ==
  \/ \E r \in Requests : Call(r)
  \/ Validate \/ MergeFragment \/ OpenTmp \/ WriteTmp \/ Rename \/ ReturnApplied \/ RemoveTmp
  \/ Kill
  \/ \E d \in Documents : Edit(d)
  \/ \E k \in Keys : AddKey(k) \/ RemoveKey(k)

Spec == Init /\ [][Next]_vars

-----------------------------------------------------------------------------
(* Properties *)

FileStates == {"absent", "broken", "empty", "document"}

\* Types of the files and of the call.
TypeOK ==
  /\ config.state \in FileStates
  /\ Range(TargetsRead(config.doc)) \subseteq {<<k>> : k \in Keys}
  /\ tmp \in {"absent", "part", "whole"}
  /\ keystore \subseteq Keys /\ lost \subseteq Keys
  /\ call.pc \in {"idle", "load", "merge", "open", "write", "rename", "return", "remove"}
  /\ call.result \in {"none", "ok", "error", "killed"}
  /\ raced \in BOOLEAN
  /\ calls \in 0 .. MaxCalls /\ edits \in 0 .. MaxEdits
  /\ keyChanges \in 0 .. MaxKeyChanges /\ kills \in 0 .. MaxKills

Returned(results) == call.pc = "idle" /\ call.result \in results /\ ~ raced

\* The file has the fields of the call's request, and every other leaf of the
\* file the call began with; what the reader took from the keystore is not in it.
RequestApplied ==
  LET asked == AskedPaths(call.request)
      before == call.begun.doc
      spared == {p \in DOMAIN before : \A q \in asked : ~ Nested(p, q)}
  IN  /\ config.state = call.begun.state
      /\ DOMAIN config.doc = spared \cup asked
      /\ \A p \in spared : config.doc[p] = before[p]
      /\ \A f \in DOMAIN call.request \cap ScalarFields :
           read_pow_config(config.doc)[f] = call.request[f]
      /\ HasTargets(call.request) =>
           Len(config.doc[Targets].list) = Len(call.request["auto_claim_targets"].list)

\* A call that is rejected or that fails has changed nothing, and one that is
\* killed on the way, at whatever point, leaves the old file or the new one and
\* never a part: validation comes before the write, and the write is one rename.
FailedCallKeepsFile ==
  /\ Returned({"error"}) => config = call.begun
  /\ Returned({"killed"}) => config = call.begun \/ RequestApplied

\* A call that succeeds has written the fields it was given and left every
\* other leaf alone.
SuccessApplies == Returned({"ok"}) => RequestApplied

\* Over any sequence of calls, no value is written that makes the node refuse
\* to start: no zero or null count, no target twice, no target the wallet does
\* not track, unless its key was removed from the keystore since.
StaysBootable ==
  Loads(config) /\ ~ raced => Bootable(config, keystore \cup lost)

WrittenBack(d) == merge_yaml_mapping(d, pow_fragment(read_pow_config(d), Loaded(Whole(d), keystore)))

\* What read_pow_config reports can be passed to pow_configure, and changes nothing.
RoundTrip ==
  config.state = "document" /\ Bootable(config, keystore) =>
    LET view == Loaded(config, keystore)
    IN  /\ Accepted(read_pow_config(view), view)
        /\ WrittenBack(config.doc) = config.doc

\* The same, for a file that has every field, and the tick in seconds.
FullRoundTrip ==
  (/\ {MaxThreads, MaxTickets, TickUnit, TickValue, Targets} \subseteq DOMAIN config.doc
   /\ config.doc[TickUnit] = Scalar("seconds")) => RoundTrip

\* A failed write leaves the file as it was: the file never becomes a part of
\* the text that was to be written.
FailedWriteKeepsFile == [][config'.state = "broken" => config' = config]_vars

=============================================================================
